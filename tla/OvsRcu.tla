------------------------------- MODULE OvsRcu -------------------------------
(***************************************************************************)
(* Read-copy-update of Open vSwitch (lib/ovs-rcu.c): which threads take    *)
(* part, how they announce quiescent states, how ovsrcu_synchronize()      *)
(* waits for a grace period, and how postponed callbacks travel from the   *)
(* thread that postpones them to the "urcu" thread that calls them.        *)
(*                                                                         *)
(* Each access to shared state that a lock or a seq protects is a step.    *)
(* A seq (lib/seq.c) is a counter; waiting on one means blocking until it  *)
(* differs from the value read before.  A callback is identified by a      *)
(* model value, and where it is by `loc'; the list flushed_cbsets is       *)
(* ordered by `flush' (which cbset) and `num' (place in the cbset).  A     *)
(* local variable that the code is done with goes back to its first value. *)
(***************************************************************************)
EXTENDS Naturals, FiniteSets

CONSTANTS
  Threads,    \* threads that use RCU
  Main,       \* the thread that exists before the others
  Urcu,       \* the thread that calls postponed functions
  Callbacks,  \* calls of ovsrcu_postpone()
  CbsetSize,  \* ARRAY_SIZE(cbset->cbs)
  MaxSeq      \* bound: no thread starts to quiesce beyond this global_seqno

ASSUME RcuAssumption ==
  /\ Main \in Threads /\ Urcu \notin Threads
  /\ CbsetSize \in Nat \ {0} /\ MaxSeq \in Nat

Participants == Threads \cup {Urcu}

VARIABLES
  global_seqno,       \* seq: changes whenever a thread quiesces
  flushed_cbsets_seq, \* seq: changes whenever a cbset is flushed
  multithreaded,      \* ovs_thread_create() has been called
  ovsrcu_threads,     \* the list of participating threads
  seqno,              \* perthread->seqno
  loc,                \* where a callback is
  owner, num, flush,  \* who postponed it, as its how manyth, in which cbset
  posts, flushes,     \* how many postpones per thread, how many flushes
  pc, val, after, ret,\* locals: step, value read, what follows a flush, a return
  target_seqno,       \* local of ovsrcu_synchronize()
  blockers,           \* history: threads that were active when the callback was
                      \* postponed and have not quiesced since
  waitfor             \* history: the same for a call of ovsrcu_synchronize()

seqs == <<global_seqno, flushed_cbsets_seq>>
list == <<ovsrcu_threads, seqno>>
cbs == <<loc, owner, num, flush, posts, flushes>>
locals == <<val, after, ret, target_seqno>>
hist == <<blockers, waitfor>>
vars == <<seqs, multithreaded, list, cbs, pc, locals, hist>>

Init ==
  /\ global_seqno = 1 /\ flushed_cbsets_seq = 0
  /\ multithreaded = FALSE
  /\ ovsrcu_threads = {} /\ seqno = [p \in Participants |-> 0]
  /\ loc = [c \in Callbacks |-> "none"]
  /\ owner = [c \in Callbacks |-> Main]
  /\ num = [c \in Callbacks |-> 0] /\ flush = [c \in Callbacks |-> 0]
  /\ posts = [p \in Participants |-> 0] /\ flushes = 0
  /\ pc = [p \in Participants |-> "off"]
  /\ val = [p \in Participants |-> 0]
  /\ after = [p \in Participants |-> "run"]
  /\ ret = [p \in Participants |-> "run"]
  /\ target_seqno = [p \in Participants |-> 0]
  /\ blockers = [c \in Callbacks |-> {}]
  /\ waitfor = [p \in Participants |-> {}]

At(where) == {c \in Callbacks : loc[c] = where}
CbsetOf(p) == {c \in Callbacks : loc[c] = "cbset" /\ owner[c] = p}

\* A thread that may hold pointers to RCU-protected memory.
Active(p) ==
  \/ pc[p] \in {"run", "pop", "popped", "wait", "call"}
  \/ pc[p] \in {"fpush", "fnotify"} /\ after[p] \in {"run", "call"}

Goto(p, l) == pc' = [pc EXCEPT ![p] = l]

\* The thread p lets go of its pointers (history).
Quiescent(p) ==
  /\ blockers' = [c \in Callbacks |-> blockers[c] \ {p}]
  /\ waitfor' = [q \in Participants |-> waitfor[q] \ {p}]
-----------------------------------------------------------------------------
(* Joining: ovsrcu_perthread_get(), called by ovsrcu_quiesce_end().         *)

RegisterRead(p) ==
  /\ pc[p] \in {"off", "synced", "woken"}
  /\ pc[p] = "off" => p = Main \/ (multithreaded /\ p \in Threads)
  /\ val' = [val EXCEPT ![p] = global_seqno]
  /\ Goto(p, "reg")
  /\ UNCHANGED <<seqs, multithreaded, list, cbs, after, ret, target_seqno, hist>>

RegisterPush(p) ==
  /\ pc[p] = "reg"
  /\ seqno' = [seqno EXCEPT ![p] = val[p]]
  /\ ovsrcu_threads' = ovsrcu_threads \cup {p}
  /\ val' = [val EXCEPT ![p] = 0]
  /\ Goto(p, IF p = Urcu /\ At("batch") # {} THEN "call" ELSE "run")
  /\ UNCHANGED <<seqs, multithreaded, cbs, after, ret, target_seqno, hist>>

\* ovs_thread_create() makes the process multithreaded; its first caller, the
\* main thread, has joined by then.
BecomeMultithreaded ==
  /\ ~multithreaded /\ pc[Main] = "run"
  /\ multithreaded' = TRUE
  /\ UNCHANGED <<seqs, list, cbs, pc, locals, hist>>
-----------------------------------------------------------------------------
(* ovsrcu_postpone__() and ovsrcu_flush_cbset(). *)

\* A callback that the urcu thread calls may postpone another one.
Postpone(p, c) ==
  /\ IF p = Urcu THEN pc[p] = "call" ELSE pc[p] = "run"
  /\ loc[c] = "none"
  /\ loc' = [loc EXCEPT ![c] = "cbset"]
  /\ owner' = [owner EXCEPT ![c] = p]
  /\ num' = [num EXCEPT ![c] = posts[p]] /\ posts' = [posts EXCEPT ![p] = @ + 1]
  /\ blockers' = [blockers EXCEPT ![c] = {q \in Participants : Active(q)}]
  /\ IF Cardinality(CbsetOf(p)) + 1 >= CbsetSize
       THEN Goto(p, "fpush") /\ after' = [after EXCEPT ![p] = pc[p]]
       ELSE UNCHANGED <<pc, after>>
  /\ UNCHANGED <<seqs, multithreaded, list, flush, flushes, val, ret, target_seqno, waitfor>>

FlushPush(p) ==
  /\ pc[p] = "fpush"
  /\ loc' = [c \in Callbacks |-> IF c \in CbsetOf(p) THEN "flushed" ELSE loc[c]]
  /\ flush' = [c \in Callbacks |-> IF c \in CbsetOf(p) THEN flushes ELSE flush[c]]
  /\ flushes' = flushes + 1
  /\ Goto(p, "fnotify")
  /\ UNCHANGED <<seqs, multithreaded, list, owner, num, posts, locals, hist>>

FlushNotify(p) ==
  /\ pc[p] = "fnotify"
  /\ flushed_cbsets_seq' = flushed_cbsets_seq + 1
  /\ Goto(p, after[p])
  /\ after' = [after EXCEPT ![p] = "run"]
  /\ UNCHANGED <<global_seqno, multithreaded, list, cbs, val, ret, target_seqno, hist>>

\* if (perthread->cbset) ovsrcu_flush_cbset(perthread); then go on at l.
FlushThen(p, l) ==
  IF CbsetOf(p) = {} THEN Goto(p, l) /\ UNCHANGED after
                     ELSE Goto(p, "fpush") /\ after' = [after EXCEPT ![p] = l]
-----------------------------------------------------------------------------
(* ovsrcu_quiesce(). *)

\* Something waits for p to quiesce: callbacks that p holds, flushed callbacks
\* while there is no urcu thread, or a thread in ovsrcu_synchronize().
Awaited(p) ==
  \/ CbsetOf(p) # {}
  \/ pc[Urcu] = "off" /\ At("flushed") # {}
  \/ \E q \in Participants : pc[q] = "swait" /\ seqno[p] <= target_seqno[q]

\* MaxSeq bounds the quiescent states, except those that something waits for.
MayQuiesce(p) == global_seqno < MaxSeq \/ Awaited(p)

Quiesce(p) ==
  /\ p \in Threads /\ pc[p] = "run" /\ MayQuiesce(p)
  /\ val' = [val EXCEPT ![p] = global_seqno]
  /\ ret' = [ret EXCEPT ![p] = "run"]
  /\ Quiescent(p)
  /\ Goto(p, "qstore")
  /\ UNCHANGED <<seqs, multithreaded, list, cbs, after, target_seqno>>

\* Mutant: one more than the value read is published.
QuiesceStoreAhead(p) ==
  /\ pc[p] = "qstore"
  /\ seqno' = [seqno EXCEPT ![p] = val[p] + 1]
  /\ val' = [val EXCEPT ![p] = 0]
  /\ FlushThen(p, "qchange")
  /\ UNCHANGED <<seqs, multithreaded, ovsrcu_threads, cbs, ret, target_seqno, hist>>

QuiesceStore(p) ==
  /\ pc[p] = "qstore"
  /\ seqno' = [seqno EXCEPT ![p] = val[p]]
  /\ val' = [val EXCEPT ![p] = 0]
  /\ FlushThen(p, "qchange")
  /\ UNCHANGED <<seqs, multithreaded, ovsrcu_threads, cbs, ret, target_seqno, hist>>

\* Mutant: no seq_change().
QuiesceSilent(p) ==
  /\ pc[p] \in {"qchange", "uchange"}
  /\ Goto(p, "quiesced")
  /\ UNCHANGED <<seqs, multithreaded, list, cbs, locals, hist>>

QuiesceChange(p) ==
  /\ pc[p] \in {"qchange", "uchange"}
  /\ global_seqno' = global_seqno + 1
  /\ Goto(p, "quiesced")
  /\ UNCHANGED <<flushed_cbsets_seq, multithreaded, list, cbs, locals, hist>>

\* ovsrcu_quiesced(): one thread alone calls its callbacks itself ...
QuiescedAlone(p) ==
  /\ pc[p] = "quiesced" /\ ~multithreaded
  /\ loc' = [c \in Callbacks |-> IF loc[c] = "flushed" THEN "done" ELSE loc[c]]
  /\ Goto(p, ret[p]) /\ ret' = [ret EXCEPT ![p] = "run"]
  /\ UNCHANGED <<seqs, multithreaded, list, owner, num, flush, posts, flushes,
                 val, after, target_seqno, hist>>

\* ... and otherwise makes sure that the urcu thread exists.
Quiesced(p) ==
  /\ pc[p] = "quiesced" /\ multithreaded
  /\ LET urcu == IF pc[Urcu] = "off" THEN "woken" ELSE pc[Urcu]
     IN pc' = [pc EXCEPT ![Urcu] = urcu, ![p] = ret[p]]
  /\ ret' = [ret EXCEPT ![p] = "run"]
  /\ UNCHANGED <<seqs, multithreaded, list, cbs, val, after, target_seqno, hist>>
-----------------------------------------------------------------------------
(* ovsrcu_quiesce_start() and ovsrcu_synchronize(). *)

\* A thread that is about to sleep, or to exit.
QuiesceStart(p) ==
  /\ p \in Threads /\ pc[p] = "run" /\ global_seqno < MaxSeq
  /\ ret' = [ret EXCEPT ![p] = "off"]
  /\ Quiescent(p)
  /\ FlushThen(p, "unreg")
  /\ UNCHANGED <<seqs, multithreaded, list, cbs, val, target_seqno>>

Unregister(p) ==
  /\ pc[p] = "unreg"
  /\ ovsrcu_threads' = ovsrcu_threads \ {p}
  /\ Goto(p, "uchange")
  /\ UNCHANGED <<seqs, multithreaded, seqno, cbs, locals, hist>>

Synchronize(p) ==
  /\ multithreaded
  /\ \/ p = Urcu /\ pc[p] = "popped"
     \/ p \in Threads /\ pc[p] = "run" /\ global_seqno < MaxSeq
  /\ target_seqno' = [target_seqno EXCEPT ![p] = global_seqno]
  /\ ret' = [ret EXCEPT ![p] = "sync"]
  /\ blockers' = [c \in Callbacks |-> blockers[c] \ {p}]
  /\ waitfor' = [q \in Participants |->
                   (IF q = p THEN {r \in Participants : Active(r)} ELSE waitfor[q]) \ {p}]
  /\ FlushThen(p, "unreg")
  /\ UNCHANGED <<seqs, multithreaded, list, cbs, val>>

SyncRead(p) ==
  /\ pc[p] = "sync"
  /\ val' = [val EXCEPT ![p] = global_seqno]
  /\ Goto(p, "check")
  /\ UNCHANGED <<seqs, multithreaded, list, cbs, after, ret, target_seqno, hist>>

\* Mutant: < instead of <= in the test for a stalled thread.
GraceOverWeak(p) == \A q \in ovsrcu_threads : seqno[q] >= target_seqno[p]

GraceOver(p) == \A q \in ovsrcu_threads : seqno[q] > target_seqno[p]

SyncDone(p) ==
  /\ pc[p] = "check" /\ GraceOver(p)
  /\ Goto(p, "synced")
  /\ val' = [val EXCEPT ![p] = 0] /\ target_seqno' = [target_seqno EXCEPT ![p] = 0]
  /\ UNCHANGED <<seqs, multithreaded, list, cbs, after, ret, hist>>

SyncBlock(p) ==
  /\ pc[p] = "check" /\ ~GraceOver(p)
  /\ Goto(p, "swait")
  /\ UNCHANGED <<seqs, multithreaded, list, cbs, locals, hist>>

\* seq_wait(global_seqno, cur_seqno).  The timer that prints a warning also ends
\* the wait; nothing here relies on it.
SyncWake(p) ==
  /\ pc[p] = "swait" /\ global_seqno # val[p]
  /\ Goto(p, "sync")
  /\ UNCHANGED <<seqs, multithreaded, list, cbs, locals, hist>>
-----------------------------------------------------------------------------
(* The urcu thread: ovsrcu_postpone_thread() and ovsrcu_call_postponed(). *)

UrcuRead ==
  /\ pc[Urcu] = "run"
  /\ val' = [val EXCEPT ![Urcu] = flushed_cbsets_seq]
  /\ Goto(Urcu, "pop")
  /\ UNCHANGED <<seqs, multithreaded, list, cbs, after, ret, target_seqno, hist>>

UrcuPop ==
  /\ pc[Urcu] = "pop" /\ At("flushed") # {}
  /\ loc' = [c \in Callbacks |-> IF loc[c] = "flushed" THEN "batch" ELSE loc[c]]
  /\ Goto(Urcu, "popped")
  /\ UNCHANGED <<seqs, multithreaded, list, owner, num, flush, posts, flushes, locals, hist>>

\* Nothing to call.
UrcuPopEmpty ==
  /\ pc[Urcu] = "pop" /\ At("flushed") = {}
  /\ Goto(Urcu, "wait")
  /\ UNCHANGED <<seqs, multithreaded, list, cbs, locals, hist>>

\* Mutant: the seq is read only now, after the list was found empty.
UrcuSleepLateRead ==
  /\ pc[Urcu] = "wait"
  /\ val' = [val EXCEPT ![Urcu] = flushed_cbsets_seq]
  /\ ret' = [ret EXCEPT ![Urcu] = "fwait"]
  /\ Quiescent(Urcu)
  /\ FlushThen(Urcu, "unreg")
  /\ UNCHANGED <<seqs, multithreaded, list, cbs, target_seqno>>

\* poll_block(), through time_poll() of lib/timeval.c, puts the thread to
\* sleep, quiescent, until
\* flushed_cbsets_seq differs from the value read before the list was popped.
UrcuSleep ==
  /\ pc[Urcu] = "wait"
  /\ ret' = [ret EXCEPT ![Urcu] = "fwait"]
  /\ Quiescent(Urcu)
  /\ FlushThen(Urcu, "unreg")
  /\ UNCHANGED <<seqs, multithreaded, list, cbs, val, target_seqno>>

\* The seq has changed by the time of the wait: poll_block() does not sleep, and
\* calls ovsrcu_quiesce() instead.
UrcuNoSleep ==
  /\ pc[Urcu] = "wait" /\ flushed_cbsets_seq # val[Urcu]
  /\ val' = [val EXCEPT ![Urcu] = global_seqno]
  /\ ret' = [ret EXCEPT ![Urcu] = "run"]
  /\ Quiescent(Urcu)
  /\ Goto(Urcu, "qstore")
  /\ UNCHANGED <<seqs, multithreaded, list, cbs, after, target_seqno>>

UrcuWake ==
  /\ pc[Urcu] = "fwait" /\ flushed_cbsets_seq # val[Urcu]
  /\ Goto(Urcu, "woken")
  /\ UNCHANGED <<seqs, multithreaded, list, cbs, locals, hist>>

\* c comes before d in the list of popped cbsets.
Before(c, d) == flush[c] < flush[d] \/ (flush[c] = flush[d] /\ num[c] < num[d])

\* Mutant: the batch is not called in order.
UrcuCallAny(c) ==
  /\ pc[Urcu] = "call" /\ loc[c] = "batch"
  /\ loc' = [loc EXCEPT ![c] = "done"]
  /\ IF At("batch") = {c} THEN Goto(Urcu, "run") ELSE UNCHANGED pc
  /\ UNCHANGED <<seqs, multithreaded, list, owner, num, flush, posts, flushes, locals, hist>>

UrcuCall(c) ==
  /\ pc[Urcu] = "call" /\ loc[c] = "batch"
  /\ \A d \in At("batch") : ~Before(d, c)
  /\ loc' = [loc EXCEPT ![c] = "done"]
  /\ IF At("batch") = {c} THEN Goto(Urcu, "run") ELSE UNCHANGED pc
  /\ UNCHANGED <<seqs, multithreaded, list, owner, num, flush, posts, flushes, locals, hist>>
-----------------------------------------------------------------------------
\* What a thread does of its own accord.
Choose(p) ==
  (\E c \in Callbacks : Postpone(p, c)) \/ Quiesce(p) \/ QuiesceStart(p) \/ Synchronize(p)

\* What a thread does next once it has started.
Continue(p) ==
  \/ RegisterPush(p) \/ FlushPush(p) \/ FlushNotify(p)
  \/ QuiesceStore(p) \/ QuiesceChange(p) \/ QuiescedAlone(p) \/ Quiesced(p)
  \/ Unregister(p)
  \/ SyncRead(p) \/ SyncDone(p) \/ SyncBlock(p) \/ SyncWake(p)

UrcuLoop ==
  \/ UrcuRead \/ UrcuPop \/ UrcuPopEmpty \/ UrcuSleep \/ UrcuNoSleep \/ UrcuWake
  \/ (\E c \in Callbacks : UrcuCall(c))

Next ==
  \/ BecomeMultithreaded
  \/ \E p \in Participants : RegisterRead(p) \/ Choose(p) \/ Continue(p)
  \/ UrcuLoop

Spec == Init /\ [][Next]_vars

\* Threads that run keep running, the urcu thread included, and a thread that
\* others wait for quiesces: every OVS thread loops through poll_block() or
\* calls ovsrcu_quiesce() itself, as PMD threads do.
Fairness ==
  /\ \A p \in Participants : WF_vars(Continue(p))
  /\ \A p \in Participants : WF_vars(pc[p] # "off" /\ RegisterRead(p))
  /\ \A p \in Threads : WF_vars(Awaited(p) /\ Quiesce(p))
  /\ WF_vars(Synchronize(Urcu))
  /\ WF_vars(UrcuLoop)

FairSpec == Spec /\ Fairness
-----------------------------------------------------------------------------
(* Properties. *)

Places == {"none", "cbset", "flushed", "batch", "done"}
Steps == {"off", "reg", "run", "fpush", "fnotify", "qstore", "qchange", "unreg",
          "uchange", "quiesced", "sync", "check", "swait", "synced", "woken",
          "pop", "popped", "wait", "call", "fwait"}

\* Types, and: a sequence number that is compared is never ahead of global_seqno.
TypeOK ==
  /\ global_seqno \in Nat /\ flushed_cbsets_seq \in Nat
  /\ multithreaded \in BOOLEAN
  /\ ovsrcu_threads \in SUBSET Participants
  /\ seqno \in [Participants -> Nat]
  /\ loc \in [Callbacks -> Places] /\ owner \in [Callbacks -> Participants]
  /\ num \in [Callbacks -> Nat] /\ flush \in [Callbacks -> Nat]
  /\ posts \in [Participants -> Nat] /\ flushes \in Nat
  /\ pc \in [Participants -> Steps] /\ val \in [Participants -> Nat]
  /\ after \in [Participants -> {"run", "call", "qchange", "unreg"}]
  /\ ret \in [Participants -> {"run", "off", "sync", "fwait"}]
  /\ target_seqno \in [Participants -> Nat]
  /\ blockers \in [Callbacks -> SUBSET Participants]
  /\ waitfor \in [Participants -> SUBSET Participants]
  /\ \A p \in Participants :
       seqno[p] <= global_seqno /\ target_seqno[p] <= global_seqno

\* "The call is guaranteed to happen after the next time all participating
\* threads have quiesced at least once": a callback is called only after every
\* thread that was active when it was postponed has quiesced.
GracePeriod == \A c \in Callbacks : loc[c] = "done" => blockers[c] = {}

\* When ovsrcu_synchronize() returns, every thread that was active when it was
\* called has quiesced.
SynchronizeWaits == \A p \in Participants : pc[p] = "synced" => waitfor[p] = {}

\* "All functions registered by a single thread are guaranteed to execute in
\* the registering order".
InOrder ==
  \A c, d \in Callbacks :
    /\ owner[c] = owner[d] /\ num[c] < num[d]
    /\ loc[c] # "none" /\ loc[d] = "done"
    => loc[c] = "done"

\* Every postponed callback is called in the end: no wait of the urcu thread
\* misses a wakeup, callbacks flushed before the process had threads included.
EventuallyCalled == \A c \in Callbacks : loc[c] = "cbset" ~> loc[c] = "done"

\* ovsrcu_synchronize() returns, even when several threads are in it at once.
SynchronizeReturns ==
  \A p \in Participants : pc[p] = "sync" ~> pc[p] = "synced"
=============================================================================
