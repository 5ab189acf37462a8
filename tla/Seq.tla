--------------------------------- MODULE Seq ---------------------------------
(***************************************************************************)
(* Sequence numbers that threads can wait for (lib/seq.c), with the latch  *)
(* that wakes a thread (lib/latch-unix.c) and the poll loop that it sleeps *)
(* in (lib/poll-loop.c).                                                   *)
(*                                                                         *)
(* Each function of seq.c holds seq_mutex from its first to its last       *)
(* access, so it is one step.  poll_block() is three: the call, the return *)
(* of poll() with the end of the one-shot registrations, and seq_woke().   *)
(*                                                                         *)
(* awaited is history: the pairs a thread has given to seq_wait() since    *)
(* its last poll_block().                                                  *)
(***************************************************************************)
EXTENDS Naturals

CONSTANTS
  Threads,
  Seqs,
  NoSeq,    \* no struct seq at this address
  PipeBuf,  \* _POSIX_PIPE_BUF, what one latch_poll() reads from the pipe
  MaxNext   \* bound on seq_next

ASSUME SeqAssumption ==
  /\ NoSeq \notin Nat
  /\ PipeBuf \in Nat \ {0}
  /\ MaxNext \in Nat \ {0}

VARIABLES
  seq_next,  \* the next number
  value,     \* seq->value
  waiters,   \* the seq_waiters: [seq, thread, value]
  th,        \* per thread: its poll loop, its seq_thread and what it has read
  awaited

vars == <<seq_next, value, waiters, th, awaited>>

\* A thread before its first poll_block(): poll_loop() leaves timeout_when zero,
\* a time that has passed.  latch counts the bytes in the pipe; polled: the
\* latch is among the poll_nodes; read: the number last read of each seq.
FreshThread == [pc |-> "run", latch |-> 0, waiting |-> FALSE, polled |-> FALSE,
                immediate |-> TRUE, read |-> [s \in Seqs |-> NoSeq]]

Init ==
  /\ seq_next = 1
  /\ value = [s \in Seqs |-> NoSeq]
  /\ waiters = {}
  /\ th = [t \in Threads |-> FreshThread]
  /\ awaited = [t \in Threads |-> {}]
-----------------------------------------------------------------------------
\* Mutant: the number is not used up.
SeqCreateReuses(s) ==
  /\ value[s] = NoSeq /\ seq_next < MaxNext
  /\ value' = [value EXCEPT ![s] = seq_next]
  /\ UNCHANGED <<seq_next, waiters, th, awaited>>

seq_create(s) ==
  /\ value[s] = NoSeq /\ seq_next < MaxNext
  /\ value' = [value EXCEPT ![s] = seq_next]
  /\ seq_next' = seq_next + 1
  /\ UNCHANGED <<waiters, th, awaited>>

\* Mutant: the waiters are destroyed and only one of them is woken.
WakeOne(s) ==
  LET woken == {x.thread : x \in {y \in waiters : y.seq = s}} IN
  /\ waiters' = {x \in waiters : x.seq # s}
  /\ IF woken = {} THEN UNCHANGED th
     ELSE \E t \in woken : th' = [th EXCEPT ![t].latch = @ + 1]

\* One latch_set() for each waiter of s, which is then destroyed.
seq_wake_waiters(s) ==
  /\ waiters' = {x \in waiters : x.seq # s}
  /\ th' = [t \in Threads |->
              IF \E x \in waiters : x.seq = s /\ x.thread = t
                THEN [th[t] EXCEPT !.latch = @ + 1] ELSE th[t]]

seq_change(s) ==
  /\ value[s] # NoSeq /\ seq_next < MaxNext
  /\ value' = [value EXCEPT ![s] = seq_next]
  /\ seq_next' = seq_next + 1
  /\ seq_wake_waiters(s)
  /\ UNCHANGED awaited

\* The owner destroys the seq; nobody uses it after that, but a thread may
\* still be waiting.
seq_destroy(s) ==
  /\ value[s] # NoSeq
  /\ value' = [value EXCEPT ![s] = NoSeq]
  /\ seq_wake_waiters(s)
  /\ UNCHANGED <<seq_next, awaited>>

seq_read(t, s) ==
  /\ th[t].pc = "run" /\ value[s] # NoSeq
  /\ th' = [th EXCEPT ![t].read[s] = value[s]]
  /\ UNCHANGED <<seq_next, value, waiters, awaited>>

\* Mutant: the latch is registered whatever the seq's number is by now.
WaitUnchecked(t, s, v) ==
  /\ waiters' = waiters \cup {[seq |-> s, thread |-> t, value |-> v]}
  /\ th' = [th EXCEPT ![t].waiting = TRUE, ![t].polled = TRUE]

\* Another number by now, or a waiter for another number: poll_block() will not
\* block.  A waiter for this number: nothing more to do.  Else a new waiter, and
\* the latch goes into the poll loop unless it is there.
WaitFor(t, s, v) ==
  LET mine == {x \in waiters : x.seq = s /\ x.thread = t} IN
  IF v # value[s] \/ \E x \in mine : x.value # v
    THEN th' = [th EXCEPT ![t].immediate = TRUE] /\ UNCHANGED waiters
  ELSE IF mine # {} THEN UNCHANGED <<th, waiters>>
  ELSE /\ waiters' = waiters \cup {[seq |-> s, thread |-> t, value |-> v]}
       /\ th' = [th EXCEPT ![t].waiting = TRUE, ![t].polled = @ \/ ~th[t].waiting]

seq_wait(t, s) ==
  LET v == th[t].read[s] IN
  /\ th[t].pc = "run" /\ value[s] # NoSeq /\ v # NoSeq
  /\ WaitFor(t, s, v)
  /\ awaited' = [awaited EXCEPT ![t] = @ \cup {<<s, v>>}]
  /\ UNCHANGED <<seq_next, value>>
-----------------------------------------------------------------------------
(* poll_block(). *)

PollBlock(t) ==
  /\ th[t].pc = "run"
  /\ th' = [th EXCEPT ![t].pc = "poll"]
  /\ UNCHANGED <<seq_next, value, waiters, awaited>>

\* poll() has something to report.
Ready(t) == th[t].immediate \/ (th[t].polled /\ th[t].latch > 0)

\* poll() returns, perhaps for another descriptor or a timer: registrations are
\* for one call only.
PollReturn(t) ==
  /\ th[t].pc = "poll"
  /\ th' = [th EXCEPT ![t].pc = "woke", ![t].polled = FALSE, ![t].immediate = FALSE]
  /\ UNCHANGED <<seq_next, value, waiters, awaited>>

latch_poll(n) == IF n > PipeBuf THEN n - PipeBuf ELSE 0

\* Mutant: seq_woke() leaves the thread's waiting flag set.
SeqWokeStillWaiting(t) ==
  /\ th[t].pc = "woke"
  /\ waiters' = {x \in waiters : x.thread # t}
  /\ th' = [th EXCEPT ![t].pc = "run", ![t].latch = latch_poll(@)]
  /\ awaited' = [awaited EXCEPT ![t] = {}]
  /\ UNCHANGED <<seq_next, value>>

\* seq_woke(): the thread's waiters are destroyed and its latch is reset.
seq_woke(t) ==
  /\ th[t].pc = "woke"
  /\ waiters' = {x \in waiters : x.thread # t}
  /\ th' = [th EXCEPT ![t].pc = "run", ![t].latch = latch_poll(@), ![t].waiting = FALSE]
  /\ awaited' = [awaited EXCEPT ![t] = {}]
  /\ UNCHANGED <<seq_next, value>>

\* seq_thread_exit() and free_poll_loop(); a new thread may take the place.
seq_thread_exit(t) ==
  /\ th[t].pc = "run" /\ th[t] # FreshThread
  /\ waiters' = {x \in waiters : x.thread # t}
  /\ th' = [th EXCEPT ![t] = FreshThread]
  /\ awaited' = [awaited EXCEPT ![t] = {}]
  /\ UNCHANGED <<seq_next, value>>
-----------------------------------------------------------------------------
Next ==
  \/ \E s \in Seqs : seq_create(s) \/ seq_change(s) \/ seq_destroy(s)
  \/ \E t \in Threads :
       \/ \E s \in Seqs : seq_read(t, s) \/ seq_wait(t, s)
       \/ PollBlock(t) \/ PollReturn(t) \/ seq_woke(t) \/ seq_thread_exit(t)

Spec == Init /\ [][Next]_vars

\* The kernel ends a poll() that has something to report, and a thread whose
\* poll() has ended goes on to seq_woke().  Nothing makes a seq change.
Fairness ==
  \A t \in Threads : WF_vars(Ready(t) /\ PollReturn(t)) /\ WF_vars(seq_woke(t))

FairSpec == Spec /\ Fairness
-----------------------------------------------------------------------------
(* Properties. *)

ThreadStates ==
  [pc : {"run", "poll", "woke"}, latch : Nat, waiting : BOOLEAN, polled : BOOLEAN,
   immediate : BOOLEAN, read : [Seqs -> Nat \cup {NoSeq}]]

\* Types; numbers are below seq_next.
TypeOK ==
  /\ seq_next \in 1 .. MaxNext
  /\ value \in [Seqs -> (1 .. seq_next - 1) \cup {NoSeq}]
  /\ waiters \subseteq [seq : Seqs, thread : Threads, value : 1 .. seq_next - 1]
  /\ th \in [Threads -> ThreadStates]
  /\ awaited \in [Threads -> SUBSET (Seqs \X (1 .. seq_next - 1))]

\* A waiter waits for the number its seq has now: seq_change() and seq_destroy()
\* leave none behind, and a thread has one waiter per seq.  So the case of a
\* waiter for another number in seq_wait__() cannot happen, and waiter->seq is
\* never a destroyed seq when seq_woke() uses it.
WaitersCurrent ==
  \A x \in waiters :
    /\ value[x.seq] = x.value
    /\ \A y \in waiters : y.seq = x.seq /\ y.thread = x.thread => y = x

\* No wakeup is lost: when a number a thread has asked for is no longer the
\* seq's, or the seq is gone, its poll_block() does not go on sleeping.  (The
\* number of a seq created at the same address later is another one.)
NoLostWakeup ==
  \A t \in Threads : th[t].pc = "poll" =>
    \A p \in awaited[t] : value[p[1]] # p[2] => Ready(t)

\* The promise of seq.h, for every moment at which a seq can change.
Wakes == INSTANCE SeqWait WITH
  Numbers <- 1 .. MaxNext,
  blocked <- {t \in Threads : th[t].pc # "run"}
Implements == Wakes!Spec
==============================================================================
