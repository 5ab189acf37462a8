------------------------------ MODULE SeqProofs ------------------------------
(***************************************************************************)
(* Proofs about Seq, for any number of threads and seqs: the types, that   *)
(* waiters are current, that no wakeup is lost, and that every step is one *)
(* that SeqWait allows.                                                    *)
(*                                                                         *)
(* The argument: what a thread has asked for is always covered, by a       *)
(* waiter for the number that the seq still has, or by something that will *)
(* end its poll().  A waiter that goes away leaves a byte in the latch,    *)
(* and the latch of a thread that waits is among its poll_nodes until      *)
(* poll() has returned.                                                    *)
(***************************************************************************)
EXTENDS Seq, TLAPS

\* A number that a thread has read was handed out before.
ReadInv ==
  \A t \in Threads, s \in Seqs : th[t].read[s] \in (1 .. seq_next - 1) \cup {NoSeq}

\* A thread with a waiter is waiting, and a waiting thread has its latch in the
\* poll loop until poll() returns.
LatchInv ==
  /\ \A x \in waiters : th[x.thread].waiting
  /\ \A t \in Threads : th[t].waiting /\ th[t].pc # "woke" => th[t].polled

\* The pair p that thread t has given to seq_wait() is seen to.
Covered(t, p) ==
  Ready(t) \/ [seq |-> p[1], thread |-> t, value |-> p[2]] \in waiters

CoverInv ==
  \A t \in Threads : th[t].pc # "woke" => \A p \in awaited[t] : Covered(t, p)

Inv == TypeOK /\ ReadInv /\ WaitersCurrent /\ LatchInv /\ CoverInv

\* The empty state satisfies the invariant.
LEMMA InitInv == Init => Inv
  <1> SUFFICES ASSUME Init PROVE Inv
    OBVIOUS
  <1>1. FreshThread \in ThreadStates
    BY DEF FreshThread, ThreadStates
  <1>2. TypeOK
    BY <1>1, SeqAssumption DEF Init, TypeOK
  <1>3. ReadInv /\ WaitersCurrent /\ LatchInv /\ CoverInv
    BY DEF Init, ReadInv, WaitersCurrent, LatchInv, CoverInv, FreshThread
  <1> QED
    BY <1>2, <1>3 DEF Inv

-----------------------------------------------------------------------------
(* What the helpers do.                                                    *)

\* The numbers handed out so far stay so.
LEMMA RangeGrows ==
  ASSUME NEW a \in Nat, NEW b \in Nat, b >= a
  PROVE  1 .. a - 1 \subseteq 1 .. b - 1
  OBVIOUS

\* Waking the waiters of s removes exactly those and leaves a byte in the latch
\* of each of their threads.
LEMMA WakeLemma ==
  ASSUME TypeOK, NEW s \in Seqs, seq_wake_waiters(s)
  PROVE  /\ waiters' \subseteq waiters
         /\ \A x \in waiters : x.seq # s => x \in waiters'
         /\ \A x \in waiters' : x.seq # s
         /\ th' \in [Threads -> ThreadStates]
         /\ \A t \in Threads :
              /\ th'[t].pc = th[t].pc /\ th'[t].waiting = th[t].waiting
              /\ th'[t].polled = th[t].polled /\ th'[t].immediate = th[t].immediate
              /\ th'[t].read = th[t].read
              /\ th'[t].latch >= th[t].latch
              /\ (\E x \in waiters : x.seq = s /\ x.thread = t) => th'[t].latch > 0
  <1>1. \A t \in Threads : th[t] \in ThreadStates /\ th[t].latch \in Nat
    BY DEF TypeOK, ThreadStates
  <1>2. ASSUME NEW t \in Threads PROVE [th[t] EXCEPT !.latch = @ + 1] \in ThreadStates
    <2>1. th[t].latch + 1 \in Nat
      BY <1>1
    <2> QED
      BY <1>1, <2>1 DEF ThreadStates
  <1> QED
    BY <1>1, <1>2 DEF seq_wake_waiters, ThreadStates

\* What seq_wake_waiters() preserves, whether the seq gets another number or
\* is destroyed.
LEMMA WakeKeeps ==
  ASSUME Inv, NEW s \in Seqs, seq_wake_waiters(s), UNCHANGED awaited,
         seq_next' \in 1 .. MaxNext, seq_next' >= seq_next,
         value' \in [Seqs -> (1 .. seq_next' - 1) \cup {NoSeq}],
         \A r \in Seqs : r # s => value'[r] = value[r]
  PROVE  Inv'
  <1> USE DEF Inv
  <1>1. /\ waiters' \subseteq waiters
        /\ \A x \in waiters : x.seq # s => x \in waiters'
        /\ \A x \in waiters' : x.seq # s
        /\ th' \in [Threads -> ThreadStates]
        /\ \A t \in Threads :
             /\ th'[t].pc = th[t].pc /\ th'[t].waiting = th[t].waiting
             /\ th'[t].polled = th[t].polled /\ th'[t].immediate = th[t].immediate
             /\ th'[t].read = th[t].read
             /\ th'[t].latch >= th[t].latch
             /\ (\E x \in waiters : x.seq = s /\ x.thread = t) => th'[t].latch > 0
    BY WakeLemma
  <1>2. seq_next \in Nat /\ 1 .. seq_next - 1 \subseteq 1 .. seq_next' - 1
    <2>1. seq_next \in 1 .. MaxNext /\ MaxNext \in Nat
      BY SeqAssumption DEF TypeOK
    <2>2. seq_next \in Nat /\ seq_next' \in Nat
      BY <2>1
    <2> QED
      BY <2>2, RangeGrows
  <1>3. waiters \subseteq [seq : Seqs, thread : Threads, value : 1 .. seq_next - 1]
    BY DEF TypeOK
  <1>4. TypeOK'
    <2>1. waiters' \subseteq [seq : Seqs, thread : Threads, value : 1 .. seq_next' - 1]
      BY <1>1, <1>2, <1>3
    <2>2. awaited' \in [Threads -> SUBSET (Seqs \X (1 .. seq_next' - 1))]
      BY <1>2 DEF TypeOK
    <2> QED
      BY <1>1, <2>1, <2>2 DEF TypeOK
  <1>5. ReadInv'
    BY <1>1, <1>2 DEF ReadInv
  <1>6. WaitersCurrent'
    BY <1>1, <1>3 DEF WaitersCurrent
  <1>7. LatchInv'
    BY <1>1, <1>3 DEF LatchInv
  <1>8. CoverInv'
    <2> SUFFICES ASSUME NEW t \in Threads, th[t].pc # "woke", NEW p \in awaited[t]
                 PROVE  Covered(t, p)'
      BY <1>1 DEF CoverInv
    <2> DEFINE x == [seq |-> p[1], thread |-> t, value |-> p[2]]
    <2>1. th[t].latch \in Nat /\ th'[t].latch \in Nat
      BY <1>1 DEF TypeOK, ThreadStates
    <2>2. CASE Ready(t)
      BY <1>1, <2>1, <2>2 DEF Ready, Covered
    <2>3. CASE x \in waiters /\ x.seq # s
      BY <1>1, <2>3 DEF Covered
    <2>4. CASE x \in waiters /\ x.seq = s
      <3>1. th'[t].latch > 0 /\ th[t].polled
        BY <1>1, <2>4 DEF LatchInv
      <3> QED
        BY <1>1, <3>1 DEF Covered, Ready
    <2>5. Ready(t) \/ x \in waiters
      BY DEF CoverInv, Covered
    <2> QED
      BY <2>2, <2>3, <2>4, <2>5
  <1> QED
    BY <1>4, <1>5, <1>6, <1>7, <1>8

\* A thread whose waiters go away together with what it has asked for.
LEMMA ForgetKeeps ==
  ASSUME Inv, NEW t \in Threads, NEW h \in ThreadStates,
         \A s \in Seqs : h.read[s] \in (1 .. seq_next - 1) \cup {NoSeq},
         ~h.waiting,
         waiters' = {x \in waiters : x.thread # t},
         th' = [th EXCEPT ![t] = h],
         awaited' = [awaited EXCEPT ![t] = {}],
         UNCHANGED <<seq_next, value>>
  PROVE  Inv'
  <1> USE DEF Inv
  <1>1. th' \in [Threads -> ThreadStates] /\ th'[t] = h
        /\ \A u \in Threads : u # t => th'[u] = th[u]
    BY DEF TypeOK
  <1>2. awaited'[t] = {} /\ \A u \in Threads : u # t => awaited'[u] = awaited[u]
    BY DEF TypeOK
  <1>3. waiters' \subseteq waiters
    OBVIOUS
  <1>4. TypeOK'
    BY <1>1, <1>3 DEF TypeOK
  <1>5. ReadInv'
    BY <1>1 DEF ReadInv
  <1>6. WaitersCurrent'
    BY <1>3 DEF WaitersCurrent
  <1>7. LatchInv'
    BY <1>1, <1>3 DEF LatchInv, TypeOK
  <1>8. CoverInv'
    BY <1>1, <1>2 DEF CoverInv, Covered, Ready
  <1> QED
    BY <1>4, <1>5, <1>6, <1>7, <1>8
-----------------------------------------------------------------------------
(* The actions.                                                            *)

\* seq_create() gives the seq a number that no waiter can have.
LEMMA CreateKeeps ==
  ASSUME Inv, NEW s \in Seqs, seq_create(s)
  PROVE  Inv'
  <1> USE DEF Inv
  <1>1. seq_next \in Nat \ {0} /\ seq_next' = seq_next + 1 /\ seq_next' \in 1 .. MaxNext
    BY SeqAssumption DEF seq_create, TypeOK
  <1>2. 1 .. seq_next - 1 \subseteq 1 .. seq_next' - 1 /\ seq_next \in 1 .. seq_next' - 1
    BY <1>1
  <1>3. value' \in [Seqs -> (1 .. seq_next' - 1) \cup {NoSeq}]
        /\ \A r \in Seqs : r # s => value'[r] = value[r]
    BY <1>2 DEF seq_create, TypeOK
  <1>4. waiters \subseteq [seq : Seqs, thread : Threads, value : 1 .. seq_next - 1]
    BY DEF TypeOK
  <1>5. TypeOK'
    <2>1. waiters' \subseteq [seq : Seqs, thread : Threads, value : 1 .. seq_next' - 1]
      BY <1>2, <1>4 DEF seq_create
    <2>2. awaited' \in [Threads -> SUBSET (Seqs \X (1 .. seq_next' - 1))]
      BY <1>2 DEF seq_create, TypeOK
    <2> QED
      BY <1>1, <1>3, <2>1, <2>2 DEF seq_create, TypeOK
  <1>6. WaitersCurrent'
    <2>1. \A x \in waiters : x.seq # s
      BY <1>4, SeqAssumption DEF seq_create, WaitersCurrent
    <2> QED
      BY <1>3, <1>4, <2>1 DEF seq_create, WaitersCurrent
  <1> QED
    BY <1>2, <1>5, <1>6 DEF seq_create, ReadInv, LatchInv, CoverInv, Covered, Ready

\* seq_change() and seq_destroy().
LEMMA ChangeKeeps ==
  ASSUME Inv, NEW s \in Seqs, seq_change(s) \/ seq_destroy(s)
  PROVE  Inv'
  <1>1. seq_next \in Nat \ {0} /\ seq_next \in 1 .. MaxNext
        /\ value \in [Seqs -> (1 .. seq_next - 1) \cup {NoSeq}]
    BY SeqAssumption DEF Inv, TypeOK
  <1>2. CASE seq_change(s)
    <2>1. seq_next' \in 1 .. MaxNext /\ seq_next' >= seq_next
      BY <1>1, <1>2, SeqAssumption DEF seq_change
    <2>2. 1 .. seq_next - 1 \subseteq 1 .. seq_next' - 1 /\ seq_next \in 1 .. seq_next' - 1
      BY <1>1, <1>2 DEF seq_change
    <2>3. value' \in [Seqs -> (1 .. seq_next' - 1) \cup {NoSeq}]
          /\ \A r \in Seqs : r # s => value'[r] = value[r]
      BY <1>1, <1>2, <2>2 DEF seq_change
    <2> QED
      BY <1>2, <2>1, <2>3, WakeKeeps DEF seq_change
  <1>3. CASE seq_destroy(s)
    <2>1. value' \in [Seqs -> (1 .. seq_next' - 1) \cup {NoSeq}]
          /\ \A r \in Seqs : r # s => value'[r] = value[r]
      BY <1>1, <1>3 DEF seq_destroy
    <2> QED
      BY <1>1, <1>3, <2>1, WakeKeeps DEF seq_destroy
  <1> QED
    BY <1>2, <1>3

\* seq_read().
LEMMA ReadKeeps ==
  ASSUME Inv, NEW t \in Threads, NEW s \in Seqs, seq_read(t, s)
  PROVE  Inv'
  <1> USE DEF Inv
  <1> DEFINE h == [th[t] EXCEPT !.read[s] = value[s]]
  <1>1. th[t] \in ThreadStates /\ value[s] \in (1 .. seq_next - 1) \cup {NoSeq}
    BY DEF TypeOK
  <1>2. value[s] \in Nat \cup {NoSeq}
    BY <1>1
  <1>3. h \in ThreadStates /\ h.read = [th[t].read EXCEPT ![s] = value[s]]
    BY <1>1, <1>2 DEF ThreadStates
  <1>4. th' = [th EXCEPT ![t] = h]
    BY <1>1 DEF seq_read
  <1>5. /\ h.pc = th[t].pc /\ h.latch = th[t].latch /\ h.waiting = th[t].waiting
        /\ h.polled = th[t].polled /\ h.immediate = th[t].immediate
    BY <1>1 DEF ThreadStates
  <1>6. th' \in [Threads -> ThreadStates] /\ th'[t] = h
        /\ \A u \in Threads : u # t => th'[u] = th[u]
    BY <1>3, <1>4 DEF TypeOK
  <1>7. TypeOK'
    BY <1>6 DEF seq_read, TypeOK
  <1>8. ReadInv'
    BY <1>1, <1>3, <1>6 DEF seq_read, ReadInv, ThreadStates
  <1>9. WaitersCurrent'
    BY DEF seq_read, WaitersCurrent
  <1>10. LatchInv'
    BY <1>5, <1>6 DEF seq_read, LatchInv, TypeOK
  <1>11. CoverInv'
    BY <1>5, <1>6 DEF seq_read, CoverInv, Covered, Ready
  <1> QED
    BY <1>7, <1>8, <1>9, <1>10, <1>11

\* seq_wait(), in its three cases: what is asked for is covered afterwards.
LEMMA WaitKeeps ==
  ASSUME Inv, NEW t \in Threads, NEW s \in Seqs, seq_wait(t, s)
  PROVE  Inv'
  <1> USE DEF Inv
  <1> DEFINE v == th[t].read[s]
             x == [seq |-> s, thread |-> t, value |-> v]
             mine == {y \in waiters : y.seq = s /\ y.thread = t}
  <1>1. th[t] \in ThreadStates /\ th[t].pc = "run" /\ v \in 1 .. seq_next - 1
        /\ UNCHANGED <<seq_next, value>>
    BY DEF seq_wait, TypeOK, ReadInv
  <1>2. waiters \subseteq [seq : Seqs, thread : Threads, value : 1 .. seq_next - 1]
    BY DEF TypeOK
  <1>3. awaited' = [awaited EXCEPT ![t] = @ \cup {<<s, v>>}]
    BY DEF seq_wait
  <1>4. awaited' \in [Threads -> SUBSET (Seqs \X (1 .. seq_next - 1))]
        /\ awaited'[t] = awaited[t] \cup {<<s, v>>}
        /\ \A u \in Threads : u # t => awaited'[u] = awaited[u]
    BY <1>1, <1>3 DEF TypeOK
  <1>5. CASE v # value[s] \/ \E y \in mine : y.value # v
    <2>1. th' = [th EXCEPT ![t].immediate = TRUE] /\ waiters' = waiters
      BY <1>5 DEF seq_wait, WaitFor
    <2>2. th' \in [Threads -> ThreadStates]
          /\ th'[t] = [th[t] EXCEPT !.immediate = TRUE]
          /\ \A u \in Threads : u # t => th'[u] = th[u]
      BY <1>1, <2>1 DEF TypeOK, ThreadStates
    <2>3. /\ th'[t].pc = th[t].pc /\ th'[t].waiting = th[t].waiting
          /\ th'[t].polled = th[t].polled /\ th'[t].read = th[t].read
          /\ th'[t].immediate = TRUE
      BY <1>1, <2>2 DEF ThreadStates
    <2>4. TypeOK'
      BY <1>1, <1>4, <2>1, <2>2 DEF TypeOK
    <2>5. ReadInv' /\ WaitersCurrent'
      BY <1>1, <2>1, <2>2, <2>3 DEF ReadInv, WaitersCurrent
    <2>6. LatchInv'
      BY <1>2, <2>1, <2>2, <2>3 DEF LatchInv
    <2>7. CoverInv'
      BY <1>4, <2>1, <2>2, <2>3 DEF CoverInv, Covered, Ready
    <2> QED
      BY <2>4, <2>5, <2>6, <2>7
  <1>6. CASE v = value[s] /\ (\A y \in mine : y.value = v) /\ mine # {}
    <2>1. UNCHANGED <<th, waiters>>
      BY <1>6 DEF seq_wait, WaitFor
    <2>2. x \in waiters
      <3>1. PICK y \in waiters : y.seq = s /\ y.thread = t /\ y.value = v
        BY <1>6
      <3> QED
        BY <1>2, <3>1
    <2>3. TypeOK'
      BY <1>1, <1>4, <2>1 DEF TypeOK
    <2>4. ReadInv' /\ WaitersCurrent' /\ LatchInv'
      BY <1>1, <2>1 DEF ReadInv, WaitersCurrent, LatchInv
    <2>5. CoverInv'
      BY <1>4, <2>1, <2>2 DEF CoverInv, Covered, Ready
    <2> QED
      BY <2>3, <2>4, <2>5
  <1>7. CASE v = value[s] /\ mine = {}
    <2>1. waiters' = waiters \cup {x}
          /\ th' = [th EXCEPT ![t].waiting = TRUE, ![t].polled = @ \/ ~th[t].waiting]
      BY <1>7 DEF seq_wait, WaitFor
    <2>2. th' \in [Threads -> ThreadStates]
          /\ th'[t] = [th[t] EXCEPT !.waiting = TRUE, !.polled = @ \/ ~th[t].waiting]
          /\ \A u \in Threads : u # t => th'[u] = th[u]
      BY <1>1, <2>1 DEF TypeOK, ThreadStates
    <2>3. /\ th'[t].pc = th[t].pc /\ th'[t].waiting = TRUE
          /\ th'[t].immediate = th[t].immediate /\ th'[t].read = th[t].read
          /\ th'[t].latch = th[t].latch
          /\ th'[t].polled = (th[t].polled \/ ~th[t].waiting)
      BY <1>1, <2>2 DEF ThreadStates
    <2>4. TypeOK'
      BY <1>1, <1>2, <1>4, <2>1, <2>2 DEF TypeOK
    <2>5. ReadInv'
      BY <1>1, <2>2, <2>3 DEF ReadInv
    <2>6. WaitersCurrent'
      BY <1>1, <1>7, <2>1 DEF WaitersCurrent
    <2>7. LatchInv'
      <3>1. \A y \in waiters' : th'[y.thread].waiting
        BY <1>1, <1>2, <2>1, <2>2, <2>3 DEF LatchInv
      <3>2. th'[t].polled
        BY <1>1, <2>3 DEF LatchInv
      <3>3. \A u \in Threads : th'[u].waiting /\ th'[u].pc # "woke" => th'[u].polled
        BY <2>2, <3>2 DEF LatchInv
      <3> QED
        BY <3>1, <3>3 DEF LatchInv
    <2>8. CoverInv'
      <3>1. \A u \in Threads : Ready(u) => Ready(u)'
        BY <2>2, <2>3 DEF Ready
      <3> QED
        BY <1>4, <2>1, <2>2, <2>3, <3>1 DEF CoverInv, Covered
    <2> QED
      BY <2>4, <2>5, <2>6, <2>7, <2>8
  <1> QED
    BY <1>5, <1>6, <1>7

\* poll_block() up to seq_woke(): nothing of what matters changes before poll()
\* has returned.
LEMMA PollKeeps ==
  ASSUME Inv, NEW t \in Threads, PollBlock(t) \/ PollReturn(t)
  PROVE  Inv'
  <1> USE DEF Inv
  <1>1. th[t] \in ThreadStates /\ UNCHANGED <<seq_next, value, waiters, awaited>>
    BY DEF PollBlock, PollReturn, TypeOK
  <1>2. /\ th' \in [Threads -> ThreadStates]
        /\ \A u \in Threads : u # t => th'[u] = th[u]
        /\ th'[t].waiting = th[t].waiting /\ th'[t].read = th[t].read
        /\ \/ th'[t].pc = "woke"
           \/ /\ th[t].pc = "run" /\ th'[t].polled = th[t].polled
              /\ th'[t].immediate = th[t].immediate /\ th'[t].latch = th[t].latch
    <2>1. CASE PollBlock(t)
      <3>1. th'[t] = [th[t] EXCEPT !.pc = "poll"] /\ th[t].pc = "run"
            /\ \A u \in Threads : u # t => th'[u] = th[u]
        BY <2>1 DEF PollBlock, TypeOK
      <3> QED
        BY <1>1, <2>1, <3>1 DEF PollBlock, TypeOK, ThreadStates
    <2>2. CASE PollReturn(t)
      <3>1. th'[t] = [th[t] EXCEPT !.pc = "woke", !.polled = FALSE, !.immediate = FALSE]
            /\ \A u \in Threads : u # t => th'[u] = th[u]
        BY <1>1, <2>2 DEF PollReturn, TypeOK, ThreadStates
      <3> QED
        BY <1>1, <2>2, <3>1 DEF PollReturn, TypeOK, ThreadStates
    <2> QED
      BY <2>1, <2>2
  <1>3. TypeOK' /\ ReadInv' /\ WaitersCurrent'
    BY <1>1, <1>2 DEF TypeOK, ReadInv, WaitersCurrent
  <1>4. LatchInv'
    BY <1>1, <1>2 DEF LatchInv, TypeOK
  <1>5. CoverInv'
    BY <1>1, <1>2 DEF CoverInv, Covered, Ready
  <1> QED
    BY <1>3, <1>4, <1>5

\* seq_woke() and the end of a thread.
LEMMA WokeKeeps ==
  ASSUME Inv, NEW t \in Threads, seq_woke(t) \/ seq_thread_exit(t)
  PROVE  Inv'
  <1>1. th[t] \in ThreadStates
    BY DEF Inv, TypeOK
  <1>2. CASE seq_woke(t)
    <2> DEFINE h == [th[t] EXCEPT !.pc = "run", !.latch = latch_poll(@), !.waiting = FALSE]
    <2>1. latch_poll(th[t].latch) \in Nat
      BY <1>1, SeqAssumption DEF latch_poll, ThreadStates
    <2>2. h \in ThreadStates /\ h.read = th[t].read /\ ~h.waiting
      BY <1>1, <2>1 DEF ThreadStates
    <2>3. th' = [th EXCEPT ![t] = h]
      BY <1>2, <1>1 DEF seq_woke
    <2> HIDE DEF h
    <2> QED
      BY <1>2, <2>2, <2>3, ForgetKeeps DEF seq_woke, Inv, ReadInv
  <1>3. CASE seq_thread_exit(t)
    <2>1. FreshThread \in ThreadStates /\ ~FreshThread.waiting
          /\ \A s \in Seqs : FreshThread.read[s] = NoSeq
      BY DEF FreshThread, ThreadStates
    <2> QED
      BY <1>3, <2>1, ForgetKeeps DEF seq_thread_exit
  <1> QED
    BY <1>2, <1>3

\* The invariant is inductive.
LEMMA InvStep == Inv /\ [Next]_vars => Inv'
  <1> SUFFICES ASSUME Inv, [Next]_vars PROVE Inv'
    OBVIOUS
  <1>1. CASE UNCHANGED vars
    BY <1>1 DEF vars, Inv, TypeOK, ReadInv, WaitersCurrent, LatchInv, CoverInv, Covered, Ready
  <1>2. CASE Next
    BY <1>2, CreateKeeps, ChangeKeeps, ReadKeeps, WaitKeeps, PollKeeps, WokeKeeps DEF Next
  <1> QED
    BY <1>1, <1>2

\* The inductive invariant of seq.c holds in every reachable state.
THEOREM Invariance == Spec => []Inv
  BY InitInv, InvStep, PTL DEF Spec

\* Types: numbers are below seq_next, waiters and awaited pairs name seqs and
\* numbers that were handed out.
THEOREM SeqTypes == Spec => []TypeOK
  <1>1. Inv => TypeOK
    BY DEF Inv
  <1> QED
    BY <1>1, Invariance, PTL

\* seq_change() and seq_destroy() leave no waiter behind, and a thread has one
\* waiter per seq.
THEOREM WaitersHold == Spec => []WaitersCurrent
  <1>1. Inv => WaitersCurrent
    BY DEF Inv
  <1> QED
    BY <1>1, Invariance, PTL

\* A poll_block() does not sleep through a change of what its thread has given
\* to seq_wait(), wherever the change falls between seq_read() and poll().
THEOREM WakeupsHold == Spec => []NoLostWakeup
  <1>1. Inv => NoLostWakeup
    <2> SUFFICES ASSUME Inv, NEW t \in Threads, th[t].pc = "poll", NEW p \in awaited[t],
                        value[p[1]] # p[2]
                 PROVE  Ready(t)
      BY DEF NoLostWakeup
    <2>1. Covered(t, p)
      BY DEF Inv, CoverInv
    <2> QED
      BY <2>1 DEF Covered, Inv, WaitersCurrent
  <1> QED
    BY <1>1, Invariance, PTL
-----------------------------------------------------------------------------
(* The refinement of SeqWait.                                              *)

Blocked == {t \in Threads : th[t].pc # "run"}

\* Every step of seq.c is one that SeqWait allows, or changes nothing it sees.
LEMMA StepRefines == Inv /\ [Next]_vars => [Wakes!Next]_(Wakes!vars)
  <1> SUFFICES ASSUME Inv, [Next]_vars PROVE [Wakes!Next]_(Wakes!vars)
    OBVIOUS
  <1> USE DEF Inv
  <1>1. ASSUME NEW s \in Seqs, seq_create(s) \/ seq_change(s) \/ seq_destroy(s)
        PROVE  Wakes!Change(s)
    <2>1. seq_next \in 1 .. MaxNext /\ value \in [Seqs -> (1 .. seq_next - 1) \cup {NoSeq}]
      BY DEF TypeOK
    <2>2. value' \in [Seqs -> (1 .. MaxNext) \cup {NoSeq}]
          /\ \A r \in Seqs \ {s} : value'[r] = value[r]
      <3>1. 1 .. seq_next - 1 \subseteq 1 .. MaxNext
        BY <2>1, SeqAssumption
      <3> QED
        BY <1>1, <2>1, <3>1 DEF seq_create, seq_change, seq_destroy
    <2>3. value[s] # NoSeq /\ value'[s] # NoSeq => value'[s] > value[s]
      BY <1>1, <2>1, SeqAssumption DEF seq_create, seq_change, seq_destroy
    <2>4. \A t \in Threads : th'[t].pc = th[t].pc
      BY <1>1, WakeLemma DEF seq_create, seq_change, seq_destroy
    <2>5. Blocked' = Blocked
      BY <2>4 DEF Blocked
    <2> QED
      BY <1>1, <2>2, <2>3, <2>5
         DEF Wakes!Change, Blocked, seq_create, seq_change, seq_destroy
  <1>2. ASSUME NEW t \in Threads, NEW s \in Seqs, seq_read(t, s)
        PROVE  UNCHANGED Wakes!vars
    <2>1. \A u \in Threads : th'[u].pc = th[u].pc
      BY <1>2 DEF seq_read, TypeOK, ThreadStates
    <2>2. Blocked' = Blocked
      BY <2>1 DEF Blocked
    <2> QED
      BY <1>2, <2>2 DEF Wakes!vars, Blocked, seq_read
  <1>3. ASSUME NEW t \in Threads, NEW s \in Seqs, seq_wait(t, s)
        PROVE  \E v \in 1 .. MaxNext : Wakes!Wait(t, <<s, v>>)
    <2>1. th[t].read[s] \in 1 .. MaxNext
      BY <1>3, SeqAssumption DEF seq_wait, ReadInv, TypeOK
    <2>2. \A u \in Threads : th'[u].pc = th[u].pc
      BY <1>3 DEF seq_wait, WaitFor, TypeOK, ThreadStates
    <2>3. Blocked' = Blocked
      BY <2>2 DEF Blocked
    <2> QED
      BY <1>3, <2>1, <2>3 DEF Wakes!Wait, Blocked, seq_wait
  <1>4. ASSUME NEW t \in Threads, PollBlock(t) PROVE Wakes!Block(t)
    <2>1. Blocked' = Blocked \cup {t}
      BY <1>4 DEF PollBlock, Blocked, TypeOK, ThreadStates
    <2> QED
      BY <1>4, <2>1 DEF Wakes!Block, Blocked, PollBlock
  <1>5. ASSUME NEW t \in Threads, PollReturn(t) PROVE UNCHANGED Wakes!vars
    <2>1. Blocked' = Blocked
      BY <1>5 DEF PollReturn, Blocked, TypeOK, ThreadStates
    <2> QED
      BY <1>5, <2>1 DEF Wakes!vars, Blocked, PollReturn
  <1>6. ASSUME NEW t \in Threads, seq_woke(t) PROVE Wakes!Return(t)
    <2>1. Blocked' = Blocked \ {t}
      BY <1>6 DEF seq_woke, Blocked, TypeOK, ThreadStates
    <2> QED
      BY <1>6, <2>1 DEF Wakes!Return, Blocked, seq_woke
  <1>7. ASSUME NEW t \in Threads, seq_thread_exit(t) PROVE Wakes!Exit(t)
    <2>1. Blocked' = Blocked
      BY <1>7 DEF seq_thread_exit, Blocked, TypeOK, ThreadStates, FreshThread
    <2> QED
      BY <1>7, <2>1 DEF Wakes!Exit, Blocked, seq_thread_exit
  <1>8. CASE UNCHANGED vars
    BY <1>8 DEF vars, Wakes!vars
  <1> QED
    BY <1>1, <1>2, <1>3, <1>4, <1>5, <1>6, <1>7, <1>8 DEF Next, Wakes!Next

\* seq.c, the latch and the poll loop take no step that the promise of seq.h
\* excludes, for any number of threads and seqs.  (That a thread whose number
\* has changed does return needs fairness, and is model-checked.)
THEOREM Refinement == Spec => Wakes!Safety
  <1>1. Init => Wakes!Init
    <2> SUFFICES ASSUME Init PROVE Wakes!Init
      OBVIOUS
    <2>1. Blocked = {}
      BY DEF Init, Blocked, FreshThread
    <2> QED
      BY <2>1 DEF Init, Wakes!Init, Blocked
  <1> QED
    BY <1>1, StepRefines, Invariance, PTL DEF Spec, Wakes!Safety
==============================================================================
