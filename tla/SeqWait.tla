------------------------------- MODULE SeqWait -------------------------------
(***************************************************************************)
(* What lib/seq.h promises: "a thread waiting on a particular value will   *)
(* wake up if the sequence number changes, or even if the struct seq is    *)
(* destroyed", however the change falls between seq_read(), seq_wait() and *)
(* poll_block().  This is the wait that OvsRcu assumes.                    *)
(***************************************************************************)
EXTENDS Naturals

CONSTANTS Threads, Seqs, NoSeq,
          Numbers   \* the numbers a seq may have

VARIABLES
  value,    \* the number of each seq; NoSeq: there is none
  awaited,  \* per thread: the pairs <<seq, number>> given to seq_wait() since
            \* its last poll_block()
  blocked   \* the threads in poll_block()

vars == <<value, awaited, blocked>>

Init ==
  /\ value = [s \in Seqs |-> NoSeq]
  /\ awaited = [t \in Threads |-> {}]
  /\ blocked = {}

\* A seq changes, is created or is destroyed; a number never comes again.
Change(s) ==
  /\ value' \in [Seqs -> Numbers \cup {NoSeq}]
  /\ \A r \in Seqs \ {s} : value'[r] = value[r]
  /\ value[s] # NoSeq /\ value'[s] # NoSeq => value'[s] > value[s]
  /\ UNCHANGED <<awaited, blocked>>

Wait(t, p) ==
  /\ t \notin blocked
  /\ awaited' = [awaited EXCEPT ![t] = @ \cup {p}]
  /\ UNCHANGED <<value, blocked>>

Block(t) ==
  /\ t \notin blocked
  /\ blocked' = blocked \cup {t}
  /\ UNCHANGED <<value, awaited>>

Changed(t) == \E p \in awaited[t] : value[p[1]] # p[2]

\* poll_block() returns, for a seq or for another reason.
Return(t) ==
  /\ t \in blocked
  /\ blocked' = blocked \ {t}
  /\ awaited' = [awaited EXCEPT ![t] = {}]
  /\ UNCHANGED value

\* A thread ends without calling poll_block() again.
Exit(t) ==
  /\ t \notin blocked
  /\ awaited' = [awaited EXCEPT ![t] = {}]
  /\ UNCHANGED <<value, blocked>>

Next ==
  \/ \E s \in Seqs : Change(s)
  \/ \E t \in Threads :
       \/ \E s \in Seqs : \E v \in Numbers : Wait(t, <<s, v>>)
       \/ Block(t) \/ Return(t) \/ Exit(t)

Fairness == \A t \in Threads : WF_vars(Changed(t) /\ Return(t))

Safety == Init /\ [][Next]_vars

Spec == Safety /\ Fairness
==============================================================================
