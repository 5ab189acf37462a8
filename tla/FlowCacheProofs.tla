--------------------------- MODULE FlowCacheProofs ---------------------------
(***************************************************************************)
(* Proofs about the flow cache (FlowCache), for any number of flows,       *)
(* actions, changes of the tables and failures of the datapath, with the   *)
(* kernel datapath and with DPDK.                                          *)
(***************************************************************************)
EXTENDS FlowCache, TLAPS

HandlerStates ==
  [pc : {"xlate", "install", "put", "done", "failed"}, dumped : BOOLEAN,
   reval : 0..MaxChanges, act : Acts \cup {None}]

Ops == [flow : Flows, act : Acts \cup {None}, ukey : {"live", "dead"}]

Dead == [flow : Flows, ukey : UkeyTypes]

RevStates ==
  [pc : {"wait", "dump", "dump_push", "sweep", "sweep_push", "abort"},
   reval : 0..MaxChanges, todo : SUBSET Flows, seen : SUBSET Flows,
   dead : SUBSET Dead, moved : BOOLEAN, ops : Seq(Ops), next : Nat \ {0}]

\* Types of what TypeOK leaves open.
ShapeInv ==
  /\ hnd \in [Flows -> {Idle} \cup HandlerStates]
  /\ rev \in RevStates
  /\ rev.pc \in {"wait", "dump", "sweep", "abort"} => rev.next = 1
  /\ rev.next <= Len(rev.ops) + 1

\* No number read is ahead of reval_seq.
SeqInv ==
  /\ need => reval_seq < changes
  /\ rev.reval <= reval_seq
  /\ \A f \in Flows :
       /\ ukey[f] # NoUkey => ukey[f].reval <= reval_seq
       /\ hnd[f].pc # "idle" => hnd[f].reval <= reval_seq

\* If no flow_mod is waiting to be noticed, what carries the current number agrees
\* with the tables.
Fresh(f, reval, act) == kind[f] = "plain" /\ ~need /\ reval = reval_seq => act = policy[f]

\* Upcalls: there is no flow before the handler puts it, and the actions to be put are
\* those of the number read before.
HandlerInv ==
  \A f \in Flows :
    /\ hnd[f].pc \in {"xlate", "install", "put", "failed"} => dp[f] = None
    /\ hnd[f].pc = "done" => dp[f] # None \/ UkeyGoes(f) \/ ~Alive
    /\ hnd[f].pc \in {"done", "failed"} => ~netdev
    /\ hnd[f].pc \in {"install", "put"} =>
         hnd[f].act \in Acts /\ Fresh(f, hnd[f].reval, hnd[f].act)
    /\ hnd[f].pc = "put" /\ ~netdev => ukey[f].act = hnd[f].act
    /\ hnd[f].pc = "put" /\ netdev /\ ukey[f] # NoUkey => ukey[f].exists

Dumping == rev.pc \in {"dump", "dump_push"}
Sweeping == rev.pc \in {"sweep", "sweep_push"}

OpIndices == 1..Len(rev.ops)
FlowOf(i) == rev.ops[i].flow
Distinct == \A i, j \in OpIndices : FlowOf(i) = FlowOf(j) => i = j
Again(i) == rev.ops[i].ukey = "dead"
NotQueued == \A i \in OpIndices : rev.next <= i => FlowOf(i) \notin rev.todo

\* While flows are dumped each flow has one operation queued at most, for a ukey that
\* is not deleted, and stays until that is pushed.
DumpInv ==
  Dumping =>
    /\ \A f \in rev.todo : dp[f] # None
    /\ NotQueued /\ Distinct
    /\ \A i \in OpIndices : ~Again(i)
    /\ \A i \in OpIndices : rev.next <= i =>
         /\ dp[FlowOf(i)] # None
         /\ Deletes(i) => \/ ukey[FlowOf(i)] = NoUkey
                          \/ ~ukey[FlowOf(i)].exists /\ ~ukey[FlowOf(i)].locked

\* A flow to be modified has a ukey with those actions and the number of the round,
\* and no later operation in the batch.  This, and what follows, is about operations
\* for ukeys that are not deleted.
ModifyInv ==
  \A i \in OpIndices : ~Deletes(i) /\ ~Again(i) =>
    LET f == FlowOf(i) IN
    /\ ukey[f] # NoUkey /\ ukey[f].exists /\ ~ukey[f].locked
    /\ ukey[f].act = rev.ops[i].act /\ ukey[f].reval = rev.reval
    /\ Fresh(f, ukey[f].reval, ukey[f].act)
    /\ \A j \in OpIndices : i < j /\ ~Again(j) => FlowOf(j) # f

\* The flows that the sweep deletes keep their ukey until the batch is done; what was
\* deleted does not come back unnoticed.
SweepInv ==
  Sweeping =>
    \A i \in OpIndices : ~Again(i) =>
      LET f == FlowOf(i) IN
      /\ ukey[f] # NoUkey /\ ukey[f].exists /\ ~ukey[f].locked
      /\ i < rev.next /\ Deletes(i) => dp[f] = None \/ f \in astray

\* A ukey that has no flow_exists has no flow, or one that is about to be deleted.
GoneInv ==
  \A f \in Flows :
    IF ukey[f] = NoUkey THEN TRUE
    ELSE ~ukey[f].exists /\ ~ukey[f].locked =>
           dp[f] = None \/ f \in astray \/ (Dumping /\ Queued(f))

\* A ukey has the actions of its flow, unless an operation is queued...
SameInv ==
  \A f \in Flows \ astray : dp[f] # None /\ ~Queued(f) => ukey[f].act = dp[f]

\* ... and if it has the current number those of the tables.
FreshInv ==
  \A f \in Flows :
    IF ukey[f] = NoUkey THEN TRUE
    ELSE (dp[f] # None /\ f \notin astray) \/ hnd[f].pc = "put" =>
           Fresh(f, ukey[f].reval, ukey[f].act)

Inv ==
  /\ TypeOK /\ ShapeInv /\ SeqInv /\ HandlerInv
  /\ DumpInv /\ ModifyInv /\ SweepInv
  /\ FlowsTracked /\ UkeysBacked /\ GoneInv /\ SameInv /\ FreshInv
-----------------------------------------------------------------------------
(* What the assumptions give, and how the parts of the state change.      *)

\* The constants.
LEMMA ConstantsLemma ==
  /\ Drop \in Acts /\ None \notin Acts /\ Garbage \notin Acts /\ NoUkey \notin UkeyTypes
  /\ MaxChanges \in Nat /\ MaxFaults \in Nat
  BY FlowCacheAssumption

\* Only flow f changes.
OnlyFlow(f) ==
  \A g \in Flows : g # f =>
    /\ hnd'[g] = hnd[g] /\ ukey'[g] = ukey[g] /\ dp'[g] = dp[g]
    /\ g \in astray' <=> g \in astray

\* The two ends of the revalidation of a flow, by its result.
AfterDump(f, result) ==
  [Revalidated(ukey[f], f, result) EXCEPT !.dumped = TRUE, !.exists = result # "delete"]

DumpResult(f, result) ==
  /\ result \in RevalidateUkey(ukey[f], f, rev.reval)
  /\ ukey' = [ukey EXCEPT ![f] = AfterDump(f, result)]
  /\ rev' = AddOp([rev EXCEPT !.todo = @ \ {f}], f, result, "live")

SweepResult(f, result) ==
  /\ result \in RevalidateUkey(ukey[f], f, rev.reval)
  /\ ukey' = [ukey EXCEPT ![f] = Revalidated(ukey[f], f, result)]
  /\ rev' = AddOp(Met(f), f, result, "live")

\* The revalidation of a ukey that is deleted.
AgainResult(d, result) ==
  /\ result \in RevalidateUkey(d.ukey, d.flow, rev.reval)
  /\ rev' = AddOp([rev EXCEPT !.dead = @ \ {d}], d.flow, result, "dead")
  /\ UNCHANGED <<netdev, kind, policy, need, reval_seq, changes, dp, ukey, hnd, faults,
                 astray>>

\* The batch of a sweep deletes a ukey that is gone, or one of its ukeys twice.
Twice ==
  LET ops == {i \in DOMAIN rev.ops : Deletes(i)} IN
  \/ \E i \in ops : rev.ops[i].ukey = "dead"
  \/ \E i, j \in ops : i # j /\ rev.ops[i].flow = rev.ops[j].flow

\* What the end of a batch of the sweep removes.
Gone(f) == \E i \in OpIndices : FlowOf(i) = f /\ Deletes(i)

\* The numbers of a step are numbers of the module.
LEMMA RangeLemma ==
  ASSUME TypeOK
  PROVE  /\ reval_seq \in 0..MaxChanges /\ reval_seq \in Nat /\ changes \in Nat
         /\ faults \in Nat
  BY ConstantsLemma DEF TypeOK

\* A ukey has its fields.
LEMMA UkeyFields ==
  ASSUME TypeOK, NEW f \in Flows, ukey[f] # NoUkey
  PROVE  /\ ukey[f] \in UkeyTypes /\ ukey[f].act \in Acts \cup {Garbage}
         /\ ukey[f].reval \in 0..MaxChanges /\ ukey[f].dumped \in BOOLEAN
         /\ ukey[f].exists \in BOOLEAN /\ ukey[f].locked \in BOOLEAN
  BY DEF TypeOK, UkeyTypes

\* An idle handler has nothing but its place.
LEMMA IdleLemma == Idle.pc = "idle"
  BY DEF Idle

\* A handler that is at work has its fields.
LEMMA HandlerFields ==
  ASSUME ShapeInv, NEW f \in Flows, hnd[f].pc # "idle"
  PROVE  /\ hnd[f] \in HandlerStates /\ hnd[f].dumped \in BOOLEAN
         /\ hnd[f].reval \in 0..MaxChanges /\ hnd[f].act \in Acts \cup {None}
  BY IdleLemma DEF ShapeInv, HandlerStates

\* A translation yields actions.
LEMMA RetranslatedLemma ==
  ASSUME TypeOK, NEW f \in Flows
  PROVE  /\ Retranslated(f) \in Acts /\ Retranslated(f) # None
         /\ kind[f] = "plain" => Retranslated(f) = policy[f]
  BY ConstantsLemma DEF TypeOK, Retranslated

\* The queue of operations with one more.
LEMMA AppendLemma ==
  ASSUME NEW s \in Seq(Ops), NEW o \in Ops
  PROVE  /\ Append(s, o) \in Seq(Ops) /\ Len(Append(s, o)) = Len(s) + 1
         /\ Append(s, o)[Len(s) + 1] = o /\ Len(s) \in Nat
         /\ \A i \in 1..Len(s) : Append(s, o)[i] = s[i]
  OBVIOUS

\* The fields of the revalidator.
LEMMA RevFields ==
  ASSUME ShapeInv
  PROVE  /\ rev.ops \in Seq(Ops) /\ Len(rev.ops) \in Nat /\ rev.next \in Nat \ {0}
         /\ rev.todo \subseteq Flows /\ rev.seen \subseteq Flows /\ rev.moved \in BOOLEAN
         /\ rev.dead \subseteq Dead /\ rev.reval \in 0..MaxChanges
         /\ \A i \in OpIndices : FlowOf(i) \in Flows /\ rev.ops[i] \in Ops
  <1>1. /\ rev.ops \in Seq(Ops) /\ rev.next \in Nat \ {0} /\ rev.moved \in BOOLEAN
        /\ rev.todo \subseteq Flows /\ rev.seen \subseteq Flows
        /\ rev.dead \subseteq Dead /\ rev.reval \in 0..MaxChanges
    BY DEF ShapeInv, RevStates
  <1>2. Len(rev.ops) \in Nat /\ \A i \in OpIndices : rev.ops[i] \in Ops
    BY <1>1 DEF OpIndices
  <1>3. \A i \in OpIndices : FlowOf(i) \in Flows
    BY <1>2 DEF FlowOf, Ops
  <1> QED
    BY <1>1, <1>2, <1>3
-----------------------------------------------------------------------------
(* Upcalls.                                                                *)

\* A handler takes a packet.
LEMMA UpcallStep ==
  ASSUME Inv, NEW f \in Flows, Upcall(f)
  PROVE  Inv'
  <1>0. /\ TypeOK /\ ShapeInv /\ SeqInv /\ HandlerInv /\ DumpInv /\ ModifyInv /\ SweepInv
        /\ FlowsTracked /\ UkeysBacked /\ GoneInv
        /\ SameInv /\ FreshInv
    BY DEF Inv
  <1>1. /\ hnd[f].pc = "idle" /\ dp[f] = None
        /\ hnd' \in [Flows -> {Idle} \cup HandlerStates]
        /\ hnd'[f] \in HandlerStates /\ hnd'[f].pc = "xlate" /\ hnd'[f].reval = reval_seq
        /\ UNCHANGED <<netdev, kind, policy, need, reval_seq, changes, dp, ukey, rev,
                       faults, astray>>
        /\ OnlyFlow(f)
    BY <1>0, RangeLemma DEF
       Upcall, TypeOK, ShapeInv, HandlerStates, OnlyFlow, main, system
  <1>11. TypeOK'
    BY <1>0, <1>1 DEF TypeOK, OnlyFlow
  <1>12. ShapeInv'
    BY <1>0, <1>1 DEF ShapeInv
  <1>13. SeqInv'
    BY <1>0, <1>1, RangeLemma DEF SeqInv, OnlyFlow
  <1>14. HandlerInv'
    BY <1>0, <1>1 DEF HandlerInv, Fresh, OnlyFlow, UkeyGoes, Deletes, Alive
  <1>15. DumpInv'
    BY <1>0, <1>1 DEF DumpInv, Dumping, NotQueued, Distinct, OpIndices, FlowOf, Deletes, Again
  <1>16. ModifyInv'
    BY <1>0, <1>1 DEF ModifyInv, OpIndices, FlowOf, Deletes, Fresh, Again
  <1>17. SweepInv'
    BY <1>0, <1>1 DEF SweepInv, Sweeping, OpIndices, FlowOf, Deletes, Again
  <1>20. FlowsTracked'
    BY <1>0, <1>1 DEF FlowsTracked
  <1>21. UkeysBacked'
    BY <1>0, <1>1 DEF UkeysBacked, UkeyGoes, Deletes, OnlyFlow, Alive
  <1>22. GoneInv'
    BY <1>0, <1>1 DEF GoneInv, Dumping, Queued
  <1>23. SameInv'
    BY <1>0, <1>1 DEF SameInv, Queued
  <1>24. FreshInv'
    BY <1>0, <1>1 DEF FreshInv, Fresh, OnlyFlow
  <1> QED
    BY <1>11, <1>12, <1>13, <1>14, <1>15, <1>16, <1>17, <1>20, <1>21,
       <1>22, <1>23, <1>24 DEF Inv

\* The translation gives the actions of the tables.
LEMMA XlateStep ==
  ASSUME Inv, NEW f \in Flows, Xlate(f)
  PROVE  Inv'
  <1>0. /\ TypeOK /\ ShapeInv /\ SeqInv /\ HandlerInv /\ DumpInv /\ ModifyInv /\ SweepInv
        /\ FlowsTracked /\ UkeysBacked /\ GoneInv
        /\ SameInv /\ FreshInv
    BY DEF Inv
  <1>1. /\ hnd[f].pc = "xlate"
        /\ hnd' \in [Flows -> {Idle} \cup HandlerStates]
        /\ hnd'[f] \in HandlerStates /\ hnd'[f].pc = "install"
        /\ hnd'[f].reval = hnd[f].reval /\ hnd'[f].act = policy[f] /\ policy[f] \in Acts
        /\ UNCHANGED <<netdev, kind, policy, need, reval_seq, changes, dp, ukey, rev,
                       faults, astray>>
        /\ OnlyFlow(f)
    BY <1>0, HandlerFields DEF
       Xlate, TypeOK, ShapeInv, HandlerStates, OnlyFlow, main, system
  <1>11. TypeOK'
    BY <1>0, <1>1 DEF TypeOK, OnlyFlow
  <1>12. ShapeInv'
    BY <1>0, <1>1 DEF ShapeInv
  <1>13. SeqInv'
    BY <1>0, <1>1 DEF SeqInv, OnlyFlow
  <1>14. HandlerInv'
    BY <1>0, <1>1 DEF HandlerInv, Fresh, OnlyFlow, UkeyGoes, Deletes, Alive
  <1>15. DumpInv'
    BY <1>0, <1>1 DEF DumpInv, Dumping, NotQueued, Distinct, OpIndices, FlowOf, Deletes, Again
  <1>16. ModifyInv'
    BY <1>0, <1>1 DEF ModifyInv, OpIndices, FlowOf, Deletes, Fresh, Again
  <1>17. SweepInv'
    BY <1>0, <1>1 DEF SweepInv, Sweeping, OpIndices, FlowOf, Deletes, Again
  <1>20. FlowsTracked'
    BY <1>0, <1>1 DEF FlowsTracked
  <1>21. UkeysBacked'
    BY <1>0, <1>1 DEF UkeysBacked, UkeyGoes, Deletes, OnlyFlow, Alive
  <1>22. GoneInv'
    BY <1>0, <1>1 DEF GoneInv, Dumping, Queued
  <1>23. SameInv'
    BY <1>0, <1>1 DEF SameInv, Queued
  <1>24. FreshInv'
    BY <1>0, <1>1 DEF FreshInv, Fresh, OnlyFlow
  <1> QED
    BY <1>11, <1>12, <1>13, <1>14, <1>15, <1>16, <1>17, <1>20, <1>21,
       <1>22, <1>23, <1>24 DEF Inv

\* The handler installs nothing.
LEMMA DeclineStep ==
  ASSUME Inv, NEW f \in Flows, Decline(f)
  PROVE  Inv'
  <1>0. /\ TypeOK /\ ShapeInv /\ SeqInv /\ HandlerInv /\ DumpInv /\ ModifyInv /\ SweepInv
        /\ FlowsTracked /\ UkeysBacked /\ GoneInv
        /\ SameInv /\ FreshInv
    BY DEF Inv
  <1>1. /\ hnd[f].pc = "install"
        /\ hnd' \in [Flows -> {Idle} \cup HandlerStates]
        /\ hnd'[f] = Idle
        /\ UNCHANGED <<netdev, kind, policy, need, reval_seq, changes, dp, ukey, rev,
                       faults, astray>>
        /\ OnlyFlow(f)
    BY <1>0 DEF Decline, TypeOK, ShapeInv, OnlyFlow, main, system
  <1>11. TypeOK'
    BY <1>0, <1>1, IdleLemma DEF TypeOK, OnlyFlow
  <1>12. ShapeInv'
    BY <1>0, <1>1 DEF ShapeInv
  <1>13. SeqInv'
    BY <1>0, <1>1, IdleLemma DEF SeqInv, OnlyFlow
  <1>14. HandlerInv'
    BY <1>0, <1>1, IdleLemma DEF HandlerInv, Fresh, OnlyFlow, UkeyGoes, Deletes, Alive
  <1>15. DumpInv'
    BY <1>0, <1>1 DEF DumpInv, Dumping, NotQueued, Distinct, OpIndices, FlowOf, Deletes, Again
  <1>16. ModifyInv'
    BY <1>0, <1>1 DEF ModifyInv, OpIndices, FlowOf, Deletes, Fresh, Again
  <1>17. SweepInv'
    BY <1>0, <1>1 DEF SweepInv, Sweeping, OpIndices, FlowOf, Deletes, Again
  <1>20. FlowsTracked'
    BY <1>0, <1>1 DEF FlowsTracked
  <1>21. UkeysBacked'
    BY <1>0, <1>1, IdleLemma DEF UkeysBacked, UkeyGoes, Deletes, OnlyFlow, Alive
  <1>22. GoneInv'
    BY <1>0, <1>1 DEF GoneInv, Dumping, Queued
  <1>23. SameInv'
    BY <1>0, <1>1 DEF SameInv, Queued
  <1>24. FreshInv'
    BY <1>0, <1>1, IdleLemma DEF FreshInv, Fresh, OnlyFlow
  <1> QED
    BY <1>11, <1>12, <1>13, <1>14, <1>15, <1>16, <1>17, <1>20, <1>21,
       <1>22, <1>23, <1>24 DEF Inv

\* The handler finds another ukey in the map.
LEMMA UkeyInstallOldStep ==
  ASSUME Inv, NEW f \in Flows, UkeyInstall(f), ukey[f] # NoUkey
  PROVE  Inv'
  <1>0. /\ TypeOK /\ ShapeInv /\ SeqInv /\ HandlerInv /\ DumpInv /\ ModifyInv /\ SweepInv
        /\ FlowsTracked /\ UkeysBacked /\ GoneInv
        /\ SameInv /\ FreshInv
    BY DEF Inv
  <1>1. /\ hnd[f].pc = "install"
        /\ hnd' \in [Flows -> {Idle} \cup HandlerStates]
        /\ hnd'[f] = Idle
        /\ UNCHANGED <<netdev, kind, policy, need, reval_seq, changes, dp, ukey, rev,
                       faults, astray>>
        /\ OnlyFlow(f)
    BY <1>0 DEF UkeyInstall, TypeOK, ShapeInv, OnlyFlow, main, system
  <1>11. TypeOK'
    BY <1>0, <1>1, IdleLemma DEF TypeOK, OnlyFlow
  <1>12. ShapeInv'
    BY <1>0, <1>1 DEF ShapeInv
  <1>13. SeqInv'
    BY <1>0, <1>1, IdleLemma DEF SeqInv, OnlyFlow
  <1>14. HandlerInv'
    BY <1>0, <1>1, IdleLemma DEF HandlerInv, Fresh, OnlyFlow, UkeyGoes, Deletes, Alive
  <1>15. DumpInv'
    BY <1>0, <1>1 DEF DumpInv, Dumping, NotQueued, Distinct, OpIndices, FlowOf, Deletes, Again
  <1>16. ModifyInv'
    BY <1>0, <1>1 DEF ModifyInv, OpIndices, FlowOf, Deletes, Fresh, Again
  <1>17. SweepInv'
    BY <1>0, <1>1 DEF SweepInv, Sweeping, OpIndices, FlowOf, Deletes, Again
  <1>20. FlowsTracked'
    BY <1>0, <1>1 DEF FlowsTracked
  <1>21. UkeysBacked'
    BY <1>0, <1>1, IdleLemma DEF UkeysBacked, UkeyGoes, Deletes, OnlyFlow, Alive
  <1>22. GoneInv'
    BY <1>0, <1>1 DEF GoneInv, Dumping, Queued
  <1>23. SameInv'
    BY <1>0, <1>1 DEF SameInv, Queued
  <1>24. FreshInv'
    BY <1>0, <1>1, IdleLemma DEF FreshInv, Fresh, OnlyFlow
  <1> QED
    BY <1>11, <1>12, <1>13, <1>14, <1>15, <1>16, <1>17, <1>20, <1>21,
       <1>22, <1>23, <1>24 DEF Inv

\* The handler puts its ukey into the map.
LEMMA UkeyInstallNewStep ==
  ASSUME Inv, NEW f \in Flows, UkeyInstall(f), ukey[f] = NoUkey
  PROVE  Inv'
  <1>0. /\ TypeOK /\ ShapeInv /\ SeqInv /\ HandlerInv /\ DumpInv /\ ModifyInv /\ SweepInv
        /\ FlowsTracked /\ UkeysBacked /\ GoneInv
        /\ SameInv /\ FreshInv
    BY DEF Inv
  <1>p1. /\ hnd[f].act \in Acts /\ hnd[f].reval \in 0..MaxChanges
         /\ hnd[f].dumped \in BOOLEAN
         /\ dp[f] = None /\ hnd[f].pc = "install"
    BY <1>0, HandlerFields DEF UkeyInstall, HandlerInv
  <1>p2. LET u == NewUkey(hnd[f].act, hnd[f].reval, hnd[f].dumped, netdev, ~netdev)
         IN  /\ u \in UkeyTypes /\ u.act = hnd[f].act /\ u.reval = hnd[f].reval
             /\ u.exists = netdev /\ u.locked = ~netdev
    BY <1>0, <1>p1 DEF NewUkey, UkeyTypes, TypeOK
  <1>1. /\ hnd[f].pc = "install" /\ dp[f] = None
        /\ hnd' \in [Flows -> {Idle} \cup HandlerStates]
        /\ ukey' \in [Flows -> UkeyTypes \cup {NoUkey}]
        /\ hnd'[f] \in HandlerStates /\ hnd'[f].pc = "put" /\ hnd'[f].act = hnd[f].act
        /\ hnd'[f].reval = hnd[f].reval
        /\ ukey'[f] # NoUkey /\ ukey'[f].act = hnd[f].act /\ ukey'[f].reval = hnd[f].reval
        /\ UNCHANGED <<netdev, kind, policy, need, reval_seq, changes, dp, faults, astray>>
        /\ OnlyFlow(f)
    BY <1>0, <1>p1, <1>p2, HandlerFields, ConstantsLemma
       DEF UkeyInstall, TypeOK, ShapeInv, HandlerStates, OnlyFlow, main, system
  <1>2. (ukey'[f].exists <=> netdev) /\ (ukey'[f].locked <=> ~netdev)
    BY <1>0, <1>p2 DEF UkeyInstall, TypeOK
  <1>3. /\ /\ rev'.pc = rev.pc /\ rev'.reval = rev.reval /\ rev'.seen = rev.seen
        /\ rev'.ops = rev.ops /\ rev'.next = rev.next
        /\ rev' \in RevStates /\ rev'.todo \subseteq rev.todo \cup {f}
        /\ ~Sweeping => rev' = rev
        /\ Sweeping => rev'.moved
    <2>1. rev' = IF Sweeping THEN [rev EXCEPT !.moved = TRUE, !.todo = @ \cup {f}] ELSE rev
      BY DEF UkeyInstall, Sweeping
    <2>2. rev \in RevStates /\ rev.todo \subseteq Flows
      BY <1>0, RevFields DEF ShapeInv
    <2>3. CASE Sweeping
      BY <2>1, <2>2, <2>3 DEF RevStates
    <2>4. CASE ~Sweeping
      BY <2>1, <2>2, <2>4
    <2> QED
      BY <2>3, <2>4
  <1>4. \A i \in OpIndices : FlowOf(i) = f /\ ~Again(i) =>
          ~Sweeping /\ ~(Dumping /\ rev.next <= i) /\ Deletes(i)
    BY <1>0, <1>1 DEF SweepInv, DumpInv, ModifyInv
  <1>11. TypeOK'
    BY <1>0, <1>1, <1>2, <1>3 DEF TypeOK, OnlyFlow
  <1>12. ShapeInv'
    BY <1>0, <1>1, <1>3 DEF ShapeInv
  <1>13. SeqInv'
    BY <1>0, <1>1, <1>3 DEF SeqInv, OnlyFlow
  <1>14. HandlerInv'
    BY <1>0, <1>1, <1>3, <1>2 DEF HandlerInv, Fresh, OnlyFlow, UkeyGoes, Deletes, Alive
  <1>15. DumpInv'
    BY <1>0, <1>1, <1>3, <1>4, RevFields DEF
       DumpInv, Dumping, NotQueued, Distinct, OpIndices, FlowOf, Deletes, OnlyFlow,
          Sweeping, Again
  <1>16. ModifyInv'
    BY <1>0, <1>1, <1>3, <1>4, RevFields DEF
       ModifyInv, OpIndices, FlowOf, Deletes, Fresh, OnlyFlow, Again
  <1>17. SweepInv'
    BY <1>0, <1>1, <1>3, <1>4, RevFields DEF
       SweepInv, Sweeping, OpIndices, FlowOf, Deletes, OnlyFlow, Again
  <1>20. FlowsTracked'
    BY <1>0, <1>1 DEF FlowsTracked, OnlyFlow
  <1>21. UkeysBacked'
    BY <1>0, <1>1, <1>3 DEF UkeysBacked, UkeyGoes, Deletes, OnlyFlow, Alive
  <1>22. GoneInv'
    BY <1>0, <1>1, <1>2, <1>3 DEF GoneInv, Dumping, Queued, OnlyFlow
  <1>23. SameInv'
    BY <1>0, <1>1, <1>3 DEF SameInv, Queued, OnlyFlow
  <1>24. FreshInv'
    BY <1>0, <1>1 DEF FreshInv, Fresh, OnlyFlow, HandlerInv
  <1> QED
    BY <1>11, <1>12, <1>13, <1>14, <1>15, <1>16, <1>17, <1>20, <1>21,
       <1>22, <1>23, <1>24 DEF Inv

\* The kernel adds the flow.
LEMMA PutKernelStep ==
  ASSUME Inv, NEW f \in Flows, Put(f), ~netdev
  PROVE  Inv'
  <1>0. /\ TypeOK /\ ShapeInv /\ SeqInv /\ HandlerInv /\ DumpInv /\ ModifyInv /\ SweepInv
        /\ FlowsTracked /\ UkeysBacked /\ GoneInv
        /\ SameInv /\ FreshInv
    BY DEF Inv
  <1>1. /\ hnd[f].pc = "put" /\ dp[f] = None /\ dp'[f] = hnd[f].act
        /\ hnd[f].act \in Acts \ {None}
        /\ hnd' \in [Flows -> {Idle} \cup HandlerStates]
        /\ dp' \in [Flows -> Acts \cup {None}]
        /\ hnd'[f].pc = "done" /\ hnd'[f].reval = hnd[f].reval
        /\ hnd'[f].act = hnd[f].act /\ ~netdev /\ UNCHANGED astray
        /\ UNCHANGED <<netdev, kind, policy, need, reval_seq, changes, ukey, faults>>
        /\ OnlyFlow(f)
    BY <1>0, HandlerFields, ConstantsLemma
       DEF Put, TypeOK, ShapeInv, HandlerInv, HandlerStates, OnlyFlow, main, system
  <1>3. /\ rev' \in RevStates /\ rev'.pc = rev.pc /\ rev'.reval = rev.reval
        /\ rev'.seen = rev.seen
        /\ rev'.ops = rev.ops /\ rev'.next = rev.next /\ rev'.moved = rev.moved
        /\ rev'.todo = rev.todo \/ (Dumping /\ rev'.todo = rev.todo \cup {f})
    BY <1>0 DEF Put, MayBeDumped, Dumping, ShapeInv, RevStates
  <1>4. \A i \in OpIndices : FlowOf(i) = f => ~(Dumping /\ rev.next <= i)
    BY <1>0, <1>1 DEF DumpInv
  <1>5. ukey[f] # NoUkey /\ ukey[f].locked /\ ukey[f].act = hnd[f].act
    BY <1>0, <1>1 DEF TypeOK, HandlerInv
  <1>11. TypeOK'
    BY <1>0, <1>1, <1>3, IdleLemma DEF TypeOK, OnlyFlow
  <1>12. ShapeInv'
    BY <1>0, <1>1, <1>3 DEF ShapeInv
  <1>13. SeqInv'
    BY <1>0, <1>1, <1>3, IdleLemma DEF SeqInv, OnlyFlow
  <1>14. HandlerInv'
    BY <1>0, <1>1, <1>3, IdleLemma DEF HandlerInv, Fresh, OnlyFlow, UkeyGoes, Deletes, Alive
  <1>15. DumpInv'
    BY <1>0, <1>1, <1>3, <1>4, RevFields DEF
       DumpInv, Dumping, NotQueued, Distinct, OpIndices, FlowOf, Deletes, OnlyFlow,
          ShapeInv, Again
  <1>16. ModifyInv'
    BY <1>0, <1>1, <1>3 DEF ModifyInv, OpIndices, FlowOf, Deletes, Fresh, Again
  <1>17. SweepInv'
    BY <1>0, <1>1, <1>3, <1>5, RevFields DEF
       SweepInv, Sweeping, OpIndices, FlowOf, Deletes, OnlyFlow, Again
  <1>20. FlowsTracked'
    BY <1>0, <1>1, <1>5 DEF FlowsTracked, OnlyFlow
  <1>21. UkeysBacked'
    BY <1>0, <1>1, <1>3, <1>5 DEF UkeysBacked, UkeyGoes, Deletes, OnlyFlow, Alive
  <1>22. GoneInv'
    BY <1>0, <1>1, <1>3, <1>5 DEF GoneInv, Dumping, Queued, OnlyFlow
  <1>23. SameInv'
    BY <1>0, <1>1, <1>3, <1>5 DEF SameInv, Queued, OnlyFlow
  <1>24. FreshInv'
    BY <1>0, <1>1, IdleLemma DEF FreshInv, Fresh, OnlyFlow
  <1> QED
    BY <1>11, <1>12, <1>13, <1>14, <1>15, <1>16, <1>17, <1>20, <1>21,
       <1>22, <1>23, <1>24 DEF Inv

\* A PMD thread adds the flow in time.
LEMMA PutInTimeStep ==
  ASSUME Inv, NEW f \in Flows, Put(f), netdev /\ ~TooLate(f)
  PROVE  Inv'
  <1>0. /\ TypeOK /\ ShapeInv /\ SeqInv /\ HandlerInv /\ DumpInv /\ ModifyInv /\ SweepInv
        /\ FlowsTracked /\ UkeysBacked /\ GoneInv
        /\ SameInv /\ FreshInv
    BY DEF Inv
  <1>1. /\ hnd[f].pc = "put" /\ dp[f] = None /\ dp'[f] = hnd[f].act
        /\ hnd[f].act \in Acts \ {None}
        /\ hnd' \in [Flows -> {Idle} \cup HandlerStates]
        /\ dp' \in [Flows -> Acts \cup {None}]
        /\ hnd'[f] = Idle /\ netdev /\ UNCHANGED astray
        /\ UNCHANGED <<netdev, kind, policy, need, reval_seq, changes, ukey, faults>>
        /\ OnlyFlow(f)
    BY <1>0, HandlerFields, ConstantsLemma
       DEF Put, TypeOK, ShapeInv, HandlerInv, HandlerStates, OnlyFlow, main, system
  <1>3. /\ rev' \in RevStates /\ rev'.pc = rev.pc /\ rev'.reval = rev.reval
        /\ rev'.seen = rev.seen
        /\ rev'.ops = rev.ops /\ rev'.next = rev.next /\ rev'.moved = rev.moved
        /\ rev'.todo = rev.todo \/ (Dumping /\ rev'.todo = rev.todo \cup {f})
    BY <1>0 DEF Put, MayBeDumped, Dumping, ShapeInv, RevStates
  <1>4. \A i \in OpIndices : FlowOf(i) = f => ~(Dumping /\ rev.next <= i)
    BY <1>0, <1>1 DEF DumpInv
  <1>5. /\ ukey[f] # NoUkey /\ ukey[f].act = hnd[f].act /\ ukey[f].exists
        /\ \A i \in OpIndices : FlowOf(i) = f /\ ~Again(i) => rev.next <= i
    BY <1>0, <1>1, RevFields DEF TooLate, HandlerInv, OpIndices, FlowOf, Again
  <1>11. TypeOK'
    BY <1>0, <1>1, <1>3, IdleLemma DEF TypeOK, OnlyFlow
  <1>12. ShapeInv'
    BY <1>0, <1>1, <1>3 DEF ShapeInv
  <1>13. SeqInv'
    BY <1>0, <1>1, <1>3, IdleLemma DEF SeqInv, OnlyFlow
  <1>14. HandlerInv'
    BY <1>0, <1>1, <1>3, IdleLemma DEF HandlerInv, Fresh, OnlyFlow, UkeyGoes, Deletes, Alive
  <1>15. DumpInv'
    BY <1>0, <1>1, <1>3, <1>4, RevFields DEF
       DumpInv, Dumping, NotQueued, Distinct, OpIndices, FlowOf, Deletes, OnlyFlow,
          ShapeInv, Again
  <1>16. ModifyInv'
    BY <1>0, <1>1, <1>3 DEF ModifyInv, OpIndices, FlowOf, Deletes, Fresh, Again
  <1>17. SweepInv'
    BY <1>0, <1>1, <1>3, <1>5, RevFields DEF
       SweepInv, Sweeping, OpIndices, FlowOf, Deletes, OnlyFlow, Again
  <1>20. FlowsTracked'
    BY <1>0, <1>1, <1>5 DEF FlowsTracked, OnlyFlow
  <1>21. UkeysBacked'
    BY <1>0, <1>1, <1>3, <1>5 DEF UkeysBacked, UkeyGoes, Deletes, OnlyFlow, Alive
  <1>22. GoneInv'
    BY <1>0, <1>1, <1>3, <1>5 DEF GoneInv, Dumping, Queued, OnlyFlow
  <1>23. SameInv'
    BY <1>0, <1>1, <1>3, <1>5 DEF SameInv, Queued, OnlyFlow
  <1>24. FreshInv'
    BY <1>0, <1>1, IdleLemma DEF FreshInv, Fresh, OnlyFlow
  <1> QED
    BY <1>11, <1>12, <1>13, <1>14, <1>15, <1>16, <1>17, <1>20, <1>21,
       <1>22, <1>23, <1>24 DEF Inv

\* A PMD thread adds the flow too late.
LEMMA PutTooLateStep ==
  ASSUME Inv, NEW f \in Flows, Put(f), netdev /\ TooLate(f)
  PROVE  Inv'
  <1>0. /\ TypeOK /\ ShapeInv /\ SeqInv /\ HandlerInv /\ DumpInv /\ ModifyInv /\ SweepInv
        /\ FlowsTracked /\ UkeysBacked /\ GoneInv
        /\ SameInv /\ FreshInv
    BY DEF Inv
  <1>1. /\ hnd[f].pc = "put" /\ dp[f] = None /\ dp'[f] = hnd[f].act
        /\ hnd[f].act \in Acts \ {None}
        /\ hnd' \in [Flows -> {Idle} \cup HandlerStates]
        /\ dp' \in [Flows -> Acts \cup {None}]
        /\ hnd'[f] = Idle /\ netdev /\ astray' = astray \cup {f}
        /\ UNCHANGED <<netdev, kind, policy, need, reval_seq, changes, ukey, faults>>
        /\ OnlyFlow(f)
    BY <1>0, HandlerFields, ConstantsLemma
       DEF Put, TypeOK, ShapeInv, HandlerInv, HandlerStates, OnlyFlow, main, system
  <1>3. /\ rev' \in RevStates /\ rev'.pc = rev.pc /\ rev'.reval = rev.reval
        /\ rev'.seen = rev.seen
        /\ rev'.ops = rev.ops /\ rev'.next = rev.next /\ rev'.moved = rev.moved
        /\ rev'.todo = rev.todo \/ (Dumping /\ rev'.todo = rev.todo \cup {f})
    BY <1>0 DEF Put, MayBeDumped, Dumping, ShapeInv, RevStates
  <1>4. \A i \in OpIndices : FlowOf(i) = f => ~(Dumping /\ rev.next <= i)
    BY <1>0, <1>1 DEF DumpInv
  <1>11. TypeOK'
    BY <1>0, <1>1, <1>3, IdleLemma DEF TypeOK, OnlyFlow
  <1>12. ShapeInv'
    BY <1>0, <1>1, <1>3 DEF ShapeInv
  <1>13. SeqInv'
    BY <1>0, <1>1, <1>3, IdleLemma DEF SeqInv, OnlyFlow
  <1>14. HandlerInv'
    BY <1>0, <1>1, <1>3, IdleLemma DEF HandlerInv, Fresh, OnlyFlow, UkeyGoes, Deletes, Alive
  <1>15. DumpInv'
    BY <1>0, <1>1, <1>3, <1>4, RevFields DEF
       DumpInv, Dumping, NotQueued, Distinct, OpIndices, FlowOf, Deletes, OnlyFlow,
          ShapeInv, Again
  <1>16. ModifyInv'
    BY <1>0, <1>1, <1>3 DEF ModifyInv, OpIndices, FlowOf, Deletes, Fresh, Again
  <1>17. SweepInv'
    BY <1>0, <1>1, <1>3, RevFields DEF
       SweepInv, Sweeping, OpIndices, FlowOf, Deletes, OnlyFlow, Again
  <1>20. FlowsTracked'
    BY <1>0, <1>1 DEF FlowsTracked, OnlyFlow
  <1>21. UkeysBacked'
    BY <1>0, <1>1, <1>3 DEF UkeysBacked, UkeyGoes, Deletes, OnlyFlow, Alive
  <1>22. GoneInv'
    BY <1>0, <1>1, <1>3 DEF GoneInv, Dumping, Queued, OnlyFlow
  <1>23. SameInv'
    BY <1>0, <1>1, <1>3 DEF SameInv, Queued, OnlyFlow
  <1>24. FreshInv'
    BY <1>0, <1>1, IdleLemma DEF FreshInv, Fresh, OnlyFlow
  <1> QED
    BY <1>11, <1>12, <1>13, <1>14, <1>15, <1>16, <1>17, <1>20, <1>21,
       <1>22, <1>23, <1>24 DEF Inv

\* A flow is installed for a port of no bridge.
LEMMA NoPortStep ==
  ASSUME Inv, NEW f \in Flows, NoPort(f)
  PROVE  Inv'
  <1>0. /\ TypeOK /\ ShapeInv /\ SeqInv /\ HandlerInv /\ DumpInv /\ ModifyInv /\ SweepInv
        /\ FlowsTracked /\ UkeysBacked /\ GoneInv
        /\ SameInv /\ FreshInv
    BY DEF Inv
  <1>1. /\ hnd[f].pc = "idle" /\ dp[f] = None /\ dp'[f] = Drop /\ Drop \in Acts \ {None}
        /\ dp' \in [Flows -> Acts \cup {None}]
        /\ ~netdev /\ astray' = astray \cup {f}
        /\ UNCHANGED <<netdev, kind, policy, need, reval_seq, changes, ukey, hnd>>
        /\ faults' \in 0..MaxFaults /\ OnlyFlow(f)
    BY <1>0, ConstantsLemma, FlowCacheAssumption DEF NoPort, TypeOK, OnlyFlow, main, system
  <1>3. /\ rev' \in RevStates /\ rev'.pc = rev.pc /\ rev'.reval = rev.reval
        /\ rev'.seen = rev.seen
        /\ rev'.ops = rev.ops /\ rev'.next = rev.next /\ rev'.moved = rev.moved
        /\ rev'.todo = rev.todo \/ (Dumping /\ rev'.todo = rev.todo \cup {f})
    BY <1>0 DEF NoPort, MayBeDumped, Dumping, ShapeInv, RevStates
  <1>4. \A i \in OpIndices : FlowOf(i) = f => ~(Dumping /\ rev.next <= i)
    BY <1>0, <1>1 DEF DumpInv
  <1>11. TypeOK'
    BY <1>0, <1>1, <1>3 DEF TypeOK, OnlyFlow
  <1>12. ShapeInv'
    BY <1>0, <1>1, <1>3 DEF ShapeInv
  <1>13. SeqInv'
    BY <1>0, <1>1, <1>3 DEF SeqInv, OnlyFlow
  <1>14. HandlerInv'
    BY <1>0, <1>1, <1>3 DEF HandlerInv, Fresh, OnlyFlow, UkeyGoes, Deletes, Alive
  <1>15. DumpInv'
    BY <1>0, <1>1, <1>3, <1>4, RevFields DEF
       DumpInv, Dumping, NotQueued, Distinct, OpIndices, FlowOf, Deletes, OnlyFlow,
          ShapeInv, Again
  <1>16. ModifyInv'
    BY <1>0, <1>1, <1>3 DEF ModifyInv, OpIndices, FlowOf, Deletes, Fresh, Again
  <1>17. SweepInv'
    BY <1>0, <1>1, <1>3, RevFields DEF
       SweepInv, Sweeping, OpIndices, FlowOf, Deletes, OnlyFlow, Again
  <1>20. FlowsTracked'
    BY <1>0, <1>1 DEF FlowsTracked, OnlyFlow
  <1>21. UkeysBacked'
    BY <1>0, <1>1, <1>3 DEF UkeysBacked, UkeyGoes, Deletes, OnlyFlow, Alive
  <1>22. GoneInv'
    BY <1>0, <1>1, <1>3 DEF GoneInv, Dumping, Queued, OnlyFlow
  <1>23. SameInv'
    BY <1>0, <1>1, <1>3 DEF SameInv, Queued, OnlyFlow
  <1>24. FreshInv'
    BY <1>0, <1>1 DEF FreshInv, Fresh, OnlyFlow
  <1> QED
    BY <1>11, <1>12, <1>13, <1>14, <1>15, <1>16, <1>17, <1>20, <1>21,
       <1>22, <1>23, <1>24 DEF Inv

\* The kernel refuses.
LEMMA PutFailsStep ==
  ASSUME Inv, NEW f \in Flows, PutFails(f)
  PROVE  Inv'
  <1>0. /\ TypeOK /\ ShapeInv /\ SeqInv /\ HandlerInv /\ DumpInv /\ ModifyInv /\ SweepInv
        /\ FlowsTracked /\ UkeysBacked /\ GoneInv
        /\ SameInv /\ FreshInv
    BY DEF Inv
  <1>1. /\ hnd[f].pc = "put" /\ ~netdev
        /\ hnd' \in [Flows -> {Idle} \cup HandlerStates]
        /\ hnd'[f].pc = "failed" /\ hnd'[f].reval = hnd[f].reval
        /\ faults' \in 0..MaxFaults
        /\ UNCHANGED <<netdev, kind, policy, need, reval_seq, changes, dp, ukey, rev,
                       astray>>
        /\ OnlyFlow(f)
    BY SMTT(30), <1>0, HandlerFields, RangeLemma, ConstantsLemma
       DEF PutFails, TypeOK, ShapeInv, HandlerStates, OnlyFlow, main, system
  <1>11. TypeOK'
    BY <1>0, <1>1 DEF TypeOK, OnlyFlow
  <1>12. ShapeInv'
    BY <1>0, <1>1 DEF ShapeInv
  <1>13. SeqInv'
    BY <1>0, <1>1 DEF SeqInv, OnlyFlow
  <1>14. HandlerInv'
    BY <1>0, <1>1 DEF HandlerInv, Fresh, OnlyFlow, UkeyGoes, Deletes, Alive
  <1>15. DumpInv'
    BY <1>0, <1>1 DEF DumpInv, Dumping, NotQueued, Distinct, OpIndices, FlowOf, Deletes, Again
  <1>16. ModifyInv'
    BY <1>0, <1>1 DEF ModifyInv, OpIndices, FlowOf, Deletes, Fresh, Again
  <1>17. SweepInv'
    BY <1>0, <1>1 DEF SweepInv, Sweeping, OpIndices, FlowOf, Deletes, Again
  <1>20. FlowsTracked'
    BY <1>0, <1>1 DEF FlowsTracked
  <1>21. UkeysBacked'
    BY <1>0, <1>1 DEF UkeysBacked, UkeyGoes, Deletes, OnlyFlow, TypeOK, Alive
  <1>22. GoneInv'
    BY <1>0, <1>1 DEF GoneInv, Dumping, Queued
  <1>23. SameInv'
    BY <1>0, <1>1 DEF SameInv, Queued
  <1>24. FreshInv'
    BY <1>0, <1>1 DEF FreshInv, Fresh, OnlyFlow
  <1> QED
    BY <1>11, <1>12, <1>13, <1>14, <1>15, <1>16, <1>17, <1>20, <1>21,
       <1>22, <1>23, <1>24 DEF Inv

\* The handler finishes the installation.
LEMMA FinishStep ==
  ASSUME Inv, NEW f \in Flows, Finish(f)
  PROVE  Inv'
  <1>0. /\ TypeOK /\ ShapeInv /\ SeqInv /\ HandlerInv /\ DumpInv /\ ModifyInv /\ SweepInv
        /\ FlowsTracked /\ UkeysBacked /\ GoneInv
        /\ SameInv /\ FreshInv
    BY DEF Inv
  <1>p1. ukey[f] # NoUkey /\ ukey[f].locked /\ hnd[f].pc \in {"done", "failed"}
    BY <1>0 DEF Finish, TypeOK, HandlerInv
  <1>p2. LET u == [ukey[f] EXCEPT !.exists = hnd[f].pc = "done", !.locked = FALSE]
         IN  /\ u \in UkeyTypes /\ u.act = ukey[f].act /\ u.reval = ukey[f].reval
             /\ u.exists = (hnd[f].pc = "done") /\ u.locked = FALSE
             /\ ukey' = [ukey EXCEPT ![f] = u]
    BY <1>0, <1>p1, UkeyFields DEF Finish, UkeyTypes, TypeOK
  <1>1. /\ hnd[f].pc \in {"done", "failed"} /\ hnd'[f] = Idle
        /\ hnd' \in [Flows -> {Idle} \cup HandlerStates]
        /\ ukey' \in [Flows -> UkeyTypes \cup {NoUkey}]
        /\ ukey'[f] # NoUkey /\ ukey'[f].act = ukey[f].act /\ ukey'[f].reval = ukey[f].reval
        /\ UNCHANGED <<netdev, kind, policy, need, reval_seq, changes, dp, rev, faults,
                       astray>>
        /\ OnlyFlow(f)
    BY <1>0, <1>p2, <1>p1, ConstantsLemma DEF
       Finish, TypeOK, ShapeInv, OnlyFlow, main, system
  <1>2. (ukey'[f].exists <=> hnd[f].pc = "done") /\ ~ukey'[f].locked
    BY <1>0, <1>p2 DEF TypeOK
  <1>4. \A i \in OpIndices : FlowOf(i) = f /\ ~Again(i) =>
          ~Sweeping /\ ~(Dumping /\ rev.next <= i) /\ Deletes(i)
    BY <1>0, <1>1, <1>p1 DEF SweepInv, DumpInv, ModifyInv, HandlerInv
  <1>11. TypeOK'
    BY <1>0, <1>1, <1>2, IdleLemma DEF TypeOK, OnlyFlow
  <1>12. ShapeInv'
    BY <1>0, <1>1 DEF ShapeInv
  <1>13. SeqInv'
    BY <1>0, <1>1, <1>p1, IdleLemma DEF SeqInv, OnlyFlow
  <1>14. HandlerInv'
    BY <1>0, <1>1, <1>2, IdleLemma DEF HandlerInv, Fresh, OnlyFlow, UkeyGoes, Deletes, Alive
  <1>15. DumpInv'
    BY <1>0, <1>1, <1>4, RevFields DEF
       DumpInv, Dumping, NotQueued, Distinct, OpIndices, FlowOf, Deletes, OnlyFlow, Again
  <1>16. ModifyInv'
    BY <1>0, <1>1, <1>4, RevFields DEF
       ModifyInv, OpIndices, FlowOf, Deletes, Fresh, OnlyFlow, Again
  <1>17. SweepInv'
    BY <1>0, <1>1, <1>4, RevFields DEF
       SweepInv, Sweeping, OpIndices, FlowOf, Deletes, OnlyFlow, Again
  <1>20. FlowsTracked'
    BY <1>0, <1>1 DEF FlowsTracked, OnlyFlow
  <1>21. UkeysBacked'
    BY <1>0, <1>1, <1>2, IdleLemma DEF
       UkeysBacked, UkeyGoes, Deletes, OnlyFlow, HandlerInv, Alive
  <1>22. GoneInv'
    BY <1>0, <1>1, <1>2 DEF GoneInv, Dumping, Queued, OnlyFlow, HandlerInv
  <1>23. SameInv'
    BY <1>0, <1>1 DEF SameInv, Queued, OnlyFlow
  <1>24. FreshInv'
    BY <1>0, <1>1, <1>p1, IdleLemma DEF FreshInv, Fresh, OnlyFlow
  <1> QED
    BY <1>11, <1>12, <1>13, <1>14, <1>15, <1>16, <1>17, <1>20, <1>21,
       <1>22, <1>23, <1>24 DEF Inv

-----------------------------------------------------------------------------
(* The main thread.                                                        *)

\* A flow_mod changes the tables.
LEMMA ChangeRulesStep ==
  ASSUME Inv, NEW f \in Flows, NEW a \in Acts, ChangeRules(f, a)
  PROVE  Inv'
  <1>0. /\ TypeOK /\ ShapeInv /\ SeqInv /\ HandlerInv /\ DumpInv /\ ModifyInv /\ SweepInv
        /\ FlowsTracked /\ UkeysBacked /\ GoneInv
        /\ SameInv /\ FreshInv
    BY DEF Inv
  <1>1. /\ policy' \in [Flows -> Acts] /\ need' = TRUE /\ reval_seq' = reval_seq
        /\ changes' = changes + 1 /\ changes' \in 0..MaxChanges /\ reval_seq < changes'
        /\ UNCHANGED <<netdev, kind, dp, ukey, hnd, rev, astray, faults>>
    BY <1>0, RangeLemma, ConstantsLemma DEF ChangeRules, TypeOK, system
  <1>11. TypeOK'
    BY <1>0, <1>1, RangeLemma DEF TypeOK
  <1>12. ShapeInv'
    BY <1>0, <1>1 DEF ShapeInv
  <1>13. SeqInv'
    BY <1>0, <1>1 DEF SeqInv
  <1>14. HandlerInv'
    BY <1>0, <1>1 DEF HandlerInv, Fresh, UkeyGoes, Deletes, Alive
  <1>15. DumpInv'
    BY <1>0, <1>1 DEF DumpInv, Dumping, NotQueued, Distinct, OpIndices, FlowOf, Deletes, Again
  <1>16. ModifyInv'
    BY <1>0, <1>1 DEF ModifyInv, OpIndices, FlowOf, Deletes, Fresh, Again
  <1>17. SweepInv'
    BY <1>0, <1>1 DEF SweepInv, Sweeping, OpIndices, FlowOf, Deletes, Again
  <1>20. FlowsTracked'
    BY <1>0, <1>1 DEF FlowsTracked
  <1>21. UkeysBacked'
    BY <1>0, <1>1 DEF UkeysBacked, UkeyGoes, Deletes, Alive
  <1>22. GoneInv'
    BY <1>0, <1>1 DEF GoneInv, Dumping, Queued
  <1>23. SameInv'
    BY <1>0, <1>1 DEF SameInv, Queued
  <1>24. FreshInv'
    BY <1>0, <1>1 DEF FreshInv, Fresh
  <1> QED
    BY <1>11, <1>12, <1>13, <1>14, <1>15, <1>16, <1>17, <1>20, <1>21,
       <1>22, <1>23, <1>24 DEF Inv

\* A gateway or a session changes what the GTP manager does.
LEMMA ChangeSessionsStep ==
  ASSUME Inv, NEW f \in Flows, NEW a \in Acts, ChangeSessions(f, a)
  PROVE  Inv'
  <1>0. /\ TypeOK /\ ShapeInv /\ SeqInv /\ HandlerInv /\ DumpInv /\ ModifyInv /\ SweepInv
        /\ FlowsTracked /\ UkeysBacked /\ GoneInv
        /\ SameInv /\ FreshInv
    BY DEF Inv
  <1>1. /\ policy' \in [Flows -> Acts] /\ need' = need /\ reval_seq' = reval_seq
        /\ changes' = changes + 1 /\ changes' \in 0..MaxChanges /\ reval_seq < changes'
        /\ \A g \in Flows : kind[g] = "plain" => policy'[g] = policy[g]
        /\ UNCHANGED <<netdev, kind, dp, ukey, hnd, rev, astray, faults>>
    BY <1>0, RangeLemma, ConstantsLemma DEF ChangeSessions, TypeOK, system
  <1>11. TypeOK'
    BY <1>0, <1>1, RangeLemma DEF TypeOK
  <1>12. ShapeInv'
    BY <1>0, <1>1 DEF ShapeInv
  <1>13. SeqInv'
    BY <1>0, <1>1 DEF SeqInv
  <1>14. HandlerInv'
    BY <1>0, <1>1 DEF HandlerInv, Fresh, UkeyGoes, Deletes, Alive
  <1>15. DumpInv'
    BY <1>0, <1>1 DEF DumpInv, Dumping, NotQueued, Distinct, OpIndices, FlowOf, Deletes, Again
  <1>16. ModifyInv'
    BY <1>0, <1>1, RevFields DEF ModifyInv, OpIndices, FlowOf, Deletes, Fresh, Again
  <1>17. SweepInv'
    BY <1>0, <1>1 DEF SweepInv, Sweeping, OpIndices, FlowOf, Deletes, Again
  <1>20. FlowsTracked'
    BY <1>0, <1>1 DEF FlowsTracked
  <1>21. UkeysBacked'
    BY <1>0, <1>1 DEF UkeysBacked, UkeyGoes, Deletes, Alive
  <1>22. GoneInv'
    BY <1>0, <1>1 DEF GoneInv, Dumping, Queued
  <1>23. SameInv'
    BY <1>0, <1>1 DEF SameInv, Queued
  <1>24. FreshInv'
    BY <1>0, <1>1 DEF FreshInv, Fresh
  <1> QED
    BY <1>11, <1>12, <1>13, <1>14, <1>15, <1>16, <1>17, <1>20, <1>21,
       <1>22, <1>23, <1>24 DEF Inv

\* udpif_revalidate() makes the numbers of all ukeys old.
LEMMA RevalidateStep ==
  ASSUME Inv, Revalidate
  PROVE  Inv'
  <1>0. /\ TypeOK /\ ShapeInv /\ SeqInv /\ HandlerInv /\ DumpInv /\ ModifyInv /\ SweepInv
        /\ FlowsTracked /\ UkeysBacked /\ GoneInv
        /\ SameInv /\ FreshInv
    BY DEF Inv
  <1>1. /\ need' = FALSE /\ reval_seq' = reval_seq + 1 /\ reval_seq' \in 0..changes
        /\ reval_seq \in Nat
        /\ UNCHANGED <<policy, changes>>
        /\ UNCHANGED <<netdev, kind, dp, ukey, hnd, rev, astray, faults>>
    BY <1>0, RangeLemma, ConstantsLemma DEF Revalidate, TypeOK, SeqInv, system
  <1>2. \A f \in Flows :
          /\ ukey[f] # NoUkey => ukey[f].reval \in Nat /\ ukey[f].reval <= reval_seq
          /\ hnd[f].pc # "idle" => hnd[f].reval \in Nat /\ hnd[f].reval <= reval_seq
    <2> TAKE f \in Flows
    <2>1. ASSUME ukey[f] # NoUkey PROVE ukey[f].reval \in Nat /\ ukey[f].reval <= reval_seq
      BY <1>0, <2>1, UkeyFields, ConstantsLemma DEF SeqInv
    <2>2. ASSUME hnd[f].pc # "idle" PROVE hnd[f].reval \in Nat /\ hnd[f].reval <= reval_seq
      BY <1>0, <2>2, HandlerFields, ConstantsLemma DEF SeqInv
    <2> QED
      BY <2>1, <2>2
  <1>3. rev.reval \in Nat /\ rev.reval <= reval_seq
    BY <1>0, RevFields, ConstantsLemma DEF SeqInv
  <1>11. TypeOK'
    BY <1>0, <1>1 DEF TypeOK
  <1>12. ShapeInv'
    BY <1>0, <1>1 DEF ShapeInv
  <1>13. SeqInv'
    BY <1>0, <1>1, <1>2, <1>3 DEF SeqInv
  <1>14. HandlerInv'
    BY <1>0, <1>1, <1>3, <1>2 DEF HandlerInv, Fresh, UkeyGoes, Deletes, Alive
  <1>15. DumpInv'
    BY <1>0, <1>1 DEF DumpInv, Dumping, NotQueued, Distinct, OpIndices, FlowOf, Deletes, Again
  <1>16. ModifyInv'
    BY <1>0, <1>1, <1>2, RevFields DEF ModifyInv, OpIndices, FlowOf, Deletes, Fresh, Again
  <1>17. SweepInv'
    BY <1>0, <1>1 DEF SweepInv, Sweeping, OpIndices, FlowOf, Deletes, Again
  <1>20. FlowsTracked'
    BY <1>0, <1>1 DEF FlowsTracked
  <1>21. UkeysBacked'
    BY <1>0, <1>1 DEF UkeysBacked, UkeyGoes, Deletes, Alive
  <1>22. GoneInv'
    BY <1>0, <1>1 DEF GoneInv, Dumping, Queued
  <1>23. SameInv'
    BY <1>0, <1>1 DEF SameInv, Queued
  <1>24. FreshInv'
    BY <1>0, <1>1, <1>2 DEF FreshInv, Fresh
  <1> QED
    BY <1>11, <1>12, <1>13, <1>14, <1>15, <1>16, <1>17, <1>20, <1>21,
       <1>22, <1>23, <1>24 DEF Inv

\* The threads are stopped, and the flows are purged.
LEMMA PurgeStep ==
  ASSUME Inv, Purge
  PROVE  Inv'
  <1>0. /\ TypeOK /\ ShapeInv /\ SeqInv /\ HandlerInv /\ DumpInv /\ ModifyInv /\ SweepInv
        /\ FlowsTracked /\ UkeysBacked /\ GoneInv
        /\ SameInv /\ FreshInv
    BY DEF Inv
  <1>p1. PICK missed \in SUBSET Purged :
          /\ missed # {} => faults < MaxFaults
          /\ faults' = IF missed = {} THEN faults ELSE faults + 1
          /\ dp' = [f \in Flows |-> IF f \in Purged \ missed THEN None ELSE dp[f]]
          /\ astray' = (astray \ (Purged \ missed)) \cup missed
    BY DEF Purge
  <1>1. /\ rev.pc = "wait" /\ rev.ops = <<>> /\ \A f \in Flows : hnd[f].pc = "idle"
        /\ ukey' \in [Flows -> UkeyTypes \cup {NoUkey}]
        /\ \A f \in Flows : ukey'[f] = NoUkey
        /\ dp' \in [Flows -> Acts \cup {None}] /\ astray' \subseteq Flows
        /\ faults' \in 0..MaxFaults
        /\ UNCHANGED <<netdev, kind, policy, need, reval_seq, changes, hnd, rev>>
    <2>1. faults' \in 0..MaxFaults
      BY <1>0, <1>p1, RangeLemma, ConstantsLemma DEF TypeOK
    <2>2. astray' \subseteq Flows /\ dp' \in [Flows -> Acts \cup {None}]
      BY <1>0, <1>p1 DEF TypeOK, Purged
    <2>3. ukey' = [f \in Flows |-> NoUkey] /\ Stopped /\ UNCHANGED <<netdev, kind, policy,
                                                                     need, reval_seq, changes, hnd, rev>>
      BY DEF Purge, main, system
    <2> QED
      BY <1>0, <2>1, <2>2, <2>3 DEF Stopped, TypeOK
  <1>2. \A f \in Flows \ astray' : dp'[f] = None
    <2> SUFFICES ASSUME NEW f \in Flows, f \notin astray', dp'[f] # None PROVE FALSE
      OBVIOUS
    <2>1. f \notin Purged /\ f \notin astray /\ dp[f] # None
      BY <1>p1
    <2>2. ukey[f] # NoUkey /\ ~ukey[f].exists /\ ~ukey[f].locked
      BY <1>0, <1>1, <2>1 DEF Purged, FlowsTracked, TypeOK
    <2> QED
      BY <1>0, <1>1, <2>1, <2>2 DEF GoneInv, Dumping
  <1>11. TypeOK'
    BY <1>0, <1>1 DEF TypeOK
  <1>12. ShapeInv'
    BY <1>0, <1>1 DEF ShapeInv
  <1>13. SeqInv'
    BY <1>0, <1>1 DEF SeqInv
  <1>14. HandlerInv'
    BY <1>0, <1>1 DEF HandlerInv, Fresh, UkeyGoes, Deletes, Alive
  <1>15. DumpInv'
    BY <1>1 DEF DumpInv, Dumping, Again
  <1>16. ModifyInv'
    BY <1>1 DEF ModifyInv, OpIndices, Again
  <1>17. SweepInv'
    BY <1>1 DEF SweepInv, Sweeping, Again
  <1>20. FlowsTracked'
    BY <1>0, <1>1, <1>2 DEF FlowsTracked
  <1>21. UkeysBacked'
    BY <1>0, <1>1 DEF UkeysBacked, UkeyGoes, Deletes, Alive
  <1>22. GoneInv'
    BY <1>0, <1>1 DEF GoneInv, Dumping, Queued
  <1>23. SameInv'
    BY <1>0, <1>1, <1>2 DEF SameInv, Queued
  <1>24. FreshInv'
    BY <1>0, <1>1 DEF FreshInv, Fresh
  <1> QED
    BY <1>11, <1>12, <1>13, <1>14, <1>15, <1>16, <1>17, <1>20, <1>21,
       <1>22, <1>23, <1>24 DEF Inv

\* The threads are stopped, and the datapath is emptied.
LEMMA FlushStep ==
  ASSUME Inv, Flush
  PROVE  Inv'
  <1>0. /\ TypeOK /\ ShapeInv /\ SeqInv /\ HandlerInv /\ DumpInv /\ ModifyInv /\ SweepInv
        /\ FlowsTracked /\ UkeysBacked /\ GoneInv
        /\ SameInv /\ FreshInv
    BY DEF Inv
  <1>1. /\ rev.pc = "wait" /\ rev.ops = <<>> /\ \A f \in Flows : hnd[f].pc = "idle"
        /\ ukey' \in [Flows -> UkeyTypes \cup {NoUkey}]
        /\ \A f \in Flows : ukey'[f] = NoUkey
        /\ dp' \in [Flows -> Acts \cup {None}] /\ astray' \subseteq Flows
        /\ faults' \in 0..MaxFaults
        /\ UNCHANGED <<netdev, kind, policy, need, reval_seq, changes, hnd, rev>>
        /\ \A f \in Flows : dp'[f] = None
    BY <1>0, RangeLemma, ConstantsLemma DEF Flush, Stopped, TypeOK, main, system
  <1>11. TypeOK'
    BY <1>0, <1>1 DEF TypeOK
  <1>12. ShapeInv'
    BY <1>0, <1>1 DEF ShapeInv
  <1>13. SeqInv'
    BY <1>0, <1>1 DEF SeqInv
  <1>14. HandlerInv'
    BY <1>0, <1>1 DEF HandlerInv, Fresh, UkeyGoes, Deletes, Alive
  <1>15. DumpInv'
    BY <1>1 DEF DumpInv, Dumping, Again
  <1>16. ModifyInv'
    BY <1>1 DEF ModifyInv, OpIndices, Again
  <1>17. SweepInv'
    BY <1>1 DEF SweepInv, Sweeping, Again
  <1>20. FlowsTracked'
    BY <1>0, <1>1 DEF FlowsTracked
  <1>21. UkeysBacked'
    BY <1>0, <1>1 DEF UkeysBacked, UkeyGoes, Deletes, Alive
  <1>22. GoneInv'
    BY <1>0, <1>1 DEF GoneInv, Dumping, Queued
  <1>23. SameInv'
    BY <1>0, <1>1 DEF SameInv, Queued
  <1>24. FreshInv'
    BY <1>0, <1>1 DEF FreshInv, Fresh
  <1> QED
    BY <1>11, <1>12, <1>13, <1>14, <1>15, <1>16, <1>17, <1>20, <1>21,
       <1>22, <1>23, <1>24 DEF Inv

-----------------------------------------------------------------------------
(* The revalidator dumps flows.                                            *)

\* A round starts.
LEMMA StartRoundStep ==
  ASSUME Inv, StartRound
  PROVE  Inv'
  <1>0. /\ TypeOK /\ ShapeInv /\ SeqInv /\ HandlerInv /\ DumpInv /\ ModifyInv /\ SweepInv
        /\ FlowsTracked /\ UkeysBacked /\ GoneInv
        /\ SameInv /\ FreshInv
    BY DEF Inv
  <1>1. /\ rev.pc = "wait" /\ rev.ops = <<>> /\ rev.next = 1
        /\ rev'.pc = "dump" /\ rev'.reval = reval_seq
        /\ rev'.todo = {f \in Flows : dp[f] # None}
        /\ rev'.seen = rev.seen /\ rev'.moved = rev.moved
        /\ rev'.ops = rev.ops /\ rev'.next = rev.next /\ rev' \in RevStates
        /\ UNCHANGED <<netdev, kind, policy, need, reval_seq, changes, dp, ukey, hnd,
                       faults, astray>>
    BY <1>0, RangeLemma DEF StartRound, TypeOK, ShapeInv, RevStates, main, system
  <1>11. TypeOK'
    BY <1>0, <1>1 DEF TypeOK
  <1>12. ShapeInv'
    BY <1>0, <1>1 DEF ShapeInv
  <1>13. SeqInv'
    BY <1>0, <1>1, RangeLemma DEF SeqInv
  <1>14. HandlerInv'
    BY <1>0, <1>1 DEF HandlerInv, Fresh, UkeyGoes, Deletes, Alive
  <1>15. DumpInv'
    BY <1>0, <1>1 DEF DumpInv, Dumping, NotQueued, Distinct, OpIndices, FlowOf, Deletes, Again
  <1>16. ModifyInv'
    BY <1>0, <1>1 DEF ModifyInv, OpIndices, FlowOf, Deletes, Fresh, Again
  <1>17. SweepInv'
    BY <1>0, <1>1 DEF SweepInv, Sweeping, OpIndices, FlowOf, Deletes, Again
  <1>20. FlowsTracked'
    BY <1>0, <1>1 DEF FlowsTracked
  <1>21. UkeysBacked'
    BY <1>0, <1>1 DEF UkeysBacked, UkeyGoes, Deletes, Alive
  <1>22. GoneInv'
    BY <1>0, <1>1 DEF GoneInv, Dumping, Queued
  <1>23. SameInv'
    BY <1>0, <1>1 DEF SameInv, Queued
  <1>24. FreshInv'
    BY <1>0, <1>1 DEF FreshInv, Fresh
  <1> QED
    BY <1>11, <1>12, <1>13, <1>14, <1>15, <1>16, <1>17, <1>20, <1>21,
       <1>22, <1>23, <1>24 DEF Inv

\* A flow without ukey is adopted.
LEMMA AdoptStep ==
  ASSUME Inv, NEW f \in Flows, Adopt(f)
  PROVE  Inv'
  <1>0. /\ TypeOK /\ ShapeInv /\ SeqInv /\ HandlerInv /\ DumpInv /\ ModifyInv /\ SweepInv
        /\ FlowsTracked /\ UkeysBacked /\ GoneInv
        /\ SameInv /\ FreshInv
    BY DEF Inv
  <1>p1. LET u == NewUkey(IF dp[f] = Drop THEN Drop ELSE Garbage, reval_seq, TRUE, TRUE, FALSE)
         IN  u \in UkeyTypes /\ u.reval = reval_seq /\ u.exists = TRUE /\ u.locked = FALSE
    BY <1>0, RangeLemma, ConstantsLemma DEF NewUkey, UkeyTypes
  <1>1. /\ rev.pc = "dump" /\ f \in rev.todo /\ rev.next = 1
        /\ rev'.pc = rev.pc /\ rev'.reval = rev.reval /\ rev'.todo = rev.todo \ {f}
        /\ rev'.seen = rev.seen /\ rev'.moved = rev.moved
        /\ rev'.ops = rev.ops /\ rev'.next = rev.next /\ rev' \in RevStates
        /\ ukey[f] = NoUkey
        /\ ukey' \in [Flows -> UkeyTypes \cup {NoUkey}]
        /\ ukey'[f] # NoUkey /\ ukey'[f].reval = reval_seq /\ astray' = astray \cup {f}
        /\ UNCHANGED <<netdev, kind, policy, need, reval_seq, changes, dp, hnd, faults>>
        /\ OnlyFlow(f)
    BY <1>0, <1>p1, ConstantsLemma DEF
       Adopt, TypeOK, ShapeInv, RevStates, OnlyFlow, main, system
  <1>2. ukey'[f].exists /\ ~ukey'[f].locked
    BY <1>0, <1>p1 DEF Adopt, TypeOK
  <1>4. dp[f] # None /\ \A i \in OpIndices : FlowOf(i) # f
    BY <1>0, <1>1, RevFields DEF DumpInv, Dumping, NotQueued, OpIndices
  <1>5. hnd[f].pc = "idle"
    BY <1>0, <1>1, <1>4, HandlerFields DEF HandlerInv, TypeOK, HandlerStates
  <1>11. TypeOK'
    BY <1>0, <1>1, <1>2, <1>5 DEF TypeOK, OnlyFlow
  <1>12. ShapeInv'
    BY <1>0, <1>1 DEF ShapeInv
  <1>13. SeqInv'
    BY <1>0, <1>1, RangeLemma DEF SeqInv, OnlyFlow
  <1>14. HandlerInv'
    BY <1>0, <1>1, <1>5 DEF HandlerInv, Fresh, OnlyFlow, UkeyGoes, Deletes, Alive
  <1>15. DumpInv'
    BY <1>0, <1>1, <1>4, RevFields DEF
       DumpInv, Dumping, NotQueued, Distinct, OpIndices, FlowOf, Deletes, OnlyFlow, Again
  <1>16. ModifyInv'
    BY <1>0, <1>1, <1>4, RevFields DEF
       ModifyInv, OpIndices, FlowOf, Deletes, Fresh, OnlyFlow, Again
  <1>17. SweepInv'
    BY <1>0, <1>1 DEF SweepInv, Sweeping, OpIndices, FlowOf, Deletes, Again
  <1>20. FlowsTracked'
    BY <1>0, <1>1 DEF FlowsTracked, OnlyFlow
  <1>21. UkeysBacked'
    BY <1>0, <1>1, <1>2, <1>4 DEF UkeysBacked, UkeyGoes, Deletes, OnlyFlow, Alive
  <1>22. GoneInv'
    BY <1>0, <1>1, <1>2 DEF GoneInv, Dumping, Queued, OnlyFlow
  <1>23. SameInv'
    BY <1>0, <1>1 DEF SameInv, Queued, OnlyFlow
  <1>24. FreshInv'
    BY <1>0, <1>1, <1>5 DEF FreshInv, Fresh, OnlyFlow
  <1> QED
    BY <1>11, <1>12, <1>13, <1>14, <1>15, <1>16, <1>17, <1>20, <1>21,
       <1>22, <1>23, <1>24 DEF Inv

\* A flow without ukey is to be deleted.
LEMMA RejectStep ==
  ASSUME Inv, NEW f \in Flows, Reject(f)
  PROVE  Inv'
  <1>0. /\ TypeOK /\ ShapeInv /\ SeqInv /\ HandlerInv /\ DumpInv /\ ModifyInv /\ SweepInv
        /\ FlowsTracked /\ UkeysBacked /\ GoneInv
        /\ SameInv /\ FreshInv
    BY DEF Inv
  <1>p3. Op(f, "delete", "live") \in Ops /\ Op(f, "delete", "live").ukey = "live"
         /\ Op(f, "delete", "live").flow = f /\ Op(f, "delete", "live").act = None
    BY DEF Op, Ops
  <1>1. /\ rev.pc = "dump" /\ f \in rev.todo /\ rev.next = 1
        /\ rev'.pc = rev.pc /\ rev'.reval = rev.reval /\ rev'.todo = rev.todo \ {f}
        /\ rev'.moved = rev.moved
        /\ rev'.ops = Append(rev.ops, Op(f, "delete", "live")) /\ rev'.next = rev.next
        /\ rev' \in RevStates
        /\ ukey[f] = NoUkey
        /\ UNCHANGED <<netdev, kind, policy, need, reval_seq, changes, dp, ukey, hnd,
                       faults, astray>>
    <2> DEFINE r == [rev EXCEPT !.todo = @ \ {f}, !.seen = @ \cup {f}]
               t == [r EXCEPT !.ops = Append(@, Op(f, "delete", "live"))]
    <2>1. rev' = t /\ rev.pc = "dump" /\ f \in rev.todo /\ ukey[f] = NoUkey
          /\ UNCHANGED <<netdev, kind, policy, need, reval_seq, changes, dp, ukey, hnd,
                         faults, astray>>
      BY DEF Reject, AddOp, main, system
    <2>2. rev \in RevStates /\ rev.ops \in Seq(Ops) /\ rev.next = 1
      BY <1>0, <2>1, RevFields DEF ShapeInv
    <2>3. Append(rev.ops, Op(f, "delete", "live")) \in Seq(Ops)
      BY <2>2, <1>p3, AppendLemma
    <2> QED
      BY <2>1, <2>2, <2>3 DEF RevStates
  <1>7. LET n == Len(rev.ops) IN
        /\ n \in Nat /\ Len(rev'.ops) = n + 1 /\ rev'.ops[n + 1] = Op(f, "delete", "live")
        /\ \A i \in 1..n : rev'.ops[i] = rev.ops[i]
    BY <1>0, <1>1, <1>p3, RevFields, AppendLemma
  <1>8. \A i \in OpIndices' : i \in OpIndices \/ i = Len(rev.ops) + 1
    BY <1>7 DEF OpIndices
  <1>4. dp[f] # None /\ \A i \in OpIndices : FlowOf(i) # f
    BY <1>0, <1>1, RevFields DEF DumpInv, Dumping, NotQueued, OpIndices
  <1>11. TypeOK'
    BY <1>0, <1>1 DEF TypeOK
  <1>12. ShapeInv'
    BY <1>0, <1>1, <1>7, RevFields DEF ShapeInv
  <1>13. SeqInv'
    BY <1>0, <1>1 DEF SeqInv
  <1>14. HandlerInv'
    BY <1>0, <1>1 DEF HandlerInv, Fresh, UkeyGoes, Deletes, Alive
  <1>15. DumpInv'
    BY <1>0, <1>1, <1>7, <1>8, <1>4, <1>p3, RevFields DEF
       DumpInv, Dumping, NotQueued, Distinct, OpIndices, FlowOf, Deletes, Again
  <1>16. ModifyInv'
    BY <1>0, <1>1, <1>7, <1>8, <1>4, <1>p3, RevFields DEF
       ModifyInv, OpIndices, FlowOf, Deletes, Fresh, Again
  <1>17. SweepInv'
    BY <1>0, <1>1 DEF SweepInv, Sweeping, OpIndices, FlowOf, Deletes, Again
  <1>20. FlowsTracked'
    BY <1>0, <1>1 DEF FlowsTracked
  <1>21. UkeysBacked'
    BY <1>0, <1>1 DEF UkeysBacked, UkeyGoes, Deletes, Alive
  <1>22. GoneInv'
    BY <1>0, <1>1, <1>7, RevFields DEF GoneInv, Dumping, Queued
  <1>23. SameInv'
    BY <1>0, <1>1, <1>7, RevFields DEF SameInv, Queued
  <1>24. FreshInv'
    BY <1>0, <1>1 DEF FreshInv, Fresh
  <1> QED
    BY <1>11, <1>12, <1>13, <1>14, <1>15, <1>16, <1>17, <1>20, <1>21,
       <1>22, <1>23, <1>24 DEF Inv

\* A flow whose ukey is in use is left alone.
LEMMA SkipDumpedStep ==
  ASSUME Inv, NEW f \in Flows, SkipDumped(f)
  PROVE  Inv'
  <1>0. /\ TypeOK /\ ShapeInv /\ SeqInv /\ HandlerInv /\ DumpInv /\ ModifyInv /\ SweepInv
        /\ FlowsTracked /\ UkeysBacked /\ GoneInv
        /\ SameInv /\ FreshInv
    BY DEF Inv
  <1>1. /\ rev.pc = "dump" /\ f \in rev.todo /\ rev.next = 1
        /\ rev'.pc = rev.pc /\ rev'.reval = rev.reval /\ rev'.todo = rev.todo \ {f}
        /\ rev'.seen = rev.seen /\ rev'.moved = rev.moved
        /\ rev'.ops = rev.ops /\ rev'.next = rev.next /\ rev' \in RevStates
        /\ UNCHANGED <<netdev, kind, policy, need, reval_seq, changes, dp, ukey, hnd,
                       faults, astray>>
    BY <1>0 DEF SkipDumped, ShapeInv, RevStates, main, system
  <1>11. TypeOK'
    BY <1>0, <1>1 DEF TypeOK
  <1>12. ShapeInv'
    BY <1>0, <1>1 DEF ShapeInv
  <1>13. SeqInv'
    BY <1>0, <1>1 DEF SeqInv
  <1>14. HandlerInv'
    BY <1>0, <1>1 DEF HandlerInv, Fresh, UkeyGoes, Deletes, Alive
  <1>15. DumpInv'
    BY <1>0, <1>1 DEF DumpInv, Dumping, NotQueued, Distinct, OpIndices, FlowOf, Deletes, Again
  <1>16. ModifyInv'
    BY <1>0, <1>1 DEF ModifyInv, OpIndices, FlowOf, Deletes, Fresh, Again
  <1>17. SweepInv'
    BY <1>0, <1>1 DEF SweepInv, Sweeping, OpIndices, FlowOf, Deletes, Again
  <1>20. FlowsTracked'
    BY <1>0, <1>1 DEF FlowsTracked
  <1>21. UkeysBacked'
    BY <1>0, <1>1 DEF UkeysBacked, UkeyGoes, Deletes, Alive
  <1>22. GoneInv'
    BY <1>0, <1>1 DEF GoneInv, Dumping, Queued
  <1>23. SameInv'
    BY <1>0, <1>1 DEF SameInv, Queued
  <1>24. FreshInv'
    BY <1>0, <1>1 DEF FreshInv, Fresh
  <1> QED
    BY <1>11, <1>12, <1>13, <1>14, <1>15, <1>16, <1>17, <1>20, <1>21,
       <1>22, <1>23, <1>24 DEF Inv

\* A dumped flow is kept.
LEMMA DumpFlowKeepStep ==
  ASSUME Inv, NEW f \in Flows, DumpFlow(f), DumpResult(f, "keep")
  PROVE  Inv'
  <1>0. /\ TypeOK /\ ShapeInv /\ SeqInv /\ HandlerInv /\ DumpInv /\ ModifyInv /\ SweepInv
        /\ FlowsTracked /\ UkeysBacked /\ GoneInv
        /\ SameInv /\ FreshInv
    BY DEF Inv
  <1>p1. /\ ukey[f] # NoUkey /\ ~ukey[f].locked
         /\ rev.pc = "dump" /\ f \in rev.todo
         /\ "keep" \in RevalidateUkey(ukey[f], f, rev.reval)
         /\ ukey' = [ukey EXCEPT ![f] = AfterDump(f, "keep")]
         /\ rev' = AddOp([rev EXCEPT !.todo = @ \ {f}], f, "keep", "live")
         /\ UNCHANGED <<netdev, kind, policy, need, reval_seq, changes, dp, hnd, faults,
                        astray>>
    BY DEF DumpFlow, DumpResult, main, system
  <1>p2. LET u == AfterDump(f, "keep")
         IN  /\ u \in UkeyTypes /\ ~u.locked /\ u.exists
             /\ u.act = ukey[f].act /\ u.reval = rev.reval
    BY <1>0, <1>p1, UkeyFields, RetranslatedLemma, RevFields DEF
       AfterDump, Revalidated, UkeyTypes
  <1>1. /\ rev.pc = "dump" /\ f \in rev.todo
        /\ ukey[f] # NoUkey /\ ~ukey[f].locked /\ rev.next = 1
        /\ rev'.pc = rev.pc /\ rev'.reval = rev.reval /\ rev'.todo = rev.todo \ {f}
        /\ rev'.seen = rev.seen /\ rev'.moved = rev.moved
        /\ rev'.ops = rev.ops /\ rev'.next = rev.next /\ rev' \in RevStates
        /\ ukey' \in [Flows -> UkeyTypes \cup {NoUkey}]
        /\ ukey'[f] # NoUkey
        /\ ukey'[f].act = ukey[f].act /\ ukey'[f].reval = rev.reval
        /\ UNCHANGED <<netdev, kind, policy, need, reval_seq, changes, dp, hnd, faults,
                       astray>>
        /\ OnlyFlow(f)
    <2> DEFINE r == [rev EXCEPT !.todo = @ \ {f}]
               t == r
    <2>1. rev' = t /\ UNCHANGED <<netdev, kind, policy, need, reval_seq, changes, dp, hnd,
                                  faults, astray>>
      BY <1>p1 DEF AddOp
    <2>2. rev \in RevStates /\ rev.ops \in Seq(Ops) /\ rev.next = 1
      BY <1>0, <1>p1, RevFields DEF ShapeInv
    <2>3. r.pc = rev.pc /\ r.reval = rev.reval /\ r.todo = rev.todo \ {f}
          /\ r.seen = rev.seen
          /\ r.moved = rev.moved /\ r.ops = rev.ops /\ r.next = rev.next /\ r \in RevStates
      BY <2>2 DEF RevStates
    <2> HIDE DEF r
    <2>5. rev'.pc = rev.pc /\ rev'.reval = rev.reval /\ rev'.todo = rev.todo \ {f}
          /\ rev'.moved = rev.moved /\ rev'.seen = rev.seen
          /\ rev'.ops = rev.ops /\ rev'.next = rev.next /\ rev' \in RevStates
      BY <2>1, <2>2, <2>3 DEF RevStates
    <2> QED
      BY <1>0, <1>p1, <1>p2, <2>1, <2>2, <2>5, ConstantsLemma DEF TypeOK, OnlyFlow
  <1>2. ~ukey'[f].locked /\ ukey'[f].exists
    BY <1>0, <1>p1, <1>p2 DEF TypeOK
  <1>3. ukey[f].reval = rev.reval \/ ukey[f].act = Retranslated(f)
    BY <1>p1 DEF RevalidateUkey
  <1>4. dp[f] # None /\ \A i \in OpIndices : FlowOf(i) # f
    BY <1>0, <1>1, RevFields DEF DumpInv, Dumping, NotQueued, OpIndices
  <1>5. Fresh(f, ukey'[f].reval, ukey'[f].act)
        \/ (ukey'[f].reval = ukey[f].reval /\ ukey'[f].act = ukey[f].act)
    BY <1>0, <1>1, <1>3, RetranslatedLemma DEF Fresh
  <1>11. TypeOK'
    BY <1>0, <1>1, <1>2 DEF TypeOK, OnlyFlow
  <1>12. ShapeInv'
    BY <1>0, <1>1, RevFields DEF ShapeInv
  <1>13. SeqInv'
    BY <1>0, <1>1 DEF SeqInv, OnlyFlow
  <1>14. HandlerInv'
    BY <1>0, <1>1, <1>3, <1>2, <1>4 DEF HandlerInv, Fresh, OnlyFlow, TypeOK, UkeyGoes, Deletes, Alive
  <1>15. DumpInv'
    BY <1>0, <1>1, <1>2, <1>4, RevFields DEF
       DumpInv, Dumping, NotQueued, Distinct, OpIndices, FlowOf, Deletes, OnlyFlow, Again
  <1>16. ModifyInv'
    BY <1>0, <1>1, <1>2, <1>4, <1>5, RevFields, RetranslatedLemma DEF
       ModifyInv, OpIndices, FlowOf, Deletes, Fresh, OnlyFlow, Again
  <1>17. SweepInv'
    BY <1>0, <1>1, <1>2, RevFields DEF
       SweepInv, Sweeping, OpIndices, FlowOf, Deletes, OnlyFlow, Again
  <1>20. FlowsTracked'
    BY <1>0, <1>1 DEF FlowsTracked, OnlyFlow
  <1>21. UkeysBacked'
    BY <1>0, <1>1, <1>2, <1>4 DEF UkeysBacked, UkeyGoes, Deletes, OnlyFlow, Alive
  <1>22. GoneInv'
    BY <1>0, <1>1, <1>2, RevFields DEF GoneInv, Dumping, Queued, OnlyFlow
  <1>23. SameInv'
    BY <1>0, <1>1, RevFields DEF SameInv, Queued, OnlyFlow
  <1>24. FreshInv'
    BY <1>0, <1>1, <1>5 DEF FreshInv, Fresh, OnlyFlow
  <1> QED
    BY <1>11, <1>12, <1>13, <1>14, <1>15, <1>16, <1>17, <1>20, <1>21,
       <1>22, <1>23, <1>24 DEF Inv

\* A dumped flow is to be modified.
LEMMA DumpFlowModifyStep ==
  ASSUME Inv, NEW f \in Flows, DumpFlow(f), DumpResult(f, "modify")
  PROVE  Inv'
  <1>0. /\ TypeOK /\ ShapeInv /\ SeqInv /\ HandlerInv /\ DumpInv /\ ModifyInv /\ SweepInv
        /\ FlowsTracked /\ UkeysBacked /\ GoneInv
        /\ SameInv /\ FreshInv
    BY DEF Inv
  <1>p1. /\ ukey[f] # NoUkey /\ ~ukey[f].locked
         /\ rev.pc = "dump" /\ f \in rev.todo
         /\ "modify" \in RevalidateUkey(ukey[f], f, rev.reval)
         /\ ukey' = [ukey EXCEPT ![f] = AfterDump(f, "modify")]
         /\ rev' = AddOp([rev EXCEPT !.todo = @ \ {f}], f, "modify", "live")
         /\ UNCHANGED <<netdev, kind, policy, need, reval_seq, changes, dp, hnd, faults,
                        astray>>
    BY DEF DumpFlow, DumpResult, main, system
  <1>p3. Op(f, "modify", "live") \in Ops /\ Op(f, "modify", "live").ukey = "live"
         /\ Op(f, "modify", "live").flow = f
         /\ Op(f, "modify", "live").act = Retranslated(f)
    BY <1>0, RetranslatedLemma DEF Op, Ops
  <1>p2. LET u == AfterDump(f, "modify")
         IN  /\ u \in UkeyTypes /\ ~u.locked /\ u.exists
             /\ u.act = Retranslated(f) /\ u.reval = rev.reval
    BY <1>0, <1>p1, UkeyFields, RetranslatedLemma, RevFields DEF
       AfterDump, Revalidated, UkeyTypes
  <1>1. /\ rev.pc = "dump" /\ f \in rev.todo
        /\ ukey[f] # NoUkey /\ ~ukey[f].locked /\ rev.next = 1
        /\ rev'.pc = rev.pc /\ rev'.reval = rev.reval /\ rev'.todo = rev.todo \ {f}
        /\ rev'.seen = rev.seen /\ rev'.moved = rev.moved
        /\ rev'.ops = Append(rev.ops, Op(f, "modify", "live")) /\ rev'.next = rev.next
        /\ rev' \in RevStates
        /\ ukey' \in [Flows -> UkeyTypes \cup {NoUkey}]
        /\ ukey'[f] # NoUkey
        /\ ukey'[f].act = Retranslated(f) /\ ukey'[f].reval = rev.reval
        /\ UNCHANGED <<netdev, kind, policy, need, reval_seq, changes, dp, hnd, faults,
                       astray>>
        /\ OnlyFlow(f)
    <2> DEFINE r == [rev EXCEPT !.todo = @ \ {f}]
               t == [r EXCEPT !.ops = Append(@, Op(f, "modify", "live"))]
    <2>1. rev' = t /\ UNCHANGED <<netdev, kind, policy, need, reval_seq, changes, dp, hnd,
                                  faults, astray>>
      BY <1>p1 DEF AddOp
    <2>2. rev \in RevStates /\ rev.ops \in Seq(Ops) /\ rev.next = 1
      BY <1>0, <1>p1, RevFields DEF ShapeInv
    <2>3. r.pc = rev.pc /\ r.reval = rev.reval /\ r.todo = rev.todo \ {f}
          /\ r.seen = rev.seen
          /\ r.moved = rev.moved /\ r.ops = rev.ops /\ r.next = rev.next /\ r \in RevStates
      BY <2>2 DEF RevStates
    <2> HIDE DEF r
    <2>4. Append(rev.ops, Op(f, "modify", "live")) \in Seq(Ops)
      BY <2>2, <1>p3, AppendLemma
    <2>5. rev'.pc = rev.pc /\ rev'.reval = rev.reval /\ rev'.todo = rev.todo \ {f}
          /\ rev'.moved = rev.moved /\ rev'.seen = rev.seen
          /\ rev'.ops = Append(rev.ops, Op(f, "modify", "live")) /\ rev'.next = rev.next
          /\ rev' \in RevStates
      BY <2>1, <2>2, <2>3, <2>4 DEF RevStates
    <2> QED
      BY <1>0, <1>p1, <1>p2, <2>1, <2>2, <2>5, ConstantsLemma DEF TypeOK, OnlyFlow
  <1>2. ~ukey'[f].locked /\ ukey'[f].exists
    BY <1>0, <1>p1, <1>p2 DEF TypeOK
  <1>4. dp[f] # None /\ \A i \in OpIndices : FlowOf(i) # f
    BY <1>0, <1>1, RevFields DEF DumpInv, Dumping, NotQueued, OpIndices
  <1>7. LET n == Len(rev.ops) IN
        /\ n \in Nat /\ Len(rev'.ops) = n + 1 /\ rev'.ops[n + 1] = Op(f, "modify", "live")
        /\ \A i \in 1..n : rev'.ops[i] = rev.ops[i]
    BY <1>0, <1>1, <1>p3, RevFields, AppendLemma
  <1>8. \A i \in OpIndices' : i \in OpIndices \/ i = Len(rev.ops) + 1
    BY <1>7 DEF OpIndices
  <1>9. /\ OpIndices' = OpIndices \cup {Len(rev.ops) + 1} /\ Len(rev.ops) \in Nat
        /\ rev'.ops[Len(rev.ops) + 1] = Op(f, "modify", "live")
        /\ \A i \in OpIndices : rev'.ops[i] = rev.ops[i] /\ i < Len(rev.ops) + 1
    BY <1>7 DEF OpIndices
  <1>10. Queued(f)' /\ \A g \in Flows \ {f} : Queued(g)' <=> Queued(g)
    <2>1. \A g \in Flows \ {f} : Queued(g)' <=> Queued(g)
      BY <1>1, <1>7, <1>p3 DEF Queued
    <2>2. Queued(f)'
      BY <1>1, <1>7, <1>p3 DEF Queued
    <2> QED
      BY <2>1, <2>2
  <1>5. Fresh(f, ukey'[f].reval, ukey'[f].act)
        \/ (ukey'[f].reval = ukey[f].reval /\ ukey'[f].act = ukey[f].act)
    BY <1>0, <1>1, RetranslatedLemma DEF Fresh
  <1>11. TypeOK'
    BY <1>0, <1>1, <1>2 DEF TypeOK, OnlyFlow
  <1>12. ShapeInv'
    BY <1>0, <1>1, <1>7, RevFields DEF ShapeInv
  <1>13. SeqInv'
    BY <1>0, <1>1 DEF SeqInv, OnlyFlow
  <1>14. HandlerInv'
    BY <1>0, <1>1, <1>2, <1>4 DEF HandlerInv, Fresh, OnlyFlow, TypeOK, UkeyGoes, Deletes, Alive
  <1>15. DumpInv'
    <2>1. Distinct /\ NotQueued /\ \A i \in OpIndices : FlowOf(i) # f
      BY <1>0, <1>1, <1>4 DEF DumpInv, Dumping
    <2>2. \A i \in OpIndices : rev'.ops[i].flow = FlowOf(i)
      BY <1>9 DEF FlowOf
    <2>3. rev'.ops[Len(rev.ops) + 1].flow = f
      BY <1>9, <1>p3
    <2>4. Distinct' /\ NotQueued'
      <3>1. \A i \in OpIndices' : rev'.ops[i].flow \notin rev.todo \ {f}
        BY <1>0, <1>1, <1>9, <2>1, <2>2, <2>3, RevFields DEF NotQueued, OpIndices
      <3>2. \A i, j \in OpIndices' : rev'.ops[i].flow = rev'.ops[j].flow => i = j
        <4>1. \A i, j \in OpIndices : rev'.ops[i].flow = rev'.ops[j].flow => i = j
          BY <2>1, <2>2 DEF Distinct
        <4>2. \A i \in OpIndices : rev'.ops[i].flow # f
          BY <2>1, <2>2
        <4> QED
          BY <1>9, <2>3, <4>1, <4>2
      <3> QED
        BY <1>1, <3>1, <3>2 DEF Distinct, NotQueued, FlowOf
    <2>5. \A g \in rev'.todo : dp'[g] # None
      BY <1>0, <1>1 DEF DumpInv, Dumping
    <2>6. ASSUME NEW i \in OpIndices'
          PROVE  /\ dp'[FlowOf(i)'] # None
                 /\ Deletes(i)' => \/ ukey'[FlowOf(i)'] = NoUkey
                                   \/ ~ukey'[FlowOf(i)'].exists /\ ~ukey'[FlowOf(i)'].locked
      <3>1. CASE i \in OpIndices
        <4>1. rev.next <= i /\ FlowOf(i) \in Flows /\ FlowOf(i) # f /\ (Deletes(i)' <=> Deletes(i))
          BY <1>0, <1>1, <1>9, <2>1, <3>1, RevFields DEF Deletes, OpIndices
        <4>2. ukey'[FlowOf(i)] = ukey[FlowOf(i)]
          BY <1>1, <4>1 DEF OnlyFlow
        <4>3. /\ dp[FlowOf(i)] # None
              /\ Deletes(i) => \/ ukey[FlowOf(i)] = NoUkey
                               \/ ~ukey[FlowOf(i)].exists /\ ~ukey[FlowOf(i)].locked
          <5>1. DumpInv /\ Dumping
            BY <1>0, <1>1 DEF Dumping
          <5> QED
            BY <5>1, <3>1, <4>1 DEF DumpInv
        <4>4. FlowOf(i)' = FlowOf(i)
          BY <2>2, <3>1 DEF FlowOf
        <4> QED
          BY <1>1, <4>1, <4>2, <4>3, <4>4
      <3>2. CASE i = Len(rev.ops) + 1
        BY <1>1, <1>2, <1>4, <1>9, <1>p3, <2>3, <3>2, RetranslatedLemma, <1>0 DEF
           Deletes, FlowOf
      <3> QED
        BY <1>9, <2>6, <3>1, <3>2
    <2>7. \A i \in OpIndices' : ~Again(i)'
      BY <1>0, <1>1, <1>9, <1>p3 DEF DumpInv, Dumping, Again
    <2> QED
      BY <2>4, <2>5, <2>6, <2>7 DEF DumpInv
  <1>16. ModifyInv'
    <2> SUFFICES ASSUME NEW i \in OpIndices', ~Deletes(i)', ~Again(i)'
                 PROVE  LET g == FlowOf(i)' IN
                        /\ ukey'[g] # NoUkey /\ ukey'[g].exists /\ ~ukey'[g].locked
                        /\ ukey'[g].act = rev'.ops[i].act /\ ukey'[g].reval = rev'.reval
                        /\ kind[g] = "plain" /\ ~need' /\ ukey'[g].reval = reval_seq'
                             => ukey'[g].act = policy'[g]
                        /\ \A j \in OpIndices' : i < j /\ ~Again(j)' => FlowOf(j)' # g
      BY <1>1 DEF ModifyInv, Fresh
    <2>1. CASE i \in OpIndices
      <3>1. ~Deletes(i) /\ ~Again(i) /\ FlowOf(i)' = FlowOf(i) /\ FlowOf(i) # f
            /\ FlowOf(i) \in Flows
        BY <1>0, <1>4, <1>9, <2>1, RevFields DEF Deletes, FlowOf, Again
      <3>2. \A j \in OpIndices' : i < j /\ ~Again(j)' => FlowOf(j)' # FlowOf(i)
        BY <1>0, <1>9, <1>p3, <2>1, <3>1 DEF ModifyInv, FlowOf, Again
      <3>3. /\ ukey[FlowOf(i)] # NoUkey /\ ukey[FlowOf(i)].exists /\ ~ukey[FlowOf(i)].locked
            /\ ukey[FlowOf(i)].act = rev.ops[i].act /\ ukey[FlowOf(i)].reval = rev.reval
            /\ Fresh(FlowOf(i), ukey[FlowOf(i)].reval, ukey[FlowOf(i)].act)
        BY <1>0, <2>1, <3>1 DEF ModifyInv
      <3>4. ukey'[FlowOf(i)] = ukey[FlowOf(i)] /\ rev'.ops[i] = rev.ops[i]
        BY <1>1, <1>9, <2>1, <3>1 DEF OnlyFlow
      <3> QED
        BY <1>1, <3>1, <3>2, <3>3, <3>4 DEF Fresh
    <2>2. CASE i = Len(rev.ops) + 1
      <3>1. FlowOf(i)' = f /\ rev'.ops[i].act = Retranslated(f)
        BY <1>9, <1>p3, <2>2 DEF FlowOf
      <3>2. \A j \in OpIndices' : ~(i < j)
        BY <1>7, <2>2 DEF OpIndices
      <3>3. Fresh(f, ukey[f].reval, ukey[f].act)'
        BY <1>0, <1>1, RetranslatedLemma DEF Fresh
      <3> QED
        BY <1>1, <1>2, <3>1, <3>2, <3>3 DEF Fresh
    <2> QED
      BY <1>9, <2>1, <2>2
  <1>17. SweepInv'
    BY <1>0, <1>1, <1>2, RevFields, <1>7, <1>8, <1>p3 DEF
       SweepInv, Sweeping, OpIndices, FlowOf, Deletes, OnlyFlow, Again
  <1>20. FlowsTracked'
    BY <1>0, <1>1 DEF FlowsTracked, OnlyFlow
  <1>21. UkeysBacked'
    BY <1>0, <1>1, <1>2, <1>4 DEF UkeysBacked, UkeyGoes, Deletes, OnlyFlow, Alive
  <1>22. GoneInv'
    BY <1>0, <1>1, <1>2, <1>10 DEF GoneInv, Dumping, OnlyFlow
  <1>23. SameInv'
    BY <1>0, <1>1, <1>10 DEF SameInv, OnlyFlow
  <1>24. FreshInv'
    BY <1>0, <1>1, <1>5 DEF FreshInv, Fresh, OnlyFlow
  <1> QED
    BY <1>11, <1>12, <1>13, <1>14, <1>15, <1>16, <1>17, <1>20, <1>21,
       <1>22, <1>23, <1>24 DEF Inv

\* A dumped flow is to be deleted.
LEMMA DumpFlowDeleteStep ==
  ASSUME Inv, NEW f \in Flows, DumpFlow(f), DumpResult(f, "delete")
  PROVE  Inv'
  <1>0. /\ TypeOK /\ ShapeInv /\ SeqInv /\ HandlerInv /\ DumpInv /\ ModifyInv /\ SweepInv
        /\ FlowsTracked /\ UkeysBacked /\ GoneInv
        /\ SameInv /\ FreshInv
    BY DEF Inv
  <1>p1. /\ ukey[f] # NoUkey /\ ~ukey[f].locked
         /\ rev.pc = "dump" /\ f \in rev.todo
         /\ "delete" \in RevalidateUkey(ukey[f], f, rev.reval)
         /\ ukey' = [ukey EXCEPT ![f] = AfterDump(f, "delete")]
         /\ rev' = AddOp([rev EXCEPT !.todo = @ \ {f}], f, "delete", "live")
         /\ UNCHANGED <<netdev, kind, policy, need, reval_seq, changes, dp, hnd, faults,
                        astray>>
    BY DEF DumpFlow, DumpResult, main, system
  <1>p3. Op(f, "delete", "live") \in Ops /\ Op(f, "delete", "live").ukey = "live"
         /\ Op(f, "delete", "live").flow = f /\ Op(f, "delete", "live").act = None
    BY <1>0, RetranslatedLemma DEF Op, Ops
  <1>p2. LET u == AfterDump(f, "delete")
         IN  /\ u \in UkeyTypes /\ ~u.locked /\ ~u.exists
             /\ u.act = ukey[f].act /\ u.reval = ukey[f].reval
    BY <1>0, <1>p1, UkeyFields, RetranslatedLemma, RevFields DEF
       AfterDump, Revalidated, UkeyTypes
  <1>1. /\ rev.pc = "dump" /\ f \in rev.todo
        /\ ukey[f] # NoUkey /\ ~ukey[f].locked /\ rev.next = 1
        /\ rev'.pc = rev.pc /\ rev'.reval = rev.reval /\ rev'.todo = rev.todo \ {f}
        /\ rev'.seen = rev.seen /\ rev'.moved = rev.moved
        /\ rev'.ops = Append(rev.ops, Op(f, "delete", "live")) /\ rev'.next = rev.next
        /\ rev' \in RevStates
        /\ ukey' \in [Flows -> UkeyTypes \cup {NoUkey}]
        /\ ukey'[f] # NoUkey
        /\ ukey'[f].act = ukey[f].act /\ ukey'[f].reval = ukey[f].reval
        /\ UNCHANGED <<netdev, kind, policy, need, reval_seq, changes, dp, hnd, faults,
                       astray>>
        /\ OnlyFlow(f)
    <2> DEFINE r == [rev EXCEPT !.todo = @ \ {f}]
               t == [r EXCEPT !.ops = Append(@, Op(f, "delete", "live"))]
    <2>1. rev' = t /\ UNCHANGED <<netdev, kind, policy, need, reval_seq, changes, dp, hnd,
                                  faults, astray>>
      BY <1>p1 DEF AddOp
    <2>2. rev \in RevStates /\ rev.ops \in Seq(Ops) /\ rev.next = 1
      BY <1>0, <1>p1, RevFields DEF ShapeInv
    <2>3. r.pc = rev.pc /\ r.reval = rev.reval /\ r.todo = rev.todo \ {f}
          /\ r.seen = rev.seen
          /\ r.moved = rev.moved /\ r.ops = rev.ops /\ r.next = rev.next /\ r \in RevStates
      BY <2>2 DEF RevStates
    <2> HIDE DEF r
    <2>4. Append(rev.ops, Op(f, "delete", "live")) \in Seq(Ops)
      BY <2>2, <1>p3, AppendLemma
    <2>5. rev'.pc = rev.pc /\ rev'.reval = rev.reval /\ rev'.todo = rev.todo \ {f}
          /\ rev'.moved = rev.moved /\ rev'.seen = rev.seen
          /\ rev'.ops = Append(rev.ops, Op(f, "delete", "live")) /\ rev'.next = rev.next
          /\ rev' \in RevStates
      BY <2>1, <2>2, <2>3, <2>4 DEF RevStates
    <2> QED
      BY <1>0, <1>p1, <1>p2, <2>1, <2>2, <2>5, ConstantsLemma DEF TypeOK, OnlyFlow
  <1>2. ~ukey'[f].locked /\ ~ukey'[f].exists
    BY <1>0, <1>p1, <1>p2 DEF TypeOK
  <1>4. dp[f] # None /\ \A i \in OpIndices : FlowOf(i) # f
    BY <1>0, <1>1, RevFields DEF DumpInv, Dumping, NotQueued, OpIndices
  <1>7. LET n == Len(rev.ops) IN
        /\ n \in Nat /\ Len(rev'.ops) = n + 1 /\ rev'.ops[n + 1] = Op(f, "delete", "live")
        /\ \A i \in 1..n : rev'.ops[i] = rev.ops[i]
    BY <1>0, <1>1, <1>p3, RevFields, AppendLemma
  <1>8. \A i \in OpIndices' : i \in OpIndices \/ i = Len(rev.ops) + 1
    BY <1>7 DEF OpIndices
  <1>9. /\ OpIndices' = OpIndices \cup {Len(rev.ops) + 1} /\ Len(rev.ops) \in Nat
        /\ rev'.ops[Len(rev.ops) + 1] = Op(f, "delete", "live")
        /\ \A i \in OpIndices : rev'.ops[i] = rev.ops[i] /\ i < Len(rev.ops) + 1
    BY <1>7 DEF OpIndices
  <1>10. Queued(f)' /\ \A g \in Flows \ {f} : Queued(g)' <=> Queued(g)
    <2>1. \A g \in Flows \ {f} : Queued(g)' <=> Queued(g)
      BY <1>1, <1>7, <1>p3 DEF Queued
    <2>2. Queued(f)'
      BY <1>1, <1>7, <1>p3 DEF Queued
    <2> QED
      BY <2>1, <2>2
  <1>5. ukey'[f].reval = ukey[f].reval /\ ukey'[f].act = ukey[f].act
    BY <1>1
  <1>11. TypeOK'
    BY <1>0, <1>1, <1>2 DEF TypeOK, OnlyFlow
  <1>12. ShapeInv'
    BY <1>0, <1>1, <1>7, RevFields DEF ShapeInv
  <1>13. SeqInv'
    BY <1>0, <1>1 DEF SeqInv, OnlyFlow
  <1>14. HandlerInv'
    BY <1>0, <1>1, <1>2, <1>4 DEF HandlerInv, Fresh, OnlyFlow, TypeOK, UkeyGoes, Deletes, Alive
  <1>15. DumpInv'
    <2>1. Distinct /\ NotQueued /\ \A i \in OpIndices : FlowOf(i) # f
      BY <1>0, <1>1, <1>4 DEF DumpInv, Dumping
    <2>2. \A i \in OpIndices : rev'.ops[i].flow = FlowOf(i)
      BY <1>9 DEF FlowOf
    <2>3. rev'.ops[Len(rev.ops) + 1].flow = f
      BY <1>9, <1>p3
    <2>4. Distinct' /\ NotQueued'
      <3>1. \A i \in OpIndices' : rev'.ops[i].flow \notin rev.todo \ {f}
        BY <1>0, <1>1, <1>9, <2>1, <2>2, <2>3, RevFields DEF NotQueued, OpIndices
      <3>2. \A i, j \in OpIndices' : rev'.ops[i].flow = rev'.ops[j].flow => i = j
        <4>1. \A i, j \in OpIndices : rev'.ops[i].flow = rev'.ops[j].flow => i = j
          BY <2>1, <2>2 DEF Distinct
        <4>2. \A i \in OpIndices : rev'.ops[i].flow # f
          BY <2>1, <2>2
        <4> QED
          BY <1>9, <2>3, <4>1, <4>2
      <3> QED
        BY <1>1, <3>1, <3>2 DEF Distinct, NotQueued, FlowOf
    <2>5. \A g \in rev'.todo : dp'[g] # None
      BY <1>0, <1>1 DEF DumpInv, Dumping
    <2>6. ASSUME NEW i \in OpIndices'
          PROVE  /\ dp'[FlowOf(i)'] # None
                 /\ Deletes(i)' => \/ ukey'[FlowOf(i)'] = NoUkey
                                   \/ ~ukey'[FlowOf(i)'].exists /\ ~ukey'[FlowOf(i)'].locked
      <3>1. CASE i \in OpIndices
        <4>1. rev.next <= i /\ FlowOf(i) \in Flows /\ FlowOf(i) # f /\ (Deletes(i)' <=> Deletes(i))
          BY <1>0, <1>1, <1>9, <2>1, <3>1, RevFields DEF Deletes, OpIndices
        <4>2. ukey'[FlowOf(i)] = ukey[FlowOf(i)]
          BY <1>1, <4>1 DEF OnlyFlow
        <4>3. /\ dp[FlowOf(i)] # None
              /\ Deletes(i) => \/ ukey[FlowOf(i)] = NoUkey
                               \/ ~ukey[FlowOf(i)].exists /\ ~ukey[FlowOf(i)].locked
          <5>1. DumpInv /\ Dumping
            BY <1>0, <1>1 DEF Dumping
          <5> QED
            BY <5>1, <3>1, <4>1 DEF DumpInv
        <4>4. FlowOf(i)' = FlowOf(i)
          BY <2>2, <3>1 DEF FlowOf
        <4> QED
          BY <1>1, <4>1, <4>2, <4>3, <4>4
      <3>2. CASE i = Len(rev.ops) + 1
        BY <1>1, <1>2, <1>4, <1>9, <1>p3, <2>3, <3>2, RetranslatedLemma, <1>0 DEF
           Deletes, FlowOf
      <3> QED
        BY <1>9, <2>6, <3>1, <3>2
    <2>7. \A i \in OpIndices' : ~Again(i)'
      BY <1>0, <1>1, <1>9, <1>p3 DEF DumpInv, Dumping, Again
    <2> QED
      BY <2>4, <2>5, <2>6, <2>7 DEF DumpInv
  <1>16. ModifyInv'
    <2> SUFFICES ASSUME NEW i \in OpIndices', ~Deletes(i)', ~Again(i)'
                 PROVE  LET g == FlowOf(i)' IN
                        /\ ukey'[g] # NoUkey /\ ukey'[g].exists /\ ~ukey'[g].locked
                        /\ ukey'[g].act = rev'.ops[i].act /\ ukey'[g].reval = rev'.reval
                        /\ kind[g] = "plain" /\ ~need' /\ ukey'[g].reval = reval_seq'
                             => ukey'[g].act = policy'[g]
                        /\ \A j \in OpIndices' : i < j /\ ~Again(j)' => FlowOf(j)' # g
      BY <1>1 DEF ModifyInv, Fresh
    <2>1. CASE i \in OpIndices
      <3>1. ~Deletes(i) /\ ~Again(i) /\ FlowOf(i)' = FlowOf(i) /\ FlowOf(i) # f
            /\ FlowOf(i) \in Flows
        BY <1>0, <1>4, <1>9, <2>1, RevFields DEF Deletes, FlowOf, Again
      <3>2. \A j \in OpIndices' : i < j /\ ~Again(j)' => FlowOf(j)' # FlowOf(i)
        BY <1>0, <1>9, <1>p3, <2>1, <3>1 DEF ModifyInv, FlowOf, Again
      <3>3. /\ ukey[FlowOf(i)] # NoUkey /\ ukey[FlowOf(i)].exists /\ ~ukey[FlowOf(i)].locked
            /\ ukey[FlowOf(i)].act = rev.ops[i].act /\ ukey[FlowOf(i)].reval = rev.reval
            /\ Fresh(FlowOf(i), ukey[FlowOf(i)].reval, ukey[FlowOf(i)].act)
        BY <1>0, <2>1, <3>1 DEF ModifyInv
      <3>4. ukey'[FlowOf(i)] = ukey[FlowOf(i)] /\ rev'.ops[i] = rev.ops[i]
        BY <1>1, <1>9, <2>1, <3>1 DEF OnlyFlow
      <3> QED
        BY <1>1, <3>1, <3>2, <3>3, <3>4 DEF Fresh
    <2>2. CASE i = Len(rev.ops) + 1
      BY <1>9, <1>p3, <2>2 DEF Deletes
    <2> QED
      BY <1>9, <2>1, <2>2
  <1>17. SweepInv'
    BY <1>0, <1>1, <1>2, RevFields, <1>7, <1>8, <1>p3 DEF
       SweepInv, Sweeping, OpIndices, FlowOf, Deletes, OnlyFlow, Again
  <1>20. FlowsTracked'
    BY <1>0, <1>1 DEF FlowsTracked, OnlyFlow
  <1>21. UkeysBacked'
    BY <1>0, <1>1, <1>2, <1>4 DEF UkeysBacked, UkeyGoes, Deletes, OnlyFlow, Alive
  <1>22. GoneInv'
    BY <1>0, <1>1, <1>2, <1>10 DEF GoneInv, Dumping, OnlyFlow
  <1>23. SameInv'
    BY <1>0, <1>1, <1>10 DEF SameInv, OnlyFlow
  <1>24. FreshInv'
    BY <1>0, <1>1, <1>5 DEF FreshInv, Fresh, OnlyFlow
  <1> QED
    BY <1>11, <1>12, <1>13, <1>14, <1>15, <1>16, <1>17, <1>20, <1>21,
       <1>22, <1>23, <1>24 DEF Inv

-----------------------------------------------------------------------------
(* The revalidator sweeps ukeys.                                           *)

\* The dump is over.
LEMMA StartSweepStep ==
  ASSUME Inv, StartSweep
  PROVE  Inv'
  <1>0. /\ TypeOK /\ ShapeInv /\ SeqInv /\ HandlerInv /\ DumpInv /\ ModifyInv /\ SweepInv
        /\ FlowsTracked /\ UkeysBacked /\ GoneInv
        /\ SameInv /\ FreshInv
    BY DEF Inv
  <1>1. /\ rev.pc = "dump" /\ rev.ops = <<>> /\ rev.next = 1
        /\ rev'.pc = "sweep" /\ rev'.reval = reval_seq
        /\ rev'.todo = {f \in Flows : ukey[f] # NoUkey}
        /\ rev'.seen = {} /\ rev'.moved = FALSE
        /\ rev'.ops = rev.ops /\ rev'.next = rev.next /\ rev' \in RevStates
        /\ UNCHANGED <<netdev, kind, policy, need, reval_seq, changes, dp, ukey, hnd,
                       faults, astray>>
    BY <1>0, RangeLemma DEF StartSweep, TypeOK, ShapeInv, RevStates, main, system
  <1>11. TypeOK'
    BY <1>0, <1>1 DEF TypeOK
  <1>12. ShapeInv'
    BY <1>0, <1>1 DEF ShapeInv
  <1>13. SeqInv'
    BY <1>0, <1>1, RangeLemma DEF SeqInv
  <1>14. HandlerInv'
    BY <1>0, <1>1 DEF HandlerInv, Fresh, UkeyGoes, Deletes, Alive
  <1>15. DumpInv'
    BY <1>0, <1>1 DEF DumpInv, Dumping, NotQueued, Distinct, OpIndices, FlowOf, Deletes, Again
  <1>16. ModifyInv'
    BY <1>0, <1>1 DEF ModifyInv, OpIndices, FlowOf, Deletes, Fresh, Again
  <1>17. SweepInv'
    BY <1>0, <1>1 DEF SweepInv, Sweeping, OpIndices, FlowOf, Deletes, Again
  <1>20. FlowsTracked'
    BY <1>0, <1>1 DEF FlowsTracked
  <1>21. UkeysBacked'
    BY <1>0, <1>1 DEF UkeysBacked, UkeyGoes, Deletes, Alive
  <1>22. GoneInv'
    BY <1>0, <1>1 DEF GoneInv, Dumping, Queued
  <1>23. SameInv'
    BY <1>0, <1>1 DEF SameInv, Queued
  <1>24. FreshInv'
    BY <1>0, <1>1 DEF FreshInv, Fresh
  <1> QED
    BY <1>11, <1>12, <1>13, <1>14, <1>15, <1>16, <1>17, <1>20, <1>21,
       <1>22, <1>23, <1>24 DEF Inv

\* A ukey stays.
LEMMA SweepKeepsStep ==
  ASSUME Inv, NEW f \in Flows, SweepKeeps(f)
  PROVE  Inv'
  <1>0. /\ TypeOK /\ ShapeInv /\ SeqInv /\ HandlerInv /\ DumpInv /\ ModifyInv /\ SweepInv
        /\ FlowsTracked /\ UkeysBacked /\ GoneInv
        /\ SameInv /\ FreshInv
    BY DEF Inv
  <1>1. /\ rev.pc = "sweep"
        /\ rev'.pc = rev.pc /\ rev'.reval = rev.reval /\ rev'.todo = rev.todo \ {f}
        /\ rev'.moved = rev.moved /\ rev'.ops = rev.ops /\ rev'.next = rev.next
        /\ rev' \in RevStates
        /\ UNCHANGED <<netdev, kind, policy, need, reval_seq, changes, dp, ukey, hnd,
                       faults, astray>>
    BY <1>0 DEF SweepKeeps, Meets, Met, ShapeInv, RevStates, main, system
  <1>11. TypeOK'
    BY <1>0, <1>1 DEF TypeOK
  <1>12. ShapeInv'
    BY <1>0, <1>1 DEF ShapeInv
  <1>13. SeqInv'
    BY <1>0, <1>1 DEF SeqInv
  <1>14. HandlerInv'
    BY <1>0, <1>1 DEF HandlerInv, Fresh, UkeyGoes, Deletes, Alive
  <1>15. DumpInv'
    BY <1>0, <1>1 DEF DumpInv, Dumping, NotQueued, Distinct, OpIndices, FlowOf, Deletes, Again
  <1>16. ModifyInv'
    BY <1>0, <1>1 DEF ModifyInv, OpIndices, FlowOf, Deletes, Fresh, Again
  <1>17. SweepInv'
    BY <1>0, <1>1 DEF SweepInv, Sweeping, OpIndices, FlowOf, Deletes, Again
  <1>20. FlowsTracked'
    BY <1>0, <1>1 DEF FlowsTracked
  <1>21. UkeysBacked'
    BY <1>0, <1>1 DEF UkeysBacked, UkeyGoes, Deletes, Alive
  <1>22. GoneInv'
    BY <1>0, <1>1 DEF GoneInv, Dumping, Queued
  <1>23. SameInv'
    BY <1>0, <1>1 DEF SameInv, Queued
  <1>24. FreshInv'
    BY <1>0, <1>1 DEF FreshInv, Fresh
  <1> QED
    BY <1>11, <1>12, <1>13, <1>14, <1>15, <1>16, <1>17, <1>20, <1>21,
       <1>22, <1>23, <1>24 DEF Inv

\* A ukey without flow is deleted.
LEMMA SweepDeletesStep ==
  ASSUME Inv, NEW f \in Flows, SweepDeletes(f)
  PROVE  Inv'
  <1>0. /\ TypeOK /\ ShapeInv /\ SeqInv /\ HandlerInv /\ DumpInv /\ ModifyInv /\ SweepInv
        /\ FlowsTracked /\ UkeysBacked /\ GoneInv
        /\ SameInv /\ FreshInv
    BY DEF Inv
  <1>1. /\ rev.pc = "sweep" /\ ukey[f] # NoUkey /\ ~ukey[f].locked /\ ~ukey[f].exists
        /\ rev'.pc = rev.pc /\ rev'.reval = rev.reval /\ rev'.todo = rev.todo \ {f}
        /\ rev'.moved = rev.moved /\ rev'.ops = rev.ops /\ rev'.next = rev.next
        /\ rev' \in RevStates
        /\ ukey' \in [Flows -> UkeyTypes \cup {NoUkey}]
        /\ ukey'[f] = NoUkey
        /\ UNCHANGED <<netdev, kind, policy, need, reval_seq, changes, dp, hnd, faults,
                       astray>>
        /\ OnlyFlow(f)
    <2> DEFINE r == Met(f)
    <2>1. /\ rev.pc = "sweep" /\ ukey[f] # NoUkey /\ ~ukey[f].locked /\ ~ukey[f].exists
          /\ rev' = Bury(r, {f}) /\ ukey' = [ukey EXCEPT ![f] = NoUkey]
          /\ UNCHANGED <<netdev, kind, policy, need, reval_seq, changes, dp, hnd, faults,
                         astray>>
      BY DEF SweepDeletes, Meets, main, system
    <2>2. /\ r.pc = rev.pc /\ r.reval = rev.reval /\ r.todo = rev.todo \ {f}
          /\ r.moved = rev.moved /\ r.ops = rev.ops /\ r.next = rev.next /\ r \in RevStates
      BY <1>0 DEF Met, ShapeInv, RevStates
    <2> HIDE DEF r
    <2>3. {[flow |-> g, ukey |-> ukey[g]] : g \in {f}} \subseteq Dead
      BY <1>0, <2>1, UkeyFields DEF Dead
    <2>4. /\ rev'.pc = r.pc /\ rev'.reval = r.reval /\ rev'.todo = r.todo
          /\ rev'.moved = r.moved /\ rev'.ops = r.ops /\ rev'.next = r.next
          /\ rev' \in RevStates
      BY <2>1, <2>2, <2>3 DEF Bury, RevStates
    <2> QED
      BY <1>0, <2>1, <2>2, <2>4 DEF TypeOK, OnlyFlow
  <1>4. \A i \in OpIndices : ~Again(i) => FlowOf(i) # f
    BY <1>0, <1>1 DEF SweepInv, Sweeping
  <1>5. (dp[f] = None \/ f \in astray) /\ hnd[f].pc # "put"
    BY <1>0, <1>1 DEF GoneInv, HandlerInv, TypeOK, Dumping
  <1>11. TypeOK'
    BY <1>0, <1>1 DEF TypeOK, OnlyFlow
  <1>12. ShapeInv'
    BY <1>0, <1>1 DEF ShapeInv
  <1>13. SeqInv'
    BY <1>0, <1>1 DEF SeqInv, OnlyFlow
  <1>14. HandlerInv'
    BY <1>0, <1>1, <1>5 DEF HandlerInv, Fresh, OnlyFlow, UkeyGoes, Deletes, Alive
  <1>15. DumpInv'
    BY <1>0, <1>1 DEF DumpInv, Dumping, NotQueued, Distinct, OpIndices, FlowOf, Deletes, Again
  <1>16. ModifyInv'
    BY <1>0, <1>1, <1>4, RevFields DEF
       ModifyInv, OpIndices, FlowOf, Deletes, Fresh, OnlyFlow, Again
  <1>17. SweepInv'
    BY <1>0, <1>1, <1>4, RevFields DEF
       SweepInv, Sweeping, OpIndices, FlowOf, Deletes, OnlyFlow, Again
  <1>20. FlowsTracked'
    BY <1>0, <1>1, <1>5 DEF FlowsTracked, OnlyFlow
  <1>21. UkeysBacked'
    BY <1>0, <1>1 DEF UkeysBacked, UkeyGoes, Deletes, OnlyFlow, Alive
  <1>22. GoneInv'
    BY <1>0, <1>1 DEF GoneInv, Dumping, Queued, OnlyFlow
  <1>23. SameInv'
    BY <1>0, <1>1, <1>5 DEF SameInv, Queued, OnlyFlow
  <1>24. FreshInv'
    BY <1>0, <1>1 DEF FreshInv, Fresh, OnlyFlow
  <1> QED
    BY <1>11, <1>12, <1>13, <1>14, <1>15, <1>16, <1>17, <1>20, <1>21,
       <1>22, <1>23, <1>24 DEF Inv

\* The sweep keeps a flow.
LEMMA SweepKeepStep ==
  ASSUME Inv, NEW f \in Flows, SweepRevalidates(f), SweepResult(f, "keep")
  PROVE  Inv'
  <1>0. /\ TypeOK /\ ShapeInv /\ SeqInv /\ HandlerInv /\ DumpInv /\ ModifyInv /\ SweepInv
        /\ FlowsTracked /\ UkeysBacked /\ GoneInv
        /\ SameInv /\ FreshInv
    BY DEF Inv
  <1>p1. /\ ukey[f] # NoUkey /\ ~ukey[f].locked
         /\ rev.pc = "sweep" /\ (f \in rev.todo \/ rev.moved)
         /\ ukey[f].exists /\ ukey[f].reval # rev.reval
         /\ "keep" \in RevalidateUkey(ukey[f], f, rev.reval)
         /\ ukey' = [ukey EXCEPT ![f] = Revalidated(ukey[f], f, "keep")]
         /\ rev' = AddOp(Met(f), f, "keep", "live")
         /\ UNCHANGED <<netdev, kind, policy, need, reval_seq, changes, dp, hnd, faults,
                        astray>>
    BY DEF SweepRevalidates, SweepResult, main, system, Meets, Missed
  <1>p2. LET u == Revalidated(ukey[f], f, "keep")
         IN  /\ u \in UkeyTypes /\ ~u.locked /\ u.exists
             /\ u.act = ukey[f].act /\ u.reval = rev.reval
    BY <1>0, <1>p1, UkeyFields, RetranslatedLemma, RevFields DEF Revalidated, UkeyTypes
  <1>1. /\ rev.pc = "sweep" /\ (f \in rev.todo \/ rev.moved)
        /\ ukey[f].exists /\ ukey[f].reval # rev.reval
        /\ ukey[f] # NoUkey /\ ~ukey[f].locked /\ rev.next = 1
        /\ rev'.pc = rev.pc /\ rev'.reval = rev.reval /\ rev'.todo = rev.todo \ {f}
        /\ rev'.moved = rev.moved
        /\ rev'.ops = rev.ops /\ rev'.next = rev.next /\ rev' \in RevStates
        /\ ukey' \in [Flows -> UkeyTypes \cup {NoUkey}]
        /\ ukey'[f] # NoUkey
        /\ ukey'[f].act = ukey[f].act /\ ukey'[f].reval = rev.reval
        /\ UNCHANGED <<netdev, kind, policy, need, reval_seq, changes, dp, hnd, faults,
                       astray>>
        /\ OnlyFlow(f)
    <2> DEFINE r == Met(f)
               t == r
    <2>1. rev' = t /\ UNCHANGED <<netdev, kind, policy, need, reval_seq, changes, dp, hnd,
                                  faults, astray>>
      BY <1>p1 DEF AddOp
    <2>2. rev \in RevStates /\ rev.ops \in Seq(Ops) /\ rev.next = 1
      BY <1>0, <1>p1, RevFields DEF ShapeInv
    <2>3. r.pc = rev.pc /\ r.reval = rev.reval /\ r.todo = rev.todo \ {f}
          /\ r.moved = rev.moved /\ r.ops = rev.ops /\ r.next = rev.next /\ r \in RevStates
      BY <2>2 DEF RevStates, Met
    <2> HIDE DEF r
    <2>5. rev'.pc = rev.pc /\ rev'.reval = rev.reval /\ rev'.todo = rev.todo \ {f}
          /\ rev'.moved = rev.moved
          /\ rev'.ops = rev.ops /\ rev'.next = rev.next /\ rev' \in RevStates
      BY <2>1, <2>2, <2>3 DEF RevStates
    <2> QED
      BY <1>0, <1>p1, <1>p2, <2>1, <2>2, <2>5, ConstantsLemma DEF TypeOK, OnlyFlow
  <1>2. ~ukey'[f].locked /\ ukey'[f].exists
    BY <1>0, <1>p1, <1>p2 DEF TypeOK
  <1>3. ukey[f].reval = rev.reval \/ ukey[f].act = Retranslated(f)
    BY <1>p1 DEF RevalidateUkey
  <1>4. \A i \in OpIndices : FlowOf(i) = f /\ ~Again(i) => Deletes(i)
    BY <1>0, <1>1 DEF ModifyInv
  <1>5. Fresh(f, ukey'[f].reval, ukey'[f].act)
        \/ (ukey'[f].reval = ukey[f].reval /\ ukey'[f].act = ukey[f].act)
    BY <1>0, <1>1, <1>3, RetranslatedLemma DEF Fresh
  <1>11. TypeOK'
    BY <1>0, <1>1, <1>2 DEF TypeOK, OnlyFlow
  <1>12. ShapeInv'
    BY <1>0, <1>1, RevFields DEF ShapeInv
  <1>13. SeqInv'
    BY <1>0, <1>1 DEF SeqInv, OnlyFlow
  <1>14. HandlerInv'
    BY <1>0, <1>1, <1>3, <1>2 DEF HandlerInv, Fresh, OnlyFlow, TypeOK, UkeyGoes, Deletes, Alive
  <1>15. DumpInv'
    BY <1>0, <1>1, <1>2, <1>4, RevFields DEF
       DumpInv, Dumping, NotQueued, Distinct, OpIndices, FlowOf, Deletes, OnlyFlow, Again
  <1>16. ModifyInv'
    BY <1>0, <1>1, <1>2, <1>4, <1>5, RevFields, RetranslatedLemma DEF
       ModifyInv, OpIndices, FlowOf, Deletes, Fresh, OnlyFlow, Again
  <1>17. SweepInv'
    BY <1>0, <1>1, <1>2, RevFields DEF
       SweepInv, Sweeping, OpIndices, FlowOf, Deletes, OnlyFlow, Again
  <1>20. FlowsTracked'
    BY <1>0, <1>1 DEF FlowsTracked, OnlyFlow
  <1>21. UkeysBacked'
    BY <1>0, <1>1, <1>2 DEF UkeysBacked, UkeyGoes, Deletes, OnlyFlow, Alive
  <1>22. GoneInv'
    BY <1>0, <1>1, <1>2, RevFields DEF GoneInv, Dumping, Queued, OnlyFlow
  <1>23. SameInv'
    BY <1>0, <1>1, RevFields DEF SameInv, Queued, OnlyFlow
  <1>24. FreshInv'
    BY <1>0, <1>1, <1>5 DEF FreshInv, Fresh, OnlyFlow
  <1> QED
    BY <1>11, <1>12, <1>13, <1>14, <1>15, <1>16, <1>17, <1>20, <1>21,
       <1>22, <1>23, <1>24 DEF Inv

\* The sweep has a flow modified.
LEMMA SweepModifyStep ==
  ASSUME Inv, NEW f \in Flows, SweepRevalidates(f), SweepResult(f, "modify")
  PROVE  Inv'
  <1>0. /\ TypeOK /\ ShapeInv /\ SeqInv /\ HandlerInv /\ DumpInv /\ ModifyInv /\ SweepInv
        /\ FlowsTracked /\ UkeysBacked /\ GoneInv
        /\ SameInv /\ FreshInv
    BY DEF Inv
  <1>p1. /\ ukey[f] # NoUkey /\ ~ukey[f].locked
         /\ rev.pc = "sweep" /\ (f \in rev.todo \/ rev.moved)
         /\ ukey[f].exists /\ ukey[f].reval # rev.reval
         /\ "modify" \in RevalidateUkey(ukey[f], f, rev.reval)
         /\ ukey' = [ukey EXCEPT ![f] = Revalidated(ukey[f], f, "modify")]
         /\ rev' = AddOp(Met(f), f, "modify", "live")
         /\ UNCHANGED <<netdev, kind, policy, need, reval_seq, changes, dp, hnd, faults,
                        astray>>
    BY DEF SweepRevalidates, SweepResult, main, system, Meets, Missed
  <1>p3. Op(f, "modify", "live") \in Ops /\ Op(f, "modify", "live").ukey = "live"
         /\ Op(f, "modify", "live").flow = f
         /\ Op(f, "modify", "live").act = Retranslated(f)
    BY <1>0, RetranslatedLemma DEF Op, Ops
  <1>p2. LET u == Revalidated(ukey[f], f, "modify")
         IN  /\ u \in UkeyTypes /\ ~u.locked /\ u.exists
             /\ u.act = Retranslated(f) /\ u.reval = rev.reval
    BY <1>0, <1>p1, UkeyFields, RetranslatedLemma, RevFields DEF Revalidated, UkeyTypes
  <1>1. /\ rev.pc = "sweep" /\ (f \in rev.todo \/ rev.moved)
        /\ ukey[f].exists /\ ukey[f].reval # rev.reval
        /\ ukey[f] # NoUkey /\ ~ukey[f].locked /\ rev.next = 1
        /\ rev'.pc = rev.pc /\ rev'.reval = rev.reval /\ rev'.todo = rev.todo \ {f}
        /\ rev'.moved = rev.moved
        /\ rev'.ops = Append(rev.ops, Op(f, "modify", "live")) /\ rev'.next = rev.next
        /\ rev' \in RevStates
        /\ ukey' \in [Flows -> UkeyTypes \cup {NoUkey}]
        /\ ukey'[f] # NoUkey
        /\ ukey'[f].act = Retranslated(f) /\ ukey'[f].reval = rev.reval
        /\ UNCHANGED <<netdev, kind, policy, need, reval_seq, changes, dp, hnd, faults,
                       astray>>
        /\ OnlyFlow(f)
    <2> DEFINE r == Met(f)
               t == [r EXCEPT !.ops = Append(@, Op(f, "modify", "live"))]
    <2>1. rev' = t /\ UNCHANGED <<netdev, kind, policy, need, reval_seq, changes, dp, hnd,
                                  faults, astray>>
      BY <1>p1 DEF AddOp
    <2>2. rev \in RevStates /\ rev.ops \in Seq(Ops) /\ rev.next = 1
      BY <1>0, <1>p1, RevFields DEF ShapeInv
    <2>3. r.pc = rev.pc /\ r.reval = rev.reval /\ r.todo = rev.todo \ {f}
          /\ r.moved = rev.moved /\ r.ops = rev.ops /\ r.next = rev.next /\ r \in RevStates
      BY <2>2 DEF RevStates, Met
    <2> HIDE DEF r
    <2>4. Append(rev.ops, Op(f, "modify", "live")) \in Seq(Ops)
      BY <2>2, <1>p3, AppendLemma
    <2>5. rev'.pc = rev.pc /\ rev'.reval = rev.reval /\ rev'.todo = rev.todo \ {f}
          /\ rev'.moved = rev.moved
          /\ rev'.ops = Append(rev.ops, Op(f, "modify", "live")) /\ rev'.next = rev.next
          /\ rev' \in RevStates
      BY <2>1, <2>2, <2>3, <2>4 DEF RevStates
    <2> QED
      BY <1>0, <1>p1, <1>p2, <2>1, <2>2, <2>5, ConstantsLemma DEF TypeOK, OnlyFlow
  <1>2. ~ukey'[f].locked /\ ukey'[f].exists
    BY <1>0, <1>p1, <1>p2 DEF TypeOK
  <1>4. \A i \in OpIndices : FlowOf(i) = f /\ ~Again(i) => Deletes(i)
    BY <1>0, <1>1 DEF ModifyInv
  <1>7. LET n == Len(rev.ops) IN
        /\ n \in Nat /\ Len(rev'.ops) = n + 1 /\ rev'.ops[n + 1] = Op(f, "modify", "live")
        /\ \A i \in 1..n : rev'.ops[i] = rev.ops[i]
    BY <1>0, <1>1, <1>p3, RevFields, AppendLemma
  <1>8. \A i \in OpIndices' : i \in OpIndices \/ i = Len(rev.ops) + 1
    BY <1>7 DEF OpIndices
  <1>9. /\ OpIndices' = OpIndices \cup {Len(rev.ops) + 1} /\ Len(rev.ops) \in Nat
        /\ rev'.ops[Len(rev.ops) + 1] = Op(f, "modify", "live")
        /\ \A i \in OpIndices : rev'.ops[i] = rev.ops[i] /\ i < Len(rev.ops) + 1
    BY <1>7 DEF OpIndices
  <1>10. Queued(f)' /\ \A g \in Flows \ {f} : Queued(g)' <=> Queued(g)
    <2>1. \A g \in Flows \ {f} : Queued(g)' <=> Queued(g)
      BY SMTT(30), <1>1, <1>7, <1>p3 DEF Queued
    <2>2. Queued(f)'
      BY <1>1, <1>7, <1>p3 DEF Queued
    <2> QED
      BY <2>1, <2>2
  <1>5. Fresh(f, ukey'[f].reval, ukey'[f].act)
        \/ (ukey'[f].reval = ukey[f].reval /\ ukey'[f].act = ukey[f].act)
    BY <1>0, <1>1, RetranslatedLemma DEF Fresh
  <1>11. TypeOK'
    BY <1>0, <1>1, <1>2 DEF TypeOK, OnlyFlow
  <1>12. ShapeInv'
    BY <1>0, <1>1, <1>7, RevFields DEF ShapeInv
  <1>13. SeqInv'
    BY <1>0, <1>1 DEF SeqInv, OnlyFlow
  <1>14. HandlerInv'
    BY <1>0, <1>1, <1>2 DEF HandlerInv, Fresh, OnlyFlow, TypeOK, UkeyGoes, Deletes, Alive
  <1>15. DumpInv'
    BY <1>0, <1>1, <1>2, <1>4, RevFields, <1>7, <1>8, <1>p3 DEF
       DumpInv, Dumping, NotQueued, Distinct, OpIndices, FlowOf, Deletes, OnlyFlow, Again
  <1>16. ModifyInv'
    <2> SUFFICES ASSUME NEW i \in OpIndices', ~Deletes(i)', ~Again(i)'
                 PROVE  LET g == FlowOf(i)' IN
                        /\ ukey'[g] # NoUkey /\ ukey'[g].exists /\ ~ukey'[g].locked
                        /\ ukey'[g].act = rev'.ops[i].act /\ ukey'[g].reval = rev'.reval
                        /\ kind[g] = "plain" /\ ~need' /\ ukey'[g].reval = reval_seq'
                             => ukey'[g].act = policy'[g]
                        /\ \A j \in OpIndices' : i < j /\ ~Again(j)' => FlowOf(j)' # g
      BY <1>1 DEF ModifyInv, Fresh
    <2>1. CASE i \in OpIndices
      <3>1. ~Deletes(i) /\ ~Again(i) /\ FlowOf(i)' = FlowOf(i) /\ FlowOf(i) # f
            /\ FlowOf(i) \in Flows
        BY <1>0, <1>4, <1>9, <2>1, RevFields DEF Deletes, FlowOf, Again
      <3>2. \A j \in OpIndices' : i < j /\ ~Again(j)' => FlowOf(j)' # FlowOf(i)
        BY <1>0, <1>9, <1>p3, <2>1, <3>1 DEF ModifyInv, FlowOf, Again
      <3>3. /\ ukey[FlowOf(i)] # NoUkey /\ ukey[FlowOf(i)].exists /\ ~ukey[FlowOf(i)].locked
            /\ ukey[FlowOf(i)].act = rev.ops[i].act /\ ukey[FlowOf(i)].reval = rev.reval
            /\ Fresh(FlowOf(i), ukey[FlowOf(i)].reval, ukey[FlowOf(i)].act)
        BY <1>0, <2>1, <3>1 DEF ModifyInv
      <3>4. ukey'[FlowOf(i)] = ukey[FlowOf(i)] /\ rev'.ops[i] = rev.ops[i]
        BY <1>1, <1>9, <2>1, <3>1 DEF OnlyFlow
      <3> QED
        BY <1>1, <3>1, <3>2, <3>3, <3>4 DEF Fresh
    <2>2. CASE i = Len(rev.ops) + 1
      <3>1. FlowOf(i)' = f /\ rev'.ops[i].act = Retranslated(f)
        BY <1>9, <1>p3, <2>2 DEF FlowOf
      <3>2. \A j \in OpIndices' : ~(i < j)
        BY <1>7, <2>2 DEF OpIndices
      <3>3. Fresh(f, ukey[f].reval, ukey[f].act)'
        BY <1>0, <1>1, RetranslatedLemma DEF Fresh
      <3> QED
        BY <1>1, <1>2, <3>1, <3>2, <3>3 DEF Fresh
    <2> QED
      BY <1>9, <2>1, <2>2
  <1>17. SweepInv'
    BY <1>0, <1>1, <1>2, RevFields, <1>7, <1>8, <1>p3 DEF
       SweepInv, Sweeping, OpIndices, FlowOf, Deletes, OnlyFlow, Again
  <1>20. FlowsTracked'
    BY <1>0, <1>1 DEF FlowsTracked, OnlyFlow
  <1>21. UkeysBacked'
    BY <1>0, <1>1, <1>2 DEF UkeysBacked, UkeyGoes, Deletes, OnlyFlow, Alive
  <1>22. GoneInv'
    BY <1>0, <1>1, <1>2, <1>10 DEF GoneInv, Dumping, OnlyFlow
  <1>23. SameInv'
    BY <1>0, <1>1, <1>10 DEF SameInv, OnlyFlow
  <1>24. FreshInv'
    BY <1>0, <1>1, <1>5 DEF FreshInv, Fresh, OnlyFlow
  <1> QED
    BY <1>11, <1>12, <1>13, <1>14, <1>15, <1>16, <1>17, <1>20, <1>21,
       <1>22, <1>23, <1>24 DEF Inv

\* The sweep has a flow deleted.
LEMMA SweepDeleteStep ==
  ASSUME Inv, NEW f \in Flows, SweepRevalidates(f), SweepResult(f, "delete")
  PROVE  Inv'
  <1>0. /\ TypeOK /\ ShapeInv /\ SeqInv /\ HandlerInv /\ DumpInv /\ ModifyInv /\ SweepInv
        /\ FlowsTracked /\ UkeysBacked /\ GoneInv
        /\ SameInv /\ FreshInv
    BY DEF Inv
  <1>p1. /\ ukey[f] # NoUkey /\ ~ukey[f].locked
         /\ rev.pc = "sweep" /\ (f \in rev.todo \/ rev.moved)
         /\ ukey[f].exists /\ ukey[f].reval # rev.reval
         /\ "delete" \in RevalidateUkey(ukey[f], f, rev.reval)
         /\ ukey' = [ukey EXCEPT ![f] = Revalidated(ukey[f], f, "delete")]
         /\ rev' = AddOp(Met(f), f, "delete", "live")
         /\ UNCHANGED <<netdev, kind, policy, need, reval_seq, changes, dp, hnd, faults,
                        astray>>
    BY DEF SweepRevalidates, SweepResult, main, system, Meets, Missed
  <1>p3. Op(f, "delete", "live") \in Ops /\ Op(f, "delete", "live").ukey = "live"
         /\ Op(f, "delete", "live").flow = f /\ Op(f, "delete", "live").act = None
    BY <1>0, RetranslatedLemma DEF Op, Ops
  <1>p2. LET u == Revalidated(ukey[f], f, "delete")
         IN  /\ u \in UkeyTypes /\ ~u.locked /\ u.exists
             /\ u.act = ukey[f].act /\ u.reval = ukey[f].reval
    BY <1>0, <1>p1, UkeyFields, RetranslatedLemma, RevFields DEF Revalidated, UkeyTypes
  <1>1. /\ rev.pc = "sweep" /\ (f \in rev.todo \/ rev.moved)
        /\ ukey[f].exists /\ ukey[f].reval # rev.reval
        /\ ukey[f] # NoUkey /\ ~ukey[f].locked /\ rev.next = 1
        /\ rev'.pc = rev.pc /\ rev'.reval = rev.reval /\ rev'.todo = rev.todo \ {f}
        /\ rev'.moved = rev.moved
        /\ rev'.ops = Append(rev.ops, Op(f, "delete", "live")) /\ rev'.next = rev.next
        /\ rev' \in RevStates
        /\ ukey' \in [Flows -> UkeyTypes \cup {NoUkey}]
        /\ ukey'[f] # NoUkey
        /\ ukey'[f].act = ukey[f].act /\ ukey'[f].reval = ukey[f].reval
        /\ UNCHANGED <<netdev, kind, policy, need, reval_seq, changes, dp, hnd, faults,
                       astray>>
        /\ OnlyFlow(f)
    <2> DEFINE r == Met(f)
               t == [r EXCEPT !.ops = Append(@, Op(f, "delete", "live"))]
    <2>1. rev' = t /\ UNCHANGED <<netdev, kind, policy, need, reval_seq, changes, dp, hnd,
                                  faults, astray>>
      BY <1>p1 DEF AddOp
    <2>2. rev \in RevStates /\ rev.ops \in Seq(Ops) /\ rev.next = 1
      BY <1>0, <1>p1, RevFields DEF ShapeInv
    <2>3. r.pc = rev.pc /\ r.reval = rev.reval /\ r.todo = rev.todo \ {f}
          /\ r.moved = rev.moved /\ r.ops = rev.ops /\ r.next = rev.next /\ r \in RevStates
      BY <2>2 DEF RevStates, Met
    <2> HIDE DEF r
    <2>4. Append(rev.ops, Op(f, "delete", "live")) \in Seq(Ops)
      BY <2>2, <1>p3, AppendLemma
    <2>5. rev'.pc = rev.pc /\ rev'.reval = rev.reval /\ rev'.todo = rev.todo \ {f}
          /\ rev'.moved = rev.moved
          /\ rev'.ops = Append(rev.ops, Op(f, "delete", "live")) /\ rev'.next = rev.next
          /\ rev' \in RevStates
      BY <2>1, <2>2, <2>3, <2>4 DEF RevStates
    <2> QED
      BY <1>0, <1>p1, <1>p2, <2>1, <2>2, <2>5, ConstantsLemma DEF TypeOK, OnlyFlow
  <1>2. ~ukey'[f].locked /\ ukey'[f].exists
    BY <1>0, <1>p1, <1>p2 DEF TypeOK
  <1>4. \A i \in OpIndices : FlowOf(i) = f /\ ~Again(i) => Deletes(i)
    BY <1>0, <1>1 DEF ModifyInv
  <1>7. LET n == Len(rev.ops) IN
        /\ n \in Nat /\ Len(rev'.ops) = n + 1 /\ rev'.ops[n + 1] = Op(f, "delete", "live")
        /\ \A i \in 1..n : rev'.ops[i] = rev.ops[i]
    BY <1>0, <1>1, <1>p3, RevFields, AppendLemma
  <1>8. \A i \in OpIndices' : i \in OpIndices \/ i = Len(rev.ops) + 1
    BY <1>7 DEF OpIndices
  <1>9. /\ OpIndices' = OpIndices \cup {Len(rev.ops) + 1} /\ Len(rev.ops) \in Nat
        /\ rev'.ops[Len(rev.ops) + 1] = Op(f, "delete", "live")
        /\ \A i \in OpIndices : rev'.ops[i] = rev.ops[i] /\ i < Len(rev.ops) + 1
    BY <1>7 DEF OpIndices
  <1>10. Queued(f)' /\ \A g \in Flows \ {f} : Queued(g)' <=> Queued(g)
    <2>1. \A g \in Flows \ {f} : Queued(g)' <=> Queued(g)
      BY <1>1, <1>7, <1>p3 DEF Queued
    <2>2. Queued(f)'
      BY <1>1, <1>7, <1>p3 DEF Queued
    <2> QED
      BY <2>1, <2>2
  <1>5. ukey'[f].reval = ukey[f].reval /\ ukey'[f].act = ukey[f].act
    BY <1>1
  <1>11. TypeOK'
    BY <1>0, <1>1, <1>2 DEF TypeOK, OnlyFlow
  <1>12. ShapeInv'
    BY <1>0, <1>1, <1>7, RevFields DEF ShapeInv
  <1>13. SeqInv'
    BY <1>0, <1>1 DEF SeqInv, OnlyFlow
  <1>14. HandlerInv'
    BY <1>0, <1>1, <1>2 DEF HandlerInv, Fresh, OnlyFlow, TypeOK, UkeyGoes, Deletes, Alive
  <1>15. DumpInv'
    BY <1>0, <1>1, <1>2, <1>4, RevFields, <1>7, <1>8, <1>p3 DEF
       DumpInv, Dumping, NotQueued, Distinct, OpIndices, FlowOf, Deletes, OnlyFlow, Again
  <1>16. ModifyInv'
    <2> SUFFICES ASSUME NEW i \in OpIndices', ~Deletes(i)', ~Again(i)'
                 PROVE  LET g == FlowOf(i)' IN
                        /\ ukey'[g] # NoUkey /\ ukey'[g].exists /\ ~ukey'[g].locked
                        /\ ukey'[g].act = rev'.ops[i].act /\ ukey'[g].reval = rev'.reval
                        /\ kind[g] = "plain" /\ ~need' /\ ukey'[g].reval = reval_seq'
                             => ukey'[g].act = policy'[g]
                        /\ \A j \in OpIndices' : i < j /\ ~Again(j)' => FlowOf(j)' # g
      BY <1>1 DEF ModifyInv, Fresh
    <2>1. CASE i \in OpIndices
      <3>1. ~Deletes(i) /\ ~Again(i) /\ FlowOf(i)' = FlowOf(i) /\ FlowOf(i) # f
            /\ FlowOf(i) \in Flows
        BY <1>0, <1>4, <1>9, <2>1, RevFields DEF Deletes, FlowOf, Again
      <3>2. \A j \in OpIndices' : i < j /\ ~Again(j)' => FlowOf(j)' # FlowOf(i)
        BY <1>0, <1>9, <1>p3, <2>1, <3>1 DEF ModifyInv, FlowOf, Again
      <3>3. /\ ukey[FlowOf(i)] # NoUkey /\ ukey[FlowOf(i)].exists /\ ~ukey[FlowOf(i)].locked
            /\ ukey[FlowOf(i)].act = rev.ops[i].act /\ ukey[FlowOf(i)].reval = rev.reval
            /\ Fresh(FlowOf(i), ukey[FlowOf(i)].reval, ukey[FlowOf(i)].act)
        BY <1>0, <2>1, <3>1 DEF ModifyInv
      <3>4. ukey'[FlowOf(i)] = ukey[FlowOf(i)] /\ rev'.ops[i] = rev.ops[i]
        BY <1>1, <1>9, <2>1, <3>1 DEF OnlyFlow
      <3> QED
        BY <1>1, <3>1, <3>2, <3>3, <3>4 DEF Fresh
    <2>2. CASE i = Len(rev.ops) + 1
      BY <1>9, <1>p3, <2>2 DEF Deletes
    <2> QED
      BY <1>9, <2>1, <2>2
  <1>17. SweepInv'
    BY <1>0, <1>1, <1>2, RevFields, <1>7, <1>8, <1>p3 DEF
       SweepInv, Sweeping, OpIndices, FlowOf, Deletes, OnlyFlow, Again
  <1>20. FlowsTracked'
    BY <1>0, <1>1 DEF FlowsTracked, OnlyFlow
  <1>21. UkeysBacked'
    BY <1>0, <1>1, <1>2 DEF UkeysBacked, UkeyGoes, Deletes, OnlyFlow, Alive
  <1>22. GoneInv'
    BY <1>0, <1>1, <1>2, <1>10 DEF GoneInv, Dumping, OnlyFlow
  <1>23. SameInv'
    BY <1>0, <1>1, <1>10 DEF SameInv, OnlyFlow
  <1>24. FreshInv'
    BY <1>0, <1>1, <1>5 DEF FreshInv, Fresh, OnlyFlow
  <1> QED
    BY <1>11, <1>12, <1>13, <1>14, <1>15, <1>16, <1>17, <1>20, <1>21,
       <1>22, <1>23, <1>24 DEF Inv

\* The sweep deletes a ukey that has no flow a second time.
LEMMA SweepCrashStep ==
  ASSUME Inv, NEW d \in rev.dead, rev.pc = "sweep",
         rev' = [[rev EXCEPT !.dead = @ \ {d}] EXCEPT !.pc = "abort"],
         UNCHANGED <<system, main, dp, ukey, hnd, faults, astray>>
  PROVE  Inv'
  <1>0. /\ TypeOK /\ ShapeInv /\ SeqInv /\ HandlerInv /\ DumpInv /\ ModifyInv /\ SweepInv
        /\ FlowsTracked /\ UkeysBacked /\ GoneInv
        /\ SameInv /\ FreshInv
    BY DEF Inv
  <1>1. /\ rev'.pc = "abort" /\ rev'.reval = rev.reval /\ rev'.todo = rev.todo
        /\ rev'.moved = rev.moved /\ rev'.ops = rev.ops /\ rev'.next = rev.next
        /\ rev' \in RevStates
        /\ UNCHANGED <<netdev, kind, policy, need, reval_seq, changes, dp, ukey, hnd,
                       faults, astray>>
    <2> DEFINE r == [rev EXCEPT !.dead = @ \ {d}]
    <2>1. /\ r \in RevStates /\ r.reval = rev.reval /\ r.todo = rev.todo
          /\ r.moved = rev.moved /\ r.ops = rev.ops /\ r.next = rev.next
      BY <1>0 DEF ShapeInv, RevStates
    <2>2. rev' = [r EXCEPT !.pc = "abort"]
      OBVIOUS
    <2> HIDE DEF r
    <2>3. /\ rev'.pc = "abort" /\ rev'.reval = rev.reval /\ rev'.todo = rev.todo
          /\ rev'.moved = rev.moved /\ rev'.ops = rev.ops /\ rev'.next = rev.next
          /\ rev' \in RevStates
      BY <2>1, <2>2 DEF RevStates
    <2> QED
      BY <2>3 DEF system, main
  <1>11. TypeOK'
    BY <1>0, <1>1 DEF TypeOK
  <1>12. ShapeInv'
    BY <1>0, <1>1 DEF ShapeInv
  <1>13. SeqInv'
    BY <1>0, <1>1 DEF SeqInv
  <1>14. HandlerInv'
    BY <1>0, <1>1 DEF HandlerInv, Fresh, Alive
  <1>15. DumpInv'
    BY <1>1 DEF DumpInv, Dumping
  <1>16. ModifyInv'
    BY <1>0, <1>1 DEF ModifyInv, OpIndices, FlowOf, Deletes, Fresh, Again
  <1>17. SweepInv'
    BY <1>1 DEF SweepInv, Sweeping
  <1>20. FlowsTracked'
    BY <1>0, <1>1 DEF FlowsTracked
  <1>21. UkeysBacked'
    BY <1>1 DEF UkeysBacked, Alive
  <1>22. GoneInv'
    BY <1>0, <1>1 DEF GoneInv, Dumping
  <1>23. SameInv'
    BY <1>0, <1>1 DEF SameInv, Queued
  <1>24. FreshInv'
    BY <1>0, <1>1 DEF FreshInv, Fresh
  <1> QED
    BY <1>11, <1>12, <1>13, <1>14, <1>15, <1>16, <1>17, <1>20, <1>21,
       <1>22, <1>23, <1>24 DEF Inv

\* The sweep revalidates a ukey that is deleted.
LEMMA SweepAgainStep ==
  ASSUME Inv, NEW d \in rev.dead, rev.pc = "sweep", NEW result, AgainResult(d, result)
  PROVE  Inv'
  <1>0. /\ TypeOK /\ ShapeInv /\ SeqInv /\ HandlerInv /\ DumpInv /\ ModifyInv /\ SweepInv
        /\ FlowsTracked /\ UkeysBacked /\ GoneInv
        /\ SameInv /\ FreshInv
    BY DEF Inv
  <1>1. /\ rev'.pc = rev.pc /\ rev'.reval = rev.reval /\ rev'.todo = rev.todo
        /\ rev'.moved = rev.moved /\ rev'.next = rev.next /\ rev.next = 1
        /\ rev' \in RevStates
        /\ OpIndices \subseteq OpIndices' /\ Len(rev.ops) <= Len(rev'.ops)
        /\ \A i \in OpIndices : rev'.ops[i] = rev.ops[i]
        /\ \A i \in OpIndices' : i \in OpIndices \/ Again(i)'
        /\ UNCHANGED <<netdev, kind, policy, need, reval_seq, changes, dp, ukey, hnd,
                       faults, astray>>
    <2> DEFINE r == [rev EXCEPT !.dead = @ \ {d}]
               o == Op(d.flow, result, "dead")
    <2>1. /\ r \in RevStates /\ r.pc = rev.pc /\ r.reval = rev.reval /\ r.todo = rev.todo
          /\ r.moved = rev.moved /\ r.ops = rev.ops /\ r.next = rev.next /\ rev.next = 1
      BY <1>0 DEF ShapeInv, RevStates
    <2>2. rev' = IF result = "keep" THEN r ELSE [r EXCEPT !.ops = Append(@, o)]
      BY DEF AgainResult, AddOp
    <2>3. o \in Ops /\ o.ukey = "dead"
      <3>1. d.flow \in Flows
        BY <1>0, RevFields DEF Dead
      <3>2. Retranslated(d.flow) \in Acts
        BY <1>0, <3>1, RetranslatedLemma
      <3> QED
        BY <3>1, <3>2 DEF Op, Ops
    <2>4. /\ rev.ops \in Seq(Ops) /\ Len(rev.ops) \in Nat
          /\ Append(rev.ops, o) \in Seq(Ops) /\ Len(Append(rev.ops, o)) = Len(rev.ops) + 1
          /\ Append(rev.ops, o)[Len(rev.ops) + 1] = o
          /\ \A i \in 1..Len(rev.ops) : Append(rev.ops, o)[i] = rev.ops[i]
      BY <1>0, <2>3, RevFields, AppendLemma
    <2>5. UNCHANGED <<netdev, kind, policy, need, reval_seq, changes, dp, ukey, hnd,
                      faults, astray>>
      BY DEF AgainResult
    <2> HIDE DEF r, o
    <2>6. CASE result = "keep"
      BY <2>1, <2>2, <2>4, <2>5, <2>6 DEF OpIndices
    <2>7. CASE result # "keep"
      <3>1. /\ rev'.pc = r.pc /\ rev'.reval = r.reval /\ rev'.todo = r.todo
            /\ rev'.moved = r.moved /\ rev'.next = r.next
            /\ rev'.ops = Append(rev.ops, o) /\ rev' \in RevStates
        BY <2>1, <2>2, <2>4, <2>7 DEF RevStates
      <3>2. /\ OpIndices \subseteq OpIndices' /\ Len(rev.ops) <= Len(rev'.ops)
            /\ \A i \in OpIndices : rev'.ops[i] = rev.ops[i]
            /\ \A i \in OpIndices' : i \in OpIndices \/ i = Len(rev.ops) + 1
        BY <2>4, <3>1 DEF OpIndices
      <3>3. rev'.ops[Len(rev.ops) + 1].ukey = "dead"
        BY <2>3, <2>4, <3>1
      <3>4. \A i \in OpIndices' : i \in OpIndices \/ Again(i)'
        BY <3>2, <3>3 DEF Again
      <3> QED
        BY <2>1, <2>5, <3>1, <3>2, <3>4
    <2> QED
      BY <2>6, <2>7
  <1>6. \A g \in Flows : Queued(g)' <=> Queued(g)
    <2>1. /\ Len(rev.ops) \in Nat /\ Len(rev'.ops) \in Nat
          /\ OpIndices = 1..Len(rev.ops) /\ OpIndices' = 1..Len(rev'.ops)
      BY <1>0, <1>1, RevFields DEF OpIndices, RevStates
    <2> QED
      BY <1>1, <2>1 DEF Queued, Again
  <1>11. TypeOK'
    BY <1>0, <1>1 DEF TypeOK
  <1>12. ShapeInv'
    <2>1. Len(rev.ops) \in Nat /\ Len(rev'.ops) \in Nat
      BY <1>0, <1>1, RevFields DEF RevStates
    <2> QED
      BY <1>0, <1>1, <2>1 DEF ShapeInv
  <1>13. SeqInv'
    BY <1>0, <1>1 DEF SeqInv
  <1>14. HandlerInv'
    BY <1>0, <1>1 DEF HandlerInv, Fresh, UkeyGoes, Alive
  <1>15. DumpInv'
    BY <1>1 DEF DumpInv, Dumping
  <1>16. ModifyInv'
    <2> SUFFICES ASSUME NEW i \in OpIndices', ~Deletes(i)', ~Again(i)'
                 PROVE  LET g == FlowOf(i)' IN
                        /\ ukey[g] # NoUkey /\ ukey[g].exists /\ ~ukey[g].locked
                        /\ ukey[g].act = rev'.ops[i].act /\ ukey[g].reval = rev.reval
                        /\ Fresh(g, ukey[g].reval, ukey[g].act)
                        /\ \A j \in OpIndices' : i < j /\ ~Again(j)' => FlowOf(j)' # g
      BY <1>1 DEF ModifyInv, Fresh
    <2>1. i \in OpIndices /\ rev'.ops[i] = rev.ops[i]
      BY <1>1
    <2>2. ~Deletes(i) /\ ~Again(i) /\ FlowOf(i)' = FlowOf(i)
      BY <2>1 DEF Deletes, Again, FlowOf
    <2>3. ASSUME NEW j \in OpIndices', i < j, ~Again(j)'
          PROVE  FlowOf(j)' # FlowOf(i)
      <3>1. j \in OpIndices /\ rev'.ops[j] = rev.ops[j]
        BY <1>1, <2>3
      <3>2. ~Again(j) /\ FlowOf(j)' = FlowOf(j)
        BY <2>3, <3>1 DEF Again, FlowOf
      <3> QED
        BY <1>0, <2>1, <2>2, <2>3, <3>1, <3>2 DEF ModifyInv
    <2>4. /\ ukey[FlowOf(i)] # NoUkey /\ ukey[FlowOf(i)].exists /\ ~ukey[FlowOf(i)].locked
          /\ ukey[FlowOf(i)].act = rev.ops[i].act /\ ukey[FlowOf(i)].reval = rev.reval
          /\ Fresh(FlowOf(i), ukey[FlowOf(i)].reval, ukey[FlowOf(i)].act)
      BY <1>0, <2>1, <2>2 DEF ModifyInv
    <2> QED
      BY <2>1, <2>2, <2>3, <2>4
  <1>17. SweepInv'
    <2> SUFFICES ASSUME NEW i \in OpIndices', ~Again(i)'
                 PROVE  LET g == FlowOf(i)' IN
                        /\ ukey[g] # NoUkey /\ ukey[g].exists /\ ~ukey[g].locked
                        /\ i < rev.next /\ Deletes(i)' => dp[g] = None \/ g \in astray
      BY <1>1 DEF SweepInv
    <2>1. i \in OpIndices /\ rev'.ops[i] = rev.ops[i]
      BY <1>1
    <2>2. ~Again(i) /\ FlowOf(i)' = FlowOf(i) /\ (Deletes(i)' <=> Deletes(i))
      BY <2>1 DEF Deletes, Again, FlowOf
    <2> QED
      BY <1>0, <2>1, <2>2 DEF SweepInv, Sweeping
  <1>20. FlowsTracked'
    BY <1>0, <1>1 DEF FlowsTracked
  <1>21. UkeysBacked'
    BY <1>0, <1>1 DEF UkeysBacked, UkeyGoes, Alive
  <1>22. GoneInv'
    BY <1>0, <1>1 DEF GoneInv, Dumping
  <1>23. SameInv'
    BY <1>0, <1>1, <1>6 DEF SameInv
  <1>24. FreshInv'
    BY <1>0, <1>1 DEF FreshInv, Fresh
  <1> QED
    BY <1>11, <1>12, <1>13, <1>14, <1>15, <1>16, <1>17, <1>20, <1>21,
       <1>22, <1>23, <1>24 DEF Inv

\* The sweep meets a ukey that is deleted.
LEMMA SweepMeetsDeletedStep ==
  ASSUME Inv, NEW d \in rev.dead, SweepMeetsDeleted(d)
  PROVE  Inv'
  <1>1. rev.pc = "sweep" /\ UNCHANGED <<system, main, dp, ukey, hnd, faults, astray>>
    BY DEF SweepMeetsDeleted
  <1>2. CASE rev' = [[rev EXCEPT !.dead = @ \ {d}] EXCEPT !.pc = "abort"]
    BY <1>1, <1>2, SweepCrashStep
  <1>3. ASSUME NEW result \in RevalidateUkey(d.ukey, d.flow, rev.reval),
               rev' = AddOp([rev EXCEPT !.dead = @ \ {d}], d.flow, result, "dead")
        PROVE  Inv'
    <2>1. AgainResult(d, result)
      BY <1>1, <1>3 DEF AgainResult, system, main
    <2> QED
      BY <1>1, <2>1, SweepAgainStep
  <1> QED
    BY <1>2, <1>3 DEF SweepMeetsDeleted

-----------------------------------------------------------------------------
(* The revalidator pushes operations, and ends a round.                    *)

\* A batch is pushed.
LEMMA StartPushStep ==
  ASSUME Inv, StartPush
  PROVE  Inv'
  <1>0. /\ TypeOK /\ ShapeInv /\ SeqInv /\ HandlerInv /\ DumpInv /\ ModifyInv /\ SweepInv
        /\ FlowsTracked /\ UkeysBacked /\ GoneInv
        /\ SameInv /\ FreshInv
    BY DEF Inv
  <1>1. /\ rev.pc \in {"dump", "sweep"} /\ rev.next = 1
        /\ rev'.pc = IF rev.pc = "dump" THEN "dump_push" ELSE "sweep_push"
        /\ rev'.reval = rev.reval /\ rev'.todo = rev.todo /\ rev'.seen = rev.seen
        /\ rev'.moved = rev.moved /\ rev'.ops = rev.ops /\ rev'.next = rev.next
        /\ rev' \in RevStates
        /\ UNCHANGED <<netdev, kind, policy, need, reval_seq, changes, dp, ukey, hnd,
                       faults, astray>>
    BY <1>0 DEF StartPush, ShapeInv, RevStates, main, system
  <1>11. TypeOK'
    BY <1>0, <1>1 DEF TypeOK
  <1>12. ShapeInv'
    BY <1>0, <1>1 DEF ShapeInv
  <1>13. SeqInv'
    BY <1>0, <1>1 DEF SeqInv
  <1>14. HandlerInv'
    BY <1>0, <1>1 DEF HandlerInv, Fresh, UkeyGoes, Deletes, Alive
  <1>15. DumpInv'
    BY <1>0, <1>1 DEF DumpInv, Dumping, NotQueued, Distinct, OpIndices, FlowOf, Deletes, Again
  <1>16. ModifyInv'
    BY <1>0, <1>1 DEF ModifyInv, OpIndices, FlowOf, Deletes, Fresh, Again
  <1>17. SweepInv'
    BY <1>0, <1>1 DEF SweepInv, Sweeping, OpIndices, FlowOf, Deletes, Again
  <1>20. FlowsTracked'
    BY <1>0, <1>1 DEF FlowsTracked
  <1>21. UkeysBacked'
    BY <1>0, <1>1 DEF UkeysBacked, UkeyGoes, Deletes, Alive
  <1>22. GoneInv'
    BY <1>0, <1>1 DEF GoneInv, Dumping, Queued
  <1>23. SameInv'
    BY <1>0, <1>1 DEF SameInv, Queued
  <1>24. FreshInv'
    BY <1>0, <1>1 DEF FreshInv, Fresh
  <1> QED
    BY <1>11, <1>12, <1>13, <1>14, <1>15, <1>16, <1>17, <1>20, <1>21,
       <1>22, <1>23, <1>24 DEF Inv

\* A flow is deleted.
LEMMA PushDeleteStep ==
  ASSUME Inv, NEW f \in Flows, PushOp, f = FlowOf(rev.next), Deletes(rev.next)
  PROVE  Inv'
  <1>0. /\ TypeOK /\ ShapeInv /\ SeqInv /\ HandlerInv /\ DumpInv /\ ModifyInv /\ SweepInv
        /\ FlowsTracked /\ UkeysBacked /\ GoneInv
        /\ SameInv /\ FreshInv
    BY DEF Inv
  <1>p1. /\ rev.next \in Nat \ {0} /\ Len(rev.ops) \in Nat /\ rev.next <= Len(rev.ops)
         /\ rev \in RevStates /\ rev.next \in OpIndices
    BY <1>0, RevFields DEF PushOp, Pushing, ShapeInv, OpIndices
  <1>p2. /\ rev' = [rev EXCEPT !.next = @ + 1]
         /\ rev'.pc = rev.pc /\ rev'.reval = rev.reval /\ rev'.todo = rev.todo
         /\ rev'.moved = rev.moved /\ rev'.ops = rev.ops /\ rev'.next = rev.next + 1
         /\ rev' \in RevStates /\ rev.next \in OpIndices /\ rev.next \in Nat
    <2>1. rev' = [rev EXCEPT !.next = @ + 1]
      BY DEF PushOp
    <2> QED
      BY SMTT(30), <1>p1, <2>1 DEF RevStates
  <1>1. /\ rev.pc \in {"dump_push", "sweep_push"}
        /\ rev'.pc = rev.pc /\ rev'.reval = rev.reval /\ rev'.todo = rev.todo
        /\ rev'.moved = rev.moved /\ rev'.ops = rev.ops /\ rev'.next = rev.next + 1
        /\ rev' \in RevStates /\ rev.next \in OpIndices /\ rev.next \in Nat
        /\ dp[f] # None /\ dp'[f] = None
        /\ dp' \in [Flows -> Acts \cup {None}]
        /\ astray' = astray \ {f}
        /\ UNCHANGED <<netdev, kind, policy, need, reval_seq, changes, ukey, hnd, faults>>
        /\ OnlyFlow(f)
    BY <1>0, <1>p1, <1>p2 DEF
       PushOp, Pushing, Deletes, FlowOf, TypeOK, OnlyFlow, main, system
  <1>5. /\ hnd[f].pc = "done" => UkeyGoes(f)'
        /\ ukey[f] # NoUkey /\ ukey[f].exists => UkeyGoes(f)'
    <2>3. CASE rev.pc = "dump_push"
      <3>1. ukey[f] = NoUkey \/ (~ukey[f].locked /\ ~ukey[f].exists)
        BY <1>0, <1>1, <2>3 DEF DumpInv, Dumping
      <3>2. hnd[f].pc # "done"
        BY <1>0, <3>1 DEF TypeOK, HandlerInv
      <3> QED
        BY <3>1, <3>2
    <2>4. CASE rev.pc = "sweep_push"
      BY <1>0, <1>1, <2>4, RevFields DEF UkeyGoes, Deletes, FlowOf, OpIndices
    <2> QED
      BY <1>1, <2>3, <2>4
  <1>6. \A g \in Flows \ {f} : Queued(g)' <=> Queued(g)
    BY <1>0, <1>1, <1>p1, RevFields DEF Queued, OpIndices, FlowOf
  <1>11. TypeOK'
    BY <1>0, <1>1 DEF TypeOK
  <1>12. ShapeInv'
    BY <1>0, <1>1, <1>p1 DEF ShapeInv
  <1>13. SeqInv'
    BY <1>0, <1>1 DEF SeqInv
  <1>14. HandlerInv'
    BY <1>0, <1>1, <1>5 DEF HandlerInv, Fresh, OnlyFlow, UkeyGoes, Deletes, Alive
  <1>15. DumpInv'
    <2> SUFFICES ASSUME Dumping PROVE DumpInv'
      BY <1>1 DEF DumpInv, Dumping
    <2>1. /\ \A g \in rev.todo : dp[g] # None
          /\ NotQueued /\ Distinct /\ \A i \in OpIndices : ~Again(i)
      BY <1>0 DEF DumpInv
    <2>2. f \notin rev.todo
      BY <1>1, <2>1 DEF NotQueued
    <2>3. \A g \in rev'.todo : dp'[g] # None
      BY <1>0, <1>1, <2>1, <2>2, RevFields DEF OnlyFlow
    <2>a. OpIndices' = OpIndices /\ \A i \in OpIndices : i \in Nat
      BY <1>1 DEF OpIndices
    <2>b. Distinct' /\ \A i \in OpIndices' : ~Again(i)'
      BY <1>1, <2>1, <2>a DEF Distinct, Again, FlowOf
    <2>c. NotQueued'
      BY <1>1, <2>1, <2>a DEF NotQueued, FlowOf
    <2>4. Distinct' /\ NotQueued' /\ \A i \in OpIndices' : ~Again(i)'
      BY <2>b, <2>c
    <2>5. ASSUME NEW i \in OpIndices', rev'.next <= i
          PROVE  /\ dp'[FlowOf(i)'] # None
                 /\ Deletes(i)' => \/ ukey'[FlowOf(i)'] = NoUkey
                                   \/ ~ukey'[FlowOf(i)'].exists /\ ~ukey'[FlowOf(i)'].locked
      <3>1. i \in OpIndices /\ i \in Nat /\ rev.next <= i /\ i # rev.next
        BY <1>0, <1>1, <2>5, RevFields DEF OpIndices
      <3>2. FlowOf(i)' = FlowOf(i) /\ (Deletes(i)' <=> Deletes(i)) /\ FlowOf(i) \in Flows
        BY <1>0, <1>1, <3>1, RevFields DEF FlowOf, Deletes
      <3>3. FlowOf(i) # f
        BY <1>1, <2>1, <3>1 DEF Distinct
      <3>4. /\ dp[FlowOf(i)] # None
            /\ Deletes(i) => \/ ukey[FlowOf(i)] = NoUkey
                             \/ ~ukey[FlowOf(i)].exists /\ ~ukey[FlowOf(i)].locked
        BY <1>0, <3>1 DEF DumpInv
      <3> QED
        BY <1>1, <3>2, <3>3, <3>4 DEF OnlyFlow
    <2> QED
      BY <2>3, <2>4, <2>5 DEF DumpInv
  <1>16. ModifyInv'
    BY <1>0, <1>1 DEF ModifyInv, OpIndices, FlowOf, Deletes, Fresh, Again
  <1>17. SweepInv'
    BY <1>0, <1>1, <1>p1, <1>5, RevFields DEF
       SweepInv, Sweeping, OpIndices, FlowOf, Deletes, OnlyFlow, Again
  <1>20. FlowsTracked'
    BY <1>0, <1>1, <1>5 DEF FlowsTracked, OnlyFlow
  <1>21. UkeysBacked'
    <2>1. \A g \in Flows \ {f} : UkeyGoes(g)' <=> UkeyGoes(g)
      BY <1>1 DEF UkeyGoes, Deletes
    <2> QED
      BY <1>0, <1>1, <1>5, <2>1 DEF UkeysBacked, OnlyFlow, Alive
  <1>22. GoneInv'
    BY <1>0, <1>1, <1>5, <1>6 DEF GoneInv, Dumping, OnlyFlow
  <1>23. SameInv'
    BY <1>0, <1>1, <1>5, <1>6 DEF SameInv, OnlyFlow
  <1>24. FreshInv'
    BY <1>0, <1>1, <1>5 DEF FreshInv, Fresh, OnlyFlow, HandlerInv
  <1> QED
    BY <1>11, <1>12, <1>13, <1>14, <1>15, <1>16, <1>17, <1>20, <1>21,
       <1>22, <1>23, <1>24 DEF Inv

\* A flow is modified.
LEMMA PushModifyStep ==
  ASSUME Inv, NEW f \in Flows, PushOp, f = FlowOf(rev.next), ~Deletes(rev.next),
         ~Again(rev.next)
  PROVE  Inv'
  <1>0. /\ TypeOK /\ ShapeInv /\ SeqInv /\ HandlerInv /\ DumpInv /\ ModifyInv /\ SweepInv
        /\ FlowsTracked /\ UkeysBacked /\ GoneInv
        /\ SameInv /\ FreshInv
    BY DEF Inv
  <1>p1. /\ rev.next \in Nat \ {0} /\ Len(rev.ops) \in Nat /\ rev.next <= Len(rev.ops)
         /\ rev \in RevStates /\ rev.next \in OpIndices
    BY <1>0, RevFields DEF PushOp, Pushing, ShapeInv, OpIndices
  <1>p2. /\ rev' = [rev EXCEPT !.next = @ + 1]
         /\ rev'.pc = rev.pc /\ rev'.reval = rev.reval /\ rev'.todo = rev.todo
         /\ rev'.moved = rev.moved /\ rev'.ops = rev.ops /\ rev'.next = rev.next + 1
         /\ rev' \in RevStates /\ rev.next \in OpIndices /\ rev.next \in Nat
    <2>1. rev' = [rev EXCEPT !.next = @ + 1]
      BY DEF PushOp
    <2> QED
      BY SMTT(30), <1>p1, <2>1 DEF RevStates
  <1>1. /\ rev.pc \in {"dump_push", "sweep_push"}
        /\ rev'.pc = rev.pc /\ rev'.reval = rev.reval /\ rev'.todo = rev.todo
        /\ rev'.moved = rev.moved /\ rev'.ops = rev.ops /\ rev'.next = rev.next + 1
        /\ rev' \in RevStates /\ rev.next \in OpIndices /\ rev.next \in Nat
        /\ dp[f] # None /\ dp'[f] = rev.ops[rev.next].act /\ dp'[f] \in Acts \ {None}
        /\ dp' \in [Flows -> Acts \cup {None}]
        /\ astray' \subseteq Flows /\ astray' \subseteq astray /\ (UkeyGoes(f) => astray' = astray)
        /\ UNCHANGED <<netdev, kind, policy, need, reval_seq, changes, ukey, hnd, faults>>
        /\ OnlyFlow(f)
    BY <1>0, <1>p1, <1>p2, RevFields, ConstantsLemma
       DEF PushOp, Pushing, Deletes, Again, FlowOf, TypeOK, OnlyFlow, Ops, main, system
  <1>5. /\ ukey[f] # NoUkey /\ ukey[f].exists /\ ukey[f].act = rev.ops[rev.next].act
        /\ Fresh(f, ukey[f].reval, ukey[f].act)
    BY <1>0, <1>1 DEF ModifyInv
  <1>6. \A g \in Flows \ {f} : Queued(g)' <=> Queued(g)
    BY <1>0, <1>1, <1>p1, RevFields DEF Queued, OpIndices, FlowOf
  <1>11. TypeOK'
    BY <1>0, <1>1 DEF TypeOK
  <1>12. ShapeInv'
    BY <1>0, <1>1, <1>p1 DEF ShapeInv
  <1>13. SeqInv'
    BY <1>0, <1>1 DEF SeqInv
  <1>14. HandlerInv'
    BY <1>0, <1>1, <1>5 DEF HandlerInv, Fresh, OnlyFlow, UkeyGoes, Deletes, Alive
  <1>15. DumpInv'
    <2> SUFFICES ASSUME Dumping PROVE DumpInv'
      BY <1>1 DEF DumpInv, Dumping
    <2>1. /\ \A g \in rev.todo : dp[g] # None
          /\ NotQueued /\ Distinct /\ \A i \in OpIndices : ~Again(i)
      BY <1>0 DEF DumpInv
    <2>2. f \notin rev.todo
      BY <1>1, <2>1 DEF NotQueued
    <2>3. \A g \in rev'.todo : dp'[g] # None
      BY <1>0, <1>1, <2>1, <2>2, RevFields DEF OnlyFlow
    <2>a. OpIndices' = OpIndices /\ \A i \in OpIndices : i \in Nat
      BY <1>1 DEF OpIndices
    <2>b. Distinct' /\ \A i \in OpIndices' : ~Again(i)'
      BY <1>1, <2>1, <2>a DEF Distinct, Again, FlowOf
    <2>c. NotQueued'
      BY <1>1, <2>1, <2>a DEF NotQueued, FlowOf
    <2>4. Distinct' /\ NotQueued' /\ \A i \in OpIndices' : ~Again(i)'
      BY <2>b, <2>c
    <2>5. ASSUME NEW i \in OpIndices', rev'.next <= i
          PROVE  /\ dp'[FlowOf(i)'] # None
                 /\ Deletes(i)' => \/ ukey'[FlowOf(i)'] = NoUkey
                                   \/ ~ukey'[FlowOf(i)'].exists /\ ~ukey'[FlowOf(i)'].locked
      <3>1. i \in OpIndices /\ i \in Nat /\ rev.next <= i /\ i # rev.next
        BY <1>0, <1>1, <2>5, RevFields DEF OpIndices
      <3>2. FlowOf(i)' = FlowOf(i) /\ (Deletes(i)' <=> Deletes(i)) /\ FlowOf(i) \in Flows
        BY <1>0, <1>1, <3>1, RevFields DEF FlowOf, Deletes
      <3>3. FlowOf(i) # f
        BY <1>1, <2>1, <3>1 DEF Distinct
      <3>4. /\ dp[FlowOf(i)] # None
            /\ Deletes(i) => \/ ukey[FlowOf(i)] = NoUkey
                             \/ ~ukey[FlowOf(i)].exists /\ ~ukey[FlowOf(i)].locked
        BY <1>0, <3>1 DEF DumpInv
      <3> QED
        BY <1>1, <3>2, <3>3, <3>4 DEF OnlyFlow
    <2> QED
      BY <2>3, <2>4, <2>5 DEF DumpInv
  <1>16. ModifyInv'
    BY <1>0, <1>1 DEF ModifyInv, OpIndices, FlowOf, Deletes, Fresh, Again
  <1>17. SweepInv'
    <2> SUFFICES ASSUME Sweeping', NEW i \in OpIndices', ~Again(i)'
                 PROVE  LET g == FlowOf(i) IN
                        /\ ukey[g] # NoUkey /\ ukey[g].exists /\ ~ukey[g].locked
                        /\ i < rev'.next /\ Deletes(i) => dp'[g] = None \/ g \in astray'
      BY <1>1 DEF SweepInv, FlowOf, Deletes
    <2>1. i \in OpIndices /\ ~Again(i) /\ Sweeping /\ i \in Nat
      BY <1>1, RevFields DEF OpIndices, Sweeping, Again
    <2>2. /\ ukey[FlowOf(i)] # NoUkey /\ ukey[FlowOf(i)].exists /\ ~ukey[FlowOf(i)].locked
          /\ i < rev.next /\ Deletes(i) => dp[FlowOf(i)] = None \/ FlowOf(i) \in astray
      BY <1>0, <2>1 DEF SweepInv
    <2>3. i < rev'.next /\ Deletes(i) => i < rev.next
      BY <1>1, <2>1
    <2>4. ASSUME FlowOf(i) = f, i < rev.next, Deletes(i) PROVE f \in astray'
      <3>1. f \in astray
        BY <1>1, <2>2, <2>4
      <3>2. UkeyGoes(f)
        BY <1>0, <1>1, <2>1, <2>4, RevFields DEF UkeyGoes, Sweeping, OpIndices, FlowOf
      <3> QED
        BY <1>1, <3>1, <3>2
    <2>5. CASE FlowOf(i) = f
      BY <2>2, <2>3, <2>4, <2>5
    <2>6. CASE FlowOf(i) # f
      <3>1. FlowOf(i) \in Flows
        BY <1>0, <2>1, RevFields
      <3> QED
        BY <1>1, <2>2, <2>3, <2>6, <3>1 DEF OnlyFlow
    <2> QED
      BY <2>5, <2>6
  <1>20. FlowsTracked'
    BY <1>0, <1>1, <1>5 DEF FlowsTracked, OnlyFlow
  <1>21. UkeysBacked'
    BY <1>0, <1>1, <1>5 DEF UkeysBacked, UkeyGoes, Deletes, OnlyFlow, Alive
  <1>22. GoneInv'
    BY <1>0, <1>1, <1>5, <1>6 DEF GoneInv, Dumping, OnlyFlow
  <1>23. SameInv'
    BY <1>0, <1>1, <1>5, <1>6 DEF SameInv, OnlyFlow
  <1>24. FreshInv'
    BY <1>0, <1>1, <1>5 DEF FreshInv, Fresh, OnlyFlow, HandlerInv
  <1> QED
    BY <1>11, <1>12, <1>13, <1>14, <1>15, <1>16, <1>17, <1>20, <1>21,
       <1>22, <1>23, <1>24 DEF Inv

\* A flow is modified for a ukey that is deleted.
LEMMA PushAgainStep ==
  ASSUME Inv, NEW f \in Flows, PushOp, f = FlowOf(rev.next), ~Deletes(rev.next),
         Again(rev.next)
  PROVE  Inv'
  <1>0. /\ TypeOK /\ ShapeInv /\ SeqInv /\ HandlerInv /\ DumpInv /\ ModifyInv /\ SweepInv
        /\ FlowsTracked /\ UkeysBacked /\ GoneInv
        /\ SameInv /\ FreshInv
    BY DEF Inv
  <1>p1. /\ rev.next \in Nat \ {0} /\ Len(rev.ops) \in Nat /\ rev.next <= Len(rev.ops)
         /\ rev \in RevStates /\ rev.next \in OpIndices
    BY <1>0, RevFields DEF PushOp, Pushing, ShapeInv, OpIndices
  <1>p2. /\ rev' = [rev EXCEPT !.next = @ + 1]
         /\ rev'.pc = rev.pc /\ rev'.reval = rev.reval /\ rev'.todo = rev.todo
         /\ rev'.moved = rev.moved /\ rev'.ops = rev.ops /\ rev'.next = rev.next + 1
         /\ rev' \in RevStates /\ rev.next \in OpIndices /\ rev.next \in Nat
    <2>1. rev' = [rev EXCEPT !.next = @ + 1]
      BY DEF PushOp
    <2> QED
      BY SMTT(30), <1>p1, <2>1 DEF RevStates
  <1>1. /\ rev.pc \in {"dump_push", "sweep_push"}
        /\ rev'.pc = rev.pc /\ rev'.reval = rev.reval /\ rev'.todo = rev.todo
        /\ rev'.moved = rev.moved /\ rev'.ops = rev.ops /\ rev'.next = rev.next + 1
        /\ rev' \in RevStates /\ rev.next \in OpIndices /\ rev.next \in Nat
        /\ dp[f] # None /\ dp'[f] = rev.ops[rev.next].act /\ dp'[f] \in Acts \ {None}
        /\ dp' \in [Flows -> Acts \cup {None}]
        /\ astray' = astray \cup {f}
        /\ UNCHANGED <<netdev, kind, policy, need, reval_seq, changes, ukey, hnd, faults>>
        /\ OnlyFlow(f)
    BY <1>0, <1>p1, <1>p2, RevFields, ConstantsLemma
       DEF PushOp, Pushing, Deletes, Again, FlowOf, TypeOK, OnlyFlow, Ops, main, system
  <1>5. rev.pc = "sweep_push"
    BY <1>0, <1>1 DEF DumpInv, Dumping
  <1>6. \A g \in Flows \ {f} : Queued(g)' <=> Queued(g)
    BY <1>0, <1>1, <1>p1, RevFields DEF Queued, OpIndices, FlowOf
  <1>11. TypeOK'
    BY <1>0, <1>1 DEF TypeOK
  <1>12. ShapeInv'
    BY <1>0, <1>1, <1>p1 DEF ShapeInv
  <1>13. SeqInv'
    BY <1>0, <1>1 DEF SeqInv
  <1>14. HandlerInv'
    BY <1>0, <1>1 DEF HandlerInv, Fresh, OnlyFlow, UkeyGoes, Deletes, Alive
  <1>15. DumpInv'
    BY <1>1, <1>5 DEF DumpInv, Dumping
  <1>16. ModifyInv'
    BY <1>0, <1>1 DEF ModifyInv, OpIndices, FlowOf, Deletes, Fresh, Again
  <1>17. SweepInv'
    <2> SUFFICES ASSUME NEW i \in OpIndices, ~Again(i)
                 PROVE  LET g == FlowOf(i) IN
                        /\ ukey[g] # NoUkey /\ ukey[g].exists /\ ~ukey[g].locked
                        /\ i < rev'.next /\ Deletes(i) => dp'[g] = None \/ g \in astray'
      BY <1>1 DEF SweepInv, FlowOf, Deletes, Again, OpIndices
    <2>1. /\ ukey[FlowOf(i)] # NoUkey /\ ukey[FlowOf(i)].exists /\ ~ukey[FlowOf(i)].locked
          /\ i < rev.next /\ Deletes(i) => dp[FlowOf(i)] = None \/ FlowOf(i) \in astray
          /\ i \in Nat /\ FlowOf(i) \in Flows
      BY <1>0, <1>5, RevFields DEF SweepInv, Sweeping, OpIndices
    <2>2. i < rev'.next /\ Deletes(i) => i < rev.next
      BY <1>1, <2>1
    <2> QED
      BY <1>1, <2>1, <2>2 DEF OnlyFlow
  <1>20. FlowsTracked'
    BY <1>0, <1>1 DEF FlowsTracked, OnlyFlow
  <1>21. UkeysBacked'
    BY <1>0, <1>1 DEF UkeysBacked, UkeyGoes, Deletes, OnlyFlow, Alive
  <1>22. GoneInv'
    BY <1>0, <1>1, <1>6 DEF GoneInv, Dumping, OnlyFlow
  <1>23. SameInv'
    BY <1>0, <1>1, <1>6 DEF SameInv, OnlyFlow
  <1>24. FreshInv'
    BY <1>0, <1>1 DEF FreshInv, Fresh, OnlyFlow, HandlerInv
  <1> QED
    BY <1>11, <1>12, <1>13, <1>14, <1>15, <1>16, <1>17, <1>20, <1>21,
       <1>22, <1>23, <1>24 DEF Inv

\* There is no flow to delete or to modify.
LEMMA PushNothingStep ==
  ASSUME Inv, NEW f \in Flows, PushFails, f = FlowOf(rev.next), dp[f] = None
  PROVE  Inv'
  <1>0. /\ TypeOK /\ ShapeInv /\ SeqInv /\ HandlerInv /\ DumpInv /\ ModifyInv /\ SweepInv
        /\ FlowsTracked /\ UkeysBacked /\ GoneInv
        /\ SameInv /\ FreshInv
    BY DEF Inv
  <1>p1. /\ rev.next \in Nat \ {0} /\ Len(rev.ops) \in Nat /\ rev.next <= Len(rev.ops)
         /\ rev \in RevStates /\ rev.next \in OpIndices
    BY <1>0, RevFields DEF PushFails, Pushing, ShapeInv, OpIndices
  <1>p2. /\ rev' = [rev EXCEPT !.next = @ + 1]
         /\ rev'.pc = rev.pc /\ rev'.reval = rev.reval /\ rev'.todo = rev.todo
         /\ rev'.moved = rev.moved /\ rev'.ops = rev.ops /\ rev'.next = rev.next + 1
         /\ rev' \in RevStates /\ rev.next \in OpIndices /\ rev.next \in Nat
    BY <1>p1 DEF PushFails, RevStates
  <1>1. /\ rev.pc \in {"dump_push", "sweep_push"}
        /\ rev'.pc = rev.pc /\ rev'.reval = rev.reval /\ rev'.todo = rev.todo
        /\ rev'.moved = rev.moved /\ rev'.ops = rev.ops /\ rev'.next = rev.next + 1
        /\ rev' \in RevStates /\ rev.next \in OpIndices /\ rev.next \in Nat
        /\ UNCHANGED <<netdev, kind, policy, need, reval_seq, changes, dp, ukey, hnd,
                       faults, astray>>
    BY <1>0, <1>p1, <1>p2 DEF PushFails, Pushing, FlowOf, main, system
  <1>6. \A g \in Flows \ {f} : Queued(g)' <=> Queued(g)
    BY <1>0, <1>1, <1>p1, RevFields DEF Queued, OpIndices, FlowOf
  <1>11. TypeOK'
    BY <1>0, <1>1 DEF TypeOK
  <1>12. ShapeInv'
    BY <1>0, <1>1, <1>p1 DEF ShapeInv
  <1>13. SeqInv'
    BY <1>0, <1>1 DEF SeqInv
  <1>14. HandlerInv'
    BY <1>0, <1>1 DEF HandlerInv, Fresh, UkeyGoes, Deletes, Alive
  <1>15. DumpInv'
    BY <1>0, <1>1, <1>p1, RevFields DEF
       DumpInv, Dumping, NotQueued, Distinct, OpIndices, FlowOf, Deletes, Again
  <1>16. ModifyInv'
    BY <1>0, <1>1 DEF ModifyInv, OpIndices, FlowOf, Deletes, Fresh, Again
  <1>17. SweepInv'
    BY <1>0, <1>1, <1>p1, RevFields DEF SweepInv, Sweeping, OpIndices, FlowOf, Deletes, Again
  <1>20. FlowsTracked'
    BY <1>0, <1>1 DEF FlowsTracked
  <1>21. UkeysBacked'
    BY <1>0, <1>1 DEF UkeysBacked, UkeyGoes, Deletes, Alive
  <1>22. GoneInv'
    BY <1>0, <1>1, <1>6 DEF GoneInv, Dumping
  <1>23. SameInv'
    BY <1>0, <1>1, <1>6 DEF SameInv
  <1>24. FreshInv'
    BY <1>0, <1>1 DEF FreshInv, Fresh
  <1> QED
    BY <1>11, <1>12, <1>13, <1>14, <1>15, <1>16, <1>17, <1>20, <1>21,
       <1>22, <1>23, <1>24 DEF Inv

\* The datapath fails.
LEMMA PushFaultStep ==
  ASSUME Inv, NEW f \in Flows, PushFails, f = FlowOf(rev.next), dp[f] # None
  PROVE  Inv'
  <1>0. /\ TypeOK /\ ShapeInv /\ SeqInv /\ HandlerInv /\ DumpInv /\ ModifyInv /\ SweepInv
        /\ FlowsTracked /\ UkeysBacked /\ GoneInv
        /\ SameInv /\ FreshInv
    BY DEF Inv
  <1>p1. /\ rev.next \in Nat \ {0} /\ Len(rev.ops) \in Nat /\ rev.next <= Len(rev.ops)
         /\ rev \in RevStates /\ rev.next \in OpIndices
    BY <1>0, RevFields DEF PushFails, Pushing, ShapeInv, OpIndices
  <1>p2. /\ rev' = [rev EXCEPT !.next = @ + 1]
         /\ rev'.pc = rev.pc /\ rev'.reval = rev.reval /\ rev'.todo = rev.todo
         /\ rev'.moved = rev.moved /\ rev'.ops = rev.ops /\ rev'.next = rev.next + 1
         /\ rev' \in RevStates /\ rev.next \in OpIndices /\ rev.next \in Nat
    BY <1>p1 DEF PushFails, RevStates
  <1>1. /\ rev.pc \in {"dump_push", "sweep_push"}
        /\ rev'.pc = rev.pc /\ rev'.reval = rev.reval /\ rev'.todo = rev.todo
        /\ rev'.moved = rev.moved /\ rev'.ops = rev.ops /\ rev'.next = rev.next + 1
        /\ rev' \in RevStates /\ rev.next \in OpIndices /\ rev.next \in Nat
        /\ dp[f] # None /\ astray' = astray \cup {f} /\ faults' \in 0..MaxFaults
        /\ UNCHANGED <<netdev, kind, policy, need, reval_seq, changes, dp, ukey, hnd>>
    BY SMTT(30), <1>0, <1>p1, <1>p2, RangeLemma, ConstantsLemma DEF
       PushFails, Pushing, FlowOf, TypeOK, main, system
  <1>6. \A g \in Flows \ {f} : Queued(g)' <=> Queued(g)
    BY <1>0, <1>1, <1>p1, RevFields DEF Queued, OpIndices, FlowOf
  <1>11. TypeOK'
    BY <1>0, <1>1 DEF TypeOK
  <1>12. ShapeInv'
    BY <1>0, <1>1, <1>p1 DEF ShapeInv
  <1>13. SeqInv'
    BY <1>0, <1>1 DEF SeqInv
  <1>14. HandlerInv'
    BY <1>0, <1>1 DEF HandlerInv, Fresh, UkeyGoes, Deletes, Alive
  <1>15. DumpInv'
    <2> SUFFICES ASSUME Dumping' PROVE DumpInv'
      BY DEF DumpInv
    <2>1. Dumping /\ OpIndices' = OpIndices
      BY <1>1 DEF Dumping, OpIndices
    <2>2. \A i \in OpIndices : /\ FlowOf(i)' = FlowOf(i) /\ (Deletes(i)' <=> Deletes(i))
                               /\ (Again(i)' <=> Again(i))
                               /\ (rev'.next <= i => rev.next <= i)
      BY <1>1, <1>p1 DEF FlowOf, Deletes, Again, OpIndices
    <2>3. (\A g \in rev.todo : dp[g] # None)' /\ NotQueued' /\ Distinct'
      BY <1>0, <1>1, <2>1, <2>2 DEF DumpInv, NotQueued, Distinct
    <2> QED
      BY <1>0, <1>1, <2>1, <2>2, <2>3 DEF DumpInv
  <1>16. ModifyInv'
    BY <1>0, <1>1 DEF ModifyInv, OpIndices, FlowOf, Deletes, Fresh, Again
  <1>17. SweepInv'
    BY <1>0, <1>1, <1>p1, RevFields DEF SweepInv, Sweeping, OpIndices, FlowOf, Deletes, Again
  <1>20. FlowsTracked'
    BY <1>0, <1>1 DEF FlowsTracked
  <1>21. UkeysBacked'
    BY <1>0, <1>1 DEF UkeysBacked, UkeyGoes, Deletes, Alive
  <1>22. GoneInv'
    BY <1>0, <1>1, <1>6 DEF GoneInv, Dumping
  <1>23. SameInv'
    BY <1>0, <1>1, <1>6 DEF SameInv
  <1>24. FreshInv'
    BY <1>0, <1>1 DEF FreshInv, Fresh, HandlerInv
  <1> QED
    BY <1>11, <1>12, <1>13, <1>14, <1>15, <1>16, <1>17, <1>20, <1>21,
       <1>22, <1>23, <1>24 DEF Inv

\* The dump goes on.
LEMMA EndDumpPushStep ==
  ASSUME Inv, EndPush, rev.pc = "dump_push"
  PROVE  Inv'
  <1>0. /\ TypeOK /\ ShapeInv /\ SeqInv /\ HandlerInv /\ DumpInv /\ ModifyInv /\ SweepInv
        /\ FlowsTracked /\ UkeysBacked /\ GoneInv
        /\ SameInv /\ FreshInv
    BY DEF Inv
  <1>1. /\ rev.next > Len(rev.ops) /\ rev'.pc = "dump"
        /\ rev'.reval = rev.reval /\ rev'.todo = rev.todo /\ rev'.moved = rev.moved
        /\ rev'.ops = <<>> /\ rev'.next = 1 /\ rev' \in RevStates
        /\ UNCHANGED <<netdev, kind, policy, need, reval_seq, changes, dp, ukey, hnd,
                       faults, astray>>
    <2> DEFINE e == [rev EXCEPT !.ops = <<>>, !.next = 1]
    <2>a. /\ e \in RevStates /\ e.ops = <<>> /\ e.next = 1
          /\ e.reval = rev.reval /\ e.todo = rev.todo /\ e.moved = rev.moved
      <3>1. rev \in RevStates /\ <<>> \in Seq(Ops) /\ 1 \in Nat \ {0}
        BY <1>0 DEF ShapeInv
      <3> QED
        BY <3>1 DEF RevStates
    <2>1. rev' = [e EXCEPT !.pc = "dump"] /\ rev.next > Len(rev.ops)
          /\ UNCHANGED <<netdev, kind, policy, need, reval_seq, changes, dp, ukey, hnd,
                         faults, astray>>
      BY DEF EndPush, main, system
    <2> HIDE DEF e
    <2> QED
      BY <2>a, <2>1 DEF RevStates
  <1>3. /\ OpIndices' = {} /\ Len(rev'.ops) = 0
        /\ \A f \in Flows : ~Queued(f) /\ ~Queued(f)'
    BY <1>0, <1>1, RevFields DEF OpIndices, Queued
  <1>11. TypeOK'
    BY <1>0, <1>1 DEF TypeOK
  <1>12. ShapeInv'
    BY <1>0, <1>1, <1>3 DEF ShapeInv
  <1>13. SeqInv'
    BY <1>0, <1>1 DEF SeqInv
  <1>14. HandlerInv'
    BY <1>0, <1>1, <1>3 DEF HandlerInv, Fresh, UkeyGoes, Deletes, Alive
  <1>15. DumpInv'
    BY <1>0, <1>1, <1>3 DEF DumpInv, Dumping, NotQueued, Distinct, Again
  <1>16. ModifyInv'
    BY <1>3 DEF ModifyInv, Again
  <1>17. SweepInv'
    BY <1>3 DEF SweepInv, Again
  <1>20. FlowsTracked'
    BY <1>0, <1>1 DEF FlowsTracked
  <1>21. UkeysBacked'
    BY <1>0, <1>1 DEF UkeysBacked, UkeyGoes, Deletes, Alive
  <1>22. GoneInv'
    BY <1>0, <1>1, <1>3 DEF GoneInv
  <1>23. SameInv'
    BY <1>0, <1>1, <1>3 DEF SameInv
  <1>24. FreshInv'
    BY <1>0, <1>1 DEF FreshInv, Fresh
  <1> QED
    BY <1>11, <1>12, <1>13, <1>14, <1>15, <1>16, <1>17, <1>20, <1>21,
       <1>22, <1>23, <1>24 DEF Inv

\* The ukeys of deleted flows go, each once.
LEMMA EndSweepPushStep ==
  ASSUME Inv, EndPush, rev.pc = "sweep_push", ~Twice
  PROVE  Inv'
  <1>0. /\ TypeOK /\ ShapeInv /\ SeqInv /\ HandlerInv /\ DumpInv /\ ModifyInv /\ SweepInv
        /\ FlowsTracked /\ UkeysBacked /\ GoneInv
        /\ SameInv /\ FreshInv
    BY DEF Inv
  <1>2. /\ DOMAIN rev.ops = OpIndices
        /\ \A f : Gone(f) <=> f \in {rev.ops[i].flow : i \in {j \in DOMAIN rev.ops : Deletes(j)}}
    <2>1. DOMAIN rev.ops = OpIndices
      BY <1>0, RevFields DEF OpIndices
    <2> QED
      BY <2>1 DEF Gone, FlowOf
  <1>4. \A f \in Flows : Gone(f) =>
          /\ ukey[f] # NoUkey /\ ~ukey[f].locked
          /\ dp[f] = None \/ f \in astray
    <2> SUFFICES ASSUME NEW f \in Flows, NEW i \in OpIndices, FlowOf(i) = f, Deletes(i)
                 PROVE  /\ ukey[f] # NoUkey /\ ~ukey[f].locked
                        /\ dp[f] = None \/ f \in astray
      BY DEF Gone
    <2>1. ~Again(i) /\ i < rev.next
      BY <1>0, RevFields DEF EndPush, Twice, OpIndices, Again
    <2> QED
      BY <1>0, <2>1 DEF SweepInv, Sweeping
  <1>1. /\ rev.next > Len(rev.ops) /\ rev'.pc = "sweep"
        /\ rev'.reval = rev.reval /\ rev'.todo = rev.todo /\ rev'.moved = rev.moved
        /\ rev'.ops = <<>> /\ rev'.next = 1 /\ rev' \in RevStates
        /\ ukey' \in [Flows -> UkeyTypes \cup {NoUkey}]
        /\ \A f \in Flows : ukey'[f] = IF Gone(f) THEN NoUkey ELSE ukey[f]
        /\ UNCHANGED <<netdev, kind, policy, need, reval_seq, changes, dp, hnd, faults,
                       astray>>
    <2> DEFINE e == [rev EXCEPT !.ops = <<>>, !.next = 1]
               gone == {rev.ops[i].flow : i \in {j \in DOMAIN rev.ops : Deletes(j)}}
               b == Bury(e, gone)
    <2>a. /\ e \in RevStates /\ e.ops = <<>> /\ e.next = 1
          /\ e.reval = rev.reval /\ e.todo = rev.todo /\ e.moved = rev.moved
      <3>1. rev \in RevStates /\ <<>> \in Seq(Ops) /\ 1 \in Nat \ {0}
        BY <1>0 DEF ShapeInv
      <3> QED
        BY <3>1 DEF RevStates
    <2>1. /\ rev' = [b EXCEPT !.pc = "sweep"] /\ rev.next > Len(rev.ops)
          /\ ukey' = [f \in Flows |-> IF f \in gone THEN NoUkey ELSE ukey[f]]
          /\ UNCHANGED <<netdev, kind, policy, need, reval_seq, changes, dp, hnd, faults,
                         astray>>
      BY DEF EndPush, Twice, main, system
    <2>2. {[flow |-> f, ukey |-> ukey[f]] : f \in gone} \subseteq Dead
      <3>1. \A f \in gone : f \in Flows
        BY <1>0, <1>2, RevFields DEF Gone
      <3>2. \A f \in gone : f \in Flows /\ ukey[f] \in UkeyTypes
        BY <1>0, <1>2, <1>4, <3>1, UkeyFields
      <3> HIDE DEF gone
      <3> QED
        BY <3>2 DEF Dead
    <2>4. \A f \in Flows : ukey'[f] = IF Gone(f) THEN NoUkey ELSE ukey[f]
      BY <1>2, <2>1
    <2>5. ukey' \in [Flows -> UkeyTypes \cup {NoUkey}]
      BY <1>0, <2>1 DEF TypeOK
    <2> HIDE DEF e, gone
    <2>6. /\ b \in RevStates /\ b.ops = e.ops /\ b.next = e.next
          /\ b.reval = e.reval /\ b.todo = e.todo /\ b.moved = e.moved
      BY <2>a, <2>2 DEF Bury, RevStates
    <2> HIDE DEF b
    <2>3. /\ rev'.pc = "sweep" /\ rev' \in RevStates /\ rev'.ops = <<>>
          /\ rev'.next = 1
          /\ rev'.reval = rev.reval /\ rev'.todo = rev.todo /\ rev'.moved = rev.moved
      BY <2>a, <2>6, <2>1 DEF RevStates
    <2> QED
      BY <2>1, <2>3, <2>4, <2>5
  <1>3. /\ OpIndices' = {} /\ Len(rev'.ops) = 0
        /\ \A f \in Flows : ~Queued(f) /\ ~Queued(f)'
    BY <1>0, <1>1, RevFields DEF OpIndices, Queued
  <1>6. \A f \in Flows : UkeyGoes(f) => Gone(f)
    BY <1>0, RevFields DEF UkeyGoes, Gone, FlowOf, OpIndices
  <1>11. TypeOK'
    BY <1>0, <1>1, <1>4 DEF TypeOK
  <1>12. ShapeInv'
    BY <1>0, <1>1, <1>3 DEF ShapeInv
  <1>13. SeqInv'
    BY <1>0, <1>1 DEF SeqInv
  <1>14. HandlerInv'
    BY <1>0, <1>1, <1>3, <1>4, <1>6 DEF HandlerInv, Fresh, TypeOK, UkeyGoes, Deletes, Alive
  <1>15. DumpInv'
    BY <1>0, <1>1 DEF DumpInv, Dumping, NotQueued, Distinct, OpIndices, FlowOf, Deletes, Again
  <1>16. ModifyInv'
    BY <1>3 DEF ModifyInv, Again
  <1>17. SweepInv'
    BY <1>3 DEF SweepInv, Again
  <1>20. FlowsTracked'
    BY <1>0, <1>1, <1>4 DEF FlowsTracked
  <1>21. UkeysBacked'
    BY <1>0, <1>1, <1>6 DEF UkeysBacked, Alive
  <1>22. GoneInv'
    BY <1>0, <1>1, <1>3 DEF GoneInv
  <1>23. SameInv'
    BY <1>0, <1>1, <1>3, <1>4 DEF SameInv
  <1>24. FreshInv'
    BY <1>0, <1>1 DEF FreshInv, Fresh
  <1> QED
    BY <1>11, <1>12, <1>13, <1>14, <1>15, <1>16, <1>17, <1>20, <1>21,
       <1>22, <1>23, <1>24 DEF Inv

\* A ukey is deleted a second time.
LEMMA EndTwiceStep ==
  ASSUME Inv, EndPush, rev.pc = "sweep_push", Twice
  PROVE  Inv'
  <1>0. /\ TypeOK /\ ShapeInv /\ SeqInv /\ HandlerInv /\ DumpInv /\ ModifyInv /\ SweepInv
        /\ FlowsTracked /\ UkeysBacked /\ GoneInv
        /\ SameInv /\ FreshInv
    BY DEF Inv
  <1>1. /\ rev.next > Len(rev.ops) /\ rev'.pc = "abort"
        /\ rev'.reval = rev.reval /\ rev'.todo = rev.todo /\ rev'.moved = rev.moved
        /\ rev'.ops = <<>> /\ rev'.next = 1 /\ rev' \in RevStates
        /\ UNCHANGED <<netdev, kind, policy, need, reval_seq, changes, dp, ukey, hnd,
                       faults, astray>>
    <2> DEFINE e == [rev EXCEPT !.ops = <<>>, !.next = 1]
    <2>a. /\ e \in RevStates /\ e.ops = <<>> /\ e.next = 1
          /\ e.reval = rev.reval /\ e.todo = rev.todo /\ e.moved = rev.moved
      <3>1. rev \in RevStates /\ <<>> \in Seq(Ops) /\ 1 \in Nat \ {0}
        BY <1>0 DEF ShapeInv
      <3> QED
        BY <3>1 DEF RevStates
    <2>1. rev' = [e EXCEPT !.pc = "abort"] /\ rev.next > Len(rev.ops)
          /\ UNCHANGED <<netdev, kind, policy, need, reval_seq, changes, dp, ukey, hnd,
                         faults, astray>>
      BY DEF EndPush, Twice, main, system
    <2> HIDE DEF e
    <2> QED
      BY <2>a, <2>1 DEF RevStates
  <1>3. /\ OpIndices' = {} /\ Len(rev'.ops) = 0
        /\ \A f \in Flows : ~Queued(f) /\ ~Queued(f)'
    BY <1>0, <1>1, RevFields DEF OpIndices, Queued
  <1>11. TypeOK'
    BY <1>0, <1>1 DEF TypeOK
  <1>12. ShapeInv'
    BY <1>0, <1>1, <1>3 DEF ShapeInv
  <1>13. SeqInv'
    BY <1>0, <1>1 DEF SeqInv
  <1>14. HandlerInv'
    BY <1>0, <1>1, <1>3 DEF HandlerInv, Fresh, UkeyGoes, Deletes, Alive
  <1>15. DumpInv'
    BY <1>1 DEF DumpInv, Dumping
  <1>16. ModifyInv'
    BY <1>3 DEF ModifyInv, Again
  <1>17. SweepInv'
    BY <1>3 DEF SweepInv, Again
  <1>20. FlowsTracked'
    BY <1>0, <1>1 DEF FlowsTracked
  <1>21. UkeysBacked'
    BY <1>0, <1>1 DEF UkeysBacked, UkeyGoes, Deletes, Alive
  <1>22. GoneInv'
    BY <1>0, <1>1, <1>3 DEF GoneInv, Dumping
  <1>23. SameInv'
    BY <1>0, <1>1, <1>3 DEF SameInv
  <1>24. FreshInv'
    BY <1>0, <1>1 DEF FreshInv, Fresh
  <1> QED
    BY <1>11, <1>12, <1>13, <1>14, <1>15, <1>16, <1>17, <1>20, <1>21,
       <1>22, <1>23, <1>24 DEF Inv

\* The round ends, and another dump_seq begins.
LEMMA EndRoundStep ==
  ASSUME Inv, EndRound
  PROVE  Inv'
  <1>0. /\ TypeOK /\ ShapeInv /\ SeqInv /\ HandlerInv /\ DumpInv /\ ModifyInv /\ SweepInv
        /\ FlowsTracked /\ UkeysBacked /\ GoneInv
        /\ SameInv /\ FreshInv
    BY DEF Inv
  <1>1. /\ rev.pc = "sweep" /\ rev.ops = <<>> /\ rev'.pc = "wait" /\ rev'.reval = rev.reval
        /\ rev'.ops = <<>> /\ rev'.next = rev.next /\ rev' \in RevStates
        /\ ukey' \in [Flows -> UkeyTypes \cup {NoUkey}]
        /\ hnd' \in [Flows -> {Idle} \cup HandlerStates]
        /\ \A f \in Flows : ukey'[f] # NoUkey <=> ukey[f] # NoUkey
        /\ \A f \in Flows : ukey[f] # NoUkey =>
             /\ ukey'[f].act = ukey[f].act /\ ukey'[f].reval = ukey[f].reval
             /\ ukey'[f].exists = ukey[f].exists /\ ukey'[f].locked = ukey[f].locked
        /\ \A f \in Flows :
             /\ hnd'[f].pc = hnd[f].pc
             /\ hnd[f].pc # "idle" => hnd'[f].act = hnd[f].act /\ hnd'[f].reval = hnd[f].reval
        /\ UNCHANGED <<netdev, kind, policy, need, reval_seq, changes, dp, faults, astray>>
    <2>1. /\ rev.pc = "sweep" /\ rev.ops = <<>> /\ UNCHANGED <<netdev, kind, policy, need,
                                                               reval_seq, changes, dp, faults, astray>>
          /\ rev' = [rev EXCEPT !.pc = "wait", !.todo = {}, !.seen = {}, !.dead = {},
                               !.moved = FALSE]
      BY DEF EndRound, main, system
    <2>2. rev'.pc = "wait" /\ rev'.reval = rev.reval /\ rev'.ops = <<>>
          /\ rev'.next = rev.next /\ rev' \in RevStates
      BY <1>0, <2>1 DEF ShapeInv, RevStates
    <2>3. ASSUME NEW f \in Flows PROVE IF ukey[f] = NoUkey THEN ukey'[f] = NoUkey ELSE
            /\ ukey'[f] \in UkeyTypes /\ ukey'[f].act = ukey[f].act
            /\ ukey'[f].reval = ukey[f].reval
            /\ ukey'[f].exists = ukey[f].exists /\ ukey'[f].locked = ukey[f].locked
      BY <1>0, UkeyFields DEF EndRound, UkeyTypes
    <2>4. ASSUME NEW f \in Flows PROVE IF hnd[f].pc = "idle" THEN hnd'[f] = hnd[f] ELSE
            /\ hnd'[f] \in HandlerStates /\ hnd'[f].pc = hnd[f].pc
            /\ hnd'[f].act = hnd[f].act /\ hnd'[f].reval = hnd[f].reval
      BY <1>0, HandlerFields DEF EndRound, HandlerStates
    <2>5. ukey' \in [Flows -> UkeyTypes \cup {NoUkey}]
      BY <2>3 DEF EndRound
    <2>6. hnd' \in [Flows -> {Idle} \cup HandlerStates]
      BY <1>0, <2>4 DEF EndRound, ShapeInv
    <2>7. \A f \in Flows : (ukey'[f] # NoUkey <=> ukey[f] # NoUkey) /\ (ukey[f] # NoUkey =>
            /\ ukey'[f].act = ukey[f].act /\ ukey'[f].reval = ukey[f].reval
            /\ ukey'[f].exists = ukey[f].exists /\ ukey'[f].locked = ukey[f].locked)
      BY <2>3, ConstantsLemma
    <2>8. \A f \in Flows : hnd'[f].pc = hnd[f].pc /\ (hnd[f].pc # "idle" =>
            hnd'[f].act = hnd[f].act /\ hnd'[f].reval = hnd[f].reval)
      BY <2>4
    <2> QED
      BY <2>1, <2>2, <2>5, <2>6, <2>7, <2>8
  <1>3. /\ OpIndices' = {} /\ OpIndices = {} /\ Len(rev'.ops) = 0 /\ rev.next = 1
        /\ \A f \in Flows : ~Queued(f) /\ ~Queued(f)'
    BY <1>0, <1>1 DEF OpIndices, Queued, ShapeInv
  <1>11. TypeOK'
    BY <1>0, <1>1 DEF TypeOK
  <1>12. ShapeInv'
    BY <1>0, <1>1, <1>3 DEF ShapeInv
  <1>13. SeqInv'
    BY <1>0, <1>1 DEF SeqInv
  <1>14. HandlerInv'
    BY <1>0, <1>1, <1>3 DEF HandlerInv, Fresh, UkeyGoes, Deletes, Alive
  <1>15. DumpInv'
    BY <1>1 DEF DumpInv, Dumping, Again
  <1>16. ModifyInv'
    BY <1>3 DEF ModifyInv, Again
  <1>17. SweepInv'
    BY <1>3 DEF SweepInv, Again
  <1>20. FlowsTracked'
    BY <1>0, <1>1 DEF FlowsTracked
  <1>21. UkeysBacked'
    BY <1>0, <1>1 DEF UkeysBacked, UkeyGoes, Deletes, Alive
  <1>22. GoneInv'
    BY <1>0, <1>1, <1>3 DEF GoneInv
  <1>23. SameInv'
    BY <1>0, <1>1, <1>3 DEF SameInv
  <1>24. FreshInv'
    BY <1>0, <1>1 DEF FreshInv, Fresh
  <1> QED
    BY <1>11, <1>12, <1>13, <1>14, <1>15, <1>16, <1>17, <1>20, <1>21,
       <1>22, <1>23, <1>24 DEF Inv
-----------------------------------------------------------------------------
(* The theorems.                                                           *)

\* A handler's installation of a ukey, whether there is one or not.
LEMMA UkeyInstallStep ==
  ASSUME Inv, NEW f \in Flows, UkeyInstall(f)
  PROVE  Inv'
  BY UkeyInstallNewStep, UkeyInstallOldStep

\* The addition of a flow, by the kernel or by a PMD thread, in time or too late.
LEMMA PutStep ==
  ASSUME Inv, NEW f \in Flows, Put(f)
  PROVE  Inv'
  <1>1. CASE ~netdev
    BY <1>1, PutKernelStep
  <1>2. CASE netdev /\ ~TooLate(f)
    BY <1>2, PutInTimeStep
  <1>3. CASE netdev /\ TooLate(f)
    BY <1>3, PutTooLateStep
  <1> QED
    BY <1>1, <1>2, <1>3

\* The results of a revalidation.
LEMMA ResultLemma ==
  ASSUME NEW u, NEW f, NEW result \in RevalidateUkey(u, f, rev.reval)
  PROVE  result \in {"keep", "modify", "delete"}
  BY DEF RevalidateUkey

\* The revalidation of a dumped flow, by its result.
LEMMA DumpFlowStep ==
  ASSUME Inv, NEW f \in Flows, DumpFlow(f)
  PROVE  Inv'
  <1>1. PICK result \in RevalidateUkey(ukey[f], f, rev.reval) : DumpResult(f, result)
    BY DEF DumpFlow, DumpResult, AfterDump
  <1>2. result \in {"keep", "modify", "delete"}
    BY ResultLemma
  <1> QED
    BY <1>1, <1>2, DumpFlowKeepStep, DumpFlowModifyStep, DumpFlowDeleteStep

\* The revalidation of a flow in the sweep, by its result.
LEMMA SweepRevalidatesStep ==
  ASSUME Inv, NEW f \in Flows, SweepRevalidates(f)
  PROVE  Inv'
  <1>1. PICK result \in RevalidateUkey(ukey[f], f, rev.reval) : SweepResult(f, result)
    BY DEF SweepRevalidates, SweepResult
  <1>2. result \in {"keep", "modify", "delete"}
    BY ResultLemma
  <1> QED
    BY <1>1, <1>2, SweepKeepStep, SweepModifyStep, SweepDeleteStep

\* The flow of the operation that is pushed next.
LEMMA NextOpLemma ==
  ASSUME Inv, Pushing
  PROVE  FlowOf(rev.next) \in Flows
  <1>1. ShapeInv
    BY DEF Inv
  <1>2. rev.next \in OpIndices
    BY <1>1, RevFields DEF Pushing, OpIndices
  <1> QED
    BY <1>1, <1>2, RevFields

\* An operation that succeeds.
LEMMA PushOpStep ==
  ASSUME Inv, PushOp
  PROVE  Inv'
  <1>1. FlowOf(rev.next) \in Flows
    BY NextOpLemma DEF PushOp
  <1> QED
    BY <1>1, PushDeleteStep, PushModifyStep, PushAgainStep

\* An operation that fails.
LEMMA PushFailsStep ==
  ASSUME Inv, PushFails
  PROVE  Inv'
  <1>1. FlowOf(rev.next) \in Flows
    BY NextOpLemma DEF PushFails
  <1> QED
    BY <1>1, PushNothingStep, PushFaultStep

\* The end of a batch.
LEMMA EndPushStep ==
  ASSUME Inv, EndPush
  PROVE  Inv'
  <1>1. rev.pc \in {"dump_push", "sweep_push"}
    BY DEF EndPush
  <1> QED
    BY <1>1, EndDumpPushStep, EndSweepPushStep, EndTwiceStep

\* A step of the revalidator.
LEMMA RevalidatorLemma ==
  ASSUME Inv, RevalidatorStep
  PROVE  Inv'
  <1>1. ASSUME NEW f \in Flows,
               \/ Adopt(f) \/ Reject(f) \/ SkipDumped(f) \/ DumpFlow(f)
               \/ SweepKeeps(f) \/ SweepDeletes(f) \/ SweepRevalidates(f)
        PROVE  Inv'
    BY <1>1, AdoptStep, RejectStep, SkipDumpedStep, DumpFlowStep, SweepKeepsStep,
       SweepDeletesStep, SweepRevalidatesStep
  <1>2. ASSUME StartRound \/ StartSweep \/ StartPush \/ PushOp \/ PushFails \/ EndPush \/ EndRound
        PROVE  Inv'
    BY <1>2, StartRoundStep, StartSweepStep, StartPushStep, PushOpStep, PushFailsStep,
       EndPushStep, EndRoundStep
  <1>3. ASSUME NEW d \in rev.dead, SweepMeetsDeleted(d)
        PROVE  Inv'
    BY <1>3, SweepMeetsDeletedStep
  <1> QED
    BY <1>1, <1>2, <1>3 DEF RevalidatorStep

\* No step of any thread breaks the invariant.
LEMMA StepLemma ==
  ASSUME Inv, [Next]_vars
  PROVE  Inv'
  <1>1. ASSUME NEW f \in Flows, Upcall(f) \/ NoPort(f) \/ HandlerStep(f)
        PROVE  Inv'
    BY <1>1, UpcallStep, NoPortStep, XlateStep, DeclineStep, UkeyInstallStep, PutStep, PutFailsStep,
       FinishStep DEF HandlerStep
  <1>2. ASSUME NEW f \in Flows, NEW a \in Acts, ChangeRules(f, a) \/ ChangeSessions(f, a)
        PROVE  Inv'
    BY <1>2, ChangeRulesStep, ChangeSessionsStep
  <1>3. ASSUME Revalidate \/ Purge \/ Flush
        PROVE  Inv'
    BY <1>3, RevalidateStep, PurgeStep, FlushStep
  <1>4. CASE UNCHANGED vars
    <2>1. UNCHANGED <<netdev, kind, policy, need, reval_seq, changes, dp, ukey, hnd, rev,
                      faults, astray>>
      BY <1>4 DEF vars, main, system
    <2>2. /\ TypeOK /\ ShapeInv /\ SeqInv /\ HandlerInv /\ DumpInv /\ ModifyInv /\ SweepInv
          /\ FlowsTracked /\ UkeysBacked /\ GoneInv
          /\ SameInv /\ FreshInv
      BY DEF Inv
    <2>3. TypeOK' /\ ShapeInv' /\ SeqInv'
      BY <2>1, <2>2 DEF TypeOK, ShapeInv, SeqInv
    <2>4. HandlerInv' /\ FreshInv'
      BY <2>1, <2>2 DEF HandlerInv, FreshInv, Fresh, UkeyGoes, Deletes, Alive
    <2>5. DumpInv'
      BY <2>1, <2>2 DEF DumpInv, Again, Dumping, NotQueued, Distinct, OpIndices,
                        FlowOf, Deletes
    <2>6. ModifyInv' /\ SweepInv'
      BY <2>1, <2>2 DEF ModifyInv, SweepInv, Sweeping, OpIndices, FlowOf, Deletes, Fresh, Again
    <2>7. FlowsTracked' /\ UkeysBacked'
      BY <2>1, <2>2 DEF FlowsTracked, UkeysBacked, UkeyGoes, Deletes, Alive
    <2>8. GoneInv' /\ SameInv'
      BY <2>1, <2>2 DEF GoneInv, SameInv, Dumping, Queued
    <2> QED
      BY <2>3, <2>4, <2>5, <2>6, <2>7, <2>8 DEF Inv
  <1>5. CASE Next
    BY <1>1, <1>2, <1>3, <1>5, RevalidatorLemma DEF Next
  <1> QED
    BY <1>4, <1>5

\* The invariant holds at the start, with whatever flows are left in the datapath.
LEMMA InitInv ==
  ASSUME Init
  PROVE  Inv
  <1>1. /\ ukey = [f \in Flows |-> NoUkey] /\ hnd = [f \in Flows |-> Idle]
        /\ astray = {f \in Flows : dp[f] # None} /\ need = FALSE
        /\ rev = [pc |-> "wait", reval |-> 0, todo |-> {}, seen |-> {}, dead |-> {},
                  moved |-> FALSE, ops |-> <<>>, next |-> 1]
    BY DEF Init
  <1>2. /\ rev.pc = "wait" /\ rev.reval = 0 /\ rev.todo = {} /\ rev.ops = <<>>
        /\ rev.next = 1
        /\ rev \in RevStates
    BY <1>1, ConstantsLemma DEF RevStates
  <1>3. \A f \in Flows : ukey[f] = NoUkey /\ hnd[f].pc = "idle"
    BY <1>1, IdleLemma
  <1>4. TypeOK
    <2>1. /\ netdev \in BOOLEAN /\ kind \in Kinds /\ need \in BOOLEAN
          /\ astray \subseteq Flows
          /\ dp \in [Flows -> Acts \cup {None}] /\ policy \in [Flows -> Acts]
          /\ ukey \in [Flows -> UkeyTypes \cup {NoUkey}]
      BY <1>1, ConstantsLemma DEF Init
    <2>2. reval_seq \in 0..changes /\ changes \in 0..MaxChanges /\ faults \in 0..MaxFaults
      BY ConstantsLemma DEF Init
    <2> QED
      BY <1>2, <1>3, <2>1, <2>2 DEF TypeOK
  <1>5. ShapeInv /\ SeqInv
    BY <1>1, <1>2, <1>3, ConstantsLemma DEF Init, ShapeInv, SeqInv
  <1>6. HandlerInv /\ FreshInv /\ GoneInv /\ UkeysBacked
    BY <1>3 DEF HandlerInv, FreshInv, GoneInv, UkeysBacked
  <1>7. DumpInv /\ ModifyInv /\ SweepInv
    BY <1>2 DEF DumpInv, ModifyInv, SweepInv, Dumping, Sweeping,
                OpIndices
  <1>8. FlowsTracked /\ SameInv
    BY <1>1 DEF FlowsTracked, SameInv
  <1> QED
    BY <1>4, <1>5, <1>6, <1>7, <1>8 DEF Inv

\* The inductive invariant holds in every behaviour of handlers, revalidator and main
\* thread.
THEOREM Invariance == Spec => []Inv
  BY InitInv, StepLemma, PTL DEF Spec

\* The variables have their types: a ukey is locked exactly while a kernel handler
\* installs its flow, and reval_seq never overtakes the changes of the tables.
THEOREM CacheTypes == Spec => []TypeOK
  <1>1. Inv => TypeOK
    BY DEF Inv
  <1> QED
    BY <1>1, Invariance, PTL

\* A datapath flow that has no ukey was left by a former process, was installed for a
\* port of no bridge, survived an operation that failed, was modified for a ukey that
\* the sweep met again after its deletion, or was added by a PMD thread after its
\* ukey was gone.
THEOREM TrackedHolds == Spec => []FlowsTracked
  <1>1. Inv => FlowsTracked
    BY DEF Inv
  <1> QED
    BY <1>1, Invariance, PTL

\* A ukey with flow_exists and without a flow belongs to a PMD thread that is about to
\* add the flow, or to a sweep that is about to delete it.
THEOREM BackedHolds == Spec => []UkeysBacked
  <1>1. Inv => UkeysBacked
    BY DEF Inv
  <1> QED
    BY <1>1, Invariance, PTL

\* A datapath flow that disagrees with the OpenFlow tables awaits udpif_revalidate(), or
\* has an operation queued, or has a ukey that the next round revalidates.
THEOREM StaleHolds == Spec => []StaleMarked
  <1>1. ASSUME Inv
        PROVE  StaleMarked
    <2>1. FlowsTracked /\ SameInv /\ FreshInv
      BY <1>1 DEF Inv
    <2> QED
      BY <2>1 DEF StaleMarked, FlowsTracked, SameInv, FreshInv, Fresh
  <1> QED
    BY <1>1, Invariance, PTL
==============================================================================
