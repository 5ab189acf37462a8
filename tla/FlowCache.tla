----------------------------- MODULE FlowCache -----------------------------
(***************************************************************************)
(* The datapath flow cache: upcall handlers that install flows, the        *)
(* revalidator that keeps them in step with the OpenFlow tables, and the   *)
(* main thread that changes the tables (ofproto/ofproto-dpif-upcall.c).    *)
(*                                                                         *)
(* A flow stands for its ufid, an element of Acts for the datapath actions *)
(* that a translation yields.  Every test of a dump_seq asks whether it is *)
(* the current one, so a member "dumped" holds the answer, and the end of  *)
(* a round clears them all.  reval_seq is a number, because a round goes   *)
(* on with the one it has read.                                            *)
(*                                                                         *)
(* With the kernel datapath (~netdev) handlers hold a ukey's mutex while   *)
(* they install its flow; with DPDK (netdev) the PMD thread calls          *)
(* upcall_cb() and adds the flow itself later.  The datapath chooses the   *)
(* thread by the hash of the packet, so that a flow has one upcall under   *)
(* way at a time.  There is one revalidator: the leader.                   *)
(*                                                                         *)
(* astray is history: flows that were adopted from the datapath, that were *)
(* installed for a port of no bridge, whose last operation failed or was   *)
(* made for a ukey that is deleted, or that a PMD thread added too late.   *)
(***************************************************************************)
EXTENDS Naturals, Sequences

CONSTANTS
  Flows,
  Acts,       \* datapath actions
  Drop,       \* no action, an element of Acts
  None,       \* no datapath flow
  NoUkey,     \* no ukey with this ufid
  Garbage,    \* actions that no translation yields
  Kinds,      \* the functions from Flows to "plain", "gtp", "sgi" to look at
  MaxChanges, \* bound on changes of the tables
  MaxFaults   \* bound on datapath operations that fail for no reason of ours,
              \* and on packets from ports of no bridge

UkeyTypes ==
  [act : Acts \cup {Garbage}, reval : 0..MaxChanges, dumped : BOOLEAN,
   exists : BOOLEAN, locked : BOOLEAN]

ASSUME FlowCacheAssumption ==
  /\ Drop \in Acts /\ None \notin Acts /\ Garbage \notin Acts \cup {None}
  /\ MaxChanges \in Nat /\ MaxFaults \in Nat
  /\ Kinds \subseteq [Flows -> {"plain", "gtp", "sgi"}]
  /\ NoUkey \notin UkeyTypes

VARIABLES
  netdev,     \* the datapath is dpif-netdev
  kind,       \* which flows are GTP messages, or go to handle_pgw_sgi()
  policy,     \* what translating a packet of each flow yields
  need,       \* backer->need_revalidate
  reval_seq,  \* udpif->reval_seq
  dp,         \* the datapath's flows: their actions
  ukey,       \* udpif->ukeys
  hnd,        \* the upcall of each flow: its place, and the ukey to be installed
  rev,        \* the revalidator
  changes, faults, astray

system == <<netdev, kind>>
main == <<policy, need, reval_seq, changes>>
vars == <<system, main, dp, ukey, hnd, rev, faults, astray>>

Idle == [pc |-> "idle"]

Init ==
  /\ netdev \in BOOLEAN
  /\ kind \in Kinds
  /\ policy = [f \in Flows |-> Drop]
  /\ need = FALSE /\ reval_seq = 0
  /\ dp \in [Flows -> Acts \cup {None}]  \* what a former ovs-vswitchd has left
  /\ ukey = [f \in Flows |-> NoUkey]
  /\ hnd = [f \in Flows |-> Idle]
  /\ rev = [pc |-> "wait", reval |-> 0, todo |-> {}, seen |-> {}, dead |-> {},
            moved |-> FALSE, ops |-> <<>>, next |-> 1]
  /\ changes = 0 /\ faults = 0
  /\ astray = {f \in Flows : dp[f] # None}
-----------------------------------------------------------------------------
(* Upcalls.                                                                *)

\* A packet misses.  upcall_xlate() reads the sequence numbers...
Upcall(f) ==
  /\ hnd[f].pc = "idle" /\ dp[f] = None
  /\ hnd' = [hnd EXCEPT ![f] = [pc |-> "xlate", dumped |-> TRUE,
                                reval |-> reval_seq, act |-> None]]
  /\ UNCHANGED <<system, main, dp, ukey, rev, faults, astray>>

\* ... and then translates, with the packet at hand.
Xlate(f) ==
  /\ hnd[f].pc = "xlate"
  /\ hnd' = [hnd EXCEPT ![f].pc = "install", ![f].act = policy[f]]
  /\ UNCHANGED <<system, main, dp, ukey, rev, faults, astray>>

Cacheable(f) == netdev \/ kind[f] # "gtp"

\* Too many flows, a recirculation without reference, or a GTP message that
\* handle_upcalls() takes: no flow is installed.
Decline(f) ==
  /\ hnd[f].pc = "install"
  /\ hnd' = [hnd EXCEPT ![f] = Idle]
  /\ UNCHANGED <<system, main, dp, ukey, rev, faults, astray>>

NewUkey(act, reval, dumped, exists, locked) ==
  [act |-> act, reval |-> reval, dumped |-> dumped,
   exists |-> exists, locked |-> locked]

\* The ukey goes into the map unless one is there.  upcall_cb() finishes the
\* installation at once.  An insertion may move other nodes of the map, and
\* the revalidator may meet the new one.
UkeyInstall(f) ==
  /\ hnd[f].pc = "install" /\ Cacheable(f)
  /\ IF ukey[f] = NoUkey
       THEN /\ ukey' = [ukey EXCEPT ![f] =
                 NewUkey(hnd[f].act, hnd[f].reval, hnd[f].dumped, netdev, ~netdev)]
            /\ hnd' = [hnd EXCEPT ![f].pc = "put"]
            /\ rev' = IF rev.pc \in {"sweep", "sweep_push"}
                        THEN [rev EXCEPT !.moved = TRUE, !.todo = @ \cup {f}]
                        ELSE rev
       ELSE /\ hnd' = [hnd EXCEPT ![f] = Idle]
            /\ UNCHANGED <<ukey, rev>>
  /\ UNCHANGED <<system, main, dp, faults, astray>>

\* A flow that appears during a dump is dumped or not; one that the dump has
\* found before is not in what it has yet to go through.
MayBeDumped(f) ==
  \/ rev' = rev
  \/ /\ rev.pc \in {"dump", "dump_push"} /\ f \notin rev.seen
     /\ rev' = [rev EXCEPT !.todo = @ \cup {f}]

\* recv_upcalls() gets a packet from a port that belongs to no bridge: a flow that
\* drops is installed, and no ukey.  (upcall_cb() installs nothing.)
NoPort(f) ==
  /\ ~netdev /\ hnd[f].pc = "idle" /\ dp[f] = None
  /\ faults < MaxFaults /\ faults' = faults + 1
  /\ dp' = [dp EXCEPT ![f] = Drop]
  /\ MayBeDumped(f)
  /\ astray' = astray \cup {f}
  /\ UNCHANGED <<system, main, ukey, hnd>>

\* While the PMD thread was under way the revalidator has deleted its ukey, given
\* it other actions, or tried in vain to delete or modify the flow.
TooLate(f) ==
  \/ IF ukey[f] = NoUkey THEN TRUE ELSE ukey[f].act # hnd[f].act
  \/ \E i \in 1..(rev.next - 1) : rev.ops[i].flow = f /\ rev.ops[i].ukey # "dead"

\* dpif_operate() with DPIF_FP_CREATE, or dp_netdev_flow_add().
Put(f) ==
  /\ hnd[f].pc = "put"
  /\ dp' = [dp EXCEPT ![f] = hnd[f].act]
  /\ MayBeDumped(f)
  /\ hnd' = [hnd EXCEPT ![f] = IF netdev THEN Idle ELSE [@ EXCEPT !.pc = "done"]]
  /\ astray' = IF netdev /\ TooLate(f) THEN astray \cup {f} ELSE astray
  /\ UNCHANGED <<system, main, ukey, faults>>

\* The kernel refuses.
PutFails(f) ==
  /\ hnd[f].pc = "put" /\ ~netdev
  /\ faults < MaxFaults /\ faults' = faults + 1
  /\ hnd' = [hnd EXCEPT ![f].pc = "failed"]
  /\ UNCHANGED <<system, main, dp, ukey, rev, astray>>

\* Mutant: the mutex is not released after a failure.
FinishKeepsLock(f) ==
  /\ hnd[f].pc \in {"done", "failed"}
  /\ ukey' = [ukey EXCEPT ![f].exists = hnd[f].pc = "done", ![f].locked = hnd[f].pc = "failed"]
  /\ hnd' = [hnd EXCEPT ![f] = Idle]
  /\ UNCHANGED <<system, main, dp, rev, faults, astray>>

\* ukey_install_finish().
Finish(f) ==
  /\ hnd[f].pc \in {"done", "failed"}
  /\ ukey' = [ukey EXCEPT ![f].exists = hnd[f].pc = "done", ![f].locked = FALSE]
  /\ hnd' = [hnd EXCEPT ![f] = Idle]
  /\ UNCHANGED <<system, main, dp, rev, faults, astray>>

HandlerStep(f) ==
  Xlate(f) \/ Decline(f) \/ UkeyInstall(f) \/ Put(f) \/ PutFails(f) \/ Finish(f)
-----------------------------------------------------------------------------
(* The main thread.                                                        *)

\* A flow_mod.  The bridge remembers to have the cache revalidated.
ChangeRules(f, a) ==
  /\ kind[f] = "plain" /\ policy[f] # a /\ changes < MaxChanges
  /\ policy' = [policy EXCEPT ![f] = a]
  /\ need' = TRUE /\ changes' = changes + 1
  /\ UNCHANGED <<system, reval_seq, dp, ukey, hnd, rev, faults, astray>>

\* Gateways and sessions come and go, and nothing is revalidated.
ChangeSessions(f, a) ==
  /\ kind[f] # "plain" /\ policy[f] # a /\ changes < MaxChanges
  /\ policy' = [policy EXCEPT ![f] = a]
  /\ changes' = changes + 1
  /\ UNCHANGED <<system, need, reval_seq, dp, ukey, hnd, rev, faults, astray>>

\* type_run() and udpif_revalidate().
Revalidate ==
  /\ need
  /\ need' = FALSE /\ reval_seq' = reval_seq + 1
  /\ UNCHANGED <<system, policy, changes, dp, ukey, hnd, rev, faults, astray>>

\* All threads are stopped, and PMD threads are out of their upcalls.
Stopped == rev.pc = "wait" /\ \A f \in Flows : hnd[f].pc = "idle"

Purged == {f \in Flows : IF ukey[f] = NoUkey THEN FALSE
                                            ELSE ukey[f].exists /\ dp[f] # None}

\* udpif_synchronize(): revalidator_purge() deletes the flows that have a ukey,
\* fails for some, and deletes all ukeys.
Purge ==
  /\ Stopped
  /\ \E missed \in SUBSET Purged :
       LET gone == Purged \ missed IN
       /\ missed # {} => faults < MaxFaults
       /\ faults' = IF missed = {} THEN faults ELSE faults + 1
       /\ dp' = [f \in Flows |-> IF f \in gone THEN None ELSE dp[f]]
       /\ astray' = (astray \ gone) \cup missed
  /\ ukey' = [f \in Flows |-> NoUkey]
  /\ UNCHANGED <<system, main, hnd, rev>>

\* udpif_flush(): dpif_flow_flush() takes what the purge has left.
Flush ==
  /\ Stopped
  /\ dp' = [f \in Flows |-> None]
  /\ ukey' = [f \in Flows |-> NoUkey]
  /\ astray' = {}
  /\ UNCHANGED <<system, main, hnd, rev, faults>>
-----------------------------------------------------------------------------
(* The revalidator.                                                        *)

\* revalidate_ukey() translates without a packet, and handle_gtp() and
\* handle_pgw_sgi() then do nothing.
Retranslated(f) == IF kind[f] = "plain" THEN policy[f] ELSE Drop

\* What revalidate_ukey() may return.  Too idle, too costly, a mask that is too
\* wide or no port: the flow is deleted.
RevalidateUkey(u, f, reval) ==
  {"delete"} \cup
  IF u.reval = reval \/ u.act = Retranslated(f) THEN {"keep"} ELSE {"modify"}

\* Mutant: the ukey is given the current number, not the one of this round.
RevalidatedNow(u, f, result) ==
  [u EXCEPT !.reval = IF result = "delete" THEN @ ELSE reval_seq,
            !.act = IF result = "modify" THEN Retranslated(f) ELSE @]

\* The ukey afterwards, with the actions that reval_op_init() stores.
Revalidated(u, f, result) ==
  [u EXCEPT !.reval = IF result = "delete" THEN @ ELSE rev.reval,
            !.act = IF result = "modify" THEN Retranslated(f) ELSE @]

\* delete_op_init() and modify_op_init(), for a ukey that is in the map ("live") or
\* that is deleted already ("dead").
Op(f, result, which) ==
  [flow |-> f, act |-> IF result = "delete" THEN None ELSE Retranslated(f),
   ukey |-> which]

AddOp(r, f, result, which) ==
  IF result = "keep" THEN r ELSE [r EXCEPT !.ops = Append(@, Op(f, result, which))]

StartRound ==
  /\ rev.pc = "wait"
  /\ rev' = [rev EXCEPT !.pc = "dump", !.reval = reval_seq,
                        !.todo = {f \in Flows : dp[f] # None}]
  /\ UNCHANGED <<system, main, dp, ukey, hnd, faults, astray>>

\* A dumped flow without ukey is adopted: ukey_create_from_dpif_flow() copies
\* from the address of the pointer to its actions, as many bytes as they have,
\* and takes the flow to be valid.
Adopt(f) ==
  /\ rev.pc = "dump" /\ f \in rev.todo /\ ukey[f] = NoUkey
  /\ ukey' = [ukey EXCEPT ![f] =
       NewUkey(IF dp[f] = Drop THEN Drop ELSE Garbage, reval_seq, TRUE, TRUE, FALSE)]
  /\ rev' = [rev EXCEPT !.todo = @ \ {f}]
  /\ astray' = astray \cup {f}
  /\ UNCHANGED <<system, main, dp, hnd, faults>>

\* A flow that recirculates is deleted instead.
Reject(f) ==
  /\ rev.pc = "dump" /\ f \in rev.todo /\ ukey[f] = NoUkey
  /\ rev' = AddOp([rev EXCEPT !.todo = @ \ {f}, !.seen = @ \cup {f}], f, "delete", "live")
  /\ UNCHANGED <<system, main, dp, ukey, hnd, faults, astray>>

\* Another thread has the ukey, or it was dumped in this round.
SkipDumped(f) ==
  /\ rev.pc = "dump" /\ f \in rev.todo /\ ukey[f] # NoUkey
  /\ ukey[f].locked \/ ukey[f].dumped
  /\ rev' = [rev EXCEPT !.todo = @ \ {f}]
  /\ UNCHANGED <<system, main, dp, ukey, hnd, faults, astray>>

\* Mutant: flow_exists is left as it was.
DumpFlowExists(f) ==
  /\ rev.pc = "dump" /\ f \in rev.todo
  /\ ukey[f] # NoUkey /\ ~ukey[f].locked /\ ~ukey[f].dumped
  /\ \E result \in RevalidateUkey(ukey[f], f, rev.reval) :
       /\ ukey' = [ukey EXCEPT ![f] = [Revalidated(@, f, result) EXCEPT !.dumped = TRUE]]
       /\ rev' = AddOp([rev EXCEPT !.todo = @ \ {f}], f, result, "live")
  /\ UNCHANGED <<system, main, dp, hnd, faults, astray>>

DumpFlow(f) ==
  /\ rev.pc = "dump" /\ f \in rev.todo
  /\ ukey[f] # NoUkey /\ ~ukey[f].locked /\ ~ukey[f].dumped
  /\ \E result \in RevalidateUkey(ukey[f], f, rev.reval) :
       /\ ukey' = [ukey EXCEPT ![f] =
            [Revalidated(@, f, result) EXCEPT !.dumped = TRUE,
                                              !.exists = result # "delete"]]
       /\ rev' = AddOp([rev EXCEPT !.todo = @ \ {f}], f, result, "live")
  /\ UNCHANGED <<system, main, dp, hnd, faults, astray>>

\* The dump is over.  revalidator_sweep__() reads reval_seq again.
StartSweep ==
  /\ rev.pc = "dump" /\ rev.todo = {} /\ rev.ops = <<>>
  /\ rev' = [rev EXCEPT !.pc = "sweep", !.reval = reval_seq, !.moved = FALSE,
                        !.todo = {f \in Flows : ukey[f] # NoUkey}, !.seen = {}, !.dead = {}]
  /\ UNCHANGED <<system, main, dp, ukey, hnd, faults, astray>>

\* The loop over the map meets f; once nodes have moved, perhaps again.
Meets(f) ==
  /\ rev.pc = "sweep" /\ ukey[f] # NoUkey
  /\ \/ f \in rev.todo
     \/ rev.moved /\ f \in rev.seen

Met(f) == IF f \in rev.todo
            THEN [rev EXCEPT !.todo = @ \ {f}, !.seen = @ \cup {f}]
            ELSE [rev EXCEPT !.seen = @ \ {f}]

\* ukey_delete().  Once nodes have moved, the cursor may be at a ukey that it has met
\* before, or go through a table that the map has outgrown: it may meet one that
\* is deleted.
Bury(r, gone) ==
  [r EXCEPT !.seen = @ \ gone,
            !.dead = IF r.moved THEN @ \cup {[flow |-> f, ukey |-> ukey[f]] : f \in gone}
                                ELSE @]

Missed(u) == ~u.dumped /\ u.reval # rev.reval

\* A ukey that is in use, or was dumped or installed lately, and has a flow.
SweepKeeps(f) ==
  /\ Meets(f)
  /\ ukey[f].locked \/ (ukey[f].exists /\ ~Missed(ukey[f]))
  /\ rev' = Met(f)
  /\ UNCHANGED <<system, main, dp, ukey, hnd, faults, astray>>

\* Mutant: the sweep does not mind the mutex.
SweepDeletesLocked(f) ==
  /\ Meets(f) /\ ~ukey[f].exists
  /\ ukey' = [ukey EXCEPT ![f] = NoUkey]
  /\ rev' = Met(f)
  /\ UNCHANGED <<system, main, dp, hnd, faults, astray>>

\* A ukey without flow is deleted whatever a revalidation says.
SweepDeletes(f) ==
  /\ Meets(f) /\ ~ukey[f].locked /\ ~ukey[f].exists
  /\ ukey' = [ukey EXCEPT ![f] = NoUkey]
  /\ rev' = Bury(Met(f), {f})
  /\ UNCHANGED <<system, main, dp, hnd, faults, astray>>

SweepRevalidates(f) ==
  /\ Meets(f) /\ ~ukey[f].locked /\ ukey[f].exists /\ Missed(ukey[f])
  /\ \E result \in RevalidateUkey(ukey[f], f, rev.reval) :
       /\ ukey' = [ukey EXCEPT ![f] = Revalidated(@, f, result)]
       /\ rev' = AddOp(Met(f), f, result, "live")
  /\ UNCHANGED <<system, main, dp, hnd, faults, astray>>

\* The loop meets a ukey that it has deleted.  It deletes one without flow once
\* more, and cmap_remove() finds no such node; it revalidates one that had a flow.
SweepMeetsDeleted(d) ==
  LET met == [rev EXCEPT !.dead = @ \ {d}] IN
  /\ rev.pc = "sweep" /\ d \in rev.dead
  /\ \/ ~d.ukey.exists /\ rev' = [met EXCEPT !.pc = "abort"]
     \/ /\ d.ukey.exists /\ Missed(d.ukey)
        /\ \E result \in RevalidateUkey(d.ukey, d.flow, rev.reval) :
             rev' = AddOp(met, d.flow, result, "dead")
  /\ UNCHANGED <<system, main, dp, ukey, hnd, faults, astray>>

\* A batch is full, or the dump or the map is at its end.
StartPush ==
  /\ rev.pc \in {"dump", "sweep"} /\ rev.ops # <<>>
  /\ rev' = [rev EXCEPT !.pc = IF rev.pc = "dump" THEN "dump_push" ELSE "sweep_push"]
  /\ UNCHANGED <<system, main, dp, ukey, hnd, faults, astray>>

Pushing == rev.pc \in {"dump_push", "sweep_push"} /\ rev.next <= Len(rev.ops)

Deletes(i) == rev.ops[i].act = None
UkeyGoes(f) == rev.pc = "sweep_push"
               /\ \E i \in DOMAIN rev.ops : rev.ops[i].flow = f /\ Deletes(i)

\* dpif_operate() deletes or modifies a flow...
PushOp ==
  LET o == rev.ops[rev.next] IN
  /\ Pushing /\ dp[o.flow] # None
  /\ dp' = [dp EXCEPT ![o.flow] = o.act]
  /\ rev' = [rev EXCEPT !.next = @ + 1]
  /\ astray' = IF o.act # None /\ o.ukey = "dead" THEN astray \cup {o.flow}
               ELSE IF o.act # None /\ UkeyGoes(o.flow) THEN astray
               ELSE astray \ {o.flow}
  /\ UNCHANGED <<system, main, ukey, hnd, faults>>

\* ... that is not there, or fails.  Nobody looks at the error.
PushFails ==
  LET o == rev.ops[rev.next] IN
  /\ Pushing
  /\ \/ dp[o.flow] = None /\ UNCHANGED <<faults, astray>>
     \/ /\ dp[o.flow] # None /\ faults < MaxFaults
        /\ faults' = faults + 1 /\ astray' = astray \cup {o.flow}
  /\ rev' = [rev EXCEPT !.next = @ + 1]
  /\ UNCHANGED <<system, main, dp, ukey, hnd>>

\* After a batch of the sweep push_ukey_ops() removes the ukeys of deleted flows
\* from the map; cmap_remove() crashes when one is not there.
EndPush ==
  /\ rev.pc \in {"dump_push", "sweep_push"} /\ rev.next > Len(rev.ops)
  /\ LET ops == {i \in DOMAIN rev.ops : Deletes(i)}
         twice == \/ \E i \in ops : rev.ops[i].ukey = "dead"
                  \/ \E i, j \in ops : i # j /\ rev.ops[i].flow = rev.ops[j].flow
         gone == {rev.ops[i].flow : i \in ops}
         emptied == [rev EXCEPT !.ops = <<>>, !.next = 1]
     IN \/ /\ rev.pc = "dump_push"
           /\ rev' = [emptied EXCEPT !.pc = "dump"] /\ UNCHANGED ukey
        \/ /\ rev.pc = "sweep_push" /\ twice
           /\ rev' = [emptied EXCEPT !.pc = "abort"] /\ UNCHANGED ukey
        \/ /\ rev.pc = "sweep_push" /\ ~twice
           /\ ukey' = [f \in Flows |-> IF f \in gone THEN NoUkey ELSE ukey[f]]
           /\ rev' = [Bury(emptied, gone) EXCEPT !.pc = "sweep"]
  /\ UNCHANGED <<system, main, dp, hnd, faults, astray>>

\* Mutant: the round ends without a change of dump_seq.
EndRoundSameSeq ==
  /\ rev.pc = "sweep" /\ rev.ops = <<>> /\ (rev.todo = {} \/ rev.moved)
  /\ rev' = [rev EXCEPT !.pc = "wait", !.todo = {}, !.seen = {}, !.dead = {},
                        !.moved = FALSE]
  /\ UNCHANGED <<system, main, dp, ukey, hnd, faults, astray>>

\* Every ukey was met, unless nodes have moved.  seq_change(dump_seq), and the
\* leader sleeps until reval_seq changes or half a second has passed.
EndRound ==
  /\ rev.pc = "sweep" /\ rev.ops = <<>> /\ (rev.todo = {} \/ rev.moved)
  /\ rev' = [rev EXCEPT !.pc = "wait", !.todo = {}, !.seen = {}, !.dead = {},
                        !.moved = FALSE]
  /\ ukey' = [f \in Flows |-> IF ukey[f] = NoUkey THEN NoUkey
                                ELSE [ukey[f] EXCEPT !.dumped = FALSE]]
  /\ hnd' = [f \in Flows |-> IF hnd[f].pc = "idle" THEN hnd[f]
                                  ELSE [hnd[f] EXCEPT !.dumped = FALSE]]
  /\ UNCHANGED <<system, main, dp, faults, astray>>

RevalidatorStep ==
  \/ StartRound \/ StartSweep \/ StartPush \/ PushOp \/ PushFails \/ EndPush \/ EndRound
  \/ \E f \in Flows : \/ Adopt(f) \/ Reject(f) \/ SkipDumped(f) \/ DumpFlow(f)
                      \/ SweepKeeps(f) \/ SweepDeletes(f) \/ SweepRevalidates(f)
  \/ \E d \in rev.dead : SweepMeetsDeleted(d)
-----------------------------------------------------------------------------
Alive == rev.pc # "abort"

Next ==
  /\ Alive
  /\ \/ \E f \in Flows : Upcall(f) \/ NoPort(f) \/ HandlerStep(f)
     \/ \E f \in Flows, a \in Acts : ChangeRules(f, a) \/ ChangeSessions(f, a)
     \/ Revalidate \/ Purge \/ Flush
     \/ RevalidatorStep

Spec == Init /\ [][Next]_vars

\* Threads go on; the leader wakes at the latest when its timer expires.
\* Nothing makes packets arrive.
Fairness ==
  /\ \A f \in Flows : WF_vars(Alive /\ HandlerStep(f))
  /\ WF_vars(Alive /\ Revalidate)
  /\ WF_vars(Alive /\ RevalidatorStep)

FairSpec == Spec /\ Fairness
-----------------------------------------------------------------------------
(* Properties. *)

\* The types of the variables.  A ukey is locked while its flow is being installed, and
\* nothing is queued for the datapath outside of a round.
TypeOK ==
  /\ netdev \in BOOLEAN /\ kind \in Kinds
  /\ policy \in [Flows -> Acts] /\ need \in BOOLEAN
  /\ reval_seq \in 0..changes /\ changes \in 0..MaxChanges
  /\ faults \in 0..MaxFaults /\ astray \subseteq Flows
  /\ dp \in [Flows -> Acts \cup {None}]
  /\ ukey \in [Flows -> UkeyTypes \cup {NoUkey}]
  /\ \A f \in Flows :
       (IF ukey[f] = NoUkey THEN FALSE ELSE ukey[f].locked)
         <=> ~netdev /\ hnd[f].pc \in {"put", "done", "failed"}
  /\ rev.pc = "wait" => rev.ops = <<>>

Queued(f) ==
  \E i \in rev.next..Len(rev.ops) : rev.ops[i].flow = f /\ rev.ops[i].ukey # "dead"

\* The cache agrees with the tables, or something will still see to it: a
\* datapath flow whose actions are not those of the OpenFlow tables awaits
\* udpif_revalidate(), has a ukey that the next round will revalidate, or has an
\* operation queued; flows gone astray, and flows whose translation needs the
\* packet, are exempt.  (A flow for a port of no bridge is astray: nothing
\* translates it.)  It takes reading reval_seq before translating, and a
\* round that stores the number it started with.
StaleMarked ==
  \A f \in Flows \ astray :
    (kind[f] = "plain" /\ dp[f] \notin {None, policy[f]}) =>
      \/ need \/ Queued(f)
      \/ IF ukey[f] = NoUkey THEN FALSE ELSE ukey[f].reval # reval_seq

\* A datapath flow that has no ukey was left by a former process, was installed for
\* a port of no bridge, survived an operation that failed, was modified for a ukey
\* that the sweep met again after its deletion, or was added by a PMD thread after
\* its ukey was gone.  Otherwise the ukey is there first, and the sweep deletes the
\* flow before the ukey.
FlowsTracked ==
  \A f \in Flows \ astray : dp[f] # None => ukey[f] # NoUkey

\* A ukey with flow_exists and no flow would keep handlers from installing the
\* flow for good.  It is always one that a PMD thread is about to add the flow
\* for, or one that the sweep is about to delete.
UkeysBacked ==
  \A f \in Flows :
    IF ukey[f] = NoUkey \/ ~Alive THEN TRUE
    ELSE (ukey[f].exists /\ ~ukey[f].locked /\ dp[f] = None) =>
           hnd[f].pc = "put" \/ UkeyGoes(f)

\* However the tables change, the cache comes to agree with them again.  Flows that
\* went astray, or whose translation needs the packet, are exempt, and so is a
\* process that has crashed.
EventuallyRight ==
  \A f \in Flows :
    []<>(\/ kind[f] # "plain" \/ f \in astray \/ ~Alive
         \/ dp[f] \in {None, policy[f]})
=============================================================================
