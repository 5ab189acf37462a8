------------------------------- MODULE GtpPgw -------------------------------
(***************************************************************************)
(* The registry of packet gateways of the GTP manager                      *)
(* (ofproto/gtp-manager.c): pgw_list, current and end, and what the        *)
(* threads of ovs-vswitchd do to them.                                     *)
(*                                                                         *)
(* The main thread runs handle_flow_mod(), which calls                     *)
(* gtp_manager_add_pgw() and gtp_manager_del_pgw().  The upcall threads    *)
(* (handlers, or PMD threads with DPDK) translate packets and call         *)
(* gtp_manager_get_pgw(), gtp_manager_find_pgw() and read the fields of a  *)
(* slot.  None of these functions takes a lock, so every load and store of *)
(* a shared field is a step of its own here.                               *)
(*                                                                         *)
(* Data abstraction: a field of a slot holds the gateway whose value it    *)
(* is, or NoPgw for zero.  Only "same gateway" and "zero" are told apart.  *)
(* A session is the pgw_index a Create Session Response stored in its      *)
(* gtp_tunnel_node, with the gateway that index was found for.             *)
(***************************************************************************)
EXTENDS Naturals

CONSTANTS
  Pgws,     \* gateways the controller may add (their gtp_pgw_ip)
  NoPgw,    \* a zero field
  MaxPgw,   \* MAX_PGW_PER_NODE
  Threads,  \* upcall threads
  Sessions, \* sessions bound to a slot
  Fields    \* the members of struct gtp_pgw_node the instance keeps

ASSUME PgwAssumption ==
  /\ NoPgw \notin Pgws
  /\ MaxPgw \in Nat \ {0}
  /\ "ip" \in Fields
  /\ Fields \subseteq {"ip", "port", "eth", "sgi_port", "sgi_eth"}

Slots == 0 .. MaxPgw - 1

\* gtp_manager_del_pgw() leaves both Ethernet addresses behind.
ClearedFields == Fields \cap {"ip", "port", "sgi_port"}

\* What a translation reads of the slot it has chosen.
FieldsRead(kind) ==
  Fields \cap (IF kind = "sgi" THEN {"sgi_eth", "sgi_port"}
                              ELSE {"ip", "eth", "port"})

VARIABLES
  pgw_list,   \* [Slots -> [Fields -> Pgws \cup {NoPgw}]]
  current,    \* next slot of the round robin
  end,        \* first slot never used
  cfg,        \* stores the main thread still has to make, and where
  aborted,    \* ovs_assert() in gtp_manager_add_pgw() has stopped the process
  bound,      \* per session: pgw_index, and (history) the gateway it was found
              \* for and whether that has been deleted since
  hnd         \* the locals of each upcall thread

vars == <<pgw_list, current, end, cfg, aborted, bound, hnd>>

Unbound == [idx |-> MaxPgw, pgw |-> NoPgw, gone |-> TRUE]

NoStores == [slot |-> 0, pgw |-> NoPgw, todo |-> {}]

\* A thread with no packet to translate.  The last three members are
\* history: the gateway the packet's session belongs to, whether it had been
\* deleted when the packet arrived, and whether the main thread has left the
\* slot (for a new session: every slot) alone since.
IdleThread == [pc |-> "idle", kind |-> "new", sess |-> "none", idx |-> 0,
               out |-> [f \in Fields |-> NoPgw], todo |-> {},
               pgw |-> NoPgw, gone |-> FALSE, whole |-> FALSE]

Init ==
  /\ pgw_list = [i \in Slots |-> [f \in Fields |-> NoPgw]]
  /\ current = 0
  /\ end = 0
  /\ cfg = NoStores
  /\ aborted = FALSE
  /\ bound = [s \in Sessions |-> Unbound]
  /\ hnd = [t \in Threads |-> IdleThread]

Live(i) == pgw_list[i]["ip"] # NoPgw

\* The main thread is not in the middle of writing slot i.
Settled(i) == cfg.todo = {} \/ cfg.slot # i

-----------------------------------------------------------------------------
(* The main thread. *)

\* The main thread starts to write slot i (history).
Touch(i) ==
  hnd' = [t \in Threads |->
             IF hnd[t].kind = "new" \/ hnd[t].idx = i
               THEN [hnd[t] EXCEPT !.whole = FALSE] ELSE hnd[t]]

\* Mutant: the test for an empty slot is forgotten.
AnyBelowEnd == 0 .. end - 1

FreeBelowEnd == {i \in 0 .. end - 1 : ~Live(i)}

\* The slot at which a loop over the slots from 0 up stops.
First(i, S) == i \in S /\ \A j \in S : i <= j

\* gtp_manager_add_pgw(): reuse the first empty slot below end ...
AddPgwReuse(p) ==
  /\ ~aborted /\ cfg.todo = {}
  /\ \E i \in FreeBelowEnd :
       /\ First(i, FreeBelowEnd)
       /\ cfg' = [slot |-> i, pgw |-> p, todo |-> Fields]
       /\ Touch(i)
  /\ UNCHANGED <<pgw_list, current, end, aborted, bound>>

\* Mutant: no ovs_assert() before end++.
AddPgwUnchecked(p) ==
  /\ ~aborted /\ cfg.todo = {}
  /\ FreeBelowEnd = {}
  /\ end' = end + 1
  /\ cfg' = [slot |-> end, pgw |-> p, todo |-> Fields]
  /\ Touch(end)
  /\ UNCHANGED <<pgw_list, current, aborted, bound>>

\* ... or take the slot at end, which is published before it is written.
AddPgwAppend(p) ==
  /\ ~aborted /\ cfg.todo = {}
  /\ FreeBelowEnd = {}
  /\ end < MaxPgw
  /\ end' = end + 1
  /\ cfg' = [slot |-> end, pgw |-> p, todo |-> Fields]
  /\ Touch(end)
  /\ UNCHANGED <<pgw_list, current, aborted, bound>>

\* ovs_assert(end < MAX_PGW_PER_NODE).
AddPgwAbort ==
  /\ ~aborted /\ cfg.todo = {}
  /\ FreeBelowEnd = {}
  /\ end = MaxPgw
  /\ aborted' = TRUE
  /\ UNCHANGED <<pgw_list, current, end, cfg, bound, hnd>>

\* gtp_manager_del_pgw(): the first slot below end with this address.  The
\* sessions of the slot keep their index: that their gateway is gone is
\* recorded in the history only.  An unknown address changes nothing.
DelPgw(p) ==
  /\ ~aborted /\ cfg.todo = {}
  /\ \E i \in Slots :
       /\ First(i, {j \in 0 .. end - 1 : pgw_list[j]["ip"] = p})
       /\ cfg' = [slot |-> i, pgw |-> NoPgw, todo |-> ClearedFields]
       /\ bound' = [s \in Sessions |->
                       IF bound[s].idx = i THEN [bound[s] EXCEPT !.gone = TRUE]
                                           ELSE bound[s]]
       /\ Touch(i)
  /\ UNCHANGED <<pgw_list, current, end, aborted>>

\* One store of gtp_manager_add_pgw() or gtp_manager_del_pgw().  Plain stores
\* that race with plain loads: the build may issue them in any order.
StoreField(f) ==
  /\ ~aborted /\ f \in cfg.todo
  /\ pgw_list' = [pgw_list EXCEPT ![cfg.slot][f] = cfg.pgw]
  /\ cfg' = [cfg EXCEPT !.todo = @ \ {f}]
  /\ UNCHANGED <<current, end, aborted, bound, hnd>>
-----------------------------------------------------------------------------
(* The upcall threads. *)

Become(t, h) == hnd' = [hnd EXCEPT ![t] = h]

\* gtp_manager_get_pgw() for a message without a TEID: the loop starts at
\* current.
GetPgwStart(t) ==
  /\ ~aborted /\ hnd[t].pc = "idle"
  /\ Become(t, [IdleThread EXCEPT !.pc = "get", !.idx = current,
                                   !.whole = (cfg.todo = {})])
  /\ UNCHANGED <<pgw_list, current, end, cfg, aborted, bound>>

\* gtp_manager_find_pgw() for the gateway that sent a Create Session Response.
FindPgwStart(t, s, p) ==
  /\ ~aborted /\ hnd[t].pc = "idle"
  /\ Become(t, [IdleThread EXCEPT !.pc = "find", !.kind = "gtp",
                                   !.sess = s, !.pgw = p])
  /\ UNCHANGED <<pgw_list, current, end, cfg, aborted, bound>>

\* One turn of either loop that does not end it.
ScanSkip(t) ==
  /\ ~aborted /\ hnd[t].idx < end
  /\ \/ hnd[t].pc = "get" /\ ~Live(hnd[t].idx)
     \/ hnd[t].pc = "find" /\ pgw_list[hnd[t].idx]["ip"] # hnd[t].pgw
  /\ Become(t, [hnd[t] EXCEPT !.idx = @ + 1])
  /\ UNCHANGED <<pgw_list, current, end, cfg, aborted, bound>>

StartReading(h) == [h EXCEPT !.pc = "read", !.todo = FieldsRead(h.kind)]

\* Mutant: the scan returns the slot after the one it stopped at.
GetPgwTakeNext(t) ==
  /\ ~aborted /\ hnd[t].pc = "get" /\ hnd[t].idx < end
  /\ Live(hnd[t].idx)
  /\ Become(t, [hnd[t] EXCEPT !.pc = "take", !.idx = (@ + 1) % MaxPgw])
  /\ UNCHANGED <<pgw_list, current, end, cfg, aborted, bound>>

\* gtp_manager_get_pgw() stops at a slot in use ...
GetPgwTake(t) ==
  /\ ~aborted /\ hnd[t].pc = "get" /\ hnd[t].idx < end
  /\ Live(hnd[t].idx)
  /\ Become(t, [hnd[t] EXCEPT !.pc = "take"])
  /\ UNCHANGED <<pgw_list, current, end, cfg, aborted, bound>>

\* Mutant: the index is not reset after the loop.
GetPgwNoReset(t) ==
  /\ ~aborted /\ hnd[t].pc = "get" /\ hnd[t].idx >= end
  /\ Become(t, [hnd[t] EXCEPT !.pc = "take"])
  /\ UNCHANGED <<pgw_list, current, end, cfg, aborted, bound>>

\* ... or falls off the end and returns slot 0, whatever slot 0 holds.
GetPgwWrap(t) ==
  /\ ~aborted /\ hnd[t].pc = "get" /\ hnd[t].idx >= end
  /\ Become(t, [hnd[t] EXCEPT !.pc = "take", !.idx = 0])
  /\ UNCHANGED <<pgw_list, current, end, cfg, aborted, bound>>

\* Mutant: current stays at the slot returned.
StoreCurrentStays(t) ==
  /\ ~aborted /\ hnd[t].pc = "take"
  /\ current' = hnd[t].idx
  /\ Become(t, StartReading(hnd[t]))
  /\ UNCHANGED <<pgw_list, end, cfg, aborted, bound>>

\* Either way current moves past the slot returned, in a store that other
\* threads may overtake.
StoreCurrent(t) ==
  /\ ~aborted /\ hnd[t].pc = "take"
  /\ current' = hnd[t].idx + 1
  /\ Become(t, StartReading(hnd[t]))
  /\ UNCHANGED <<pgw_list, end, cfg, aborted, bound>>

\* The gateway a slot belongs to, counting the stores still to come (history).
Owner(i) == IF Settled(i) THEN pgw_list[i]["ip"] ELSE cfg.pgw

\* gtp_manager_find_pgw() returns an index ...
FindPgwHit(t) ==
  /\ ~aborted /\ hnd[t].pc = "find" /\ hnd[t].idx < end
  /\ pgw_list[hnd[t].idx]["ip"] = hnd[t].pgw
  /\ Become(t, [hnd[t] EXCEPT !.pc = "bind",
                              !.whole = (Owner(hnd[t].idx) = hnd[t].pgw)])
  /\ UNCHANGED <<pgw_list, current, end, cfg, aborted, bound>>

\* ... which goes into the tunnel node; the gateway may be gone by then.
Bind(t) ==
  /\ ~aborted /\ hnd[t].pc = "bind"
  /\ bound' = [bound EXCEPT ![hnd[t].sess] =
                 [idx |-> hnd[t].idx, pgw |-> hnd[t].pgw, gone |-> ~hnd[t].whole]]
  /\ Become(t, IdleThread)
  /\ UNCHANGED <<pgw_list, current, end, cfg, aborted>>

FindPgwMiss(t) ==
  /\ ~aborted /\ hnd[t].pc = "find" /\ hnd[t].idx >= end
  /\ Become(t, IdleThread)
  /\ UNCHANGED <<pgw_list, current, end, cfg, aborted, bound>>

\* A packet of session s: its tunnel node gives the index.
RouteStart(t, s, kind) ==
  /\ ~aborted /\ hnd[t].pc = "idle"
  /\ bound[s] # Unbound
  /\ Become(t, [IdleThread EXCEPT
                  !.pc = "check", !.kind = kind, !.idx = bound[s].idx,
                  !.pgw = bound[s].pgw, !.gone = bound[s].gone,
                  !.whole = Settled(bound[s].idx)])
  /\ UNCHANGED <<pgw_list, current, end, cfg, aborted, bound>>

\* "the found pgw is deleted, drop."
RouteDrop(t) ==
  /\ ~aborted /\ hnd[t].pc = "check" /\ ~Live(hnd[t].idx)
  /\ Become(t, IdleThread)
  /\ UNCHANGED <<pgw_list, current, end, cfg, aborted, bound>>

RouteAccept(t) ==
  /\ ~aborted /\ hnd[t].pc = "check" /\ Live(hnd[t].idx)
  /\ Become(t, StartReading(hnd[t]))
  /\ UNCHANGED <<pgw_list, current, end, cfg, aborted, bound>>

\* One load of a slot's field into the flow or the output port.
LoadField(t, f) ==
  /\ ~aborted /\ hnd[t].pc = "read" /\ f \in hnd[t].todo
  /\ Become(t, [hnd[t] EXCEPT !.out[f] = pgw_list[hnd[t].idx][f],
                              !.todo = @ \ {f}])
  /\ UNCHANGED <<pgw_list, current, end, cfg, aborted, bound>>

\* xlate_output_action().
Output(t) ==
  /\ ~aborted /\ hnd[t].pc = "read" /\ hnd[t].todo = {}
  /\ Become(t, IdleThread)
  /\ UNCHANGED <<pgw_list, current, end, cfg, aborted, bound>>

\* A session ends.
Unbind(s) ==
  /\ ~aborted
  /\ bound' = [bound EXCEPT ![s] = Unbound]
  /\ UNCHANGED <<pgw_list, current, end, cfg, aborted, hnd>>
-----------------------------------------------------------------------------
Main ==
  \/ \E p \in Pgws : AddPgwReuse(p) \/ AddPgwAppend(p) \/ DelPgw(p)
  \/ AddPgwAbort
  \/ \E f \in Fields : StoreField(f)

Scan(t) ==
  \/ ScanSkip(t)
  \/ GetPgwTake(t) \/ GetPgwWrap(t) \/ StoreCurrent(t)
  \/ FindPgwHit(t) \/ Bind(t) \/ FindPgwMiss(t)

Translate(t) ==
  RouteDrop(t) \/ RouteAccept(t) \/ (\E f \in Fields : LoadField(t, f)) \/ Output(t)

Upcall(t) ==
  \/ GetPgwStart(t)
  \/ \E s \in Sessions, p \in Pgws : FindPgwStart(t, s, p)
  \/ \E s \in Sessions, kind \in {"gtp", "sgi"} : RouteStart(t, s, kind)
  \/ Scan(t)
  \/ Translate(t)

Next ==
  \/ Main
  \/ \E t \in Threads : Upcall(t)
  \/ \E s \in Sessions : Unbind(s)

Spec == Init /\ [][Next]_vars

\* A thread that runs keeps running: a started scan or translation finishes,
\* and so do the stores of the main thread.  Nothing makes packets arrive.
Fairness ==
  /\ \A t \in Threads : WF_vars(Scan(t) \/ Translate(t))
  /\ WF_vars(\E f \in Fields : StoreField(f))

FairSpec == Spec /\ Fairness
-----------------------------------------------------------------------------
(* Properties. *)

FieldValues == Pgws \cup {NoPgw}

ThreadStates ==
  [pc : {"idle", "get", "take", "find", "bind", "check", "read"}, kind : {"new", "gtp", "sgi"},
   sess : Sessions \cup {"none"}, idx : 0 .. MaxPgw,
   out : [Fields -> FieldValues], todo : SUBSET Fields,
   pgw : FieldValues, gone : BOOLEAN, whole : BOOLEAN]

\* Types of the registry, the sessions and the locals of the upcall threads;
\* a scan never runs past MAX_PGW_PER_NODE.
TypeOK ==
  /\ pgw_list \in [Slots -> [Fields -> FieldValues]]
  /\ current \in 0 .. MaxPgw
  /\ end \in 0 .. MaxPgw
  /\ cfg \in [slot : Slots, pgw : FieldValues, todo : SUBSET Fields]
  /\ aborted \in BOOLEAN
  /\ bound \in [Sessions -> [idx : 0 .. MaxPgw, pgw : FieldValues, gone : BOOLEAN]]
  /\ hnd \in [Threads -> ThreadStates]

Translating(t) == hnd[t].pc \in {"check", "read"}
Translated(t)  == hnd[t].pc = "read" /\ hnd[t].todo = {}
ForSession(t)  == Translating(t) /\ hnd[t].kind # "new"

\* Whatever the main thread does meanwhile, a translation only reads slots
\* that gtp_manager_add_pgw() has handed out; the one exception is slot 0,
\* which gtp_manager_get_pgw() returns when it finds nothing.
OnlyUsedSlotsRead ==
  \A t \in Threads : Translating(t) =>
    \/ hnd[t].idx < end
    \/ hnd[t].kind = "new" /\ hnd[t].idx = 0

\* Session affinity: as long as a session's gateway has not been deleted, and
\* the main thread is not writing the slot during the translation, every packet
\* of the session leaves with the address, MAC and port of that gateway.
SessionAffinity ==
  \A t \in Threads :
    ForSession(t) /\ Translated(t) /\ hnd[t].whole /\ ~hnd[t].gone =>
      \A f \in FieldsRead(hnd[t].kind) : hnd[t].out[f] = hnd[t].pgw

\* What the log messages at the checks of gtp_pgw_ip say ("the found pgw is
\* deleted, drop."): with the registry at rest, a packet of a session never
\* leaves for a gateway other than the one that created the session, deleted
\* or not.
DeletedPgwDropped ==
  \A t \in Threads :
    ForSession(t) /\ Translated(t) /\ hnd[t].whole =>
      \A f \in FieldsRead(hnd[t].kind) : hnd[t].out[f] = hnd[t].pgw

\* What the comments in handle_gtpc_message() say ("set dst to pgw ip and mac",
\* "output to pgw port"): a message without a TEID goes to a gateway, with the
\* registry at rest since the message arrived, whenever slot 0 holds one.  An
\* empty slot 0 is returned when the scan falls off the end, and the message
\* leaves for address 0 although another slot may be in use.
NewSessionReachesPgw ==
  \A t \in Threads :
    hnd[t].kind = "new" /\ Translated(t) /\ hnd[t].whole /\ Live(0) =>
      hnd[t].out["ip"] # NoPgw

\* Round robin: if requests keep coming and slot i stays in use, slot i is
\* selected again and again, whichever other slots come and go and however the
\* threads overtake each other between reading and storing current.
RoundRobin ==
  \A i \in Slots :
    /\ <>[](Live(i) /\ i < end /\ ~aborted)
    /\ []<>(\E t \in Threads : hnd[t].pc = "get")
    => []<>(\E t \in Threads : hnd[t].pc = "read" /\ hnd[t].kind = "new"
                                                /\ hnd[t].idx = i)
=============================================================================
