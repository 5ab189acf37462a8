----------------------------- MODULE GtpSwitches -----------------------------
(***************************************************************************)
(* Several switches between one serving gateway (SGW) and the packet       *)
(* gateways behind them: the branches of handle_gtpc_message() in          *)
(* ofproto/gtp-manager.c, and the parameters that gtp_manager_set_params() *)
(* stores while packets are being translated.                              *)
(*                                                                         *)
(* A packet of the SGW reaches every switch: this is what the selection    *)
(* seq_num % ovs_total == ovs_id is for.  Each switch has one packet       *)
(* gateway here, which is never deleted (GtpPgw has the registry itself),  *)
(* and the keys of a session are put and deleted in one step (GtpTunnel    *)
(* has the tables themselves).  The parameters are read without the mutex  *)
(* under which they are stored, so each load and each store is a step.     *)
(*                                                                         *)
(* The SGW, the gateways, the controller and the links are external.       *)
(* Packets may be lost (one that is never handled is) and may overtake     *)
(* each other, and Delete Session Responses may be repeated; a switch may  *)
(* crash and start again with nothing but its code.  Left out are repeated *)
(* Create Session Responses (GtpTunnel has the map nodes they leave        *)
(* behind), user data, which change no table, and messages of a gateway    *)
(* that are output to ovs_phy_port whatever the tables hold.               *)
(***************************************************************************)
EXTENDS Integers, FiniteSets

CONSTANTS
  Switches,  \* instances of ovs-vswitchd
  Requests,  \* transmissions of requests that carry no TEID
  SeqNum,    \* [Requests -> seq_num]; a retransmission has the same number
  Sessions,  \* sessions that the gateways may create
  Eras,      \* configurations the controller may hand out
  Config,    \* [Eras -> [Switches -> [Params -> Nat]]]
  MaxRestart \* bound on the restarts of all switches

Params == {"ovs_id", "ovs_total", "ovs_phy_port", "pgw_fastpath"}

None == "none"

\* In each configuration every remainder belongs to one switch, and all
\* switches have been told the same total.  The physical port is port 1.
ASSUME SwitchesAssumption ==
  /\ IsFiniteSet(Switches) /\ Switches # {}
  /\ None \notin Switches
  /\ Eras \subseteq Nat \ {0} /\ MaxRestart \in Nat
  /\ SeqNum \in [Requests -> Nat]
  /\ Config \in [Eras -> [Switches -> [Params -> Nat]]]
  /\ \A e \in Eras, t \in Switches :
       LET total == Config[e][t]["ovs_total"] IN
       /\ total # 0 /\ Config[e][t]["ovs_phy_port"] = 1
       /\ \A s \in Switches : Config[e][s]["ovs_total"] = total
       /\ \A r \in 0 .. total - 1 :
            \E s \in Switches : \A u \in Switches :
               Config[e][u]["ovs_id"] = r <=> u = s

NoPacket == [to |-> None, port |-> 0, kind |-> None, what |-> None]

VARIABLES
  par,    \* the static variables of each switch
  pend,   \* parameters that gtp_manager_set_params() has still to store
  reg,    \* the gateway of the switch is in its pgw_list
  tbl,    \* sessions whose keys are in teid2pgw and ueip2pgw
  th,     \* the upcall thread of each switch
  net,    \* packets on their way to a switch
  gwnet,  \* packets on their way to the gateway of a switch
  live,   \* sessions that exist at each gateway
  told,   \* what the SGW knows of a session: "no", "up", "down"
  asked,  \* sessions whose deletion the SGW has requested
  era,    \* the configuration last given to the switch, 0 for none
  restarts, \* restarts so far
  home,   \* history: the switch whose gateway created the session
  lost,   \* history: sessions whose switch has restarted
  ended,  \* history: sessions whose keys a Delete Session Response has deleted
  seen,   \* history: the configuration under which a request was handled
  taken   \* history: the switches that selected themselves for a request

outside == <<net, gwnet, live, told, asked>>
history == <<home, lost, ended, seen, taken>>
vars == <<par, pend, era, reg, tbl, th, restarts, outside, history>>

Mixed == -1      \* a set_params() came in between, or none had come
NotHandled == -2

IdleThread == [pc |-> "idle", m |-> NoPacket, total |-> Mixed, id |-> Mixed,
               era |-> Mixed]

Init ==
  /\ par = [s \in Switches |-> [p \in Params |-> 0]]
  /\ pend = [s \in Switches |-> {}]
  /\ reg = [s \in Switches |-> FALSE]
  /\ tbl = [s \in Switches |-> {}]
  /\ th = [s \in Switches |-> IdleThread]
  /\ net = {} /\ gwnet = {}
  /\ live = [s \in Switches |-> {}]
  /\ told = [x \in Sessions |-> "no"]
  /\ asked = {}
  /\ era = [s \in Switches |-> 0]
  /\ restarts = 0
  /\ home = [x \in Sessions |-> None]
  /\ lost = {} /\ ended = {}
  /\ seen = [q \in Requests |-> [s \in Switches |-> NotHandled]]
  /\ taken = [q \in Requests |-> {}]

FromSgw(s, k, w) == [to |-> s, port |-> 1, kind |-> k, what |-> w]
FromPgw(s, k, w) == [to |-> s, port |-> 2, kind |-> k, what |-> w]

Kinds == {"request", "delete", "created", "deleted"}
Packets == [to : Switches, port : {1, 2}, kind : Kinds,
            what : Requests \cup Sessions]

-----------------------------------------------------------------------------
(* The main thread of a switch, driven by the controller. *)

\* No signal has ended the process.
Runs(s) == th[s].pc \notin {"sigfpe", "sigsegv"}

\* handle_flow_mod() calls gtp_manager_set_params().  A store that writes the
\* value that is there already is no step.
SetParams(s, e) ==
  /\ Runs(s) /\ pend[s] = {} /\ era[s] < e
  /\ pend' = [pend EXCEPT ![s] =
               {p \in Params : par[s][p] # Config[e][s][p]}]
  /\ era' = [era EXCEPT ![s] = e]
  /\ th' = [th EXCEPT ![s].era = Mixed]
  /\ UNCHANGED <<par, reg, tbl, restarts, outside, history>>

\* The mutex orders nothing for a reader that does not take it.
StoreParam(s, p) ==
  /\ Runs(s) /\ p \in pend[s]
  /\ par' = [par EXCEPT ![s][p] = Config[era[s]][s][p]]
  /\ pend' = [pend EXCEPT ![s] = @ \ {p}]
  /\ UNCHANGED <<era, reg, tbl, th, restarts, outside, history>>

\* gtp_manager_add_pgw() fills slot 0.
AddPgw(s) ==
  /\ Runs(s) /\ ~reg[s]
  /\ reg' = [reg EXCEPT ![s] = TRUE]
  /\ UNCHANGED <<par, pend, era, tbl, th, restarts, outside, history>>

\* The process ends, by itself or by a signal, and starts again.
Restart(s) ==
  /\ restarts < MaxRestart
  /\ restarts' = restarts + 1
  /\ par' = [par EXCEPT ![s] = [p \in Params |-> 0]]
  /\ pend' = [pend EXCEPT ![s] = {}]
  /\ reg' = [reg EXCEPT ![s] = FALSE]
  /\ tbl' = [tbl EXCEPT ![s] = {}]
  /\ th' = [th EXCEPT ![s] = IdleThread]
  /\ era' = [era EXCEPT ![s] = 0]
  /\ lost' = lost \cup {x \in Sessions : home[x] = s}
  /\ UNCHANGED <<outside, home, ended, seen, taken>>

-----------------------------------------------------------------------------
(* The upcall thread of a switch. *)

At(s, pc) == th[s].pc = pc
Go(s, pc) == th' = [th EXCEPT ![s].pc = pc]

\* Mutant: what was loaded for one packet is kept for the next.
FinishKeepsLoads(s) == th' = [th EXCEPT ![s].pc = "idle", ![s].m = NoPacket]

Finish(s) == th' = [th EXCEPT ![s] = IdleThread]
What(s) == th[s].m.what

\* handle_gtp() finds a well-formed packet.  A Delete Session Response may come
\* again: the gateway or a link repeats it ...
HandleGtp(s, m) ==
  /\ At(s, "idle") /\ m.to = s
  /\ th' = [th EXCEPT ![s] = [@ EXCEPT !.pc = "begin", !.m = m,
              !.era = IF pend[s] = {} /\ era[s] # 0 THEN era[s] ELSE Mixed]]
  /\ net' = IF m.kind = "deleted" THEN net ELSE net \ {m}
  /\ UNCHANGED <<par, pend, era, reg, tbl, restarts, gwnet, live, told, asked, history>>

\* ... and its direction is taken from ovs_phy_port.
Direction(s) ==
  /\ At(s, "begin")
  /\ Go(s, IF th[s].m.port = par[s]["ovs_phy_port"] THEN "to_pgw" ELSE "to_sgw")
  /\ UNCHANGED <<par, pend, era, reg, tbl, restarts, outside, history>>

\* gtpcmsg->seq_num % ovs_total == ovs_id: two loads, in either order.
LoadTotal(s) ==
  /\ At(s, "to_pgw") /\ th[s].m.kind = "request" /\ th[s].total = Mixed
  /\ th' = [th EXCEPT ![s].total = par[s]["ovs_total"]]
  /\ UNCHANGED <<par, pend, era, reg, tbl, restarts, outside, history>>

LoadId(s) ==
  /\ At(s, "to_pgw") /\ th[s].m.kind = "request" /\ th[s].id = Mixed
  /\ th' = [th EXCEPT ![s].id = par[s]["ovs_id"]]
  /\ UNCHANGED <<par, pend, era, reg, tbl, restarts, outside, history>>

Loaded(s) == At(s, "to_pgw") /\ th[s].total # Mixed /\ th[s].id # Mixed

\* Mutant: ids that start at 1.
IsSelectedFromOne(s) == (SeqNum[What(s)] % th[s].total) + 1 = th[s].id

IsSelected(s) == SeqNum[What(s)] % th[s].total = th[s].id

\* A gateway that is not registered is address 0 and port 0: nobody gets it.
Select(s) ==
  /\ Loaded(s) /\ th[s].total # 0
  /\ seen' = [seen EXCEPT ![What(s)][s] = th[s].era]
  /\ taken' = [taken EXCEPT ![What(s)] =
                  IF IsSelected(s) THEN @ \cup {s} ELSE @]
  /\ gwnet' = IF IsSelected(s) /\ reg[s] THEN gwnet \cup {th[s].m} ELSE gwnet
  /\ Finish(s)
  /\ UNCHANGED <<par, pend, era, reg, tbl, restarts, net, live, told, asked, home, lost, ended>>

\* The remainder by an ovs_total that is still zero: SIGFPE.
DivideByZero(s) ==
  /\ Loaded(s) /\ th[s].total = 0
  /\ Go(s, "sigfpe")
  /\ UNCHANGED <<par, pend, era, reg, tbl, restarts, outside, history>>

\* Mutant: the session is removed when the request passes.
ForwardAndForget(s) ==
  /\ At(s, "to_pgw") /\ th[s].m.kind = "delete"
  /\ gwnet' = IF What(s) \in tbl[s] THEN gwnet \cup {th[s].m} ELSE gwnet
  /\ tbl' = [tbl EXCEPT ![s] = @ \ {What(s)}]
  /\ Finish(s)
  /\ UNCHANGED <<par, pend, era, reg, restarts, net, live, told, asked, history>>

\* A message with a TEID goes where gtp_manager_get_teid_pgw() says, or
\* nowhere.
Forward(s) ==
  /\ At(s, "to_pgw") /\ th[s].m.kind = "delete"
  /\ gwnet' = IF What(s) \in tbl[s] THEN gwnet \cup {th[s].m} ELSE gwnet
  /\ Finish(s)
  /\ UNCHANGED <<par, pend, era, reg, tbl, restarts, net, live, told, asked, history>>

\* A packet of the SGW before ovs_phy_port is set: it is taken for one of a
\* gateway and is output to port 0, or to the port it came from, which
\* compose_output_action() refuses.
Misdirected(s) ==
  /\ At(s, "to_sgw") /\ th[s].m.kind \in {"request", "delete"}
  /\ seen' = IF th[s].m.kind = "request"
               THEN [seen EXCEPT ![What(s)][s] = Mixed] ELSE seen
  /\ Finish(s)
  /\ UNCHANGED <<par, pend, era, reg, tbl, restarts, outside, home, lost, ended, taken>>

\* Create Session Response: only without fast path, only of a known gateway.
CreateSessionResponse(s) ==
  /\ At(s, "to_sgw") /\ th[s].m.kind = "created"
  /\ par[s]["pgw_fastpath"] = 0 /\ reg[s]
  /\ tbl' = [tbl EXCEPT ![s] = @ \cup {What(s)}]
  /\ Go(s, "output")
  /\ UNCHANGED <<par, pend, era, reg, restarts, outside, history>>

CreateSessionResponseDrop(s) ==
  /\ At(s, "to_sgw") /\ th[s].m.kind = "created"
  /\ par[s]["pgw_fastpath"] # 0 \/ ~reg[s]
  /\ Finish(s)
  /\ UNCHANGED <<par, pend, era, reg, tbl, restarts, outside, history>>

\* Mutant: the deletion of the keys is forgotten.
DeleteKeepsKeys(s) ==
  /\ At(s, "to_sgw") /\ th[s].m.kind = "deleted" /\ What(s) \in tbl[s]
  /\ Go(s, "output")
  /\ UNCHANGED <<par, pend, era, reg, tbl, restarts, outside, history>>

\* Delete Session Response.
DeleteSessionResponse(s) ==
  /\ At(s, "to_sgw") /\ th[s].m.kind = "deleted" /\ What(s) \in tbl[s]
  /\ tbl' = [tbl EXCEPT ![s] = @ \ {What(s)}]
  /\ ended' = ended \cup {What(s)}
  /\ Go(s, "output")
  /\ UNCHANGED <<par, pend, era, reg, restarts, outside, home, lost, seen, taken>>

\* t2 is not in the map and its node is dereferenced: SIGSEGV.
DeleteUnknown(s) ==
  /\ At(s, "to_sgw") /\ th[s].m.kind = "deleted" /\ What(s) \notin tbl[s]
  /\ Go(s, "sigsegv")
  /\ UNCHANGED <<par, pend, era, reg, tbl, restarts, outside, history>>

\* xlate_output_action(ctx, ovs_phy_port, 0, false), and the SGW receives it.
OutputToPhyPort(s) ==
  /\ At(s, "output")
  /\ told' = IF par[s]["ovs_phy_port"] = 1
               THEN [told EXCEPT ![What(s)] =
                       IF th[s].m.kind = "created" THEN "up" ELSE "down"]
               ELSE told
  /\ Finish(s)
  /\ UNCHANGED <<par, pend, era, reg, tbl, restarts, net, gwnet, live, asked, history>>

-----------------------------------------------------------------------------
(* The SGW, the gateways and the links. *)

ToAll(k, w) == {FromSgw(s, k, w) : s \in Switches}

\* A transmission is made once; one that has left no trace was not made.
SendRequest(q) ==
  /\ \A s \in Switches : seen[q][s] = NotHandled
  /\ taken[q] = {}
  /\ \A s \in Switches : What(s) # q
  /\ \A m \in net \cup gwnet : m.what # q
  /\ net' = net \cup ToAll("request", q)
  /\ UNCHANGED <<par, pend, era, reg, tbl, th, restarts, gwnet, live, told, asked, history>>

SendDelete(x) ==
  /\ told[x] = "up" /\ x \notin asked
  /\ asked' = asked \cup {x}
  /\ net' = net \cup ToAll("delete", x)
  /\ UNCHANGED <<par, pend, era, reg, tbl, th, restarts, gwnet, live, told, history>>

GatewayCreates(m, x) ==
  /\ m \in gwnet /\ m.kind = "request" /\ home[x] = None
  /\ home' = [home EXCEPT ![x] = m.to]
  /\ live' = [live EXCEPT ![m.to] = @ \cup {x}]
  /\ gwnet' = gwnet \ {m}
  /\ net' = net \cup {FromPgw(m.to, "created", x)}
  /\ UNCHANGED <<par, pend, era, reg, tbl, th, restarts, told, asked, lost, ended, seen, taken>>

GatewayDeletes(m) ==
  /\ m \in gwnet /\ m.kind = "delete" /\ m.what \in live[m.to]
  /\ live' = [live EXCEPT ![m.to] = @ \ {m.what}]
  /\ gwnet' = gwnet \ {m}
  /\ net' = net \cup {FromPgw(m.to, "deleted", m.what)}
  /\ UNCHANGED <<par, pend, era, reg, tbl, th, restarts, told, asked, history>>

Controller(s) ==
  \/ \E e \in Eras : SetParams(s, e)
  \/ \E p \in Params : StoreParam(s, p)
  \/ AddPgw(s)

Upcall(s) ==
  \/ \E m \in net : HandleGtp(s, m)
  \/ Direction(s)
  \/ LoadTotal(s) \/ LoadId(s) \/ Select(s) \/ DivideByZero(s)
  \/ Forward(s) \/ Misdirected(s)
  \/ CreateSessionResponse(s) \/ CreateSessionResponseDrop(s)
  \/ DeleteSessionResponse(s) \/ DeleteUnknown(s)
  \/ OutputToPhyPort(s)

Outside ==
  \/ \E q \in Requests : SendRequest(q)
  \/ \E x \in Sessions : SendDelete(x)
  \/ \E m \in gwnet : \E x \in Sessions : GatewayCreates(m, x)
  \/ \E m \in gwnet : GatewayDeletes(m)

Next ==
  \/ \E s \in Switches : Controller(s) \/ Upcall(s) \/ Restart(s)
  \/ Outside

Spec == Init /\ [][Next]_vars

-----------------------------------------------------------------------------

PcValues == {"idle", "begin", "to_pgw", "to_sgw", "output", "sigfpe", "sigsegv"}

ThreadStates ==
  [pc : PcValues, m : Packets \cup {NoPacket}, total : Nat \cup {Mixed},
   id : Nat \cup {Mixed}, era : Eras \cup {Mixed}]

\* Types.  Between two packets a thread keeps nothing of the parameters: the
\* handlers have no state but their locals.
TypeOK ==
  /\ par \in [Switches -> [Params -> Nat]]
  /\ pend \in [Switches -> SUBSET Params]
  /\ reg \in [Switches -> BOOLEAN]
  /\ tbl \in [Switches -> SUBSET Sessions]
  /\ th \in [Switches -> ThreadStates]
  /\ \A s \in Switches : At(s, "idle") => th[s] = IdleThread
  /\ net \subseteq Packets /\ gwnet \subseteq Packets
  /\ live \in [Switches -> SUBSET Sessions]
  /\ told \in [Sessions -> {"no", "up", "down"}]
  /\ asked \subseteq Sessions /\ lost \subseteq Sessions /\ ended \subseteq Sessions
  /\ era \in [Switches -> Eras \cup {0}] /\ restarts \in 0 .. MaxRestart
  /\ home \in [Sessions -> Switches \cup {None}]
  /\ seen \in [Requests -> [Switches -> Eras \cup {Mixed, NotHandled}]]
  /\ taken \in [Requests -> SUBSET Switches]

\* A request that every switch has handled under one and the same
\* configuration, with no set_params() in between on any of them, has been
\* taken by exactly one switch ("this ovs %d is selected" and "else drop" in
\* handle_gtpc_message()), however the handlers interleave with the
\* reconfiguration and the restart of other switches.
OneSwitchTakes ==
  \A q \in Requests, e \in Eras :
     (\A s \in Switches : seen[q][s] = e)
        => \E s \in Switches : taken[q] = {s}

\* What the SGW has been told is what the switches do: a session that is up,
\* exists at its gateway and has not lost its switch is in the tables of that
\* switch and of no other, so one switch forwards its packets; a session the
\* SGW was told is deleted is in no table.  The handlers change the tables
\* before they output the response.
SgwViewAgrees ==
  \A x \in Sessions :
     /\ told[x] = "up" /\ x \notin lost /\ x \in live[home[x]]
          => {s \in Switches : x \in tbl[s]} = {home[x]}
     /\ told[x] = "down" => \A s \in Switches : x \notin tbl[s]

\* Sessions have keys of their own here (GtpTunnel has shared ones).  Then a switch
\* crashes in a handler only in three circumstances: a Delete Session Response
\* comes for a session whose switch has restarted since the session was created, or
\* for one that an earlier Delete Session Response has ended already, or a request
\* is handled while the parameters change.  Without a restart the first response
\* finds its session, however packets overtake each other.
CrashesExplained ==
  \A s \in Switches :
     /\ th[s].pc = "sigsegv" => What(s) \in lost \cup ended
     /\ th[s].pc = "sigfpe" => th[s].era = Mixed
=============================================================================
