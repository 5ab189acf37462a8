-------------------------- MODULE GtpSwitchesProofs --------------------------
(***************************************************************************)
(* Proofs about GtpSwitches, for any number of switches, requests,         *)
(* sessions, configurations and restarts.                                  *)
(***************************************************************************)
EXTENDS GtpSwitches, TLAPS

\* Outside of a set_params() the parameters are those of one configuration.
ParInv ==
  \A s \in Switches :
    /\ pend[s] # {} => era[s] # 0
    /\ \A p \in Params : era[s] # 0 /\ p \notin pend[s] =>
         par[s][p] = Config[era[s]][s][p]

\* What a handler has loaded belongs to the configuration it noted.
LoadInv ==
  \A s \in Switches :
    th[s].era # Mixed =>
      /\ th[s].era = era[s] /\ pend[s] = {}
      /\ th[s].total # Mixed => th[s].total = Config[era[s]][s]["ovs_total"]
      /\ th[s].id # Mixed => th[s].id = Config[era[s]][s]["ovs_id"]

\* Packets are made by the SGW or by the gateway of a session's own switch.
Good(m) ==
  /\ m \in Packets
  /\ m.kind = "request" => m.port = 1 /\ m.what \in Requests
  /\ m.kind = "delete" => m.port = 1 /\ m.what \in asked
  /\ m.kind \in {"created", "deleted"} => m.port = 2 /\ m.what \in Sessions /\ home[m.what] = m.to

PacketInv ==
  /\ \A m \in net : Good(m)
  /\ \A m \in gwnet :
       /\ Good(m) /\ m.kind \in {"request", "delete"}
       /\ m.kind = "delete" => home[m.what] = m.to
  /\ \A s \in Switches :
       /\ th[s].pc # "idle" => Good(th[s].m) /\ th[s].m.to = s
       /\ th[s].pc = "output" => th[s].m.kind \in {"created", "deleted"}
       /\ th[s].total # Mixed \/ th[s].id # Mixed => th[s].m.kind = "request"
       /\ th[s].pc = "sigfpe" => th[s].m.kind = "request"
       /\ th[s].pc = "sigsegv" => th[s].m.kind = "deleted"

\* A request that a switch is still to handle has left no trace of that switch,
\* and a request or a Create Session Response is either on its way or in the hands
\* of a handler.
Fresh(m) == seen[m.what][m.to] = NotHandled /\ m.to \notin taken[m.what]

OnceInv ==
  /\ \A s \in Switches, m \in net :
       m.kind \in {"request", "created"} =>
         ~(th[s].m.kind = m.kind /\ th[s].m.what = m.what /\ th[s].m.to = m.to)
  /\ \A m \in net : m.kind = "request" => Fresh(m)
  /\ \A s \in Switches : th[s].m.kind = "request" => Fresh(th[s].m)

\* A switch that handled a request under one configuration has taken it exactly
\* if the number of the request is its own in that configuration.
Mine(q, s, e) == SeqNum[q] % Config[e][s]["ovs_total"] = Config[e][s]["ovs_id"]

SelectInv ==
  \A q \in Requests, s \in Switches :
    seen[q][s] \in Eras => (s \in taken[q] <=> Mine(q, s, seen[q][s]))

\* A session is in the tables of one switch and at one gateway at most.
HomeInv ==
  \A x \in Sessions :
    /\ \A s \in Switches : x \in tbl[s] \cup live[s] => home[x] = s
    /\ home[x] = None => told[x] = "no"
    /\ x \in asked => told[x] # "no"

\* The SGW does not know a session whose Create Session Response is under way.
CreateInv ==
  /\ \A m \in net : m.kind = "created" => told[m.what] = "no"
  /\ \A s \in Switches : th[s].m.kind = "created" =>
       /\ told[What(s)] = "no"
       /\ th[s].pc = "output" => What(s) \in tbl[s]

\* A Delete Session Response finds the session in the tables, unless its switch
\* has restarted or the response has come before.
DeleteInv ==
  /\ \A m \in net : m.kind = "deleted" =>
       /\ told[m.what] # "no" /\ m.what \notin live[m.to]
       /\ m.what \in tbl[m.to] \cup lost \cup ended
  /\ \A s \in Switches : th[s].m.kind = "deleted" =>
       /\ told[What(s)] # "no" /\ What(s) \notin live[s]
       /\ What(s) \in tbl[s] \cup lost \cup ended
       /\ th[s].pc = "output" => What(s) \notin tbl[s]
       /\ th[s].pc = "sigsegv" => What(s) \in lost \cup ended

ViewInv ==
  \A x \in Sessions, s \in Switches :
    /\ told[x] = "up" /\ x \in live[s] /\ x \notin lost => x \in tbl[s]
    /\ told[x] = "down" => x \notin tbl[s] /\ x \notin live[s]

CrashInv == \A s \in Switches : th[s].pc = "sigfpe" => th[s].era = Mixed

Inv == TypeOK /\ ParInv /\ LoadInv /\ PacketInv /\ OnceInv /\ SelectInv
       /\ HomeInv /\ CreateInv /\ DeleteInv /\ ViewInv /\ CrashInv
-----------------------------------------------------------------------------
(* What the assumptions give.                                              *)

\* Configurations hold numbers.
LEMMA ConfigLemma ==
  \A e \in Eras, s \in Switches, p \in Params : Config[e][s][p] \in Nat
  <1>1. Config \in [Eras -> [Switches -> [Params -> Nat]]]
    BY Zenon, SwitchesAssumption
  <1> QED
    BY <1>1

\* Configurations have positive numbers; "none" is no switch.
LEMMA SetsLemma ==
  /\ Eras \subseteq Nat \ {0} /\ MaxRestart \in Nat
  /\ None \notin Switches /\ SeqNum \in [Requests -> Nat]
  BY Zenon, SwitchesAssumption

\* All switches are told the same total, which is not zero, and each remainder is
\* the id of one switch.
LEMMA TotalLemma ==
  ASSUME NEW e \in Eras, NEW t \in Switches
  PROVE  /\ Config[e][t]["ovs_total"] \in Nat \ {0}
         /\ \A s \in Switches : Config[e][s]["ovs_total"] = Config[e][t]["ovs_total"]
         /\ \A r \in 0 .. Config[e][t]["ovs_total"] - 1 :
              \E s \in Switches : \A u \in Switches :
                 Config[e][u]["ovs_id"] = r <=> u = s
  <1>1. Config[e][t]["ovs_total"] \in Nat
    BY ConfigLemma DEF Params
  <1> QED
    BY <1>1, Zenon, SwitchesAssumption
-----------------------------------------------------------------------------
(* What an action does to the upcall thread of a switch.                   *)

ThreadTypes ==
  /\ th \in [Switches -> ThreadStates]
  /\ \A s \in Switches : th[s].pc = "idle" => th[s] = IdleThread

\* Only the thread of switch s moves, to h.
Moves(s, h) == th' = [th EXCEPT ![s] = h]

\* A thread that becomes h.
LEMMA MovesLemma ==
  ASSUME ThreadTypes, NEW s \in Switches, NEW h \in ThreadStates,
         h.pc = "idle" => h = IdleThread, Moves(s, h)
  PROVE  /\ ThreadTypes' /\ th'[s] = h
         /\ \A u \in Switches : u # s => th'[u] = th[u]
  BY DEF ThreadTypes, Moves

\* An idle thread.
LEMMA IdleLemma ==
  /\ IdleThread \in ThreadStates /\ IdleThread.pc = "idle" /\ IdleThread.era = Mixed
  /\ IdleThread.total = Mixed /\ IdleThread.id = Mixed
  /\ IdleThread.m.kind = "none"
  BY DEF IdleThread, ThreadStates, PcValues, NoPacket, None

\* The thread only goes on to another place.
LEMMA GoLemma ==
  ASSUME ThreadTypes, NEW s \in Switches, NEW pc \in PcValues \ {"idle"}, Go(s, pc)
  PROVE  /\ ThreadTypes' /\ th'[s].pc = pc /\ th'[s].m = th[s].m
         /\ th'[s].total = th[s].total /\ th'[s].id = th[s].id /\ th'[s].era = th[s].era
         /\ \A u \in Switches : u # s => th'[u] = th[u]
  <1> DEFINE h == [th[s] EXCEPT !.pc = pc]
  <1>1. /\ h \in ThreadStates /\ h.pc = pc /\ h.m = th[s].m
        /\ h.total = th[s].total /\ h.id = th[s].id /\ h.era = th[s].era
    BY DEF ThreadTypes, ThreadStates
  <1>2. Moves(s, h)
    BY DEF Go, Moves
  <1> HIDE DEF h
  <1> QED
    BY <1>1, <1>2, MovesLemma

\* The thread is done with its packet.
LEMMA FinishLemma ==
  ASSUME ThreadTypes, NEW s \in Switches, Finish(s)
  PROVE  /\ ThreadTypes' /\ th'[s] = IdleThread
         /\ \A u \in Switches : u # s => th'[u] = th[u]
  BY IdleLemma, MovesLemma DEF Finish, Moves

\* The thread takes packet m.
LEMMA HandleLemma ==
  ASSUME TypeOK, NEW s \in Switches, NEW m \in net, HandleGtp(s, m)
  PROVE  /\ ThreadTypes' /\ th'[s].pc = "begin" /\ th'[s].m = m
         /\ th'[s].total = Mixed /\ th'[s].id = Mixed
         /\ th'[s].era = IF pend[s] = {} /\ era[s] # 0 THEN era[s] ELSE Mixed
         /\ \A u \in Switches : u # s => th'[u] = th[u]
  <1>1. ThreadTypes /\ th[s] = IdleThread /\ m \in Packets
    BY DEF TypeOK, ThreadTypes, HandleGtp, At
  <1> DEFINE g == IF pend[s] = {} /\ era[s] # 0 THEN era[s] ELSE Mixed
             h == [IdleThread EXCEPT !.pc = "begin", !.m = m, !.era = g]
  <1>2. g \in Eras \cup {Mixed}
    BY DEF TypeOK
  <1> HIDE DEF g
  <1>3. h \in ThreadStates /\ h.pc = "begin" /\ h.m = m /\ h.total = Mixed
        /\ h.id = Mixed /\ h.era = g
    BY <1>1, <1>2, IdleLemma DEF ThreadStates, IdleThread, PcValues
  <1>4. Moves(s, h)
    BY <1>1 DEF HandleGtp, Moves, g
  <1> HIDE DEF h
  <1> QED
    BY <1>1, <1>3, <1>4, MovesLemma DEF g

\* The thread loads ovs_total.
LEMMA LoadTotalLemma ==
  ASSUME TypeOK, NEW s \in Switches, LoadTotal(s)
  PROVE  /\ ThreadTypes' /\ th'[s].pc = "to_pgw" /\ th'[s].m = th[s].m
         /\ th'[s].total = par[s]["ovs_total"] /\ th'[s].id = th[s].id
         /\ th'[s].era = th[s].era /\ th[s].m.kind = "request"
         /\ \A u \in Switches : u # s => th'[u] = th[u]
  <1>1. ThreadTypes /\ th[s].pc = "to_pgw" /\ par[s]["ovs_total"] \in Nat
    BY DEF TypeOK, ThreadTypes, LoadTotal, At, Params
  <1> DEFINE h == [th[s] EXCEPT !.total = par[s]["ovs_total"]]
  <1>2. /\ h \in ThreadStates /\ h.pc = "to_pgw" /\ h.m = th[s].m
        /\ h.total = par[s]["ovs_total"] /\ h.id = th[s].id /\ h.era = th[s].era
    BY <1>1 DEF ThreadTypes, ThreadStates
  <1>3. Moves(s, h)
    BY DEF LoadTotal, Moves
  <1> HIDE DEF h
  <1> QED
    BY <1>1, <1>2, <1>3, MovesLemma DEF LoadTotal

\* The thread loads ovs_id.
LEMMA LoadIdLemma ==
  ASSUME TypeOK, NEW s \in Switches, LoadId(s)
  PROVE  /\ ThreadTypes' /\ th'[s].pc = "to_pgw" /\ th'[s].m = th[s].m
         /\ th'[s].id = par[s]["ovs_id"] /\ th'[s].total = th[s].total
         /\ th'[s].era = th[s].era /\ th[s].m.kind = "request"
         /\ \A u \in Switches : u # s => th'[u] = th[u]
  <1>1. ThreadTypes /\ th[s].pc = "to_pgw" /\ par[s]["ovs_id"] \in Nat
    BY DEF TypeOK, ThreadTypes, LoadId, At, Params
  <1> DEFINE h == [th[s] EXCEPT !.id = par[s]["ovs_id"]]
  <1>2. /\ h \in ThreadStates /\ h.pc = "to_pgw" /\ h.m = th[s].m
        /\ h.id = par[s]["ovs_id"] /\ h.total = th[s].total /\ h.era = th[s].era
    BY <1>1 DEF ThreadTypes, ThreadStates
  <1>3. Moves(s, h)
    BY DEF LoadId, Moves
  <1> HIDE DEF h
  <1> QED
    BY <1>1, <1>2, <1>3, MovesLemma DEF LoadId

\* A set_params() spoils what the thread has noted of the configuration.
LEMMA SpoilLemma ==
  ASSUME ThreadTypes, NEW s \in Switches, th' = [th EXCEPT ![s].era = Mixed]
  PROVE  /\ ThreadTypes' /\ th'[s].pc = th[s].pc /\ th'[s].m = th[s].m
         /\ th'[s].total = th[s].total /\ th'[s].id = th[s].id /\ th'[s].era = Mixed
         /\ \A u \in Switches : u # s => th'[u] = th[u]
  <1> DEFINE h == [th[s] EXCEPT !.era = Mixed]
  <1>1. /\ h \in ThreadStates /\ h.pc = th[s].pc /\ h.m = th[s].m
        /\ h.total = th[s].total /\ h.id = th[s].id /\ h.era = Mixed
    BY DEF ThreadTypes, ThreadStates
  <1>2. th[s] = IdleThread => h = IdleThread
    BY DEF IdleThread
  <1>3. Moves(s, h)
    BY DEF Moves
  <1> HIDE DEF h
  <1> QED
    BY <1>1, <1>2, <1>3, MovesLemma DEF ThreadTypes

\* What the packet in the hands of a thread is about.
LEMMA PacketFacts ==
  ASSUME Inv, NEW s \in Switches, th[s].pc # "idle" \/ th[s].m.kind # "none"
  PROVE  /\ th[s].m \in Packets /\ th[s].m.to = s /\ Good(th[s].m) /\ th[s].pc # "idle"
         /\ th[s].m.kind = "request" => What(s) \in Requests
         /\ th[s].m.kind = "delete" => What(s) \in Sessions
         /\ th[s].m.kind \in {"created", "deleted"} => What(s) \in Sessions /\ home[What(s)] = s
  <1>1. th[s].pc # "idle"
    BY IdleLemma DEF Inv, TypeOK, At
  <1> QED
    BY <1>1 DEF Inv, PacketInv, Good, What, TypeOK

\* What a packet on its way to a gateway is about.
LEMMA GatewayFacts ==
  ASSUME Inv, NEW m \in gwnet
  PROVE  /\ m \in Packets /\ m.to \in Switches
         /\ m.kind = "request" => m.what \in Requests
         /\ m.kind = "delete" => m.what \in Sessions /\ m.what \in asked /\ home[m.what] = m.to
  BY DEF Inv, PacketInv, Good, Packets, TypeOK

\* What a packet on its way to a switch is about.
LEMMA NetFacts ==
  ASSUME Inv, NEW m \in net
  PROVE  /\ m \in Packets /\ m.to \in Switches /\ m.kind # "none" /\ Good(m)
         /\ m.kind = "request" => m.what \in Requests
         /\ m.kind \in {"created", "deleted"} => m.what \in Sessions /\ home[m.what] = m.to
  BY DEF Inv, PacketInv, Good, Packets, Kinds, TypeOK

\* A packet is told by its kind, by its switch and by what it is about.
LEMMA SameLemma ==
  ASSUME NEW k, NEW m, Good(k), Good(m), k.kind = m.kind, k.to = m.to, k.what = m.what
  PROVE  k = m
  <1>1. k.kind \in Kinds /\ m.kind \in Kinds
    BY DEF Good, Packets
  <1>2. k.port = m.port
    BY <1>1 DEF Good, Kinds
  <1> QED
    BY <1>2 DEF Good, Packets

\* Packets that are made are packets.
LEMMA MadeLemma ==
  /\ \A s \in Switches, q \in Requests : FromSgw(s, "request", q) \in Packets
  /\ \A s \in Switches, x \in Sessions :
       /\ FromSgw(s, "delete", x) \in Packets
       /\ FromPgw(s, "created", x) \in Packets
       /\ FromPgw(s, "deleted", x) \in Packets
  BY DEF FromSgw, FromPgw, Packets, Kinds

\* The fields of the packets that are made.
LEMMA FieldsLemma ==
  \A s, k, w :
    /\ FromSgw(s, k, w).to = s /\ FromSgw(s, k, w).port = 1
    /\ FromSgw(s, k, w).kind = k /\ FromSgw(s, k, w).what = w
    /\ FromPgw(s, k, w).to = s /\ FromPgw(s, k, w).port = 2
    /\ FromPgw(s, k, w).kind = k /\ FromPgw(s, k, w).what = w
  BY DEF FromSgw, FromPgw

\* The packets of one transmission.
LEMMA ToAllLemma ==
  ASSUME NEW k, NEW w, NEW m \in ToAll(k, w)
  PROVE  m.to \in Switches /\ m.port = 1 /\ m.kind = k /\ m.what = w
  BY FieldsLemma DEF ToAll

\* A good packet stays good: a session has one home for ever, and a deletion that
\* was requested stays requested.
LEMMA GoodStep ==
  ASSUME Inv, NEW k, Good(k),
         asked \subseteq asked',
         \A x \in Sessions : home[x] # None => home'[x] = home[x]
  PROVE  Good(k)'
  <1>1. k.to \in Switches
    BY DEF Good, Packets
  <1> QED
    BY <1>1, SetsLemma DEF Good
-----------------------------------------------------------------------------
\* Every step keeps the types.
LEMMA TypeStep == Inv /\ [Next]_vars => TypeOK'
  <1> SUFFICES ASSUME Inv, [Next]_vars PROVE TypeOK'
    OBVIOUS
  <1>0. TypeOK /\ ThreadTypes
    BY DEF Inv, TypeOK, ThreadTypes, At
  <1>b. \A s \in Switches : pend[s] # {} => era[s] \in Eras
    BY DEF Inv, TypeOK, ParInv
  <1>1. ASSUME NEW s \in Switches, NEW e \in Eras, SetParams(s, e) PROVE TypeOK'
    <2>1. ThreadTypes'
      BY <1>0, <1>1, SpoilLemma DEF SetParams
    <2> QED
      BY <1>0, <1>1, <2>1, SetsLemma DEF
         SetParams, ThreadTypes, TypeOK, At, outside, history
  <1>2. ASSUME NEW s \in Switches, NEW p \in Params, StoreParam(s, p) PROVE TypeOK'
    <2>1. era[s] \in Eras
      BY <1>2, <1>b DEF StoreParam
    <2>2. Config[era[s]][s][p] \in Nat
      BY <2>1, ConfigLemma
    <2>3. par \in [Switches -> [Params -> Nat]] /\ pend \in [Switches -> SUBSET Params]
      BY <1>0 DEF TypeOK
    <2>4. par' \in [Switches -> [Params -> Nat]] /\ pend' \in [Switches -> SUBSET Params]
      BY <1>2, <2>2, <2>3 DEF StoreParam
    <2> QED
      BY <1>0, <1>2, <2>4 DEF StoreParam, TypeOK, At, outside, history
  <1>3. ASSUME NEW s \in Switches, AddPgw(s) PROVE TypeOK'
    BY <1>0, <1>3, SetsLemma DEF
       AddPgw, TypeOK, At, outside, history
  <1>4. ASSUME NEW s \in Switches, Restart(s) PROVE TypeOK'
    <2>1. ThreadTypes'
      BY <1>0, <1>4, FinishLemma DEF Restart, Finish
    <2> QED
      BY <1>0, <1>4, <2>1, SetsLemma DEF
         Restart, ThreadTypes, TypeOK, At, outside, history
  <1>5. ASSUME NEW s \in Switches, NEW m \in net, HandleGtp(s, m) PROVE TypeOK'
    <2>1. ThreadTypes'
      BY <1>0, <1>5, HandleLemma DEF HandleGtp
    <2> QED
      BY <1>0, <1>5, <2>1, SetsLemma DEF
         HandleGtp, ThreadTypes, TypeOK, At, outside, history
  <1>6. ASSUME NEW s \in Switches, Direction(s) PROVE TypeOK'
    <2>1. ThreadTypes'
      BY <1>0, <1>6, GoLemma DEF Direction, PcValues
    <2> QED
      BY <1>0, <1>6, <2>1, SetsLemma DEF
         Direction, ThreadTypes, TypeOK, At, outside, history
  <1>7. ASSUME NEW s \in Switches, LoadTotal(s) PROVE TypeOK'
    <2>1. ThreadTypes'
      BY <1>0, <1>7, LoadTotalLemma DEF LoadTotal
    <2> QED
      BY <1>0, <1>7, <2>1, SetsLemma DEF
         LoadTotal, ThreadTypes, TypeOK, At, outside, history
  <1>8. ASSUME NEW s \in Switches, LoadId(s) PROVE TypeOK'
    <2>1. ThreadTypes'
      BY <1>0, <1>8, LoadIdLemma DEF LoadId
    <2> QED
      BY <1>0, <1>8, <2>1, SetsLemma DEF
         LoadId, ThreadTypes, TypeOK, At, outside, history
  <1>9. ASSUME NEW s \in Switches, Select(s) PROVE TypeOK'
    <2>1. ThreadTypes'
      BY <1>0, <1>9, FinishLemma DEF Select
    <2>2. What(s) \in Requests /\ th[s].era \in Eras \cup {Mixed} /\ th[s].m \in Packets
      BY <1>0, <1>9, PacketFacts DEF Select, Loaded, At, Inv, PacketInv, ThreadTypes, ThreadStates
    <2>3. seen' \in [Requests -> [Switches -> Eras \cup {Mixed, NotHandled}]]
          /\ taken' \in [Requests -> SUBSET Switches] /\ gwnet' \subseteq Packets
      BY <1>0, <1>9, <2>2 DEF Select, TypeOK
    <2> QED
      BY <1>0, <1>9, <2>1, <2>3 DEF Select, ThreadTypes, TypeOK, At
  <1>10. ASSUME NEW s \in Switches, DivideByZero(s) PROVE TypeOK'
    <2>1. ThreadTypes'
      BY <1>0, <1>10, GoLemma DEF DivideByZero, PcValues
    <2> QED
      BY <1>0, <1>10, <2>1, SetsLemma DEF
         DivideByZero, ThreadTypes, TypeOK, At, Loaded, outside, history
  <1>11. ASSUME NEW s \in Switches, Forward(s) PROVE TypeOK'
    <2>1. ThreadTypes'
      BY <1>0, <1>11, FinishLemma DEF Forward
    <2> QED
      BY <1>0, <1>11, <2>1, PacketFacts, SetsLemma DEF
         Forward, ThreadTypes, TypeOK, At, outside, history
  <1>12. ASSUME NEW s \in Switches, Misdirected(s) PROVE TypeOK'
    <2>1. ThreadTypes'
      BY <1>0, <1>12, FinishLemma DEF Misdirected
    <2> QED
      BY <1>0, <1>12, <2>1, PacketFacts, SetsLemma DEF
         Misdirected, ThreadTypes, TypeOK, At, Mixed, NotHandled, outside, history
  <1>13. ASSUME NEW s \in Switches, CreateSessionResponse(s) PROVE TypeOK'
    <2>1. ThreadTypes'
      BY <1>0, <1>13, GoLemma DEF CreateSessionResponse, PcValues
    <2>2. What(s) \in Sessions
      BY <1>0, <1>13, PacketFacts DEF CreateSessionResponse, At
    <2> QED
      BY <1>0, <1>13, <2>1, <2>2 DEF CreateSessionResponse, ThreadTypes, TypeOK, At,
         outside, history
  <1>14. ASSUME NEW s \in Switches, CreateSessionResponseDrop(s) PROVE TypeOK'
    <2>1. ThreadTypes'
      BY <1>0, <1>14, FinishLemma DEF CreateSessionResponseDrop
    <2> QED
      BY <1>0, <1>14, <2>1, SetsLemma DEF
         CreateSessionResponseDrop, ThreadTypes, TypeOK, At, outside, history
  <1>15. ASSUME NEW s \in Switches, DeleteSessionResponse(s) PROVE TypeOK'
    <2>1. ThreadTypes'
      BY <1>0, <1>15, GoLemma DEF DeleteSessionResponse, PcValues
    <2> QED
      BY <1>0, <1>15, <2>1, SetsLemma DEF
         DeleteSessionResponse, ThreadTypes, TypeOK, At, outside, history
  <1>16. ASSUME NEW s \in Switches, DeleteUnknown(s) PROVE TypeOK'
    <2>1. ThreadTypes'
      BY <1>0, <1>16, GoLemma DEF DeleteUnknown, PcValues
    <2> QED
      BY <1>0, <1>16, <2>1, SetsLemma DEF
         DeleteUnknown, ThreadTypes, TypeOK, At, outside, history
  <1>17. ASSUME NEW s \in Switches, OutputToPhyPort(s) PROVE TypeOK'
    <2>1. ThreadTypes'
      BY <1>0, <1>17, FinishLemma DEF OutputToPhyPort
    <2> QED
      BY <1>0, <1>17, <2>1, PacketFacts, SetsLemma DEF
         OutputToPhyPort, ThreadTypes, TypeOK, At, outside, history
  <1>18. ASSUME NEW q \in Requests, SendRequest(q) PROVE TypeOK'
    BY <1>0, <1>18, MadeLemma, SetsLemma DEF
       SendRequest, ToAll, TypeOK, At, outside, history
  <1>19. ASSUME NEW x \in Sessions, SendDelete(x) PROVE TypeOK'
    BY <1>0, <1>19, MadeLemma, SetsLemma DEF
       SendDelete, ToAll, TypeOK, At, outside, history
  <1>20. ASSUME NEW m \in gwnet, NEW x \in Sessions, GatewayCreates(m, x) PROVE TypeOK'
    BY <1>0, <1>20, MadeLemma, GatewayFacts, SetsLemma DEF
       GatewayCreates, TypeOK, At, outside, history
  <1>21. ASSUME NEW m \in gwnet, GatewayDeletes(m) PROVE TypeOK'
    BY <1>0, <1>21, MadeLemma, GatewayFacts, SetsLemma DEF
       GatewayDeletes, TypeOK, At, outside, history
  <1>23. CASE UNCHANGED vars
    BY <1>0, <1>23 DEF TypeOK, At, vars, outside, history
  <1> QED
    BY <1>1, <1>2, <1>3, <1>4, <1>5, <1>6, <1>7, <1>8, <1>9, <1>10, <1>11, <1>12, <1>13,
       <1>14, <1>15, <1>16, <1>17, <1>18, <1>19, <1>20, <1>21, <1>23
       DEF Next, Controller, Upcall, Outside

\* The parameters stay those of one configuration.
LEMMA ParStep == Inv /\ [Next]_vars => ParInv'
  <1> SUFFICES ASSUME Inv, [Next]_vars PROVE ParInv'
    OBVIOUS
  <1>0. TypeOK /\ ThreadTypes /\ ParInv
    BY DEF Inv, TypeOK, ThreadTypes, At
  <1>1. ASSUME NEW s \in Switches, NEW e \in Eras, SetParams(s, e) PROVE ParInv'
    BY <1>0, <1>1, SetsLemma DEF
       SetParams, ParInv, TypeOK, outside, history
  <1>2. ASSUME NEW s \in Switches, NEW p \in Params, StoreParam(s, p) PROVE ParInv'
    BY <1>0, <1>2 DEF
       StoreParam, ParInv, TypeOK, outside, history
  <1>3. ASSUME NEW s \in Switches, AddPgw(s) PROVE ParInv'
    BY <1>0, <1>3 DEF
       AddPgw, ParInv, outside, history
  <1>4. ASSUME NEW s \in Switches, Restart(s) PROVE ParInv'
    BY <1>0, <1>4 DEF
       Restart, ParInv, TypeOK, outside, history
  <1>5. ASSUME NEW s \in Switches, NEW m \in net, HandleGtp(s, m) PROVE ParInv'
    BY <1>0, <1>5 DEF
       HandleGtp, ParInv, outside, history
  <1>6. ASSUME NEW s \in Switches, Direction(s) PROVE ParInv'
    BY <1>0, <1>6 DEF
       Direction, ParInv, outside, history
  <1>7. ASSUME NEW s \in Switches, LoadTotal(s) PROVE ParInv'
    BY <1>0, <1>7 DEF
       LoadTotal, ParInv, outside, history
  <1>8. ASSUME NEW s \in Switches, LoadId(s) PROVE ParInv'
    BY <1>0, <1>8 DEF
       LoadId, ParInv, outside, history
  <1>9. ASSUME NEW s \in Switches, Select(s) PROVE ParInv'
    BY <1>0, <1>9 DEF
       Select, ParInv, outside, history
  <1>10. ASSUME NEW s \in Switches, DivideByZero(s) PROVE ParInv'
    BY <1>0, <1>10 DEF
       DivideByZero, ParInv, outside, history
  <1>11. ASSUME NEW s \in Switches, Forward(s) PROVE ParInv'
    BY <1>0, <1>11 DEF
       Forward, ParInv, outside, history
  <1>12. ASSUME NEW s \in Switches, Misdirected(s) PROVE ParInv'
    BY <1>0, <1>12 DEF
       Misdirected, ParInv, outside, history
  <1>13. ASSUME NEW s \in Switches, CreateSessionResponse(s) PROVE ParInv'
    BY <1>0, <1>13 DEF
       CreateSessionResponse, ParInv, outside, history
  <1>14. ASSUME NEW s \in Switches, CreateSessionResponseDrop(s) PROVE ParInv'
    BY <1>0, <1>14 DEF
       CreateSessionResponseDrop, ParInv, outside, history
  <1>15. ASSUME NEW s \in Switches, DeleteSessionResponse(s) PROVE ParInv'
    BY <1>0, <1>15 DEF
       DeleteSessionResponse, ParInv, outside, history
  <1>16. ASSUME NEW s \in Switches, DeleteUnknown(s) PROVE ParInv'
    BY <1>0, <1>16 DEF
       DeleteUnknown, ParInv, outside, history
  <1>17. ASSUME NEW s \in Switches, OutputToPhyPort(s) PROVE ParInv'
    BY <1>0, <1>17 DEF
       OutputToPhyPort, ParInv, outside, history
  <1>18. ASSUME NEW q \in Requests, SendRequest(q) PROVE ParInv'
    BY <1>0, <1>18 DEF
       SendRequest, ParInv, outside, history
  <1>19. ASSUME NEW x \in Sessions, SendDelete(x) PROVE ParInv'
    BY <1>0, <1>19 DEF
       SendDelete, ParInv, outside, history
  <1>20. ASSUME NEW m \in gwnet, NEW x \in Sessions, GatewayCreates(m, x) PROVE ParInv'
    BY <1>0, <1>20 DEF
       GatewayCreates, ParInv, outside, history
  <1>21. ASSUME NEW m \in gwnet, GatewayDeletes(m) PROVE ParInv'
    BY <1>0, <1>21 DEF
       GatewayDeletes, ParInv, outside, history
  <1>23. CASE UNCHANGED vars
    BY <1>0, <1>23 DEF ParInv, vars, outside, history
  <1> QED
    BY <1>1, <1>2, <1>3, <1>4, <1>5, <1>6, <1>7, <1>8, <1>9, <1>10, <1>11, <1>12, <1>13,
       <1>14, <1>15, <1>16, <1>17, <1>18, <1>19, <1>20, <1>21, <1>23
       DEF Next, Controller, Upcall, Outside

\* What has been loaded stays in step with what has been noted.
LEMMA LoadStep == Inv /\ [Next]_vars => LoadInv'
  <1> SUFFICES ASSUME Inv, [Next]_vars PROVE LoadInv'
    OBVIOUS
  <1>0. TypeOK /\ ThreadTypes /\ LoadInv /\ ParInv
    BY DEF Inv, TypeOK, ThreadTypes, At
  <1>1. ASSUME NEW s \in Switches, NEW e \in Eras, SetParams(s, e) PROVE LoadInv'
    <2>1. /\ th'[s].pc = th[s].pc /\ th'[s].m = th[s].m /\ th'[s].era = Mixed
          /\ th'[s].total = th[s].total /\ th'[s].id = th[s].id
          /\ \A u \in Switches : u # s => th'[u] = th[u]
      BY <1>0, <1>1, SpoilLemma DEF SetParams
    <2>2. /\ pend[s] = {}
          /\ pend' = [pend EXCEPT ![s] = {p \in Params : par[s][p] # Config[e][s][p]}]
          /\ era' = [era EXCEPT ![s] = e]
          /\ UNCHANGED <<par, reg, tbl, restarts, outside, history>>
      BY <1>1 DEF SetParams
    <2> QED
      BY <1>0, <2>1, <2>2 DEF
         LoadInv, TypeOK, outside, history
  <1>2. ASSUME NEW s \in Switches, NEW p \in Params, StoreParam(s, p) PROVE LoadInv'
    BY <1>0, <1>2 DEF
       StoreParam, LoadInv, TypeOK, outside, history
  <1>3. ASSUME NEW s \in Switches, AddPgw(s) PROVE LoadInv'
    BY <1>0, <1>3 DEF
       AddPgw, LoadInv, outside, history
  <1>4. ASSUME NEW s \in Switches, Restart(s) PROVE LoadInv'
    <2>1. /\ th'[s] = IdleThread
          /\ \A u \in Switches : u # s => th'[u] = th[u]
      BY <1>0, <1>4, FinishLemma, IdleLemma DEF Restart, Finish
    <2>2. /\ par' = [par EXCEPT ![s] = [p \in Params |-> 0]] /\ pend' = [pend EXCEPT ![s] = {}]
          /\ tbl' = [tbl EXCEPT ![s] = {}] /\ era' = [era EXCEPT ![s] = 0]
          /\ lost' = lost \cup {x \in Sessions : home[x] = s}
          /\ UNCHANGED <<outside, home, seen, taken>>
      BY <1>4 DEF Restart
    <2> QED
      BY <1>0, <2>1, <2>2, IdleLemma DEF
         LoadInv, outside, history
  <1>5. ASSUME NEW s \in Switches, NEW m \in net, HandleGtp(s, m) PROVE LoadInv'
    <2>1. /\ th'[s].pc = "begin" /\ th'[s].m = m /\ th'[s].total = Mixed
          /\ th'[s].id = Mixed
          /\ th'[s].era = IF pend[s] = {} /\ era[s] # 0 THEN era[s] ELSE Mixed
          /\ \A u \in Switches : u # s => th'[u] = th[u]
      BY <1>0, <1>5, HandleLemma DEF HandleGtp
    <2>2. At(s, "idle") /\ m.to = s /\ net' \subseteq net /\ (m.kind # "deleted" => m \notin net')
          /\ UNCHANGED <<par, pend, era, reg, tbl, restarts, gwnet, live, told, asked, history>>
      BY <1>5 DEF HandleGtp
    <2> QED
      BY ZenonT(30), <1>0, <2>1, <2>2, SetsLemma DEF
         At, LoadInv, TypeOK, Mixed, outside, history
  <1>6. ASSUME NEW s \in Switches, Direction(s) PROVE LoadInv'
    <2>1. /\ th'[s].pc \in {"to_pgw", "to_sgw"} /\ th'[s].m = th[s].m
          /\ th'[s].era = th[s].era /\ th'[s].total = th[s].total /\ th'[s].id = th[s].id
          /\ \A u \in Switches : u # s => th'[u] = th[u]
      BY <1>0, <1>6, GoLemma DEF Direction, PcValues
    <2> QED
      BY <1>0, <2>1, <1>6 DEF
         Direction, At, LoadInv, outside, history
  <1>7. ASSUME NEW s \in Switches, LoadTotal(s) PROVE LoadInv'
    <2>1. /\ th'[s].pc = "to_pgw" /\ th'[s].m = th[s].m /\ th'[s].id = th[s].id
          /\ th'[s].total = par[s]["ovs_total"] /\ th'[s].era = th[s].era
          /\ \A u \in Switches : u # s => th'[u] = th[u]
      BY <1>0, <1>7, LoadTotalLemma DEF LoadTotal
    <2>2. At(s, "to_pgw") /\ th[s].m.kind = "request"
          /\ UNCHANGED <<par, pend, era, reg, tbl, restarts, outside, history>>
      BY <1>7 DEF LoadTotal
    <2>3. th[s].era # Mixed => era[s] \in Eras /\ era[s] # 0 /\ pend[s] = {}
      BY <1>0, SetsLemma DEF LoadInv, ThreadTypes, ThreadStates
    <2>4. th[s].era # Mixed => par[s]["ovs_total"] = Config[era[s]][s]["ovs_total"]
      BY <1>0, <2>3 DEF ParInv, Params
    <2> QED
      BY <1>0, <2>1, <2>2, <2>4 DEF LoadInv, outside, history
  <1>8. ASSUME NEW s \in Switches, LoadId(s) PROVE LoadInv'
    <2>1. /\ th'[s].pc = "to_pgw" /\ th'[s].m = th[s].m /\ th'[s].total = th[s].total
          /\ th'[s].id = par[s]["ovs_id"] /\ th'[s].era = th[s].era
          /\ \A u \in Switches : u # s => th'[u] = th[u]
      BY <1>0, <1>8, LoadIdLemma DEF LoadId
    <2>2. At(s, "to_pgw") /\ th[s].m.kind = "request"
          /\ UNCHANGED <<par, pend, era, reg, tbl, restarts, outside, history>>
      BY <1>8 DEF LoadId
    <2>3. th[s].era # Mixed => era[s] \in Eras /\ era[s] # 0 /\ pend[s] = {}
      BY <1>0, SetsLemma DEF LoadInv, ThreadTypes, ThreadStates
    <2>4. th[s].era # Mixed => par[s]["ovs_id"] = Config[era[s]][s]["ovs_id"]
      BY <1>0, <2>3 DEF ParInv, Params
    <2> QED
      BY <1>0, <2>1, <2>2, <2>4 DEF LoadInv, outside, history
  <1>9. ASSUME NEW s \in Switches, Select(s) PROVE LoadInv'
    <2>1. /\ th'[s] = IdleThread
          /\ \A u \in Switches : u # s => th'[u] = th[u]
      BY <1>0, <1>9, FinishLemma, IdleLemma DEF Select
    <2> QED
      BY <1>0, <2>1, <1>9, IdleLemma DEF
         Select, Loaded, At, LoadInv, outside, history
  <1>10. ASSUME NEW s \in Switches, DivideByZero(s) PROVE LoadInv'
    <2>1. /\ th'[s].pc = "sigfpe" /\ th'[s].m = th[s].m /\ th'[s].era = th[s].era
          /\ th'[s].total = th[s].total /\ th'[s].id = th[s].id
          /\ \A u \in Switches : u # s => th'[u] = th[u]
      BY <1>0, <1>10, GoLemma DEF DivideByZero, PcValues
    <2> QED
      BY <1>0, <2>1, <1>10 DEF
         DivideByZero, Loaded, At, LoadInv, outside, history
  <1>11. ASSUME NEW s \in Switches, Forward(s) PROVE LoadInv'
    <2>1. /\ th'[s] = IdleThread
          /\ \A u \in Switches : u # s => th'[u] = th[u]
      BY <1>0, <1>11, FinishLemma, IdleLemma DEF Forward
    <2> QED
      BY <1>0, <2>1, <1>11, IdleLemma DEF
         Forward, At, LoadInv, outside, history
  <1>12. ASSUME NEW s \in Switches, Misdirected(s) PROVE LoadInv'
    <2>1. /\ th'[s] = IdleThread
          /\ \A u \in Switches : u # s => th'[u] = th[u]
      BY <1>0, <1>12, FinishLemma, IdleLemma DEF Misdirected
    <2> QED
      BY <1>0, <2>1, <1>12, IdleLemma DEF
         Misdirected, At, LoadInv, outside, history
  <1>13. ASSUME NEW s \in Switches, CreateSessionResponse(s) PROVE LoadInv'
    <2>1. /\ th'[s].pc = "output" /\ th'[s].m = th[s].m /\ th'[s].era = th[s].era
          /\ th'[s].total = th[s].total /\ th'[s].id = th[s].id
          /\ \A u \in Switches : u # s => th'[u] = th[u]
      BY <1>0, <1>13, GoLemma DEF CreateSessionResponse, PcValues
    <2> QED
      BY <1>0, <2>1, <1>13 DEF
         CreateSessionResponse, At, LoadInv, outside, history
  <1>14. ASSUME NEW s \in Switches, CreateSessionResponseDrop(s) PROVE LoadInv'
    <2>1. /\ th'[s] = IdleThread
          /\ \A u \in Switches : u # s => th'[u] = th[u]
      BY <1>0, <1>14, FinishLemma, IdleLemma DEF CreateSessionResponseDrop
    <2> QED
      BY <1>0, <2>1, <1>14, IdleLemma DEF
         CreateSessionResponseDrop, At, LoadInv, outside, history
  <1>15. ASSUME NEW s \in Switches, DeleteSessionResponse(s) PROVE LoadInv'
    <2>1. /\ th'[s].pc = "output" /\ th'[s].m = th[s].m /\ th'[s].era = th[s].era
          /\ th'[s].total = th[s].total /\ th'[s].id = th[s].id
          /\ \A u \in Switches : u # s => th'[u] = th[u]
      BY <1>0, <1>15, GoLemma DEF DeleteSessionResponse, PcValues
    <2> QED
      BY <1>0, <2>1, <1>15 DEF
         DeleteSessionResponse, At, LoadInv, outside, history
  <1>16. ASSUME NEW s \in Switches, DeleteUnknown(s) PROVE LoadInv'
    <2>1. /\ th'[s].pc = "sigsegv" /\ th'[s].m = th[s].m /\ th'[s].era = th[s].era
          /\ th'[s].total = th[s].total /\ th'[s].id = th[s].id
          /\ \A u \in Switches : u # s => th'[u] = th[u]
      BY <1>0, <1>16, GoLemma DEF DeleteUnknown, PcValues
    <2> QED
      BY <1>0, <2>1, <1>16 DEF
         DeleteUnknown, At, LoadInv, outside, history
  <1>17. ASSUME NEW s \in Switches, OutputToPhyPort(s) PROVE LoadInv'
    <2>1. /\ th'[s] = IdleThread
          /\ \A u \in Switches : u # s => th'[u] = th[u]
      BY <1>0, <1>17, FinishLemma, IdleLemma DEF OutputToPhyPort
    <2> QED
      BY <1>0, <2>1, <1>17, IdleLemma DEF
         OutputToPhyPort, At, LoadInv, outside, history
  <1>18. ASSUME NEW q \in Requests, SendRequest(q) PROVE LoadInv'
    BY <1>0, <1>18 DEF
       SendRequest, LoadInv, outside, history
  <1>19. ASSUME NEW x \in Sessions, SendDelete(x) PROVE LoadInv'
    BY <1>0, <1>19 DEF
       SendDelete, LoadInv, outside, history
  <1>20. ASSUME NEW m \in gwnet, NEW x \in Sessions, GatewayCreates(m, x) PROVE LoadInv'
    BY <1>0, <1>20 DEF
       GatewayCreates, LoadInv, outside, history
  <1>21. ASSUME NEW m \in gwnet, GatewayDeletes(m) PROVE LoadInv'
    BY <1>0, <1>21 DEF
       GatewayDeletes, LoadInv, outside, history
  <1>23. CASE UNCHANGED vars
    BY <1>0, <1>23 DEF LoadInv, vars, outside, history
  <1> QED
    BY <1>1, <1>2, <1>3, <1>4, <1>5, <1>6, <1>7, <1>8, <1>9, <1>10, <1>11, <1>12, <1>13,
       <1>14, <1>15, <1>16, <1>17, <1>18, <1>19, <1>20, <1>21, <1>23
       DEF Next, Controller, Upcall, Outside

\* Packets stay well formed.
LEMMA PacketStep == Inv /\ [Next]_vars => PacketInv'
  <1> SUFFICES ASSUME Inv, [Next]_vars PROVE PacketInv'
    OBVIOUS
  <1>0. TypeOK /\ ThreadTypes /\ PacketInv /\ HomeInv
    BY DEF Inv, TypeOK, ThreadTypes, At
  <1>1. ASSUME NEW s \in Switches, NEW e \in Eras, SetParams(s, e) PROVE PacketInv'
    <2>1. /\ th'[s].pc = th[s].pc /\ th'[s].m = th[s].m /\ th'[s].era = Mixed
          /\ th'[s].total = th[s].total /\ th'[s].id = th[s].id
          /\ \A u \in Switches : u # s => th'[u] = th[u]
      BY <1>0, <1>1, SpoilLemma DEF SetParams
    <2>2. /\ pend[s] = {}
          /\ pend' = [pend EXCEPT ![s] = {p \in Params : par[s][p] # Config[e][s][p]}]
          /\ era' = [era EXCEPT ![s] = e]
          /\ UNCHANGED <<par, reg, tbl, restarts, outside, history>>
      BY <1>1 DEF SetParams
    <2>3. \A k : Good(k) => Good(k)'
      BY <1>1, GoodStep DEF SetParams, outside, history
    <2> QED
      BY <1>0, <2>1, <2>2, <2>3, IdleLemma
         DEF PacketInv, outside, history
  <1>2. ASSUME NEW s \in Switches, NEW p \in Params, StoreParam(s, p) PROVE PacketInv'
    <2>3. \A k : Good(k) => Good(k)'
      BY <1>2, GoodStep DEF StoreParam, outside, history
    <2> QED
      BY <1>0, <1>2, <2>3 DEF StoreParam, PacketInv, outside, history
  <1>3. ASSUME NEW s \in Switches, AddPgw(s) PROVE PacketInv'
    <2>3. \A k : Good(k) => Good(k)'
      BY <1>3, GoodStep DEF AddPgw, outside, history
    <2> QED
      BY <1>0, <1>3, <2>3 DEF AddPgw, PacketInv, outside, history
  <1>4. ASSUME NEW s \in Switches, Restart(s) PROVE PacketInv'
    <2>1. /\ th'[s] = IdleThread
          /\ \A u \in Switches : u # s => th'[u] = th[u]
      BY <1>0, <1>4, FinishLemma, IdleLemma DEF Restart, Finish
    <2>2. /\ par' = [par EXCEPT ![s] = [p \in Params |-> 0]] /\ pend' = [pend EXCEPT ![s] = {}]
          /\ tbl' = [tbl EXCEPT ![s] = {}] /\ era' = [era EXCEPT ![s] = 0]
          /\ lost' = lost \cup {x \in Sessions : home[x] = s}
          /\ UNCHANGED <<outside, home, seen, taken>>
      BY <1>4 DEF Restart
    <2>3. \A k : Good(k) => Good(k)'
      BY <1>4, GoodStep DEF Restart, outside, history
    <2> QED
      BY <1>0, <2>1, <2>2, <2>3, IdleLemma
         DEF PacketInv, outside, history
  <1>5. ASSUME NEW s \in Switches, NEW m \in net, HandleGtp(s, m) PROVE PacketInv'
    <2>1. /\ th'[s].pc = "begin" /\ th'[s].m = m /\ th'[s].total = Mixed
          /\ th'[s].id = Mixed
          /\ th'[s].era = IF pend[s] = {} /\ era[s] # 0 THEN era[s] ELSE Mixed
          /\ \A u \in Switches : u # s => th'[u] = th[u]
      BY <1>0, <1>5, HandleLemma DEF HandleGtp
    <2>2. At(s, "idle") /\ m.to = s /\ net' \subseteq net /\ (m.kind # "deleted" => m \notin net')
          /\ UNCHANGED <<par, pend, era, reg, tbl, restarts, gwnet, live, told, asked, history>>
      BY <1>5 DEF HandleGtp
    <2>3. \A k : Good(k) => Good(k)'
      BY <1>5, GoodStep DEF HandleGtp, outside, history
    <2> QED
      BY <1>0, <2>1, <2>2, <2>3, IdleLemma
         DEF At, PacketInv, outside, history
  <1>6. ASSUME NEW s \in Switches, Direction(s) PROVE PacketInv'
    <2>1. /\ th'[s].pc \in {"to_pgw", "to_sgw"} /\ th'[s].m = th[s].m
          /\ th'[s].era = th[s].era /\ th'[s].total = th[s].total /\ th'[s].id = th[s].id
          /\ \A u \in Switches : u # s => th'[u] = th[u]
      BY <1>0, <1>6, GoLemma DEF Direction, PcValues
    <2>3. \A k : Good(k) => Good(k)'
      BY <1>6, GoodStep DEF Direction, outside, history
    <2> QED
      BY <1>0, <2>1, <1>6, <2>3, IdleLemma
         DEF Direction, At, PacketInv, outside, history
  <1>7. ASSUME NEW s \in Switches, LoadTotal(s) PROVE PacketInv'
    <2>1. /\ th'[s].pc = "to_pgw" /\ th'[s].m = th[s].m /\ th'[s].id = th[s].id
          /\ th'[s].total = par[s]["ovs_total"] /\ th'[s].era = th[s].era
          /\ \A u \in Switches : u # s => th'[u] = th[u]
      BY <1>0, <1>7, LoadTotalLemma DEF LoadTotal
    <2>2. At(s, "to_pgw") /\ th[s].m.kind = "request"
          /\ UNCHANGED <<par, pend, era, reg, tbl, restarts, outside, history>>
      BY <1>7 DEF LoadTotal
    <2>3. \A k : Good(k) => Good(k)'
      BY <1>7, GoodStep DEF LoadTotal, outside, history
    <2> QED
      BY <1>0, <2>1, <2>2, <2>3, IdleLemma
         DEF PacketInv, outside, history, At
  <1>8. ASSUME NEW s \in Switches, LoadId(s) PROVE PacketInv'
    <2>1. /\ th'[s].pc = "to_pgw" /\ th'[s].m = th[s].m /\ th'[s].total = th[s].total
          /\ th'[s].id = par[s]["ovs_id"] /\ th'[s].era = th[s].era
          /\ \A u \in Switches : u # s => th'[u] = th[u]
      BY <1>0, <1>8, LoadIdLemma DEF LoadId
    <2>2. At(s, "to_pgw") /\ th[s].m.kind = "request"
          /\ UNCHANGED <<par, pend, era, reg, tbl, restarts, outside, history>>
      BY <1>8 DEF LoadId
    <2>3. \A k : Good(k) => Good(k)'
      BY <1>8, GoodStep DEF LoadId, outside, history
    <2> QED
      BY <1>0, <2>1, <2>2, <2>3, IdleLemma
         DEF PacketInv, outside, history, At
  <1>9. ASSUME NEW s \in Switches, Select(s) PROVE PacketInv'
    <2>1. /\ th'[s] = IdleThread
          /\ \A u \in Switches : u # s => th'[u] = th[u]
      BY <1>0, <1>9, FinishLemma, IdleLemma DEF Select
    <2>3. \A k : Good(k) => Good(k)'
      BY <1>9, GoodStep DEF Select, outside, history
    <2>4. th[s].m.kind = "request" /\ Good(th[s].m)
      BY <1>0, <1>9, PacketFacts DEF Select, Loaded, At, PacketInv
    <2>5. net' = net /\ gwnet' \subseteq gwnet \cup {th[s].m} /\ UNCHANGED home
      BY <1>9 DEF Select
    <2> QED
      BY <1>0, <2>1, <2>3, <2>4, <2>5, IdleLemma DEF PacketInv
  <1>10. ASSUME NEW s \in Switches, DivideByZero(s) PROVE PacketInv'
    <2>1. /\ th'[s].pc = "sigfpe" /\ th'[s].m = th[s].m /\ th'[s].era = th[s].era
          /\ th'[s].total = th[s].total /\ th'[s].id = th[s].id
          /\ \A u \in Switches : u # s => th'[u] = th[u]
      BY <1>0, <1>10, GoLemma DEF DivideByZero, PcValues
    <2>3. \A k : Good(k) => Good(k)'
      BY <1>10, GoodStep DEF DivideByZero, outside, history
    <2> QED
      BY <1>0, <2>1, <1>10, <2>3, IdleLemma
         DEF DivideByZero, Loaded, At, PacketInv, outside, history
  <1>11. ASSUME NEW s \in Switches, Forward(s) PROVE PacketInv'
    <2>1. /\ th'[s] = IdleThread
          /\ \A u \in Switches : u # s => th'[u] = th[u]
      BY <1>0, <1>11, FinishLemma, IdleLemma DEF Forward
    <2>3. \A k : Good(k) => Good(k)'
      BY <1>11, GoodStep DEF Forward, outside, history
    <2>4. th[s].m.kind = "delete" /\ Good(th[s].m) /\ th[s].m.to = s /\ What(s) \in Sessions
      BY <1>0, <1>11, PacketFacts DEF Forward, At
    <2>5. What(s) \in tbl[s] => home[What(s)] = s
      BY <1>0, <2>4 DEF HomeInv
    <2>6. /\ net' = net /\ UNCHANGED home
          /\ \A k \in gwnet' : k \in gwnet \/ (k = th[s].m /\ What(s) \in tbl[s])
      BY <1>11 DEF Forward, history
    <2> QED
      BY <1>0, <2>1, <2>3, <2>4, <2>5, <2>6, IdleLemma DEF PacketInv, What
  <1>12. ASSUME NEW s \in Switches, Misdirected(s) PROVE PacketInv'
    <2>1. /\ th'[s] = IdleThread
          /\ \A u \in Switches : u # s => th'[u] = th[u]
      BY <1>0, <1>12, FinishLemma, IdleLemma DEF Misdirected
    <2>3. \A k : Good(k) => Good(k)'
      BY <1>12, GoodStep DEF Misdirected, outside, history
    <2> QED
      BY <1>0, <2>1, <1>12, <2>3, IdleLemma
         DEF Misdirected, At, PacketInv, outside, history
  <1>13. ASSUME NEW s \in Switches, CreateSessionResponse(s) PROVE PacketInv'
    <2>1. /\ th'[s].pc = "output" /\ th'[s].m = th[s].m /\ th'[s].era = th[s].era
          /\ th'[s].total = th[s].total /\ th'[s].id = th[s].id
          /\ \A u \in Switches : u # s => th'[u] = th[u]
      BY <1>0, <1>13, GoLemma DEF CreateSessionResponse, PcValues
    <2>3. \A k : Good(k) => Good(k)'
      BY <1>13, GoodStep DEF CreateSessionResponse, outside, history
    <2> QED
      BY <1>0, <2>1, <1>13, <2>3, IdleLemma
         DEF CreateSessionResponse, At, PacketInv, outside, history
  <1>14. ASSUME NEW s \in Switches, CreateSessionResponseDrop(s) PROVE PacketInv'
    <2>1. /\ th'[s] = IdleThread
          /\ \A u \in Switches : u # s => th'[u] = th[u]
      BY <1>0, <1>14, FinishLemma, IdleLemma DEF CreateSessionResponseDrop
    <2>3. \A k : Good(k) => Good(k)'
      BY <1>14, GoodStep DEF CreateSessionResponseDrop, outside, history
    <2> QED
      BY <1>0, <2>1, <1>14, <2>3, IdleLemma
         DEF CreateSessionResponseDrop, At, PacketInv, outside, history
  <1>15. ASSUME NEW s \in Switches, DeleteSessionResponse(s) PROVE PacketInv'
    <2>1. /\ th'[s].pc = "output" /\ th'[s].m = th[s].m /\ th'[s].era = th[s].era
          /\ th'[s].total = th[s].total /\ th'[s].id = th[s].id
          /\ \A u \in Switches : u # s => th'[u] = th[u]
      BY <1>0, <1>15, GoLemma DEF DeleteSessionResponse, PcValues
    <2>3. \A k : Good(k) => Good(k)'
      BY <1>15, GoodStep DEF DeleteSessionResponse, outside, history
    <2> QED
      BY <1>0, <2>1, <1>15, <2>3, IdleLemma
         DEF DeleteSessionResponse, At, PacketInv, outside, history
  <1>16. ASSUME NEW s \in Switches, DeleteUnknown(s) PROVE PacketInv'
    <2>1. /\ th'[s].pc = "sigsegv" /\ th'[s].m = th[s].m /\ th'[s].era = th[s].era
          /\ th'[s].total = th[s].total /\ th'[s].id = th[s].id
          /\ \A u \in Switches : u # s => th'[u] = th[u]
      BY <1>0, <1>16, GoLemma DEF DeleteUnknown, PcValues
    <2>3. \A k : Good(k) => Good(k)'
      BY <1>16, GoodStep DEF DeleteUnknown, outside, history
    <2> QED
      BY <1>0, <2>1, <1>16, <2>3, IdleLemma
         DEF DeleteUnknown, At, PacketInv, outside, history
  <1>17. ASSUME NEW s \in Switches, OutputToPhyPort(s) PROVE PacketInv'
    <2>1. /\ th'[s] = IdleThread
          /\ \A u \in Switches : u # s => th'[u] = th[u]
      BY <1>0, <1>17, FinishLemma, IdleLemma DEF OutputToPhyPort
    <2>3. \A k : Good(k) => Good(k)'
      BY <1>17, GoodStep DEF OutputToPhyPort, outside, history
    <2> QED
      BY <1>0, <2>1, <1>17, <2>3, IdleLemma
         DEF OutputToPhyPort, At, PacketInv, outside, history
  <1>18. ASSUME NEW q \in Requests, SendRequest(q) PROVE PacketInv'
    <2>3. \A k : Good(k) => Good(k)'
      BY <1>18, GoodStep DEF SendRequest, outside, history
    <2>4. \A k \in ToAll("request", q) : Good(k)'
      BY ToAllLemma, MadeLemma DEF Good, ToAll
    <2> QED
      BY <1>0, <1>18, <2>3, <2>4 DEF SendRequest, PacketInv, history
  <1>19. ASSUME NEW x \in Sessions, SendDelete(x) PROVE PacketInv'
    <2>3. \A k : Good(k) => Good(k)'
      BY <1>19, GoodStep DEF SendDelete, outside, history
    <2>4. \A k \in ToAll("delete", x) : Good(k)'
      BY <1>19, ToAllLemma, MadeLemma DEF Good, ToAll, SendDelete
    <2> QED
      BY <1>0, <1>19, <2>3, <2>4 DEF SendDelete, PacketInv, history
  <1>20. ASSUME NEW m \in gwnet, NEW x \in Sessions, GatewayCreates(m, x) PROVE PacketInv'
    <2>1. m.to \in Switches /\ home \in [Sessions -> Switches \cup {None}]
      BY <1>0, GatewayFacts DEF TypeOK
    <2>2. home'[x] = m.to /\ \A y \in Sessions : home[y] # None => home'[y] = home[y]
      BY <1>20, <2>1 DEF GatewayCreates
    <2>3. \A k : Good(k) => Good(k)'
      BY <1>20, <2>2, GoodStep DEF GatewayCreates
    <2>4. Good(FromPgw(m.to, "created", x))'
      BY <2>1, <2>2, MadeLemma, FieldsLemma DEF Good
    <2>5. \A k \in gwnet : k.kind = "delete" => home'[k.what] = k.to
      BY <1>0, <2>2, GatewayFacts, SetsLemma
    <2>6. /\ net' = net \cup {FromPgw(m.to, "created", x)} /\ gwnet' \subseteq gwnet
          /\ UNCHANGED th
      BY <1>20 DEF GatewayCreates
    <2> QED
      BY <1>0, <2>3, <2>4, <2>5, <2>6 DEF PacketInv
  <1>21. ASSUME NEW m \in gwnet, GatewayDeletes(m) PROVE PacketInv'
    <2>3. \A k : Good(k) => Good(k)'
      BY <1>21, GoodStep DEF GatewayDeletes, outside, history
    <2>4. Good(FromPgw(m.to, "deleted", m.what))'
      BY <1>21, MadeLemma, FieldsLemma, GatewayFacts DEF Good, GatewayDeletes, history
    <2> QED
      BY <1>0, <1>21, <2>3, <2>4 DEF GatewayDeletes, PacketInv, history
  <1>23. CASE UNCHANGED vars
    BY <1>0, <1>23 DEF PacketInv, Good, vars, outside, history
  <1> QED
    BY <1>1, <1>2, <1>3, <1>4, <1>5, <1>6, <1>7, <1>8, <1>9, <1>10, <1>11, <1>12, <1>13,
       <1>14, <1>15, <1>16, <1>17, <1>18, <1>19, <1>20, <1>21, <1>23
       DEF Next, Controller, Upcall, Outside

\* Requests are handled once by each switch.
LEMMA OnceStep == Inv /\ [Next]_vars => OnceInv'
  <1> SUFFICES ASSUME Inv, [Next]_vars PROVE OnceInv'
    OBVIOUS
  <1>0. TypeOK /\ ThreadTypes /\ OnceInv /\ PacketInv /\ DeleteInv
    BY DEF Inv, TypeOK, ThreadTypes, At
  <1>1. ASSUME NEW s \in Switches, NEW e \in Eras, SetParams(s, e) PROVE OnceInv'
    <2>1. /\ th'[s].pc = th[s].pc /\ th'[s].m = th[s].m /\ th'[s].era = Mixed
          /\ th'[s].total = th[s].total /\ th'[s].id = th[s].id
          /\ \A u \in Switches : u # s => th'[u] = th[u]
      BY <1>0, <1>1, SpoilLemma DEF SetParams
    <2>2. /\ pend[s] = {}
          /\ pend' = [pend EXCEPT ![s] = {p \in Params : par[s][p] # Config[e][s][p]}]
          /\ era' = [era EXCEPT ![s] = e]
          /\ UNCHANGED <<par, reg, tbl, restarts, outside, history>>
      BY <1>1 DEF SetParams
    <2> QED
      BY <1>0, <2>1, <2>2, IdleLemma, NetFacts DEF
         OnceInv, Fresh, outside, history
  <1>2. ASSUME NEW s \in Switches, NEW p \in Params, StoreParam(s, p) PROVE OnceInv'
    BY <1>0, <1>2, IdleLemma, NetFacts DEF
       StoreParam, OnceInv, Fresh, outside, history
  <1>3. ASSUME NEW s \in Switches, AddPgw(s) PROVE OnceInv'
    BY <1>0, <1>3, IdleLemma, NetFacts DEF
       AddPgw, OnceInv, Fresh, outside, history
  <1>4. ASSUME NEW s \in Switches, Restart(s) PROVE OnceInv'
    <2>1. /\ th'[s] = IdleThread
          /\ \A u \in Switches : u # s => th'[u] = th[u]
      BY <1>0, <1>4, FinishLemma, IdleLemma DEF Restart, Finish
    <2>2. /\ par' = [par EXCEPT ![s] = [p \in Params |-> 0]] /\ pend' = [pend EXCEPT ![s] = {}]
          /\ tbl' = [tbl EXCEPT ![s] = {}] /\ era' = [era EXCEPT ![s] = 0]
          /\ lost' = lost \cup {x \in Sessions : home[x] = s}
          /\ UNCHANGED <<outside, home, seen, taken>>
      BY <1>4 DEF Restart
    <2> QED
      BY <1>0, <2>1, <2>2, IdleLemma, NetFacts DEF
         OnceInv, Fresh, outside, history
  <1>5. ASSUME NEW s \in Switches, NEW m \in net, HandleGtp(s, m) PROVE OnceInv'
    <2>1. /\ th'[s].pc = "begin" /\ th'[s].m = m /\ th'[s].total = Mixed
          /\ th'[s].id = Mixed
          /\ th'[s].era = IF pend[s] = {} /\ era[s] # 0 THEN era[s] ELSE Mixed
          /\ \A u \in Switches : u # s => th'[u] = th[u]
      BY <1>0, <1>5, HandleLemma DEF HandleGtp
    <2>2. At(s, "idle") /\ m.to = s /\ net' \subseteq net /\ (m.kind # "deleted" => m \notin net')
          /\ UNCHANGED <<par, pend, era, reg, tbl, restarts, gwnet, live, told, asked, history>>
      BY <1>5 DEF HandleGtp
    <2>3. \A k \in net' : k.kind \in {"request", "created"} =>
            ~(m.kind = k.kind /\ m.what = k.what /\ m.to = k.to)
      BY <2>2, SameLemma, NetFacts
    <2> QED
      BY <1>0, <2>1, <2>2, <2>3 DEF OnceInv, Fresh, history
  <1>6. ASSUME NEW s \in Switches, Direction(s) PROVE OnceInv'
    <2>1. /\ th'[s].pc \in {"to_pgw", "to_sgw"} /\ th'[s].m = th[s].m
          /\ th'[s].era = th[s].era /\ th'[s].total = th[s].total /\ th'[s].id = th[s].id
          /\ \A u \in Switches : u # s => th'[u] = th[u]
      BY <1>0, <1>6, GoLemma DEF Direction, PcValues
    <2> QED
      BY <1>0, <2>1, <1>6, IdleLemma, NetFacts DEF
         Direction, At, OnceInv, Fresh, outside, history
  <1>7. ASSUME NEW s \in Switches, LoadTotal(s) PROVE OnceInv'
    <2>1. /\ th'[s].pc = "to_pgw" /\ th'[s].m = th[s].m /\ th'[s].id = th[s].id
          /\ th'[s].total = par[s]["ovs_total"] /\ th'[s].era = th[s].era
          /\ \A u \in Switches : u # s => th'[u] = th[u]
      BY <1>0, <1>7, LoadTotalLemma DEF LoadTotal
    <2>2. At(s, "to_pgw") /\ th[s].m.kind = "request"
          /\ UNCHANGED <<par, pend, era, reg, tbl, restarts, outside, history>>
      BY <1>7 DEF LoadTotal
    <2> QED
      BY <1>0, <2>1, <2>2, IdleLemma, NetFacts DEF
         OnceInv, Fresh, outside, history
  <1>8. ASSUME NEW s \in Switches, LoadId(s) PROVE OnceInv'
    <2>1. /\ th'[s].pc = "to_pgw" /\ th'[s].m = th[s].m /\ th'[s].total = th[s].total
          /\ th'[s].id = par[s]["ovs_id"] /\ th'[s].era = th[s].era
          /\ \A u \in Switches : u # s => th'[u] = th[u]
      BY <1>0, <1>8, LoadIdLemma DEF LoadId
    <2>2. At(s, "to_pgw") /\ th[s].m.kind = "request"
          /\ UNCHANGED <<par, pend, era, reg, tbl, restarts, outside, history>>
      BY <1>8 DEF LoadId
    <2> QED
      BY <1>0, <2>1, <2>2, IdleLemma, NetFacts DEF
         OnceInv, Fresh, outside, history
  <1>9. ASSUME NEW s \in Switches, Select(s) PROVE OnceInv'
    <2>1. /\ th'[s] = IdleThread
          /\ \A u \in Switches : u # s => th'[u] = th[u]
      BY <1>0, <1>9, FinishLemma, IdleLemma DEF Select
    <2>3. th[s].pc # "idle" /\ th[s].m.to = s /\ th[s].m.kind = "request"
          /\ What(s) \in Requests
      BY <1>9, <1>0, PacketFacts DEF Select, Loaded, At, PacketInv
    <2>4. /\ net' = net
          /\ \A r \in Requests, u \in Switches :
               r # What(s) \/ u # s \/ th[s].m.kind # "request" =>
                 seen'[r][u] = seen[r][u] /\ (u \in taken'[r] <=> u \in taken[r])
      BY <1>0, <1>9, <2>3 DEF Select, TypeOK
    <2>a. \A k \in net : k.kind = "request" => k.what \in Requests /\ k.to \in Switches
      BY NetFacts
    <2>b. \A k \in net : k.kind = "request" /\ th[s].m.kind = "request" =>
            k.what # What(s) \/ k.to # s
      BY <1>0, <2>3 DEF OnceInv, What
    <2>5. \A k \in net : k.kind = "request" => Fresh(k)'
      BY <1>0, <2>a, <2>b, <2>4 DEF OnceInv, Fresh
    <2>6. \A u \in Switches : u # s /\ th[u].m.kind = "request" =>
            seen'[th[u].m.what][th[u].m.to] = seen[th[u].m.what][th[u].m.to]
            /\ (th[u].m.to \in taken'[th[u].m.what] <=> th[u].m.to \in taken[th[u].m.what])
      BY <2>4, PacketFacts DEF What
    <2> QED
      BY <1>0, <2>1, <2>4, <2>5, <2>6, IdleLemma, NetFacts DEF OnceInv, Fresh
  <1>10. ASSUME NEW s \in Switches, DivideByZero(s) PROVE OnceInv'
    <2>1. /\ th'[s].pc = "sigfpe" /\ th'[s].m = th[s].m /\ th'[s].era = th[s].era
          /\ th'[s].total = th[s].total /\ th'[s].id = th[s].id
          /\ \A u \in Switches : u # s => th'[u] = th[u]
      BY <1>0, <1>10, GoLemma DEF DivideByZero, PcValues
    <2> QED
      BY <1>0, <2>1, <1>10, IdleLemma, NetFacts DEF
         DivideByZero, Loaded, At, OnceInv, Fresh, outside, history
  <1>11. ASSUME NEW s \in Switches, Forward(s) PROVE OnceInv'
    <2>1. /\ th'[s] = IdleThread
          /\ \A u \in Switches : u # s => th'[u] = th[u]
      BY <1>0, <1>11, FinishLemma, IdleLemma DEF Forward
    <2> QED
      BY <1>0, <2>1, <1>11, IdleLemma, NetFacts DEF
         Forward, At, OnceInv, Fresh, outside, history
  <1>12. ASSUME NEW s \in Switches, Misdirected(s) PROVE OnceInv'
    <2>1. /\ th'[s] = IdleThread
          /\ \A u \in Switches : u # s => th'[u] = th[u]
      BY <1>0, <1>12, FinishLemma, IdleLemma DEF Misdirected
    <2>3. th[s].pc # "idle" /\ th[s].m.to = s /\ (th[s].m.kind = "request" =>
            What(s) \in Requests)
      BY <1>12, <1>0, PacketFacts DEF Misdirected, At
    <2>4. /\ net' = net
          /\ \A r \in Requests, u \in Switches :
               r # What(s) \/ u # s \/ th[s].m.kind # "request" =>
                 seen'[r][u] = seen[r][u] /\ (u \in taken'[r] <=> u \in taken[r])
      BY <1>0, <1>12, <2>3 DEF Misdirected, outside, TypeOK
    <2>a. \A k \in net : k.kind = "request" => k.what \in Requests /\ k.to \in Switches
      BY NetFacts
    <2>b. \A k \in net : k.kind = "request" /\ th[s].m.kind = "request" =>
            k.what # What(s) \/ k.to # s
      BY <1>0, <2>3 DEF OnceInv, What
    <2>5. \A k \in net : k.kind = "request" => Fresh(k)'
      BY <1>0, <2>a, <2>b, <2>4 DEF OnceInv, Fresh
    <2>6. \A u \in Switches : u # s /\ th[u].m.kind = "request" =>
            seen'[th[u].m.what][th[u].m.to] = seen[th[u].m.what][th[u].m.to]
            /\ (th[u].m.to \in taken'[th[u].m.what] <=> th[u].m.to \in taken[th[u].m.what])
      BY <2>4, PacketFacts DEF What
    <2> QED
      BY <1>0, <2>1, <2>4, <2>5, <2>6, IdleLemma, NetFacts DEF OnceInv, Fresh
  <1>13. ASSUME NEW s \in Switches, CreateSessionResponse(s) PROVE OnceInv'
    <2>1. /\ th'[s].pc = "output" /\ th'[s].m = th[s].m /\ th'[s].era = th[s].era
          /\ th'[s].total = th[s].total /\ th'[s].id = th[s].id
          /\ \A u \in Switches : u # s => th'[u] = th[u]
      BY <1>0, <1>13, GoLemma DEF CreateSessionResponse, PcValues
    <2> QED
      BY <1>0, <2>1, <1>13, IdleLemma, NetFacts DEF
         CreateSessionResponse, At, OnceInv, Fresh, outside, history
  <1>14. ASSUME NEW s \in Switches, CreateSessionResponseDrop(s) PROVE OnceInv'
    <2>1. /\ th'[s] = IdleThread
          /\ \A u \in Switches : u # s => th'[u] = th[u]
      BY <1>0, <1>14, FinishLemma, IdleLemma DEF CreateSessionResponseDrop
    <2> QED
      BY <1>0, <2>1, <1>14, IdleLemma, NetFacts DEF
         CreateSessionResponseDrop, At, OnceInv, Fresh, outside, history
  <1>15. ASSUME NEW s \in Switches, DeleteSessionResponse(s) PROVE OnceInv'
    <2>1. /\ th'[s].pc = "output" /\ th'[s].m = th[s].m /\ th'[s].era = th[s].era
          /\ th'[s].total = th[s].total /\ th'[s].id = th[s].id
          /\ \A u \in Switches : u # s => th'[u] = th[u]
      BY <1>0, <1>15, GoLemma DEF DeleteSessionResponse, PcValues
    <2> QED
      BY <1>0, <2>1, <1>15, IdleLemma, NetFacts DEF
         DeleteSessionResponse, At, OnceInv, Fresh, outside, history
  <1>16. ASSUME NEW s \in Switches, DeleteUnknown(s) PROVE OnceInv'
    <2>1. /\ th'[s].pc = "sigsegv" /\ th'[s].m = th[s].m /\ th'[s].era = th[s].era
          /\ th'[s].total = th[s].total /\ th'[s].id = th[s].id
          /\ \A u \in Switches : u # s => th'[u] = th[u]
      BY <1>0, <1>16, GoLemma DEF DeleteUnknown, PcValues
    <2> QED
      BY <1>0, <2>1, <1>16, IdleLemma, NetFacts DEF
         DeleteUnknown, At, OnceInv, Fresh, outside, history
  <1>17. ASSUME NEW s \in Switches, OutputToPhyPort(s) PROVE OnceInv'
    <2>1. /\ th'[s] = IdleThread
          /\ \A u \in Switches : u # s => th'[u] = th[u]
      BY <1>0, <1>17, FinishLemma, IdleLemma DEF OutputToPhyPort
    <2> QED
      BY <1>0, <2>1, <1>17, IdleLemma, NetFacts DEF
         OutputToPhyPort, At, OnceInv, Fresh, outside, history
  <1>18. ASSUME NEW q \in Requests, SendRequest(q) PROVE OnceInv'
    <2>1. \A k \in ToAll("request", q) :
            /\ k.kind = "request" /\ seen[k.what][k.to] = NotHandled /\ k.to \notin taken[k.what]
            /\ \A s \in Switches : th[s].m.what # k.what
      BY <1>18, ToAllLemma DEF SendRequest, What
    <2> QED
      BY <1>0, <1>18, <2>1 DEF SendRequest, OnceInv, Fresh, history
  <1>19. ASSUME NEW x \in Sessions, SendDelete(x) PROVE OnceInv'
    <2>1. \A k \in ToAll("delete", x) : k.kind = "delete"
      BY ToAllLemma
    <2> QED
      BY <1>0, <1>19, <2>1 DEF SendDelete, OnceInv, Fresh, history
  <1>20. ASSUME NEW m \in gwnet, NEW x \in Sessions, GatewayCreates(m, x) PROVE OnceInv'
    <2>1. \A u \in Switches : ~(th[u].m.kind = "created" /\ th[u].m.what = x)
      BY <1>20, PacketFacts, SetsLemma DEF GatewayCreates, What
    <2>2. net' = net \cup {FromPgw(m.to, "created", x)} /\ UNCHANGED <<th, seen, taken>>
      BY <1>20 DEF GatewayCreates
    <2> QED
      BY <1>0, <2>1, <2>2, FieldsLemma DEF OnceInv, Fresh
  <1>21. ASSUME NEW m \in gwnet, GatewayDeletes(m) PROVE OnceInv'
    <2>1. net' = net \cup {FromPgw(m.to, "deleted", m.what)} /\ UNCHANGED <<th, seen, taken>>
      BY <1>21 DEF GatewayDeletes, history
    <2> QED
      BY <1>0, <2>1, FieldsLemma DEF OnceInv, Fresh
  <1>23. CASE UNCHANGED vars
    BY <1>0, <1>23 DEF OnceInv, Fresh, vars, outside, history
  <1> QED
    BY <1>1, <1>2, <1>3, <1>4, <1>5, <1>6, <1>7, <1>8, <1>9, <1>10, <1>11, <1>12, <1>13,
       <1>14, <1>15, <1>16, <1>17, <1>18, <1>19, <1>20, <1>21, <1>23
       DEF Next, Controller, Upcall, Outside

\* A switch takes a request exactly if it is its own.
LEMMA SelectStep == Inv /\ [Next]_vars => SelectInv'
  <1> SUFFICES ASSUME Inv, [Next]_vars PROVE SelectInv'
    OBVIOUS
  <1>0. TypeOK /\ ThreadTypes /\ SelectInv /\ OnceInv /\ LoadInv /\ PacketInv
    BY DEF Inv, TypeOK, ThreadTypes, At
  <1>1. ASSUME NEW s \in Switches, NEW e \in Eras, SetParams(s, e) PROVE SelectInv'
    BY <1>0, <1>1 DEF
       SetParams, SelectInv, Mine, outside, history
  <1>2. ASSUME NEW s \in Switches, NEW p \in Params, StoreParam(s, p) PROVE SelectInv'
    BY <1>0, <1>2 DEF
       StoreParam, SelectInv, Mine, outside, history
  <1>3. ASSUME NEW s \in Switches, AddPgw(s) PROVE SelectInv'
    BY <1>0, <1>3 DEF
       AddPgw, SelectInv, Mine, outside, history
  <1>4. ASSUME NEW s \in Switches, Restart(s) PROVE SelectInv'
    BY <1>0, <1>4 DEF
       Restart, SelectInv, Mine, outside, history
  <1>5. ASSUME NEW s \in Switches, NEW m \in net, HandleGtp(s, m) PROVE SelectInv'
    BY <1>0, <1>5 DEF
       HandleGtp, SelectInv, Mine, outside, history
  <1>6. ASSUME NEW s \in Switches, Direction(s) PROVE SelectInv'
    BY <1>0, <1>6 DEF
       Direction, SelectInv, Mine, outside, history
  <1>7. ASSUME NEW s \in Switches, LoadTotal(s) PROVE SelectInv'
    BY <1>0, <1>7 DEF
       LoadTotal, SelectInv, Mine, outside, history
  <1>8. ASSUME NEW s \in Switches, LoadId(s) PROVE SelectInv'
    BY <1>0, <1>8 DEF
       LoadId, SelectInv, Mine, outside, history
  <1>9. ASSUME NEW s \in Switches, Select(s) PROVE SelectInv'
    <2>1. What(s) \in Requests /\ th[s].m.kind = "request" /\ th[s].m.to = s
      BY <1>9, <1>0, PacketFacts DEF Select, Loaded, At, PacketInv
    <2>2. s \notin taken[What(s)]
      BY <1>0, <2>1 DEF OnceInv, Fresh, What
    <2>3. th[s].era \in Eras => (IsSelected(s) <=> Mine(What(s), s, th[s].era))
      BY <1>0, <1>9, SetsLemma DEF LoadInv, Select, Loaded, IsSelected, Mine, Mixed
    <2>4. /\ seen'[What(s)][s] = th[s].era
          /\ s \in taken'[What(s)] <=> IsSelected(s)
          /\ \A r \in Requests, u \in Switches : r # What(s) \/ u # s =>
               seen'[r][u] = seen[r][u] /\ (u \in taken'[r] <=> u \in taken[r])
      BY <1>0, <1>9, <2>1, <2>2 DEF Select, TypeOK
    <2> QED
      BY <1>0, <2>3, <2>4 DEF SelectInv, Mine
  <1>10. ASSUME NEW s \in Switches, DivideByZero(s) PROVE SelectInv'
    BY <1>0, <1>10 DEF
       DivideByZero, SelectInv, Mine, outside, history
  <1>11. ASSUME NEW s \in Switches, Forward(s) PROVE SelectInv'
    BY <1>0, <1>11 DEF
       Forward, SelectInv, Mine, outside, history
  <1>12. ASSUME NEW s \in Switches, Misdirected(s) PROVE SelectInv'
    <2>1. th[s].m.kind = "request" => What(s) \in Requests
      BY <1>12, PacketFacts DEF Misdirected, At
    <2>2. /\ UNCHANGED taken
          /\ \A r \in Requests, u \in Switches :
               seen'[r][u] = seen[r][u] \/ seen'[r][u] = Mixed
      BY <1>0, <1>12, <2>1 DEF Misdirected, TypeOK
    <2>3. Mixed \notin Eras
      BY SetsLemma DEF Mixed
    <2> QED
      BY <1>0, <2>2, <2>3 DEF SelectInv, Mine
  <1>13. ASSUME NEW s \in Switches, CreateSessionResponse(s) PROVE SelectInv'
    BY <1>0, <1>13 DEF
       CreateSessionResponse, SelectInv, Mine, outside, history
  <1>14. ASSUME NEW s \in Switches, CreateSessionResponseDrop(s) PROVE SelectInv'
    BY <1>0, <1>14 DEF
       CreateSessionResponseDrop, SelectInv, Mine, outside, history
  <1>15. ASSUME NEW s \in Switches, DeleteSessionResponse(s) PROVE SelectInv'
    BY <1>0, <1>15 DEF
       DeleteSessionResponse, SelectInv, Mine, outside, history
  <1>16. ASSUME NEW s \in Switches, DeleteUnknown(s) PROVE SelectInv'
    BY <1>0, <1>16 DEF
       DeleteUnknown, SelectInv, Mine, outside, history
  <1>17. ASSUME NEW s \in Switches, OutputToPhyPort(s) PROVE SelectInv'
    BY <1>0, <1>17 DEF
       OutputToPhyPort, SelectInv, Mine, outside, history
  <1>18. ASSUME NEW q \in Requests, SendRequest(q) PROVE SelectInv'
    BY <1>0, <1>18 DEF
       SendRequest, SelectInv, Mine, outside, history
  <1>19. ASSUME NEW x \in Sessions, SendDelete(x) PROVE SelectInv'
    BY <1>0, <1>19 DEF
       SendDelete, SelectInv, Mine, outside, history
  <1>20. ASSUME NEW m \in gwnet, NEW x \in Sessions, GatewayCreates(m, x) PROVE SelectInv'
    BY <1>0, <1>20 DEF
       GatewayCreates, SelectInv, Mine, outside, history
  <1>21. ASSUME NEW m \in gwnet, GatewayDeletes(m) PROVE SelectInv'
    BY <1>0, <1>21 DEF
       GatewayDeletes, SelectInv, Mine, outside, history
  <1>23. CASE UNCHANGED vars
    BY <1>0, <1>23 DEF SelectInv, Mine, vars, outside, history
  <1> QED
    BY <1>1, <1>2, <1>3, <1>4, <1>5, <1>6, <1>7, <1>8, <1>9, <1>10, <1>11, <1>12, <1>13,
       <1>14, <1>15, <1>16, <1>17, <1>18, <1>19, <1>20, <1>21, <1>23
       DEF Next, Controller, Upcall, Outside

\* A session stays at home.
LEMMA HomeStep == Inv /\ [Next]_vars => HomeInv'
  <1> SUFFICES ASSUME Inv, [Next]_vars PROVE HomeInv'
    OBVIOUS
  <1>0. TypeOK /\ ThreadTypes /\ HomeInv /\ PacketInv
    BY DEF Inv, TypeOK, ThreadTypes, At
  <1>1. ASSUME NEW s \in Switches, NEW e \in Eras, SetParams(s, e) PROVE HomeInv'
    BY <1>0, <1>1 DEF
       SetParams, HomeInv, outside, history
  <1>2. ASSUME NEW s \in Switches, NEW p \in Params, StoreParam(s, p) PROVE HomeInv'
    BY <1>0, <1>2 DEF
       StoreParam, HomeInv, outside, history
  <1>3. ASSUME NEW s \in Switches, AddPgw(s) PROVE HomeInv'
    BY <1>0, <1>3 DEF
       AddPgw, HomeInv, outside, history
  <1>4. ASSUME NEW s \in Switches, Restart(s) PROVE HomeInv'
    BY <1>0, <1>4 DEF
       Restart, HomeInv, outside, history
  <1>5. ASSUME NEW s \in Switches, NEW m \in net, HandleGtp(s, m) PROVE HomeInv'
    BY <1>0, <1>5 DEF
       HandleGtp, HomeInv, outside, history
  <1>6. ASSUME NEW s \in Switches, Direction(s) PROVE HomeInv'
    BY <1>0, <1>6 DEF
       Direction, HomeInv, outside, history
  <1>7. ASSUME NEW s \in Switches, LoadTotal(s) PROVE HomeInv'
    BY <1>0, <1>7 DEF
       LoadTotal, HomeInv, outside, history
  <1>8. ASSUME NEW s \in Switches, LoadId(s) PROVE HomeInv'
    BY <1>0, <1>8 DEF
       LoadId, HomeInv, outside, history
  <1>9. ASSUME NEW s \in Switches, Select(s) PROVE HomeInv'
    BY <1>0, <1>9 DEF
       Select, HomeInv, outside, history
  <1>10. ASSUME NEW s \in Switches, DivideByZero(s) PROVE HomeInv'
    BY <1>0, <1>10 DEF
       DivideByZero, HomeInv, outside, history
  <1>11. ASSUME NEW s \in Switches, Forward(s) PROVE HomeInv'
    BY <1>0, <1>11 DEF
       Forward, HomeInv, outside, history
  <1>12. ASSUME NEW s \in Switches, Misdirected(s) PROVE HomeInv'
    BY <1>0, <1>12 DEF
       Misdirected, HomeInv, outside, history
  <1>13. ASSUME NEW s \in Switches, CreateSessionResponse(s) PROVE HomeInv'
    <2>1. What(s) \in Sessions /\ home[What(s)] = s
      BY <1>13, PacketFacts DEF CreateSessionResponse, At
    <2> QED
      BY <1>0, <1>13, <2>1 DEF CreateSessionResponse, HomeInv, TypeOK, outside, history
  <1>14. ASSUME NEW s \in Switches, CreateSessionResponseDrop(s) PROVE HomeInv'
    BY <1>0, <1>14 DEF
       CreateSessionResponseDrop, HomeInv, outside, history
  <1>15. ASSUME NEW s \in Switches, DeleteSessionResponse(s) PROVE HomeInv'
    BY <1>0, <1>15 DEF
       DeleteSessionResponse, HomeInv, outside, history
  <1>16. ASSUME NEW s \in Switches, DeleteUnknown(s) PROVE HomeInv'
    BY <1>0, <1>16 DEF
       DeleteUnknown, HomeInv, outside, history
  <1>17. ASSUME NEW s \in Switches, OutputToPhyPort(s) PROVE HomeInv'
    <2>1. What(s) \in Sessions /\ home[What(s)] = s
      BY <1>0, <1>17, PacketFacts DEF OutputToPhyPort, At, PacketInv
    <2>2. \A x \in Sessions : told'[x] = told[x] \/ (home[x] = s /\ told'[x] # "no")
      BY <1>0, <1>17, <2>1 DEF OutputToPhyPort, TypeOK
    <2> QED
      BY <1>0, <1>17, <2>2, SetsLemma DEF OutputToPhyPort, HomeInv, history
  <1>18. ASSUME NEW q \in Requests, SendRequest(q) PROVE HomeInv'
    BY <1>0, <1>18 DEF
       SendRequest, HomeInv, outside, history
  <1>19. ASSUME NEW x \in Sessions, SendDelete(x) PROVE HomeInv'
    BY <1>0, <1>19 DEF
       SendDelete, HomeInv, outside, history
  <1>20. ASSUME NEW m \in gwnet, NEW x \in Sessions, GatewayCreates(m, x) PROVE HomeInv'
    <2>1. m.to \in Switches /\ home[x] = None
      BY <1>20, GatewayFacts DEF GatewayCreates
    <2>2. /\ home'[x] = m.to /\ \A y \in Sessions : y # x => home'[y] = home[y]
          /\ \A s \in Switches : live'[s] \subseteq live[s] \cup {x}
          /\ \A s \in Switches : s # m.to => live'[s] = live[s]
          /\ UNCHANGED <<tbl, told, asked>>
      BY <1>0, <1>20, <2>1 DEF GatewayCreates, TypeOK
    <2>3. \A s \in Switches : x \notin tbl[s] /\ x \notin live[s]
      BY <1>0, <2>1, SetsLemma DEF HomeInv
    <2> QED
      BY <1>0, <2>1, <2>2, <2>3, SetsLemma DEF HomeInv
  <1>21. ASSUME NEW m \in gwnet, GatewayDeletes(m) PROVE HomeInv'
    BY <1>0, <1>21 DEF
       GatewayDeletes, HomeInv, outside, history
  <1>23. CASE UNCHANGED vars
    BY <1>0, <1>23 DEF HomeInv, vars, outside, history
  <1> QED
    BY <1>1, <1>2, <1>3, <1>4, <1>5, <1>6, <1>7, <1>8, <1>9, <1>10, <1>11, <1>12, <1>13,
       <1>14, <1>15, <1>16, <1>17, <1>18, <1>19, <1>20, <1>21, <1>23
       DEF Next, Controller, Upcall, Outside

\* Create Session Responses on their way are news.
LEMMA CreateStep == Inv /\ [Next]_vars => CreateInv'
  <1> SUFFICES ASSUME Inv, [Next]_vars PROVE CreateInv'
    OBVIOUS
  <1>0. TypeOK /\ ThreadTypes /\ CreateInv /\ DeleteInv /\ PacketInv /\ OnceInv /\ HomeInv
    BY DEF Inv, TypeOK, ThreadTypes, At
  <1>1. ASSUME NEW s \in Switches, NEW e \in Eras, SetParams(s, e) PROVE CreateInv'
    <2>1. /\ th'[s].pc = th[s].pc /\ th'[s].m = th[s].m /\ th'[s].era = Mixed
          /\ th'[s].total = th[s].total /\ th'[s].id = th[s].id
          /\ \A u \in Switches : u # s => th'[u] = th[u]
      BY <1>0, <1>1, SpoilLemma DEF SetParams
    <2>2. /\ pend[s] = {}
          /\ pend' = [pend EXCEPT ![s] = {p \in Params : par[s][p] # Config[e][s][p]}]
          /\ era' = [era EXCEPT ![s] = e]
          /\ UNCHANGED <<par, reg, tbl, restarts, outside, history>>
      BY <1>1 DEF SetParams
    <2> QED
      BY <1>0, <2>1, <2>2, IdleLemma DEF
         CreateInv, What, outside, history
  <1>2. ASSUME NEW s \in Switches, NEW p \in Params, StoreParam(s, p) PROVE CreateInv'
    BY <1>0, <1>2, IdleLemma DEF
       StoreParam, CreateInv, What, outside, history
  <1>3. ASSUME NEW s \in Switches, AddPgw(s) PROVE CreateInv'
    BY <1>0, <1>3, IdleLemma DEF
       AddPgw, CreateInv, What, outside, history
  <1>4. ASSUME NEW s \in Switches, Restart(s) PROVE CreateInv'
    <2>1. /\ th'[s] = IdleThread
          /\ \A u \in Switches : u # s => th'[u] = th[u]
      BY <1>0, <1>4, FinishLemma, IdleLemma DEF Restart, Finish
    <2>2. /\ par' = [par EXCEPT ![s] = [p \in Params |-> 0]] /\ pend' = [pend EXCEPT ![s] = {}]
          /\ tbl' = [tbl EXCEPT ![s] = {}] /\ era' = [era EXCEPT ![s] = 0]
          /\ lost' = lost \cup {x \in Sessions : home[x] = s}
          /\ UNCHANGED <<outside, home, seen, taken>>
      BY <1>4 DEF Restart
    <2> QED
      BY <1>0, <2>1, <2>2, IdleLemma DEF CreateInv, What, TypeOK, outside
  <1>5. ASSUME NEW s \in Switches, NEW m \in net, HandleGtp(s, m) PROVE CreateInv'
    <2>1. /\ th'[s].pc = "begin" /\ th'[s].m = m /\ th'[s].total = Mixed
          /\ th'[s].id = Mixed
          /\ th'[s].era = IF pend[s] = {} /\ era[s] # 0 THEN era[s] ELSE Mixed
          /\ \A u \in Switches : u # s => th'[u] = th[u]
      BY <1>0, <1>5, HandleLemma DEF HandleGtp
    <2>2. At(s, "idle") /\ m.to = s /\ net' \subseteq net /\ (m.kind # "deleted" => m \notin net')
          /\ UNCHANGED <<par, pend, era, reg, tbl, restarts, gwnet, live, told, asked, history>>
      BY <1>5 DEF HandleGtp
    <2> QED
      BY <1>0, <2>1, <2>2 DEF CreateInv, What
  <1>6. ASSUME NEW s \in Switches, Direction(s) PROVE CreateInv'
    <2>1. /\ th'[s].pc \in {"to_pgw", "to_sgw"} /\ th'[s].m = th[s].m
          /\ th'[s].era = th[s].era /\ th'[s].total = th[s].total /\ th'[s].id = th[s].id
          /\ \A u \in Switches : u # s => th'[u] = th[u]
      BY <1>0, <1>6, GoLemma DEF Direction, PcValues
    <2> QED
      BY <1>0, <2>1, <1>6, IdleLemma DEF
         Direction, At, CreateInv, What, outside, history
  <1>7. ASSUME NEW s \in Switches, LoadTotal(s) PROVE CreateInv'
    <2>1. /\ th'[s].pc = "to_pgw" /\ th'[s].m = th[s].m /\ th'[s].id = th[s].id
          /\ th'[s].total = par[s]["ovs_total"] /\ th'[s].era = th[s].era
          /\ \A u \in Switches : u # s => th'[u] = th[u]
      BY <1>0, <1>7, LoadTotalLemma DEF LoadTotal
    <2>2. At(s, "to_pgw") /\ th[s].m.kind = "request"
          /\ UNCHANGED <<par, pend, era, reg, tbl, restarts, outside, history>>
      BY <1>7 DEF LoadTotal
    <2> QED
      BY <1>0, <2>1, <2>2, IdleLemma DEF
         CreateInv, What, outside, history
  <1>8. ASSUME NEW s \in Switches, LoadId(s) PROVE CreateInv'
    <2>1. /\ th'[s].pc = "to_pgw" /\ th'[s].m = th[s].m /\ th'[s].total = th[s].total
          /\ th'[s].id = par[s]["ovs_id"] /\ th'[s].era = th[s].era
          /\ \A u \in Switches : u # s => th'[u] = th[u]
      BY <1>0, <1>8, LoadIdLemma DEF LoadId
    <2>2. At(s, "to_pgw") /\ th[s].m.kind = "request"
          /\ UNCHANGED <<par, pend, era, reg, tbl, restarts, outside, history>>
      BY <1>8 DEF LoadId
    <2> QED
      BY <1>0, <2>1, <2>2, IdleLemma DEF
         CreateInv, What, outside, history
  <1>9. ASSUME NEW s \in Switches, Select(s) PROVE CreateInv'
    <2>1. /\ th'[s] = IdleThread
          /\ \A u \in Switches : u # s => th'[u] = th[u]
      BY <1>0, <1>9, FinishLemma, IdleLemma DEF Select
    <2> QED
      BY <1>0, <2>1, <1>9, IdleLemma DEF
         Select, Loaded, At, CreateInv, What, outside, history
  <1>10. ASSUME NEW s \in Switches, DivideByZero(s) PROVE CreateInv'
    <2>1. /\ th'[s].pc = "sigfpe" /\ th'[s].m = th[s].m /\ th'[s].era = th[s].era
          /\ th'[s].total = th[s].total /\ th'[s].id = th[s].id
          /\ \A u \in Switches : u # s => th'[u] = th[u]
      BY <1>0, <1>10, GoLemma DEF DivideByZero, PcValues
    <2> QED
      BY <1>0, <2>1, <1>10, IdleLemma DEF
         DivideByZero, Loaded, At, CreateInv, What, outside, history
  <1>11. ASSUME NEW s \in Switches, Forward(s) PROVE CreateInv'
    <2>1. /\ th'[s] = IdleThread
          /\ \A u \in Switches : u # s => th'[u] = th[u]
      BY <1>0, <1>11, FinishLemma, IdleLemma DEF Forward
    <2> QED
      BY <1>0, <2>1, <1>11, IdleLemma DEF
         Forward, At, CreateInv, What, outside, history
  <1>12. ASSUME NEW s \in Switches, Misdirected(s) PROVE CreateInv'
    <2>1. /\ th'[s] = IdleThread
          /\ \A u \in Switches : u # s => th'[u] = th[u]
      BY <1>0, <1>12, FinishLemma, IdleLemma DEF Misdirected
    <2> QED
      BY <1>0, <2>1, <1>12, IdleLemma DEF
         Misdirected, At, CreateInv, What, outside, history
  <1>13. ASSUME NEW s \in Switches, CreateSessionResponse(s) PROVE CreateInv'
    <2>1. /\ th'[s].pc = "output" /\ th'[s].m = th[s].m /\ th'[s].era = th[s].era
          /\ th'[s].total = th[s].total /\ th'[s].id = th[s].id
          /\ \A u \in Switches : u # s => th'[u] = th[u]
      BY <1>0, <1>13, GoLemma DEF CreateSessionResponse, PcValues
    <2>3. What(s) \in tbl'[s] /\ \A u \in Switches : tbl[u] \subseteq tbl'[u]
      BY <1>0, <1>13 DEF CreateSessionResponse, TypeOK
    <2> QED
      BY <1>0, <1>13, <2>1, <2>3 DEF CreateSessionResponse, CreateInv, What, outside
  <1>14. ASSUME NEW s \in Switches, CreateSessionResponseDrop(s) PROVE CreateInv'
    <2>1. /\ th'[s] = IdleThread
          /\ \A u \in Switches : u # s => th'[u] = th[u]
      BY <1>0, <1>14, FinishLemma, IdleLemma DEF CreateSessionResponseDrop
    <2> QED
      BY <1>0, <2>1, <1>14, IdleLemma DEF
         CreateSessionResponseDrop, At, CreateInv, What, outside, history
  <1>15. ASSUME NEW s \in Switches, DeleteSessionResponse(s) PROVE CreateInv'
    <2>1. /\ th'[s].pc = "output" /\ th'[s].m = th[s].m /\ th'[s].era = th[s].era
          /\ th'[s].total = th[s].total /\ th'[s].id = th[s].id
          /\ \A u \in Switches : u # s => th'[u] = th[u]
      BY <1>0, <1>15, GoLemma DEF DeleteSessionResponse, PcValues
    <2>3. th[s].m.kind = "deleted" /\ \A u \in Switches : u # s => tbl'[u] = tbl[u]
      BY <1>0, <1>15 DEF DeleteSessionResponse, TypeOK
    <2> QED
      BY <1>0, <1>15, <2>1, <2>3 DEF DeleteSessionResponse, CreateInv, What, outside
  <1>16. ASSUME NEW s \in Switches, DeleteUnknown(s) PROVE CreateInv'
    <2>1. /\ th'[s].pc = "sigsegv" /\ th'[s].m = th[s].m /\ th'[s].era = th[s].era
          /\ th'[s].total = th[s].total /\ th'[s].id = th[s].id
          /\ \A u \in Switches : u # s => th'[u] = th[u]
      BY <1>0, <1>16, GoLemma DEF DeleteUnknown, PcValues
    <2> QED
      BY <1>0, <2>1, <1>16, IdleLemma DEF
         DeleteUnknown, At, CreateInv, What, outside, history
  <1>17. ASSUME NEW s \in Switches, OutputToPhyPort(s) PROVE CreateInv'
    <2>1. /\ th'[s] = IdleThread
          /\ \A u \in Switches : u # s => th'[u] = th[u]
      BY <1>0, <1>17, FinishLemma, IdleLemma DEF OutputToPhyPort
    <2>3. /\ What(s) \in Sessions /\ home[What(s)] = s /\ th[s].m.to = s
          /\ th[s].m.kind \in {"created", "deleted"}
      BY <1>0, <1>17, PacketFacts DEF OutputToPhyPort, At, PacketInv
    <2>4. \A y \in Sessions : y # What(s) => told'[y] = told[y]
      BY <1>0, <1>17 DEF OutputToPhyPort, TypeOK
    <2>5. \A k \in net : k.kind = "created" => k.what # What(s)
      BY <1>0, <2>3, NetFacts DEF OnceInv, CreateInv, DeleteInv, What
    <2>6. \A u \in Switches : u # s /\ th[u].m.kind = "created" => What(u) # What(s)
      BY <2>3, PacketFacts
    <2>7. UNCHANGED <<net, tbl, live, lost>>
      BY <1>17 DEF OutputToPhyPort, history
    <2> QED
      BY <1>0, <2>1, <2>4, <2>5, <2>6, <2>7, PacketFacts, NetFacts, IdleLemma
         DEF CreateInv, What
  <1>18. ASSUME NEW q \in Requests, SendRequest(q) PROVE CreateInv'
    <2>1. \A k \in ToAll("request", q) : k.kind = "request"
      BY ToAllLemma
    <2> QED
      BY <1>0, <1>18, <2>1 DEF SendRequest, CreateInv, What
  <1>19. ASSUME NEW x \in Sessions, SendDelete(x) PROVE CreateInv'
    <2>1. \A k \in ToAll("delete", x) : k.kind = "delete"
      BY ToAllLemma
    <2> QED
      BY <1>0, <1>19, <2>1 DEF SendDelete, CreateInv, What
  <1>20. ASSUME NEW m \in gwnet, NEW x \in Sessions, GatewayCreates(m, x) PROVE CreateInv'
    <2>1. told[x] = "no"
      BY <1>0, <1>20 DEF GatewayCreates, HomeInv
    <2>2. net' = net \cup {FromPgw(m.to, "created", x)} /\ UNCHANGED <<th, told, tbl>>
      BY <1>20 DEF GatewayCreates
    <2> QED
      BY <1>0, <2>1, <2>2, FieldsLemma DEF CreateInv, What
  <1>21. ASSUME NEW m \in gwnet, GatewayDeletes(m) PROVE CreateInv'
    <2>1. net' = net \cup {FromPgw(m.to, "deleted", m.what)} /\ UNCHANGED <<th, told, tbl>>
      BY <1>21 DEF GatewayDeletes
    <2> QED
      BY <1>0, <2>1, FieldsLemma DEF CreateInv, What
  <1>23. CASE UNCHANGED vars
    BY <1>0, <1>23 DEF CreateInv, What, vars, outside, history
  <1> QED
    BY <1>1, <1>2, <1>3, <1>4, <1>5, <1>6, <1>7, <1>8, <1>9, <1>10, <1>11, <1>12, <1>13,
       <1>14, <1>15, <1>16, <1>17, <1>18, <1>19, <1>20, <1>21, <1>23
       DEF Next, Controller, Upcall, Outside

\* Delete Session Responses find their session.
LEMMA DeleteStep == Inv /\ [Next]_vars => DeleteInv'
  <1> SUFFICES ASSUME Inv, [Next]_vars PROVE DeleteInv'
    OBVIOUS
  <1>0. TypeOK /\ ThreadTypes /\ DeleteInv /\ CreateInv /\ PacketInv /\ OnceInv /\ HomeInv /\ ViewInv
    BY DEF Inv, TypeOK, ThreadTypes, At
  <1>1. ASSUME NEW s \in Switches, NEW e \in Eras, SetParams(s, e) PROVE DeleteInv'
    <2>1. /\ th'[s].pc = th[s].pc /\ th'[s].m = th[s].m /\ th'[s].era = Mixed
          /\ th'[s].total = th[s].total /\ th'[s].id = th[s].id
          /\ \A u \in Switches : u # s => th'[u] = th[u]
      BY <1>0, <1>1, SpoilLemma DEF SetParams
    <2>2. /\ pend[s] = {}
          /\ pend' = [pend EXCEPT ![s] = {p \in Params : par[s][p] # Config[e][s][p]}]
          /\ era' = [era EXCEPT ![s] = e]
          /\ UNCHANGED <<par, reg, tbl, restarts, outside, history>>
      BY <1>1 DEF SetParams
    <2> QED
      BY <1>0, <2>1, <2>2, IdleLemma DEF
         DeleteInv, What, outside, history
  <1>2. ASSUME NEW s \in Switches, NEW p \in Params, StoreParam(s, p) PROVE DeleteInv'
    BY <1>0, <1>2, IdleLemma DEF
       StoreParam, DeleteInv, What, outside, history
  <1>3. ASSUME NEW s \in Switches, AddPgw(s) PROVE DeleteInv'
    BY <1>0, <1>3, IdleLemma DEF
       AddPgw, DeleteInv, What, outside, history
  <1>4. ASSUME NEW s \in Switches, Restart(s) PROVE DeleteInv'
    <2>1. /\ th'[s] = IdleThread
          /\ \A u \in Switches : u # s => th'[u] = th[u]
      BY <1>0, <1>4, FinishLemma, IdleLemma DEF Restart, Finish
    <2>2. /\ par' = [par EXCEPT ![s] = [p \in Params |-> 0]] /\ pend' = [pend EXCEPT ![s] = {}]
          /\ tbl' = [tbl EXCEPT ![s] = {}] /\ era' = [era EXCEPT ![s] = 0]
          /\ lost' = lost \cup {x \in Sessions : home[x] = s}
          /\ UNCHANGED <<outside, home, ended, seen, taken>>
      BY <1>4 DEF Restart
    <2>3. \A k \in net : k.kind = "deleted" => k.what \in tbl'[k.to] \cup lost' \cup ended'
      BY <1>0, <2>2, NetFacts DEF DeleteInv, TypeOK
    <2>4. /\ \A u \in Switches : u # s => tbl'[u] = tbl[u]
          /\ lost \subseteq lost' /\ UNCHANGED <<net, told, live, ended>>
      BY <1>0, <2>2 DEF TypeOK, outside
    <2> QED
      BY <1>0, <2>1, <2>3, <2>4, IdleLemma DEF DeleteInv, What
  <1>5. ASSUME NEW s \in Switches, NEW m \in net, HandleGtp(s, m) PROVE DeleteInv'
    <2>1. /\ th'[s].pc = "begin" /\ th'[s].m = m /\ th'[s].total = Mixed
          /\ th'[s].id = Mixed
          /\ th'[s].era = IF pend[s] = {} /\ era[s] # 0 THEN era[s] ELSE Mixed
          /\ \A u \in Switches : u # s => th'[u] = th[u]
      BY <1>0, <1>5, HandleLemma DEF HandleGtp
    <2>2. At(s, "idle") /\ m.to = s /\ net' \subseteq net /\ (m.kind # "deleted" => m \notin net')
          /\ UNCHANGED <<par, pend, era, reg, tbl, restarts, gwnet, live, told, asked, history>>
      BY <1>5 DEF HandleGtp
    <2> QED
      BY <1>0, <2>1, <2>2 DEF DeleteInv, What, history
  <1>6. ASSUME NEW s \in Switches, Direction(s) PROVE DeleteInv'
    <2>1. /\ th'[s].pc \in {"to_pgw", "to_sgw"} /\ th'[s].m = th[s].m
          /\ th'[s].era = th[s].era /\ th'[s].total = th[s].total /\ th'[s].id = th[s].id
          /\ \A u \in Switches : u # s => th'[u] = th[u]
      BY <1>0, <1>6, GoLemma DEF Direction, PcValues
    <2> QED
      BY <1>0, <2>1, <1>6, IdleLemma DEF
         Direction, At, DeleteInv, What, outside, history
  <1>7. ASSUME NEW s \in Switches, LoadTotal(s) PROVE DeleteInv'
    <2>1. /\ th'[s].pc = "to_pgw" /\ th'[s].m = th[s].m /\ th'[s].id = th[s].id
          /\ th'[s].total = par[s]["ovs_total"] /\ th'[s].era = th[s].era
          /\ \A u \in Switches : u # s => th'[u] = th[u]
      BY <1>0, <1>7, LoadTotalLemma DEF LoadTotal
    <2>2. At(s, "to_pgw") /\ th[s].m.kind = "request"
          /\ UNCHANGED <<par, pend, era, reg, tbl, restarts, outside, history>>
      BY <1>7 DEF LoadTotal
    <2> QED
      BY <1>0, <2>1, <2>2, IdleLemma DEF
         DeleteInv, What, outside, history
  <1>8. ASSUME NEW s \in Switches, LoadId(s) PROVE DeleteInv'
    <2>1. /\ th'[s].pc = "to_pgw" /\ th'[s].m = th[s].m /\ th'[s].total = th[s].total
          /\ th'[s].id = par[s]["ovs_id"] /\ th'[s].era = th[s].era
          /\ \A u \in Switches : u # s => th'[u] = th[u]
      BY <1>0, <1>8, LoadIdLemma DEF LoadId
    <2>2. At(s, "to_pgw") /\ th[s].m.kind = "request"
          /\ UNCHANGED <<par, pend, era, reg, tbl, restarts, outside, history>>
      BY <1>8 DEF LoadId
    <2> QED
      BY <1>0, <2>1, <2>2, IdleLemma DEF
         DeleteInv, What, outside, history
  <1>9. ASSUME NEW s \in Switches, Select(s) PROVE DeleteInv'
    <2>1. /\ th'[s] = IdleThread
          /\ \A u \in Switches : u # s => th'[u] = th[u]
      BY <1>0, <1>9, FinishLemma, IdleLemma DEF Select
    <2> QED
      BY <1>0, <2>1, <1>9, IdleLemma DEF
         Select, Loaded, At, DeleteInv, What, outside, history
  <1>10. ASSUME NEW s \in Switches, DivideByZero(s) PROVE DeleteInv'
    <2>1. /\ th'[s].pc = "sigfpe" /\ th'[s].m = th[s].m /\ th'[s].era = th[s].era
          /\ th'[s].total = th[s].total /\ th'[s].id = th[s].id
          /\ \A u \in Switches : u # s => th'[u] = th[u]
      BY <1>0, <1>10, GoLemma DEF DivideByZero, PcValues
    <2> QED
      BY <1>0, <2>1, <1>10, IdleLemma DEF
         DivideByZero, Loaded, At, DeleteInv, What, outside, history
  <1>11. ASSUME NEW s \in Switches, Forward(s) PROVE DeleteInv'
    <2>1. /\ th'[s] = IdleThread
          /\ \A u \in Switches : u # s => th'[u] = th[u]
      BY <1>0, <1>11, FinishLemma, IdleLemma DEF Forward
    <2> QED
      BY <1>0, <2>1, <1>11, IdleLemma DEF
         Forward, At, DeleteInv, What, outside, history
  <1>12. ASSUME NEW s \in Switches, Misdirected(s) PROVE DeleteInv'
    <2>1. /\ th'[s] = IdleThread
          /\ \A u \in Switches : u # s => th'[u] = th[u]
      BY <1>0, <1>12, FinishLemma, IdleLemma DEF Misdirected
    <2> QED
      BY <1>0, <2>1, <1>12, IdleLemma DEF
         Misdirected, At, DeleteInv, What, outside, history
  <1>13. ASSUME NEW s \in Switches, CreateSessionResponse(s) PROVE DeleteInv'
    <2>1. /\ th'[s].pc = "output" /\ th'[s].m = th[s].m /\ th'[s].era = th[s].era
          /\ th'[s].total = th[s].total /\ th'[s].id = th[s].id
          /\ \A u \in Switches : u # s => th'[u] = th[u]
      BY <1>0, <1>13, GoLemma DEF CreateSessionResponse, PcValues
    <2>3. /\ th[s].m.kind = "created" /\ \A u \in Switches : u # s => tbl'[u] = tbl[u]
          /\ \A u \in Switches : tbl[u] \subseteq tbl'[u]
      BY <1>0, <1>13 DEF CreateSessionResponse, TypeOK
    <2>4. UNCHANGED <<net, told, live, lost, ended>>
      BY <1>13 DEF CreateSessionResponse, outside, history
    <2> QED
      BY <1>0, <2>1, <2>3, <2>4, NetFacts DEF DeleteInv, What
  <1>14. ASSUME NEW s \in Switches, CreateSessionResponseDrop(s) PROVE DeleteInv'
    <2>1. /\ th'[s] = IdleThread
          /\ \A u \in Switches : u # s => th'[u] = th[u]
      BY <1>0, <1>14, FinishLemma, IdleLemma DEF CreateSessionResponseDrop
    <2> QED
      BY <1>0, <2>1, <1>14, IdleLemma DEF
         CreateSessionResponseDrop, At, DeleteInv, What, outside, history
  <1>15. ASSUME NEW s \in Switches, DeleteSessionResponse(s) PROVE DeleteInv'
    <2>1. /\ th'[s].pc = "output" /\ th'[s].m = th[s].m /\ th'[s].era = th[s].era
          /\ th'[s].total = th[s].total /\ th'[s].id = th[s].id
          /\ \A u \in Switches : u # s => th'[u] = th[u]
      BY <1>0, <1>15, GoLemma DEF DeleteSessionResponse, PcValues
    <2>3. /\ th[s].m.kind = "deleted" /\ th[s].m.to = s
      BY <1>15, PacketFacts DEF DeleteSessionResponse, At
    <2>4. /\ tbl'[s] = tbl[s] \ {What(s)} /\ \A u \in Switches : u # s => tbl'[u] = tbl[u]
          /\ ended' = ended \cup {What(s)} /\ UNCHANGED <<net, told, live, lost>>
      BY <1>0, <1>15 DEF DeleteSessionResponse, TypeOK, outside, history
    <2> QED
      BY <1>0, <2>1, <2>3, <2>4, NetFacts DEF DeleteInv, What
  <1>16. ASSUME NEW s \in Switches, DeleteUnknown(s) PROVE DeleteInv'
    <2>1. /\ th'[s].pc = "sigsegv" /\ th'[s].m = th[s].m /\ th'[s].era = th[s].era
          /\ th'[s].total = th[s].total /\ th'[s].id = th[s].id
          /\ \A u \in Switches : u # s => th'[u] = th[u]
      BY <1>0, <1>16, GoLemma DEF DeleteUnknown, PcValues
    <2>3. th[s].m.kind = "deleted" /\ th[s].pc = "to_sgw" /\ What(s) \notin tbl[s]
          /\ UNCHANGED <<net, tbl, told, live, lost, ended>>
      BY <1>16 DEF DeleteUnknown, At, outside, history
    <2> QED
      BY <1>0, <2>1, <2>3 DEF DeleteInv, What
  <1>17. ASSUME NEW s \in Switches, OutputToPhyPort(s) PROVE DeleteInv'
    <2>1. /\ th'[s] = IdleThread
          /\ \A u \in Switches : u # s => th'[u] = th[u]
      BY <1>0, <1>17, FinishLemma, IdleLemma DEF OutputToPhyPort
    <2>3. /\ What(s) \in Sessions /\ home[What(s)] = s /\ th[s].m.to = s
          /\ th[s].m.kind \in {"created", "deleted"}
      BY <1>0, <1>17, PacketFacts DEF OutputToPhyPort, At, PacketInv
    <2>4. \A y \in Sessions : told[y] # "no" => told'[y] # "no"
      BY <1>0, <1>17 DEF OutputToPhyPort, TypeOK
    <2>5. UNCHANGED <<net, tbl, live, lost, ended>>
      BY <1>17 DEF OutputToPhyPort, history
    <2> QED
      BY <1>0, <2>1, <2>4, <2>5, PacketFacts, NetFacts, IdleLemma DEF DeleteInv, What
  <1>18. ASSUME NEW q \in Requests, SendRequest(q) PROVE DeleteInv'
    <2>1. \A k \in ToAll("request", q) : k.kind = "request"
      BY ToAllLemma
    <2> QED
      BY <1>0, <1>18, <2>1 DEF SendRequest, DeleteInv, What, history
  <1>19. ASSUME NEW x \in Sessions, SendDelete(x) PROVE DeleteInv'
    <2>1. \A k \in ToAll("delete", x) : k.kind = "delete"
      BY ToAllLemma
    <2> QED
      BY <1>0, <1>19, <2>1 DEF SendDelete, DeleteInv, What, history
  <1>20. ASSUME NEW m \in gwnet, NEW x \in Sessions, GatewayCreates(m, x) PROVE DeleteInv'
    <2>1. m.to \in Switches /\ home[x] = None
      BY <1>20, GatewayFacts DEF GatewayCreates
    <2>2. /\ net' = net \cup {FromPgw(m.to, "created", x)}
          /\ \A s \in Switches : live'[s] \subseteq live[s] \cup {x}
          /\ UNCHANGED <<th, told, tbl, lost, ended>>
      BY <1>0, <1>20, <2>1 DEF GatewayCreates, TypeOK
    <2>3. \A k \in net : k.kind = "deleted" => k.what # x
      BY <2>1, NetFacts, SetsLemma
    <2>4. \A s \in Switches : th[s].m.kind = "deleted" => What(s) # x
      BY <2>1, PacketFacts, SetsLemma
    <2> QED
      BY <1>0, <2>2, <2>3, <2>4, FieldsLemma, NetFacts DEF DeleteInv, What
  <1>21. ASSUME NEW m \in gwnet, GatewayDeletes(m) PROVE DeleteInv'
    <2>1. /\ m.to \in Switches /\ m.what \in Sessions /\ m.what \in live[m.to] /\ m.what \in asked
      BY <1>21, GatewayFacts DEF GatewayDeletes
    <2>2. told[m.what] # "no" /\ m.what \in tbl[m.to] \cup lost
      BY <1>0, <2>1 DEF HomeInv, ViewInv, TypeOK
    <2>3. /\ net' = net \cup {FromPgw(m.to, "deleted", m.what)}
          /\ \A s \in Switches : live'[s] \subseteq live[s]
          /\ m.what \notin live'[m.to]
          /\ UNCHANGED <<th, told, tbl, lost, ended>>
      BY <1>0, <1>21, <2>1 DEF GatewayDeletes, TypeOK, history
    <2> QED
      BY <1>0, <2>1, <2>2, <2>3, FieldsLemma, NetFacts DEF DeleteInv, What
  <1>23. CASE UNCHANGED vars
    BY <1>0, <1>23 DEF DeleteInv, What, vars, outside, history
  <1> QED
    BY <1>1, <1>2, <1>3, <1>4, <1>5, <1>6, <1>7, <1>8, <1>9, <1>10, <1>11, <1>12, <1>13,
       <1>14, <1>15, <1>16, <1>17, <1>18, <1>19, <1>20, <1>21, <1>23
       DEF Next, Controller, Upcall, Outside

\* The view of the SGW stays right.
LEMMA ViewStep == Inv /\ [Next]_vars => ViewInv'
  <1> SUFFICES ASSUME Inv, [Next]_vars PROVE ViewInv'
    OBVIOUS
  <1>0. TypeOK /\ ThreadTypes /\ DeleteInv /\ CreateInv /\ PacketInv /\ ViewInv /\ HomeInv
    BY DEF Inv, TypeOK, ThreadTypes, At
  <1>1. ASSUME NEW s \in Switches, NEW e \in Eras, SetParams(s, e) PROVE ViewInv'
    BY <1>0, <1>1 DEF
       SetParams, ViewInv, outside, history
  <1>2. ASSUME NEW s \in Switches, NEW p \in Params, StoreParam(s, p) PROVE ViewInv'
    BY <1>0, <1>2 DEF
       StoreParam, ViewInv, outside, history
  <1>3. ASSUME NEW s \in Switches, AddPgw(s) PROVE ViewInv'
    BY <1>0, <1>3 DEF
       AddPgw, ViewInv, outside, history
  <1>4. ASSUME NEW s \in Switches, Restart(s) PROVE ViewInv'
    <2>1. /\ \A u \in Switches : tbl'[u] \subseteq tbl[u] /\ (u # s => tbl'[u] = tbl[u])
          /\ lost \subseteq lost' /\ \A x \in Sessions : home[x] = s => x \in lost'
          /\ UNCHANGED <<told, live>>
      BY <1>0, <1>4 DEF Restart, TypeOK, outside
    <2> QED
      BY <1>0, <2>1 DEF ViewInv, HomeInv
  <1>5. ASSUME NEW s \in Switches, NEW m \in net, HandleGtp(s, m) PROVE ViewInv'
    BY <1>0, <1>5 DEF
       HandleGtp, ViewInv, outside, history
  <1>6. ASSUME NEW s \in Switches, Direction(s) PROVE ViewInv'
    BY <1>0, <1>6 DEF
       Direction, ViewInv, outside, history
  <1>7. ASSUME NEW s \in Switches, LoadTotal(s) PROVE ViewInv'
    BY <1>0, <1>7 DEF
       LoadTotal, ViewInv, outside, history
  <1>8. ASSUME NEW s \in Switches, LoadId(s) PROVE ViewInv'
    BY <1>0, <1>8 DEF
       LoadId, ViewInv, outside, history
  <1>9. ASSUME NEW s \in Switches, Select(s) PROVE ViewInv'
    BY <1>0, <1>9 DEF
       Select, ViewInv, outside, history
  <1>10. ASSUME NEW s \in Switches, DivideByZero(s) PROVE ViewInv'
    BY <1>0, <1>10 DEF
       DivideByZero, ViewInv, outside, history
  <1>11. ASSUME NEW s \in Switches, Forward(s) PROVE ViewInv'
    BY <1>0, <1>11 DEF
       Forward, ViewInv, outside, history
  <1>12. ASSUME NEW s \in Switches, Misdirected(s) PROVE ViewInv'
    BY <1>0, <1>12 DEF
       Misdirected, ViewInv, outside, history
  <1>13. ASSUME NEW s \in Switches, CreateSessionResponse(s) PROVE ViewInv'
    <2>1. What(s) \in Sessions /\ told[What(s)] = "no"
      BY <1>0, <1>13, PacketFacts DEF CreateSessionResponse, At, CreateInv
    <2>2. /\ \A u \in Switches : tbl[u] \subseteq tbl'[u] /\ tbl'[u] \subseteq tbl[u] \cup {What(s)}
          /\ UNCHANGED <<told, live, lost>>
      BY <1>0, <1>13 DEF CreateSessionResponse, TypeOK, outside, history
    <2> QED
      BY <1>0, <2>1, <2>2 DEF ViewInv
  <1>14. ASSUME NEW s \in Switches, CreateSessionResponseDrop(s) PROVE ViewInv'
    BY <1>0, <1>14 DEF
       CreateSessionResponseDrop, ViewInv, outside, history
  <1>15. ASSUME NEW s \in Switches, DeleteSessionResponse(s) PROVE ViewInv'
    <2>1. What(s) \in Sessions /\ What(s) \notin live[s]
      BY <1>0, <1>15, PacketFacts DEF DeleteSessionResponse, At, DeleteInv
    <2>2. /\ \A u \in Switches : tbl'[u] \subseteq tbl[u] /\ (u # s => tbl'[u] = tbl[u])
          /\ tbl[s] \subseteq tbl'[s] \cup {What(s)}
          /\ UNCHANGED <<told, live, lost>>
      BY <1>0, <1>15 DEF DeleteSessionResponse, TypeOK, outside, history
    <2> QED
      BY <1>0, <2>1, <2>2 DEF ViewInv
  <1>16. ASSUME NEW s \in Switches, DeleteUnknown(s) PROVE ViewInv'
    BY <1>0, <1>16 DEF
       DeleteUnknown, ViewInv, outside, history
  <1>17. ASSUME NEW s \in Switches, OutputToPhyPort(s) PROVE ViewInv'
    <2>1. /\ What(s) \in Sessions /\ home[What(s)] = s
          /\ th[s].m.kind \in {"created", "deleted"} /\ th[s].pc = "output"
      BY <1>0, <1>17, PacketFacts DEF OutputToPhyPort, At, PacketInv
    <2>2. /\ \A y \in Sessions : y # What(s) => told'[y] = told[y]
          /\ told'[What(s)] # told[What(s)] =>
               told'[What(s)] = IF th[s].m.kind = "created" THEN "up" ELSE "down"
          /\ UNCHANGED <<tbl, live, lost>>
      BY <1>0, <1>17 DEF OutputToPhyPort, TypeOK, history
    <2>3. \A u \in Switches : u # s => What(s) \notin tbl[u] /\ What(s) \notin live[u]
      BY <1>0, <2>1 DEF HomeInv
    <2>4. /\ th[s].m.kind = "created" => What(s) \in tbl[s]
          /\ th[s].m.kind = "deleted" => What(s) \notin tbl[s] /\ What(s) \notin live[s]
      BY <1>0, <2>1 DEF CreateInv, DeleteInv
    <2> QED
      BY <1>0, <2>1, <2>2, <2>3, <2>4 DEF ViewInv
  <1>18. ASSUME NEW q \in Requests, SendRequest(q) PROVE ViewInv'
    BY <1>0, <1>18 DEF
       SendRequest, ViewInv, outside, history
  <1>19. ASSUME NEW x \in Sessions, SendDelete(x) PROVE ViewInv'
    BY <1>0, <1>19 DEF
       SendDelete, ViewInv, outside, history
  <1>20. ASSUME NEW m \in gwnet, NEW x \in Sessions, GatewayCreates(m, x) PROVE ViewInv'
    <2>1. m.to \in Switches /\ told[x] = "no"
      BY <1>0, <1>20, GatewayFacts DEF GatewayCreates, HomeInv
    <2>2. /\ \A s \in Switches : live'[s] \subseteq live[s] \cup {x}
          /\ UNCHANGED <<tbl, told, lost>>
      BY <1>0, <1>20, <2>1 DEF GatewayCreates, TypeOK
    <2> QED
      BY <1>0, <2>1, <2>2 DEF ViewInv
  <1>21. ASSUME NEW m \in gwnet, GatewayDeletes(m) PROVE ViewInv'
    BY <1>0, <1>21 DEF
       GatewayDeletes, ViewInv, outside, history
  <1>23. CASE UNCHANGED vars
    BY <1>0, <1>23 DEF ViewInv, vars, outside, history
  <1> QED
    BY <1>1, <1>2, <1>3, <1>4, <1>5, <1>6, <1>7, <1>8, <1>9, <1>10, <1>11, <1>12, <1>13,
       <1>14, <1>15, <1>16, <1>17, <1>18, <1>19, <1>20, <1>21, <1>23
       DEF Next, Controller, Upcall, Outside

\* A remainder by zero needs a set_params() meanwhile.
LEMMA CrashStep == Inv /\ [Next]_vars => CrashInv'
  <1> SUFFICES ASSUME Inv, [Next]_vars PROVE CrashInv'
    OBVIOUS
  <1>0. TypeOK /\ ThreadTypes /\ CrashInv /\ LoadInv
    BY DEF Inv, TypeOK, ThreadTypes, At
  <1>1. ASSUME NEW s \in Switches, NEW e \in Eras, SetParams(s, e) PROVE CrashInv'
    <2>1. /\ th'[s].pc = th[s].pc /\ th'[s].m = th[s].m /\ th'[s].era = Mixed
          /\ th'[s].total = th[s].total /\ th'[s].id = th[s].id
          /\ \A u \in Switches : u # s => th'[u] = th[u]
      BY <1>0, <1>1, SpoilLemma DEF SetParams
    <2>2. /\ pend[s] = {}
          /\ pend' = [pend EXCEPT ![s] = {p \in Params : par[s][p] # Config[e][s][p]}]
          /\ era' = [era EXCEPT ![s] = e]
          /\ UNCHANGED <<par, reg, tbl, restarts, outside, history>>
      BY <1>1 DEF SetParams
    <2> QED
      BY <1>0, <2>1, <2>2, IdleLemma DEF
         CrashInv, outside, history
  <1>2. ASSUME NEW s \in Switches, NEW p \in Params, StoreParam(s, p) PROVE CrashInv'
    BY <1>0, <1>2, IdleLemma DEF
       StoreParam, CrashInv, outside, history
  <1>3. ASSUME NEW s \in Switches, AddPgw(s) PROVE CrashInv'
    BY <1>0, <1>3, IdleLemma DEF
       AddPgw, CrashInv, outside, history
  <1>4. ASSUME NEW s \in Switches, Restart(s) PROVE CrashInv'
    <2>1. /\ th'[s] = IdleThread
          /\ \A u \in Switches : u # s => th'[u] = th[u]
      BY <1>0, <1>4, FinishLemma, IdleLemma DEF Restart, Finish
    <2>2. /\ par' = [par EXCEPT ![s] = [p \in Params |-> 0]] /\ pend' = [pend EXCEPT ![s] = {}]
          /\ tbl' = [tbl EXCEPT ![s] = {}] /\ era' = [era EXCEPT ![s] = 0]
          /\ lost' = lost \cup {x \in Sessions : home[x] = s}
          /\ UNCHANGED <<outside, home, seen, taken>>
      BY <1>4 DEF Restart
    <2> QED
      BY <1>0, <2>1, <2>2, IdleLemma DEF
         CrashInv, outside, history
  <1>5. ASSUME NEW s \in Switches, NEW m \in net, HandleGtp(s, m) PROVE CrashInv'
    <2>1. /\ th'[s].pc = "begin" /\ th'[s].m = m /\ th'[s].total = Mixed
          /\ th'[s].id = Mixed
          /\ th'[s].era = IF pend[s] = {} /\ era[s] # 0 THEN era[s] ELSE Mixed
          /\ \A u \in Switches : u # s => th'[u] = th[u]
      BY <1>0, <1>5, HandleLemma DEF HandleGtp
    <2>2. At(s, "idle") /\ m.to = s /\ net' \subseteq net /\ (m.kind # "deleted" => m \notin net')
          /\ UNCHANGED <<par, pend, era, reg, tbl, restarts, gwnet, live, told, asked, history>>
      BY <1>5 DEF HandleGtp
    <2> QED
      BY <1>0, <2>1, <2>2, IdleLemma DEF
         At, CrashInv, outside, history
  <1>6. ASSUME NEW s \in Switches, Direction(s) PROVE CrashInv'
    <2>1. /\ th'[s].pc \in {"to_pgw", "to_sgw"} /\ th'[s].m = th[s].m
          /\ th'[s].era = th[s].era /\ th'[s].total = th[s].total /\ th'[s].id = th[s].id
          /\ \A u \in Switches : u # s => th'[u] = th[u]
      BY <1>0, <1>6, GoLemma DEF Direction, PcValues
    <2> QED
      BY <1>0, <2>1, <1>6, IdleLemma DEF
         Direction, At, CrashInv, outside, history
  <1>7. ASSUME NEW s \in Switches, LoadTotal(s) PROVE CrashInv'
    <2>1. /\ th'[s].pc = "to_pgw" /\ th'[s].m = th[s].m /\ th'[s].id = th[s].id
          /\ th'[s].total = par[s]["ovs_total"] /\ th'[s].era = th[s].era
          /\ \A u \in Switches : u # s => th'[u] = th[u]
      BY <1>0, <1>7, LoadTotalLemma DEF LoadTotal
    <2>2. At(s, "to_pgw") /\ th[s].m.kind = "request"
          /\ UNCHANGED <<par, pend, era, reg, tbl, restarts, outside, history>>
      BY <1>7 DEF LoadTotal
    <2> QED
      BY <1>0, <2>1, <2>2, IdleLemma DEF
         CrashInv, outside, history
  <1>8. ASSUME NEW s \in Switches, LoadId(s) PROVE CrashInv'
    <2>1. /\ th'[s].pc = "to_pgw" /\ th'[s].m = th[s].m /\ th'[s].total = th[s].total
          /\ th'[s].id = par[s]["ovs_id"] /\ th'[s].era = th[s].era
          /\ \A u \in Switches : u # s => th'[u] = th[u]
      BY <1>0, <1>8, LoadIdLemma DEF LoadId
    <2>2. At(s, "to_pgw") /\ th[s].m.kind = "request"
          /\ UNCHANGED <<par, pend, era, reg, tbl, restarts, outside, history>>
      BY <1>8 DEF LoadId
    <2> QED
      BY <1>0, <2>1, <2>2, IdleLemma DEF
         CrashInv, outside, history
  <1>9. ASSUME NEW s \in Switches, Select(s) PROVE CrashInv'
    <2>1. /\ th'[s] = IdleThread
          /\ \A u \in Switches : u # s => th'[u] = th[u]
      BY <1>0, <1>9, FinishLemma, IdleLemma DEF Select
    <2> QED
      BY <1>0, <2>1, <1>9, IdleLemma DEF
         Select, Loaded, At, CrashInv, outside, history
  <1>10. ASSUME NEW s \in Switches, DivideByZero(s) PROVE CrashInv'
    <2>1. /\ th'[s].pc = "sigfpe" /\ th'[s].m = th[s].m /\ th'[s].era = th[s].era
          /\ th'[s].total = th[s].total /\ th'[s].id = th[s].id
          /\ \A u \in Switches : u # s => th'[u] = th[u]
      BY <1>0, <1>10, GoLemma DEF DivideByZero, PcValues
    <2> QED
      BY <1>0, <2>1, <1>10, IdleLemma, TotalLemma DEF
         DivideByZero, Loaded, At, CrashInv, LoadInv, ThreadTypes, ThreadStates,
            outside, history
  <1>11. ASSUME NEW s \in Switches, Forward(s) PROVE CrashInv'
    <2>1. /\ th'[s] = IdleThread
          /\ \A u \in Switches : u # s => th'[u] = th[u]
      BY <1>0, <1>11, FinishLemma, IdleLemma DEF Forward
    <2> QED
      BY <1>0, <2>1, <1>11, IdleLemma DEF
         Forward, At, CrashInv, outside, history
  <1>12. ASSUME NEW s \in Switches, Misdirected(s) PROVE CrashInv'
    <2>1. /\ th'[s] = IdleThread
          /\ \A u \in Switches : u # s => th'[u] = th[u]
      BY <1>0, <1>12, FinishLemma, IdleLemma DEF Misdirected
    <2> QED
      BY <1>0, <2>1, <1>12, IdleLemma DEF
         Misdirected, At, CrashInv, outside, history
  <1>13. ASSUME NEW s \in Switches, CreateSessionResponse(s) PROVE CrashInv'
    <2>1. /\ th'[s].pc = "output" /\ th'[s].m = th[s].m /\ th'[s].era = th[s].era
          /\ th'[s].total = th[s].total /\ th'[s].id = th[s].id
          /\ \A u \in Switches : u # s => th'[u] = th[u]
      BY <1>0, <1>13, GoLemma DEF CreateSessionResponse, PcValues
    <2> QED
      BY <1>0, <2>1, <1>13, IdleLemma DEF
         CreateSessionResponse, At, CrashInv, outside, history
  <1>14. ASSUME NEW s \in Switches, CreateSessionResponseDrop(s) PROVE CrashInv'
    <2>1. /\ th'[s] = IdleThread
          /\ \A u \in Switches : u # s => th'[u] = th[u]
      BY <1>0, <1>14, FinishLemma, IdleLemma DEF CreateSessionResponseDrop
    <2> QED
      BY <1>0, <2>1, <1>14, IdleLemma DEF
         CreateSessionResponseDrop, At, CrashInv, outside, history
  <1>15. ASSUME NEW s \in Switches, DeleteSessionResponse(s) PROVE CrashInv'
    <2>1. /\ th'[s].pc = "output" /\ th'[s].m = th[s].m /\ th'[s].era = th[s].era
          /\ th'[s].total = th[s].total /\ th'[s].id = th[s].id
          /\ \A u \in Switches : u # s => th'[u] = th[u]
      BY <1>0, <1>15, GoLemma DEF DeleteSessionResponse, PcValues
    <2> QED
      BY <1>0, <2>1, <1>15, IdleLemma DEF
         DeleteSessionResponse, At, CrashInv, outside, history
  <1>16. ASSUME NEW s \in Switches, DeleteUnknown(s) PROVE CrashInv'
    <2>1. /\ th'[s].pc = "sigsegv" /\ th'[s].m = th[s].m /\ th'[s].era = th[s].era
          /\ th'[s].total = th[s].total /\ th'[s].id = th[s].id
          /\ \A u \in Switches : u # s => th'[u] = th[u]
      BY <1>0, <1>16, GoLemma DEF DeleteUnknown, PcValues
    <2> QED
      BY <1>0, <2>1, <1>16, IdleLemma DEF
         DeleteUnknown, At, CrashInv, outside, history
  <1>17. ASSUME NEW s \in Switches, OutputToPhyPort(s) PROVE CrashInv'
    <2>1. /\ th'[s] = IdleThread
          /\ \A u \in Switches : u # s => th'[u] = th[u]
      BY <1>0, <1>17, FinishLemma, IdleLemma DEF OutputToPhyPort
    <2> QED
      BY <1>0, <2>1, <1>17, IdleLemma DEF
         OutputToPhyPort, At, CrashInv, outside, history
  <1>18. ASSUME NEW q \in Requests, SendRequest(q) PROVE CrashInv'
    BY <1>0, <1>18, IdleLemma DEF
       SendRequest, CrashInv, outside, history
  <1>19. ASSUME NEW x \in Sessions, SendDelete(x) PROVE CrashInv'
    BY <1>0, <1>19, IdleLemma DEF
       SendDelete, CrashInv, outside, history
  <1>20. ASSUME NEW m \in gwnet, NEW x \in Sessions, GatewayCreates(m, x) PROVE CrashInv'
    BY <1>0, <1>20, IdleLemma DEF
       GatewayCreates, CrashInv, outside, history
  <1>21. ASSUME NEW m \in gwnet, GatewayDeletes(m) PROVE CrashInv'
    BY <1>0, <1>21, IdleLemma DEF
       GatewayDeletes, CrashInv, outside, history
  <1>23. CASE UNCHANGED vars
    BY <1>0, <1>23 DEF CrashInv, vars, outside, history
  <1> QED
    BY <1>1, <1>2, <1>3, <1>4, <1>5, <1>6, <1>7, <1>8, <1>9, <1>10, <1>11, <1>12, <1>13,
       <1>14, <1>15, <1>16, <1>17, <1>18, <1>19, <1>20, <1>21, <1>23
       DEF Next, Controller, Upcall, Outside

\* The invariant holds initially.
LEMMA InitInv == Init => Inv
  <1> SUFFICES ASSUME Init PROVE Inv
    OBVIOUS
  <1>1. \A s \in Switches : th[s] = IdleThread
    BY DEF Init
  <1>2. TypeOK
    <2>1. par \in [Switches -> [Params -> Nat]] /\ restarts \in 0 .. MaxRestart
      BY SetsLemma DEF Init
    <2> QED
      BY <2>1, IdleLemma, SetsLemma DEF Init, TypeOK, At
  <1>3. ParInv /\ LoadInv /\ CrashInv
    BY <1>1, IdleLemma DEF Init, ParInv, LoadInv, CrashInv
  <1>4. PacketInv /\ OnceInv
    BY <1>1, IdleLemma DEF Init, PacketInv, OnceInv
  <1>5. SelectInv
    BY SetsLemma DEF Init, SelectInv, NotHandled
  <1>6. HomeInv /\ CreateInv /\ DeleteInv /\ ViewInv
    BY <1>1, IdleLemma DEF Init, HomeInv, CreateInv, DeleteInv, ViewInv
  <1> QED
    BY <1>2, <1>3, <1>4, <1>5, <1>6 DEF Inv

\* The inductive invariant: loads belong to the configuration that was noted, packets
\* are well formed and handled once, and what the SGW was told follows the tables.
THEOREM Invariance == Spec => []Inv
  <1>1. Inv /\ [Next]_vars => Inv'
    BY TypeStep, ParStep, LoadStep, PacketStep, OnceStep, SelectStep, HomeStep, CreateStep,
       DeleteStep, ViewStep, CrashStep DEF Inv
  <1> QED
    BY InitInv, <1>1, PTL DEF Spec

\* Every variable keeps its type, and a handler of gtp-manager.c keeps nothing of
\* the parameters from one packet to the next.
THEOREM SwitchTypes == Spec => []TypeOK
  <1>1. Inv => TypeOK
    BY DEF Inv
  <1> QED
    BY Invariance, <1>1, PTL

\* seq_num % ovs_total == ovs_id: a request that all switches handled under one
\* configuration was taken by exactly one of them.
THEOREM OneTakes == Spec => []OneSwitchTakes
  <1>1. Inv => OneSwitchTakes
    <2> SUFFICES ASSUME Inv, NEW q \in Requests, NEW e \in Eras,
                        \A s \in Switches : seen[q][s] = e
                 PROVE  \E s \in Switches : taken[q] = {s}
      BY DEF OneSwitchTakes
    <2>1. PICK t \in Switches : TRUE
      BY Zenon, SwitchesAssumption
    <2> DEFINE n == Config[e][t]["ovs_total"]
               r == SeqNum[q] % n
    <2>2. n \in Nat \ {0} /\ SeqNum[q] \in Nat
      BY <2>1, TotalLemma, SetsLemma
    <2>3. r \in 0 .. n - 1
      <3> HIDE DEF n
      <3> QED BY <2>2
    <2>4. PICK s \in Switches : \A u \in Switches : Config[e][u]["ovs_id"] = r <=> u = s
      BY <2>1, <2>3, TotalLemma
    <2>5. \A u \in Switches : Config[e][u]["ovs_total"] = n
      BY <2>1, TotalLemma
    <2>6. \A u \in Switches : u \in taken[q] <=> u = s
      BY <2>4, <2>5 DEF Inv, SelectInv, Mine
    <2>7. taken[q] \subseteq Switches
      BY DEF Inv, TypeOK
    <2> QED
      BY <2>6, <2>7
  <1> QED
    BY Invariance, <1>1, PTL

\* What the SGW was told of a session is what the tables of the switches hold: the
\* handlers change the tables before they output the response.
THEOREM ViewAgrees == Spec => []SgwViewAgrees
  <1>1. Inv => SgwViewAgrees
    <2> SUFFICES ASSUME Inv, NEW x \in Sessions
                 PROVE  /\ told[x] = "up" /\ x \notin lost /\ x \in live[home[x]]
                             => {s \in Switches : x \in tbl[s]} = {home[x]}
                        /\ told[x] = "down" => \A s \in Switches : x \notin tbl[s]
      BY DEF SgwViewAgrees
    <2>1. ASSUME told[x] = "up", x \notin lost, x \in live[home[x]]
          PROVE  {s \in Switches : x \in tbl[s]} = {home[x]}
      <3>1. home[x] \in Switches
        BY <2>1 DEF Inv, TypeOK, HomeInv
      <3>2. x \in tbl[home[x]] /\ \A s \in Switches : x \in tbl[s] => home[x] = s
        BY <2>1, <3>1 DEF Inv, ViewInv, HomeInv
      <3> QED
        BY <3>1, <3>2
    <2>2. told[x] = "down" => \A s \in Switches : x \notin tbl[s]
      BY DEF Inv, ViewInv
    <2> QED
      BY <2>1, <2>2
  <1> QED
    BY Invariance, <1>1, PTL

\* The handlers of gtp-manager.c crash only on a Delete Session Response for a
\* session that the restart of its switch has lost or that a response before has
\* ended, or on a request that is handled while the parameters change or before they
\* are set.
THEOREM CrashesHold == Spec => []CrashesExplained
  <1>1. Inv => CrashesExplained
    <2> SUFFICES ASSUME Inv, NEW s \in Switches
                 PROVE  /\ th[s].pc = "sigsegv" => What(s) \in lost \cup ended
                        /\ th[s].pc = "sigfpe" => th[s].era = Mixed
      BY DEF CrashesExplained
    <2>1. th[s].pc = "sigsegv" => th[s].m.kind = "deleted"
      BY DEF Inv, PacketInv
    <2> QED
      BY <2>1 DEF Inv, DeleteInv, CrashInv
  <1> QED
    BY Invariance, <1>1, PTL
=============================================================================
