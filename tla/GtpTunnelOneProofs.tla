------------------------- MODULE GtpTunnelOneProofs -------------------------
(***************************************************************************)
(* Proofs about the session tables of the GTP manager with one upcall      *)
(* thread w, for any sessions, keys and retransmissions: the counts of the *)
(* tunnel nodes are exact then, nothing is used after it was freed, and a  *)
(* session with keys of its own has one set of map nodes for each creation *)
(* that was not undone.                                                    *)
(***************************************************************************)
EXTENDS GtpTunnelProofs, SequenceTheorems

\* On the way from the last reference of a map node to its end.
Ending == {"tload", "tstore", "ttest", "tfree", "efree"}

\* What thread w has in hand is allocated, and what it has just found is linked.
MemInv(w) ==
  /\ \A e \in Entries : entry[e].mem # "orphan"
  /\ th[w].pc \in {"ref", "remove"} => Linked(th[w].e)
  /\ th[w].pc \in {"read", "unref"} \cup Ending => entry[th[w].e].mem = "live"
  /\ th[w].held # NoEntry => entry[th[w].held].mem = "live"
  /\ th[w].pc \in Ending => entry[th[w].e].ref_count = 0
  /\ \A e \in Entries : entry[e].mem = "live" /\ entry[e].ref_count = 0 =>
       th[w].pc \in Ending /\ th[w].e = e

\* The map nodes that count for a tunnel node: those allocated and those still to be put.
Owed(w, u) ==
  {e \in Entries :
     /\ TunnelOf(e) = u
     /\ \/ entry[e].mem = "live"
        \/ th[w].pc = "put" /\ TunnelOf(th[w].e) = u /\ e[3] \in ToSet(th[w].todo)}

\* The tunnel node does not count the map node any more that w is about to free.
Late(w, u) == th[w].pc \in {"ttest", "tfree", "efree"} /\ TunnelOf(th[w].e) = u

\* The count of a tunnel node is exact, and the node lives until its last map node goes.
TunOf(w, u) ==
  /\ tunnel[u].ref_count \in 0 .. 4
  /\ tunnel[u].mem = "live" =>
       /\ tunnel[u].ref_count + One(Late(w, u)) = Cardinality(Owed(w, u))
       /\ Owed(w, u) # {}
  /\ Owed(w, u) # {} => \/ tunnel[u].mem = "live"
                        \/ th[w].pc = "efree" /\ Owed(w, u) = {th[w].e}

TunInv(w) == \A u \in Tunnels : TunOf(w, u)

\* What w has loaded of the count of a tunnel node.
LoadInv(w) ==
  /\ th[w].pc \in {"tstore", "ttest"} => th[w].rc = tunnel[TunnelOf(th[w].e)].ref_count
  /\ th[w].pc = "tfree" => tunnel[TunnelOf(th[w].e)].ref_count = 0
  /\ th[w].pc = "efree" /\ tunnel[TunnelOf(th[w].e)].mem = "live" =>
       tunnel[TunnelOf(th[w].e)].ref_count > 0
  /\ th[w].rc \in 0 .. 4

\* What may stop the process.
FaultInv == fault \in {"none", "null", "wild"}

Inv1(w) == Inv /\ MemInv(w) /\ TunInv(w) /\ LoadInv(w) /\ FaultInv

-----------------------------------------------------------------------------
(* Tunnel nodes and their map nodes.                                       *)

\* Four elements.
LEMMA FourLemma ==
  ASSUME NEW a, NEW b, NEW c, NEW d,
         a # b, a # c, a # d, b # c, b # d, c # d
  PROVE  IsFiniteSet({a, b, c, d}) /\ Cardinality({a, b, c, d}) = 4
  <1>1. IsFiniteSet({a}) /\ Cardinality({a}) = 1
    BY FS_Singleton
  <1>2. IsFiniteSet({a, b}) /\ Cardinality({a, b}) = 2
    <2>1. {a, b} = {a} \cup {b} /\ b \notin {a}
      OBVIOUS
    <2> QED
      BY <1>1, <2>1, FS_AddElement
  <1>3. IsFiniteSet({a, b, c}) /\ Cardinality({a, b, c}) = 3
    <2>1. {a, b, c} = {a, b} \cup {c} /\ c \notin {a, b}
      OBVIOUS
    <2> QED
      BY <1>2, <2>1, FS_AddElement
  <1>4. {a, b, c, d} = {a, b, c} \cup {d} /\ d \notin {a, b, c}
    OBVIOUS
  <1> QED
    BY <1>3, <1>4, FS_AddElement

\* A tunnel node has four map nodes, one for each role.
LEMMA NodesLemma ==
  ASSUME NEW u \in Tunnels
  PROVE  LET S == {e \in Entries : TunnelOf(e) = u} IN
         IsFiniteSet(S) /\ Cardinality(S) = 4
  <1> DEFINE n(r) == <<u[1], u[2], r>>
  <1>1. u[1] \in Sessions /\ u[2] \in 1 .. Copies /\ u = <<u[1], u[2]>>
    BY DEF Tunnels
  <1>2. \A r \in Roles : n(r) \in Entries /\ TunnelOf(n(r)) = u
    BY <1>1, EntryLemma DEF TunnelOf
  <1>3. \A e \in Entries : TunnelOf(e) = u => \E r \in Roles : e = n(r)
    BY <1>1, EntryLemma DEF TunnelOf
  <1>4. {e \in Entries : TunnelOf(e) = u} = {n("t2"), n("t4"), n("t5"), n("ueip")}
    BY <1>2, <1>3 DEF Roles
  <1>5. /\ n("t2") # n("t4") /\ n("t2") # n("t5") /\ n("t2") # n("ueip")
        /\ n("t4") # n("t5") /\ n("t4") # n("ueip") /\ n("t5") # n("ueip")
    OBVIOUS
  <1> HIDE DEF n
  <1> DEFINE T == {n("t2"), n("t4"), n("t5"), n("ueip")}
  <1>6. IsFiniteSet(T) /\ Cardinality(T) = 4
    BY <1>5, FourLemma
  <1> QED
    BY <1>4, <1>6

\* What a tunnel node counts is a finite set of at most four.
LEMMA OwedLemma ==
  ASSUME NEW w, NEW u \in Tunnels
  PROVE  IsFiniteSet(Owed(w, u)) /\ Cardinality(Owed(w, u)) \in 0 .. 4
  <1> DEFINE S == {e \in Entries : TunnelOf(e) = u}
  <1>1. IsFiniteSet(S) /\ Cardinality(S) = 4
    BY NodesLemma
  <1>2. Owed(w, u) \in SUBSET S
    BY DEF Owed
  <1> HIDE DEF S
  <1>3. IsFiniteSet(Owed(w, u)) /\ Cardinality(Owed(w, u)) <= 4
    BY <1>1, <1>2, FS_Subset
  <1> QED
    BY <1>3, FS_CardinalityType

\* The tunnel node of a map node.
LEMMA TunnelOfLemma ==
  ASSUME NEW e \in Entries
  PROVE  TunnelOf(e) \in Tunnels
  BY EntryLemma DEF TunnelOf, Tunnels

\* A step of w that looks, and changes no memory.
LEMMA HandOne ==
  ASSUME NEW w, Threads = {w}, Inv1(w), OnlyThread(w),
         UNCHANGED <<KeyOf, chain, entry, tunnel>>,
         th[w].pc = "put" => th[w].todo = <<>>,
         th'[w].pc # "put", th[w].pc \notin Ending, th'[w].pc \notin Ending,
         th'[w].pc \in {"ref", "remove"} => Linked(th'[w].e),
         th'[w].pc \in {"read", "unref"} => entry[th'[w].e].mem = "live",
         th'[w].held # NoEntry => entry[th'[w].held].mem = "live",
         th'[w].rc \in 0 .. 4
  PROVE  MemInv(w)' /\ TunInv(w)' /\ LoadInv(w)'
  <1>1. MemInv(w)'
    BY DEF Inv1, MemInv, Linked, KeyOfEntry
  <1>2. TunInv(w)'
    <2> SUFFICES ASSUME NEW u \in Tunnels PROVE TunOf(w, u)'
      BY DEF TunInv
    <2>1. Owed(w, u)' = Owed(w, u)
      BY TodoLemma DEF Owed
    <2>2. One(Late(w, u))' = 0 /\ One(Late(w, u)) = 0 /\ th[w].pc # "efree"
      BY DEF One, Late, Ending
    <2> QED
      BY <2>1, <2>2 DEF Inv1, TunInv, TunOf
  <1>3. LoadInv(w)'
    BY DEF LoadInv, Ending
  <1> QED
    BY <1>1, <1>2, <1>3
-----------------------------------------------------------------------------
\* Looking a session up.
LEMMA LookupStartOne ==
  ASSUME NEW w, Threads = {w}, Inv1(w), UNCHANGED KeyOf, NEW s \in Sessions, NEW r \in Roles,
         LookupStart(w, s, r)
  PROVE  MemInv(w)' /\ TunInv(w)' /\ LoadInv(w)' /\ FaultInv'
  <1> DEFINE k == KeyOf[s][r]
             x == Head(chain[k])
             h == [IdleThread EXCEPT !.pc = "ref", !.op = "lookup", !.sess = s, !.e = x]
  <1>1. k \in Keys /\ ShapeInv /\ Inv
    BY KeyLemma DEF Inv1, Inv
  <1>2. /\ chain[k] # <<>> /\ Become(w, h) /\ th[w].pc = "idle" /\ fault' = "none"
        /\ UNCHANGED <<chain, entry, tunnel>>
    BY DEF LookupStart, At
  <1>3. x \in Entries /\ x \in ToSet(chain[k]) /\ KeyOf[x[1]][x[3]] = k
    BY <1>1, <1>2, NewestLemma
  <1>4. Linked(x)
    BY <1>3 DEF Linked, KeyOfEntry
  <1> HIDE DEF x, k
  <1>5. /\ h \in Handlers /\ h.pc = "ref" /\ h.e = x /\ h.held = NoEntry
    BY <1>3, IdleLemma DEF Handlers
  <1>6. h.rc = 0
    BY DEF IdleThread
  <1> HIDE DEF h
  <1>7. OnlyThread(w) /\ th'[w] = h
    BY <1>1, <1>2, <1>5, BecomeLemma
  <1>8. MemInv(w)' /\ TunInv(w)' /\ LoadInv(w)'
    BY <1>2, <1>4, <1>5, <1>6, <1>7, HandOne DEF Ending
  <1> QED
    BY <1>2, <1>8 DEF FaultInv

\* A Delete Session Response whose session is found.
LEMMA DeleteStartOne ==
  ASSUME NEW w, Threads = {w}, Inv1(w), UNCHANGED KeyOf, NEW s \in Sessions, DeleteStart(w, s)
  PROVE  MemInv(w)' /\ TunInv(w)' /\ LoadInv(w)' /\ FaultInv'
  <1> DEFINE k == KeyOf[s]["t2"]
             x == Head(chain[k])
             h == [IdleThread EXCEPT !.pc = "ref", !.op = "delete", !.sess = s,
                                     !.e = x, !.held = x]
  <1>1. k \in Keys /\ ShapeInv /\ Inv
    BY KeyLemma DEF Inv1, Inv, Roles
  <1>2. /\ chain[k] # <<>> /\ Become(w, h) /\ th[w].pc = "idle" /\ fault' = "none"
        /\ UNCHANGED <<chain, entry, tunnel>>
    BY DEF DeleteStart, At
  <1>3. x \in Entries /\ x \in ToSet(chain[k]) /\ KeyOf[x[1]][x[3]] = k /\ entry[x].mem = "live"
    BY <1>1, <1>2, NewestLemma
  <1>4. Linked(x)
    BY <1>3 DEF Linked, KeyOfEntry
  <1> HIDE DEF x, k
  <1>5. /\ h \in Handlers /\ h.pc = "ref" /\ h.e = x /\ h.held = x
    BY <1>3, IdleLemma DEF Handlers
  <1>6. h.rc = 0
    BY DEF IdleThread
  <1> HIDE DEF h
  <1>7. OnlyThread(w) /\ th'[w] = h
    BY <1>1, <1>2, <1>5, BecomeLemma
  <1>8. MemInv(w)' /\ TunInv(w)' /\ LoadInv(w)'
    BY <1>2, <1>3, <1>4, <1>5, <1>6, <1>7, HandOne DEF Ending
  <1> QED
    BY <1>2, <1>8 DEF FaultInv

\* The response goes out.
LEMMA CreateEndOne ==
  ASSUME NEW w, Threads = {w}, Inv1(w), UNCHANGED KeyOf, CreateEnd(w)
  PROVE  MemInv(w)' /\ TunInv(w)' /\ LoadInv(w)' /\ FaultInv'
  <1>1. /\ Become(w, IdleThread) /\ th[w].pc = "put" /\ th[w].todo = <<>> /\ fault' = "none"
        /\ UNCHANGED <<chain, entry, tunnel>> /\ ShapeInv
    BY DEF CreateEnd, At, Inv1, Inv
  <1>2. OnlyThread(w) /\ th'[w] = IdleThread
    BY <1>1, IdleLemma, BecomeLemma
  <1>3. IdleThread.rc = 0
    BY DEF IdleThread
  <1>4. MemInv(w)' /\ TunInv(w)' /\ LoadInv(w)'
    BY <1>1, <1>2, <1>3, IdleLemma, HandOne DEF Ending
  <1> QED
    BY <1>1, <1>4 DEF FaultInv

\* Reading the tunnel node.
LEMMA ReadOne ==
  ASSUME NEW w, Threads = {w}, Inv1(w), UNCHANGED KeyOf, Read(w)
  PROVE  MemInv(w)' /\ TunInv(w)' /\ LoadInv(w)' /\ FaultInv'
  <1> DEFINE g == th[w]
             h == IF g.op = "lookup" THEN [g EXCEPT !.pc = "unref"]
                                     ELSE [g EXCEPT !.pc = "del", !.todo = KeyOrder]
  <1>1. /\ ShapeInv /\ Become(w, h) /\ g \in Handlers /\ g.pc = "read" /\ fault' = "none"
        /\ UNCHANGED <<chain, entry, tunnel>> /\ entry[g.e].mem = "live"
    BY HandlerFields DEF Inv1, Inv, Read, At
  <1>2. g.held # NoEntry => entry[g.held].mem = "live"
    BY DEF Inv1, MemInv
  <1>3. g.rc \in 0 .. 4
    BY DEF Inv1, LoadInv
  <1>4. /\ h \in Handlers /\ h.pc \in {"unref", "del"} /\ h.e = g.e /\ h.held = g.held
        /\ h.rc = g.rc
    BY <1>1, TodoLemma DEF Handlers
  <1> HIDE DEF h
  <1>5. OnlyThread(w) /\ th'[w] = h
    BY <1>1, <1>4, BecomeLemma
  <1>6. MemInv(w)' /\ TunInv(w)' /\ LoadInv(w)'
    BY <1>1, <1>2, <1>3, <1>4, <1>5, HandOne DEF Ending
  <1> QED
    BY <1>1, <1>6 DEF FaultInv

\* Finding the node to delete.
LEMMA DelFindOne ==
  ASSUME NEW w, Threads = {w}, Inv1(w), UNCHANGED KeyOf, DelFind(w)
  PROVE  MemInv(w)' /\ TunInv(w)' /\ LoadInv(w)' /\ FaultInv'
  <1> DEFINE g == th[w]
             k == KeyToDelete(g)
             x == Head(chain[k])
             h == [g EXCEPT !.pc = "remove", !.e = x, !.todo = Tail(@)]
  <1>1. /\ ShapeInv /\ Inv /\ Become(w, h) /\ g \in Handlers /\ g.pc = "del" /\ fault' = "none"
        /\ UNCHANGED <<chain, entry, tunnel>> /\ chain[k] # <<>>
        /\ g.todo # <<>> /\ g.todo \in TodoSeqs
    BY HandlerFields DEF Inv1, Inv, DelFind, At
  <1>2. g.held # NoEntry => entry[g.held].mem = "live"
    BY DEF Inv1, MemInv
  <1>3. g.rc \in 0 .. 4
    BY DEF Inv1, LoadInv
  <1>4. k \in Keys
    BY <1>1, DelKeyLemma
  <1>5. x \in Entries /\ x \in ToSet(chain[k]) /\ KeyOf[x[1]][x[3]] = k
    BY <1>1, <1>4, NewestLemma
  <1>6. Linked(x)
    BY <1>5 DEF Linked, KeyOfEntry
  <1> HIDE DEF x, k
  <1>7. /\ h \in Handlers /\ h.pc = "remove" /\ h.e = x /\ h.held = g.held /\ h.rc = g.rc
    BY <1>1, <1>5, TodoLemma DEF Handlers
  <1> HIDE DEF h
  <1>8. OnlyThread(w) /\ th'[w] = h
    BY <1>1, <1>7, BecomeLemma
  <1>9. MemInv(w)' /\ TunInv(w)' /\ LoadInv(w)'
    BY <1>1, <1>2, <1>3, <1>6, <1>7, <1>8, HandOne DEF Ending
  <1> QED
    BY <1>1, <1>9 DEF FaultInv

\* The node is not there and found_node happens to be NULL.
LEMMA DelMissNullOne ==
  ASSUME NEW w, Threads = {w}, Inv1(w), UNCHANGED KeyOf, DelMissNull(w)
  PROVE  MemInv(w)' /\ TunInv(w)' /\ LoadInv(w)' /\ FaultInv'
  <1> DEFINE g == th[w]
             h == [g EXCEPT !.todo = Tail(@)]
  <1>1. /\ ShapeInv /\ Become(w, h) /\ g \in Handlers /\ g.pc = "del" /\ fault' = "none"
        /\ UNCHANGED <<chain, entry, tunnel>> /\ g.todo # <<>> /\ g.todo \in TodoSeqs
    BY HandlerFields DEF Inv1, Inv, DelMissNull, At
  <1>2. g.held # NoEntry => entry[g.held].mem = "live"
    BY DEF Inv1, MemInv
  <1>3. g.rc \in 0 .. 4
    BY DEF Inv1, LoadInv
  <1>4. h \in Handlers /\ h.pc = "del" /\ h.held = g.held /\ h.rc = g.rc
    BY <1>1, TodoLemma DEF Handlers
  <1> HIDE DEF h
  <1>5. OnlyThread(w) /\ th'[w] = h
    BY <1>1, <1>4, BecomeLemma
  <1>6. MemInv(w)' /\ TunInv(w)' /\ LoadInv(w)'
    BY <1>1, <1>2, <1>3, <1>4, <1>5, HandOne DEF Ending
  <1> QED
    BY <1>1, <1>6 DEF FaultInv

\* The handler gives up the node it looked up.
LEMMA DelHeldOne ==
  ASSUME NEW w, Threads = {w}, Inv1(w), UNCHANGED KeyOf, DelHeld(w)
  PROVE  MemInv(w)' /\ TunInv(w)' /\ LoadInv(w)' /\ FaultInv'
  <1> DEFINE g == th[w]
             h == [g EXCEPT !.pc = "unref", !.e = g.held, !.held = NoEntry]
  <1>1. /\ ShapeInv /\ Become(w, h) /\ g \in Handlers /\ g.pc = "del" /\ fault' = "none"
        /\ UNCHANGED <<chain, entry, tunnel>>
    BY HandlerFields DEF Inv1, Inv, DelHeld, At
  <1>2. g.held \in Entries /\ entry[g.held].mem = "live"
    BY <1>1, EntryLemma DEF Inv1, MemInv, Inv, HandInv, HandOf
  <1>3. g.rc \in 0 .. 4
    BY DEF Inv1, LoadInv
  <1>4. h \in Handlers /\ h.pc = "unref" /\ h.e = g.held /\ h.held = NoEntry /\ h.rc = g.rc
    BY <1>1, <1>2 DEF Handlers
  <1> HIDE DEF h
  <1>5. OnlyThread(w) /\ th'[w] = h
    BY <1>1, <1>4, BecomeLemma
  <1>6. MemInv(w)' /\ TunInv(w)' /\ LoadInv(w)'
    BY <1>1, <1>2, <1>3, <1>4, <1>5, HandOne DEF Ending
  <1> QED
    BY <1>1, <1>6 DEF FaultInv
-----------------------------------------------------------------------------
\* A step that leaves alone what tunnel nodes count.
LEMMA SameTunnels ==
  ASSUME NEW w, Inv1(w), UNCHANGED tunnel,
         \A e \in Entries : entry'[e].mem = "live" <=> entry[e].mem = "live",
         th[w].pc \notin {"put", "ttest", "tfree", "efree"},
         th'[w].pc \notin {"put", "ttest", "tfree", "efree"}
  PROVE  TunInv(w)'
  <1> SUFFICES ASSUME NEW u \in Tunnels PROVE TunOf(w, u)'
    BY DEF TunInv
  <1>1. Owed(w, u)' = Owed(w, u)
    BY DEF Owed
  <1>2. One(Late(w, u))' = 0 /\ One(Late(w, u)) = 0
    BY DEF One, Late
  <1> QED
    BY <1>1, <1>2 DEF Inv1, TunInv, TunOf

\* ref_count++.
LEMMA RefOne ==
  ASSUME NEW w, Threads = {w}, Inv1(w), UNCHANGED KeyOf, Ref(w)
  PROVE  MemInv(w)' /\ TunInv(w)' /\ LoadInv(w)' /\ FaultInv'
  <1> DEFINE g == th[w]
             x == g.e
             v == entry[x].ref_count + 1
             h == [g EXCEPT !.pc = "read"]
  <1>1. /\ ShapeInv /\ Become(w, h) /\ g \in Handlers /\ g.pc = "ref" /\ fault' = "none"
        /\ UNCHANGED <<chain, tunnel>> /\ entry[x].mem = "live"
        /\ entry' = [entry EXCEPT ![x].ref_count = v]
    BY HandlerFields DEF Inv1, Inv, Ref, At
  <1>2. g.held # NoEntry => entry[g.held].mem = "live"
    BY DEF Inv1, MemInv
  <1>3. g.rc \in 0 .. 4
    BY DEF Inv1, LoadInv
  <1>4. h \in Handlers /\ h.pc = "read" /\ h.e = x /\ h.held = g.held /\ h.rc = g.rc
    BY <1>1 DEF Handlers
  <1>5. x \in Entries /\ g.held \in Entries \cup {NoEntry}
    BY <1>1, HandlerFields DEF Inv1, Inv, HandInv, HandOf
  <1>6. v \in Nat /\ v # 0
    BY <1>1, <1>5 DEF ShapeInv
  <1> HIDE DEF h, v
  <1>7. OnlyThread(w) /\ th'[w] = h
    BY <1>1, <1>4, BecomeLemma
  <1>8. /\ \A y \in Entries : entry'[y].mem = entry[y].mem
        /\ \A y \in Entries : y # x => entry'[y] = entry[y]
        /\ entry'[x].ref_count = v
    BY <1>1, <1>5 DEF ShapeInv
  <1>9. MemInv(w)'
    BY <1>1, <1>2, <1>4, <1>5, <1>6, <1>7, <1>8 DEF Inv1, MemInv, Ending
  <1>10. TunInv(w)'
    BY <1>1, <1>4, <1>7, <1>8, SameTunnels
  <1>11. LoadInv(w)'
    BY <1>3, <1>4, <1>7 DEF LoadInv
  <1> QED
    BY <1>1, <1>9, <1>10, <1>11 DEF FaultInv

\* A map node is taken out of its chain.
LEMMA CmapRemoveOne ==
  ASSUME NEW w, Threads = {w}, Inv1(w), UNCHANGED KeyOf, CmapRemove(w)
  PROVE  MemInv(w)' /\ TunInv(w)' /\ LoadInv(w)' /\ FaultInv'
  <1> DEFINE g == th[w]
             h == [g EXCEPT !.pc = "unref"]
  <1>1. /\ ShapeInv /\ Become(w, h) /\ g \in Handlers /\ g.pc = "remove" /\ fault' = "none"
        /\ UNCHANGED <<entry, tunnel>>
    BY HandlerFields DEF Inv1, Inv, CmapRemove, At
  <1>2. g.held # NoEntry => entry[g.held].mem = "live"
    BY DEF Inv1, MemInv
  <1>3. g.rc \in 0 .. 4
    BY DEF Inv1, LoadInv
  <1>4. h \in Handlers /\ h.pc = "unref" /\ h.e = g.e /\ h.held = g.held /\ h.rc = g.rc
    BY <1>1 DEF Handlers
  <1>5. entry[g.e].mem = "live"
    <2>1. g.e \in Entries
      BY <1>1 DEF Inv1, Inv, HandInv, HandOf
    <2>2. KeyOfEntry(g.e) \in Keys
      BY <1>1, <2>1, KeyLemma
    <2>3. g.e \in ToSet(chain[KeyOfEntry(g.e)])
      BY <1>1 DEF Inv1, MemInv, Linked
    <2> QED
      BY <2>2, <2>3 DEF Inv1, Inv, ChainInv
  <1> HIDE DEF h
  <1>6. OnlyThread(w) /\ th'[w] = h
    BY <1>1, <1>4, BecomeLemma
  <1>7. MemInv(w)'
    BY <1>1, <1>2, <1>4, <1>5, <1>6 DEF Inv1, MemInv, Ending
  <1>8. TunInv(w)'
    BY <1>1, <1>4, <1>6, SameTunnels
  <1>9. LoadInv(w)'
    BY <1>3, <1>4, <1>6 DEF LoadInv
  <1> QED
    BY <1>1, <1>7, <1>8, <1>9 DEF FaultInv

\* Where w goes on, it has loaded no count.
LEMMA ResumeRc ==
  ASSUME NEW h \in Handlers
  PROVE  Resume(h).rc = 0
  <1>1. IdleThread.rc = 0
    BY DEF IdleThread
  <1>2. [h EXCEPT !.pc = "del", !.e = NoEntry, !.rc = 0].rc = 0
    BY DEF Handlers
  <1> QED
    BY <1>1, <1>2 DEF Resume

\* ref_count--.
LEMMA UnrefOne ==
  ASSUME NEW w, Threads = {w}, Inv1(w), UNCHANGED KeyOf, Unref(w)
  PROVE  MemInv(w)' /\ TunInv(w)' /\ LoadInv(w)' /\ FaultInv'
  <1> DEFINE g == th[w]
             x == g.e
             c == entry[x].ref_count
             v == c - 1
             h == IF c = 1 THEN [g EXCEPT !.pc = "tload"] ELSE Resume(g)
  <1>1. /\ ShapeInv /\ Inv /\ Become(w, h) /\ g \in Handlers /\ g.pc = "unref"
        /\ fault' = "none" /\ UNCHANGED <<chain, tunnel>> /\ entry[x].mem = "live"
        /\ entry' = [entry EXCEPT ![x].ref_count = v] /\ w \in Threads
    BY HandlerFields DEF Inv1, Inv, Unref, At
  <1>2. g.held # NoEntry => entry[g.held].mem = "live"
    BY DEF Inv1, MemInv
  <1>3. g.rc \in 0 .. 4
    BY DEF Inv1, LoadInv
  <1>4. x \in Entries /\ c \in Nat /\ g.held \in Entries \cup {NoEntry}
    BY <1>1, HandlerFields DEF Inv, HandInv, HandOf, ShapeInv
  <1>5. c # 0
    BY <1>1, <1>4 DEF Inv1, MemInv, Ending
  <1>6. /\ h \in Handlers /\ h.pc \in {"tload", "idle", "del"} /\ h.held = g.held
        /\ h.pc = "tload" <=> c = 1
        /\ h.pc = "tload" => h.e = x
        /\ h.rc \in 0 .. 4
    <2>1. CASE c = 1
      <3>1. h = [g EXCEPT !.pc = "tload"]
        BY <2>1
      <3> QED
        BY <1>1, <1>3, <2>1, <3>1 DEF Handlers
    <2>2. CASE c # 1
      <3>1. h = Resume(g)
        BY <2>2
      <3> HIDE DEF h
      <3> QED
        BY <1>1, <2>2, <3>1, ResumeLemma, ResumeRc
    <2> QED
      BY <2>1, <2>2
  <1> HIDE DEF h
  <1>7. OnlyThread(w) /\ th'[w] = h
    BY <1>1, <1>6, BecomeLemma
  <1>8. v \in Nat /\ (v = 0 <=> c = 1)
    BY <1>4, <1>5
  <1> HIDE DEF v, c
  <1>9. /\ \A y \in Entries : entry'[y].mem = entry[y].mem
        /\ \A y \in Entries : y # x => entry'[y] = entry[y]
        /\ entry'[x].ref_count = v
    BY <1>1, <1>4 DEF ShapeInv
  <1>10. MemInv(w)'
    BY <1>1, <1>2, <1>4, <1>6, <1>7, <1>8, <1>9 DEF Inv1, MemInv, Ending
  <1>11. TunInv(w)'
    BY <1>1, <1>6, <1>7, <1>9, SameTunnels
  <1>12. LoadInv(w)'
    BY <1>6, <1>7 DEF LoadInv
  <1> QED
    BY <1>1, <1>10, <1>11, <1>12 DEF FaultInv

\* The map node whose end has come is allocated, and so is its tunnel node unless w has just
\* freed that.
LEMMA EndingLemma ==
  ASSUME NEW w, Threads = {w}, Inv1(w), th[w].pc \in Ending
  PROVE  /\ th[w].e \in Entries /\ TunnelOf(th[w].e) \in Tunnels
         /\ th[w].e \in Owed(w, TunnelOf(th[w].e)) /\ entry[th[w].e].mem = "live"
         /\ th[w].pc # "efree" => tunnel[TunnelOf(th[w].e)].mem = "live"
  <1>1. th[w].e \in Entries /\ entry[th[w].e].mem = "live"
    BY DEF Inv1, Inv, HandInv, HandOf, MemInv, Ending
  <1>2. TunnelOf(th[w].e) \in Tunnels
    BY <1>1, TunnelOfLemma
  <1>3. th[w].e \in Owed(w, TunnelOf(th[w].e))
    BY <1>1 DEF Owed
  <1> QED
    BY <1>1, <1>2, <1>3 DEF Inv1, TunInv, TunOf

\* The load of the count of the tunnel node.
LEMMA TunnelLoadOne ==
  ASSUME NEW w, Threads = {w}, Inv1(w), UNCHANGED KeyOf, TunnelLoad(w)
  PROVE  MemInv(w)' /\ TunInv(w)' /\ LoadInv(w)' /\ FaultInv'
  <1> DEFINE g == th[w]
             c == tunnel[TunnelOf(g.e)].ref_count
             h == [g EXCEPT !.pc = "tstore", !.rc = c]
  <1>1. /\ ShapeInv /\ Become(w, h) /\ g \in Handlers /\ g.pc = "tload" /\ fault' = "none"
        /\ UNCHANGED <<chain, entry, tunnel>>
    BY HandlerFields DEF Inv1, Inv, TunnelLoad, At
  <1>2. TunnelOf(g.e) \in Tunnels
    BY <1>1, EndingLemma DEF Ending
  <1>3. c \in 0 .. 4 /\ c \in Int
    BY <1>2 DEF Inv1, TunInv, TunOf
  <1> HIDE DEF c
  <1>4. /\ h \in Handlers /\ h.pc = "tstore" /\ h.e = g.e /\ h.held = g.held /\ h.rc = c
    BY <1>1, <1>3 DEF Handlers
  <1> HIDE DEF h
  <1>5. OnlyThread(w) /\ th'[w] = h
    BY <1>1, <1>4, BecomeLemma
  <1>6. MemInv(w)'
    BY <1>1, <1>4, <1>5 DEF Inv1, MemInv, Ending, Linked, KeyOfEntry
  <1>7. TunInv(w)'
    BY <1>1, <1>4, <1>5, SameTunnels
  <1>8. LoadInv(w)'
    BY <1>1, <1>3, <1>4, <1>5 DEF LoadInv, c
  <1> QED
    BY <1>1, <1>6, <1>7, <1>8 DEF FaultInv

\* The store.
LEMMA TunnelStoreOne ==
  ASSUME NEW w, Threads = {w}, Inv1(w), UNCHANGED KeyOf, TunnelStore(w)
  PROVE  MemInv(w)' /\ TunInv(w)' /\ LoadInv(w)' /\ FaultInv'
  <1> DEFINE g == th[w]
             U == TunnelOf(g.e)
             v == g.rc - 1
             h == [g EXCEPT !.pc = "ttest", !.rc = v]
  <1>1. /\ ShapeInv /\ Become(w, h) /\ g \in Handlers /\ g.pc = "tstore" /\ fault' = "none"
        /\ UNCHANGED <<chain, entry>> /\ tunnel' = [tunnel EXCEPT ![U].ref_count = v]
    BY HandlerFields DEF Inv1, Inv, TunnelStore, At
  <1>2. U \in Tunnels /\ g.e \in Owed(w, U) /\ tunnel[U].mem = "live"
    BY <1>1, EndingLemma DEF Ending
  <1>3. tunnel[U].ref_count = Cardinality(Owed(w, U)) /\ g.rc = tunnel[U].ref_count
    <2>1. One(Late(w, U)) = 0
      BY <1>1 DEF One, Late
    <2>2. tunnel[U].ref_count \in 0 .. 4
      BY <1>2 DEF Inv1, TunInv, TunOf
    <2> QED
      BY <1>1, <1>2, <2>1, <2>2 DEF Inv1, TunInv, TunOf, LoadInv
  <1>4. Cardinality(Owed(w, U)) \in 1 .. 4
    <2>1. Cardinality(Owed(w, U)) # 0
      BY <1>2, OwedLemma, FS_EmptySet
    <2> QED
      BY <1>2, <2>1, OwedLemma
  <1>5. v \in 0 .. 3 /\ v \in Int /\ v + 1 = Cardinality(Owed(w, U))
    BY <1>3, <1>4
  <1> HIDE DEF v
  <1>6. h \in Handlers /\ h.pc = "ttest" /\ h.e = g.e /\ h.held = g.held /\ h.rc = v
    BY <1>1, <1>5 DEF Handlers
  <1> HIDE DEF h
  <1>7. OnlyThread(w) /\ th'[w] = h
    BY <1>1, <1>6, BecomeLemma
  <1>8. /\ tunnel'[U].ref_count = v /\ tunnel'[U].mem = "live"
        /\ \A u \in Tunnels : u # U => tunnel'[u] = tunnel[u]
    BY <1>1, <1>2 DEF ShapeInv
  <1>9. MemInv(w)'
    BY <1>1, <1>6, <1>7 DEF Inv1, MemInv, Ending, Linked, KeyOfEntry
  <1>10. TunInv(w)'
    <2> SUFFICES ASSUME NEW u \in Tunnels PROVE TunOf(w, u)'
      BY DEF TunInv
    <2>1. Owed(w, u)' = Owed(w, u)
      BY <1>1, <1>6, <1>7 DEF Owed
    <2>2. CASE u = U
      <3>1. One(Late(w, u))' = 1
        BY <1>6, <1>7, <2>2 DEF One, Late
      <3>2. v \in 0 .. 4
        BY <1>5
      <3> QED
        BY <1>2, <1>5, <1>8, <2>1, <2>2, <3>1, <3>2 DEF TunOf
    <2>3. CASE u # U
      <3>1. One(Late(w, u))' = One(Late(w, u))
        BY <1>1, <1>6, <1>7, <2>3 DEF One, Late
      <3>2. tunnel'[u] = tunnel[u]
        BY <1>8, <2>3
      <3>3. TunOf(w, u) /\ th[w].pc # "efree"
        BY <1>1 DEF Inv1, TunInv
      <3> QED
        BY <2>1, <3>1, <3>2, <3>3 DEF TunOf
    <2> QED
      BY <2>2, <2>3
  <1>11. LoadInv(w)'
    BY <1>5, <1>6, <1>7, <1>8 DEF LoadInv, TunnelOf
  <1> QED
    BY <1>1, <1>9, <1>10, <1>11 DEF FaultInv

\* The test for zero.
LEMMA TunnelTestOne ==
  ASSUME NEW w, Threads = {w}, Inv1(w), UNCHANGED KeyOf, TunnelTest(w)
  PROVE  MemInv(w)' /\ TunInv(w)' /\ LoadInv(w)' /\ FaultInv'
  <1> DEFINE g == th[w]
             U == TunnelOf(g.e)
  <1>0. PICK rc \in {g.rc, tunnel[U].ref_count} :
          Become(w, [g EXCEPT !.pc = IF rc = 0 THEN "tfree" ELSE "efree"])
    BY DEF TunnelTest
  <1> DEFINE h == [g EXCEPT !.pc = IF rc = 0 THEN "tfree" ELSE "efree"]
  <1>1. /\ ShapeInv /\ Become(w, h) /\ g \in Handlers /\ g.pc = "ttest" /\ fault' = "none"
        /\ UNCHANGED <<chain, entry, tunnel>>
    BY <1>0, HandlerFields DEF Inv1, Inv, TunnelTest, At
  <1>2. U \in Tunnels /\ tunnel[U].mem = "live"
    BY <1>1, EndingLemma DEF Ending
  <1>3. rc = tunnel[U].ref_count /\ g.rc = tunnel[U].ref_count /\ tunnel[U].ref_count \in 0 .. 4
    BY <1>0, <1>1, <1>2 DEF Inv1, TunInv, TunOf, LoadInv
  <1>4. /\ h \in Handlers /\ h.e = g.e /\ h.held = g.held /\ h.rc = g.rc
        /\ h.pc = IF rc = 0 THEN "tfree" ELSE "efree"
    BY <1>1 DEF Handlers
  <1> HIDE DEF h
  <1>5. OnlyThread(w) /\ th'[w] = h
    BY <1>1, <1>4, BecomeLemma
  <1>6. MemInv(w)'
    BY <1>1, <1>4, <1>5 DEF Inv1, MemInv, Ending, Linked, KeyOfEntry
  <1>7. TunInv(w)'
    <2> SUFFICES ASSUME NEW u \in Tunnels PROVE TunOf(w, u)'
      BY DEF TunInv
    <2>1. Owed(w, u)' = Owed(w, u)
      BY <1>1, <1>4, <1>5 DEF Owed
    <2>2. One(Late(w, u))' = One(Late(w, u))
      BY <1>1, <1>4, <1>5 DEF One, Late
    <2>3. TunOf(w, u) /\ th[w].pc # "efree"
      BY <1>1 DEF Inv1, TunInv
    <2> QED
      BY <1>1, <2>1, <2>2, <2>3 DEF TunOf
  <1>8. LoadInv(w)'
    BY <1>1, <1>3, <1>4, <1>5 DEF LoadInv
  <1> QED
    BY <1>1, <1>6, <1>7, <1>8 DEF FaultInv

\* free() of the tunnel node.
LEMMA TunnelFreeOne ==
  ASSUME NEW w, Threads = {w}, Inv1(w), UNCHANGED KeyOf, TunnelFree(w)
  PROVE  MemInv(w)' /\ TunInv(w)' /\ LoadInv(w)' /\ FaultInv'
  <1> DEFINE g == th[w]
             U == TunnelOf(g.e)
             h == [g EXCEPT !.pc = "efree"]
  <1>1. /\ ShapeInv /\ Become(w, h) /\ g \in Handlers /\ g.pc = "tfree" /\ fault' = "none"
        /\ UNCHANGED <<chain, entry>> /\ tunnel' = [tunnel EXCEPT ![U].mem = "freed"]
    BY HandlerFields DEF Inv1, Inv, TunnelFree, At
  <1>2. U \in Tunnels /\ g.e \in Owed(w, U) /\ tunnel[U].mem = "live"
    BY <1>1, EndingLemma DEF Ending
  <1>3. tunnel[U].ref_count = 0 /\ g.rc \in 0 .. 4
    BY <1>1 DEF Inv1, LoadInv
  <1>4. Owed(w, U) = {g.e}
    <2>1. One(Late(w, U)) = 1
      BY <1>1 DEF One, Late
    <2>2. Cardinality(Owed(w, U)) = 1
      BY <1>2, <1>3, <2>1 DEF Inv1, TunInv, TunOf
    <2>3. \E y : Owed(w, U) = {y}
      BY <1>2, <2>2, OwedLemma, FS_Singleton
    <2> QED
      BY <1>2, <2>3
  <1>5. h \in Handlers /\ h.pc = "efree" /\ h.e = g.e /\ h.held = g.held /\ h.rc = g.rc
    BY <1>1 DEF Handlers
  <1> HIDE DEF h
  <1>6. OnlyThread(w) /\ th'[w] = h
    BY <1>1, <1>5, BecomeLemma
  <1>7. /\ tunnel'[U].ref_count = 0 /\ tunnel'[U].mem = "freed"
        /\ \A u \in Tunnels : u # U => tunnel'[u] = tunnel[u]
    BY <1>1, <1>2, <1>3 DEF ShapeInv
  <1>8. MemInv(w)'
    BY <1>1, <1>5, <1>6 DEF Inv1, MemInv, Ending, Linked, KeyOfEntry
  <1>9. TunInv(w)'
    <2> SUFFICES ASSUME NEW u \in Tunnels PROVE TunOf(w, u)'
      BY DEF TunInv
    <2>1. Owed(w, u)' = Owed(w, u)
      BY <1>1, <1>5, <1>6 DEF Owed
    <2>2. CASE u = U
      BY <1>4, <1>5, <1>6, <1>7, <2>1, <2>2 DEF TunOf
    <2>3. CASE u # U
      <3>1. One(Late(w, u))' = One(Late(w, u))
        BY <1>1, <1>5, <1>6, <2>3 DEF One, Late
      <3>2. tunnel'[u] = tunnel[u]
        BY <1>7, <2>3
      <3>3. TunOf(w, u) /\ th[w].pc # "efree"
        BY <1>1 DEF Inv1, TunInv
      <3> QED
        BY <2>1, <3>1, <3>2, <3>3 DEF TunOf
    <2> QED
      BY <2>2, <2>3
  <1>10. LoadInv(w)'
    BY <1>3, <1>5, <1>6, <1>7 DEF LoadInv, TunnelOf
  <1> QED
    BY <1>1, <1>8, <1>9, <1>10 DEF FaultInv

\* free() of the map node.
LEMMA EntryFreeOne ==
  ASSUME NEW w, Threads = {w}, Inv1(w), UNCHANGED KeyOf, EntryFree(w)
  PROVE  MemInv(w)' /\ TunInv(w)' /\ LoadInv(w)' /\ FaultInv'
  <1> DEFINE g == th[w]
             x == g.e
             U == TunnelOf(x)
             h == Resume(g)
  <1>1. /\ ShapeInv /\ Inv /\ Become(w, h) /\ g \in Handlers /\ g.pc = "efree"
        /\ fault' = "none" /\ w \in Threads
        /\ UNCHANGED <<chain, tunnel>> /\ entry' = [entry EXCEPT ![x].mem = "freed"]
    BY HandlerFields DEF Inv1, Inv, EntryFree, At
  <1>2. /\ U \in Tunnels /\ x \in Owed(w, U) /\ x \in Entries /\ entry[x].mem = "live"
        /\ entry[x].ref_count = 0 /\ g.held \in Entries \cup {NoEntry}
    BY <1>1, EndingLemma, HandlerFields DEF Ending, Inv1, MemInv
  <1>3. g.held # x
    <2>1. 0 = (IF Linked(x) THEN 1 ELSE 0) + Cardinality(Keepers(x)) + Cardinality(Users(x))
      BY <1>1, <1>2 DEF Inv, EntryRefsExact
    <2>2. Users(x) \in SUBSET Threads /\ Keepers(x) \in SUBSET Threads
      BY DEF Users, Keepers
    <2>3. /\ Cardinality(Users(x)) \in Nat /\ Cardinality(Keepers(x)) \in Nat
          /\ w \in Keepers(x) => Cardinality(Keepers(x)) >= 1
      BY <1>1, <2>2, OneLemma
    <2>4. w \notin Keepers(x)
      BY <2>1, <2>3
    <2> QED
      BY <1>1, <2>4 DEF Keepers
  <1>4. /\ h \in Handlers /\ h.pc \in {"idle", "del"} /\ h.held = g.held /\ h.rc = 0
    BY <1>1, ResumeLemma, ResumeRc
  <1> HIDE DEF h
  <1>5. OnlyThread(w) /\ th'[w] = h
    BY <1>1, <1>4, BecomeLemma
  <1>6. entry'[x].mem = "freed" /\ \A y \in Entries : y # x => entry'[y] = entry[y]
    BY <1>1, <1>2 DEF ShapeInv
  <1>7. MemInv(w)'
    BY <1>1, <1>2, <1>3, <1>4, <1>5, <1>6 DEF Inv1, MemInv, Ending
  <1>8. TunInv(w)'
    <2> SUFFICES ASSUME NEW u \in Tunnels PROVE TunOf(w, u)'
      BY DEF TunInv
    <2>1. TunOf(w, u) /\ UNCHANGED tunnel
      BY <1>1 DEF Inv1, TunInv
    <2>2. One(Late(w, u))' = 0
      BY <1>4, <1>5 DEF One, Late
    <2>3. CASE u = U
      <3>1. Owed(w, u)' = Owed(w, u) \ {x}
        BY <1>1, <1>2, <1>4, <1>5, <1>6, <2>3 DEF Owed
      <3>2. /\ IsFiniteSet(Owed(w, u)) /\ Cardinality(Owed(w, u)) \in 0 .. 4
            /\ Cardinality(Owed(w, u) \ {x}) = Cardinality(Owed(w, u)) - 1
        BY <1>2, <2>3, OwedLemma, FS_RemoveElement
      <3>3. CASE tunnel[U].mem = "live"
        <4>1. tunnel[U].ref_count > 0 /\ tunnel[U].ref_count \in 0 .. 4
          BY <1>1, <2>1, <2>3, <3>3 DEF Inv1, LoadInv, TunOf
        <4>2. One(Late(w, u)) = 1
          BY <1>1, <2>3 DEF One, Late
        <4>3. tunnel[U].ref_count = Cardinality(Owed(w, u) \ {x})
          BY <2>1, <2>3, <3>2, <3>3, <4>1, <4>2 DEF TunOf
        <4>4. Owed(w, u) \ {x} # {}
          BY <4>1, <4>3, FS_EmptySet
        <4> QED
          BY <2>1, <2>2, <2>3, <3>1, <3>3, <4>1, <4>3, <4>4 DEF TunOf
      <3>4. CASE tunnel[U].mem # "live"
        <4>1. Owed(w, u) \ {x} = {}
          BY <1>2, <2>1, <2>3, <3>4 DEF TunOf
        <4> QED
          BY <2>1, <2>3, <3>1, <3>4, <4>1 DEF TunOf
      <3> QED
        BY <3>3, <3>4
    <2>4. CASE u # U
      <3>1. Owed(w, u)' = Owed(w, u)
        BY <1>1, <1>2, <1>4, <1>5, <1>6, <2>4 DEF Owed
      <3>2. One(Late(w, u)) = 0
        BY <2>4 DEF One, Late
      <3>3. Owed(w, u) # {x}
        BY <2>4 DEF Owed
      <3> QED
        BY <2>1, <2>2, <3>1, <3>2, <3>3 DEF TunOf
    <2> QED
      BY <2>3, <2>4
  <1>9. LoadInv(w)'
    BY <1>4, <1>5 DEF LoadInv
  <1> QED
    BY <1>1, <1>7, <1>8, <1>9 DEF FaultInv
-----------------------------------------------------------------------------
\* A Create Session Response of a known gateway.
LEMMA CreateStartOne ==
  ASSUME NEW w, Threads = {w}, Inv1(w), UNCHANGED KeyOf, NEW s \in Sessions, CreateStart(w, s)
  PROVE  MemInv(w)' /\ TunInv(w)' /\ LoadInv(w)' /\ FaultInv'
  <1> DEFINE n == arrived[s] + 1
             U == <<s, n>>
             x == <<s, n, "t4">>
             h == [IdleThread EXCEPT !.pc = "put", !.op = "create", !.sess = s,
                                     !.e = x, !.todo = KeyOrder]
             v == [mem |-> "live", ref_count |-> InitialRefs]
  <1>1. /\ ShapeInv /\ Become(w, h) /\ th[w].pc = "idle" /\ fault' = "none" /\ n <= Copies
        /\ tunnel' = [tunnel EXCEPT ![U] = v] /\ UNCHANGED <<chain, entry>>
    BY DEF CreateStart, At, Inv1, Inv
  <1>2. n \in 1 .. Copies
    BY <1>1, ConstantsLemma DEF ShapeInv
  <1>3. x \in Entries /\ U \in Tunnels /\ TunnelOf(x) = U
    BY <1>2, EntryLemma DEF Roles, Tunnels, TunnelOf
  <1>4. v.mem = "live" /\ v.ref_count = 4
    BY DEF InitialRefs
  <1> HIDE DEF v, x, U, n
  <1>5. /\ h \in Handlers /\ h.pc = "put" /\ h.held = NoEntry /\ h.todo = KeyOrder /\ h.e = x
    BY <1>3, IdleLemma, TodoLemma DEF Handlers
  <1>6. h.rc = 0
    BY DEF IdleThread
  <1> HIDE DEF h
  <1>7. OnlyThread(w) /\ th'[w] = h
    BY <1>1, <1>5, BecomeLemma
  <1>8. tunnel'[U] = v /\ \A u \in Tunnels : u # U => tunnel'[u] = tunnel[u]
    BY <1>1, <1>3 DEF ShapeInv
  <1>9. MemInv(w)'
    BY <1>1, <1>5, <1>7 DEF Inv1, MemInv, Ending
  <1>10. TunInv(w)'
    <2> SUFFICES ASSUME NEW u \in Tunnels PROVE TunOf(w, u)'
      BY DEF TunInv
    <2>1. One(Late(w, u))' = 0 /\ One(Late(w, u)) = 0
      BY <1>1, <1>5, <1>7 DEF One, Late
    <2>2. CASE u = U
      <3>1. Owed(w, u)' = {e \in Entries : TunnelOf(e) = u}
        <4>1. \A e \in Entries : e[3] \in ToSet(KeyOrder)
          BY EntryLemma, TodoLemma
        <4> QED
          BY <1>3, <1>5, <1>7, <2>2, <4>1 DEF Owed
      <3>2. Cardinality(Owed(w, u)') = 4
        BY <3>1, NodesLemma
      <3>3. Owed(w, u)' # {}
        BY <1>3, <2>2, <3>1
      <3> QED
        BY <1>4, <1>8, <2>1, <2>2, <3>2, <3>3 DEF TunOf
    <2>3. CASE u # U
      <3>1. Owed(w, u)' = Owed(w, u)
        BY <1>1, <1>3, <1>5, <1>7, <2>3 DEF Owed
      <3>2. tunnel'[u] = tunnel[u]
        BY <1>8, <2>3
      <3>3. TunOf(w, u) /\ th[w].pc # "efree"
        BY <1>1 DEF Inv1, TunInv
      <3> QED
        BY <2>1, <3>1, <3>2, <3>3 DEF TunOf
    <2> QED
      BY <2>2, <2>3
  <1>11. LoadInv(w)'
    BY <1>5, <1>6, <1>7 DEF LoadInv
  <1> QED
    BY <1>1, <1>9, <1>10, <1>11 DEF FaultInv

\* The response of an unknown gateway.
LEMMA CreateUnknownPgwOne ==
  ASSUME NEW w, Threads = {w}, Inv1(w), UNCHANGED KeyOf, NEW s \in Sessions,
         CreateUnknownPgw(w, s)
  PROVE  MemInv(w)' /\ TunInv(w)' /\ LoadInv(w)' /\ FaultInv'
  <1> DEFINE n == arrived[s] + 1
             U == <<s, n>>
             v == [mem |-> "orphan", ref_count |-> 0]
  <1>1. /\ ShapeInv /\ th[w].pc = "idle" /\ fault' = "none" /\ n <= Copies
        /\ tunnel' = [tunnel EXCEPT ![U] = v] /\ UNCHANGED <<chain, entry, th>>
    BY DEF CreateUnknownPgw, At, Inv1, Inv
  <1>2. n \in 1 .. Copies /\ arrived[s] < n
    BY <1>1, ConstantsLemma DEF ShapeInv
  <1>3. U \in Tunnels
    BY <1>2 DEF Tunnels
  <1>4. \A e \in Entries : TunnelOf(e) = U => entry[e].mem = "unused"
    <2> SUFFICES ASSUME NEW e \in Entries, TunnelOf(e) = U PROVE entry[e].mem = "unused"
      OBVIOUS
    <2>1. e = <<s, n, e[3]>> /\ e[3] \in Roles
      BY EntryLemma DEF TunnelOf
    <2>2. entry[<<s, n, e[3]>>].mem = "unused"
      BY <1>2, <2>1 DEF Inv1, Inv, OwnInv
    <2> QED
      BY <2>1, <2>2
  <1>5. v.mem = "orphan" /\ v.ref_count = 0
    OBVIOUS
  <1> HIDE DEF v, U, n
  <1>6. tunnel'[U] = v /\ \A u \in Tunnels : u # U => tunnel'[u] = tunnel[u]
    BY <1>1, <1>3 DEF ShapeInv
  <1>7. MemInv(w)'
    BY <1>1 DEF Inv1, MemInv, Linked, KeyOfEntry
  <1>8. TunInv(w)'
    <2> SUFFICES ASSUME NEW u \in Tunnels PROVE TunOf(w, u)'
      BY DEF TunInv
    <2>1. Owed(w, u)' = Owed(w, u) /\ One(Late(w, u))' = One(Late(w, u))
      BY <1>1 DEF Owed, One, Late
    <2>2. CASE u = U
      <3>1. Owed(w, u) = {}
        BY <1>1, <1>4, <2>2 DEF Owed
      <3> QED
        BY <1>5, <1>6, <2>1, <2>2, <3>1 DEF TunOf
    <2>3. CASE u # U
      <3>1. tunnel'[u] = tunnel[u] /\ UNCHANGED th
        BY <1>1, <1>6, <2>3
      <3>2. TunOf(w, u)
        BY DEF Inv1, TunInv
      <3> QED
        BY <2>1, <3>1, <3>2 DEF TunOf
    <2> QED
      BY <2>2, <2>3
  <1>9. LoadInv(w)'
    BY <1>1 DEF Inv1, LoadInv
  <1> QED
    BY <1>1, <1>7, <1>8, <1>9 DEF FaultInv

\* A map node is put in front of its chain.
LEMMA PutOne ==
  ASSUME NEW w, Threads = {w}, Inv1(w), UNCHANGED KeyOf, Put(w)
  PROVE  MemInv(w)' /\ TunInv(w)' /\ LoadInv(w)' /\ FaultInv'
  <1> DEFINE g == th[w]
             q == Head(g.todo)
             x == <<g.e[1], g.e[2], q>>
             h == [g EXCEPT !.todo = Tail(@)]
             v == [mem |-> "live", ref_count |-> 1]
  <1>1. /\ ShapeInv /\ Become(w, h) /\ g \in Handlers /\ g.pc = "put" /\ fault' = "none"
        /\ g.todo \in TodoSeqs \ {<<>>} /\ entry' = [entry EXCEPT ![x] = v]
        /\ UNCHANGED tunnel
    BY HandlerFields DEF Inv1, Inv, Put, At
  <1>2. g.held = NoEntry /\ g.sess \in Sessions
    BY <1>1 DEF Inv1, Inv, HandInv, HandOf
  <1>3. /\ q \in Roles /\ Tail(g.todo) \in TodoSeqs /\ q \in ToSet(g.todo)
        /\ ToSet(Tail(g.todo)) = ToSet(g.todo) \ {q}
    BY <1>1, TodoLemma
  <1>4. PICK n \in 1 .. arrived[g.sess] : g.e = <<g.sess, n, "t4">>
    BY <1>1 DEF Inv1, Inv, OwnInv
  <1>5. n \in 1 .. Copies
    BY <1>2, <1>4, ConstantsLemma DEF Inv1, Inv, ShapeInv
  <1>6. x = <<g.sess, n, q>> /\ x \in Entries
    BY <1>2, <1>3, <1>4, <1>5, EntryLemma
  <1>7. TunnelOf(x) = TunnelOf(g.e) /\ x[3] = q
    BY <1>4, <1>6 DEF TunnelOf
  <1>8. \A e \in Entries : TunnelOf(e) = TunnelOf(g.e) /\ e[3] = q => e = x
    BY <1>4, <1>6, EntryLemma DEF TunnelOf
  <1>9. v.mem = "live" /\ v.ref_count = 1
    OBVIOUS
  <1>10. /\ h \in Handlers /\ h.pc = "put" /\ h.held = NoEntry /\ h.e = g.e /\ h.rc = g.rc
         /\ h.todo = Tail(g.todo)
    BY <1>1, <1>2, <1>3 DEF Handlers
  <1> HIDE DEF v, x, h, q
  <1>11. OnlyThread(w) /\ th'[w] = h
    BY <1>1, <1>10, BecomeLemma
  <1>12. entry'[x] = v /\ \A y \in Entries : y # x => entry'[y] = entry[y]
    BY <1>1, <1>6 DEF ShapeInv
  <1>13. MemInv(w)'
    BY <1>1, <1>6, <1>9, <1>10, <1>11, <1>12 DEF Inv1, MemInv, Ending
  <1>14. TunInv(w)'
    <2> SUFFICES ASSUME NEW u \in Tunnels PROVE TunOf(w, u)'
      BY DEF TunInv
    <2>1. One(Late(w, u))' = 0 /\ One(Late(w, u)) = 0
      BY <1>1, <1>10, <1>11 DEF One, Late
    <2>2. Owed(w, u)' = Owed(w, u)
      <3>1. ASSUME NEW e \in Entries, TunnelOf(e) = u
            PROVE  (entry'[e].mem = "live" \/ (TunnelOf(g.e) = u /\ e[3] \in ToSet(h.todo)))
                     <=> (entry[e].mem = "live" \/ (TunnelOf(g.e) = u /\ e[3] \in ToSet(g.todo)))
        <4>1. CASE e = x
          BY <1>3, <1>7, <1>9, <1>12, <3>1, <4>1
        <4>2. CASE e # x
          <5>1. entry'[e] = entry[e]
            BY <1>12, <4>2
          <5>2. TunnelOf(g.e) = u => e[3] # q
            BY <1>8, <3>1, <4>2
          <5> QED
            BY <1>3, <1>10, <5>1, <5>2
        <4> QED
          BY <4>1, <4>2
      <3> QED
        BY <1>1, <1>10, <1>11, <3>1 DEF Owed
    <2>3. TunOf(w, u) /\ th[w].pc # "efree" /\ UNCHANGED tunnel
      BY <1>1 DEF Inv1, TunInv
    <2> QED
      BY <2>1, <2>2, <2>3 DEF TunOf
  <1>15. LoadInv(w)'
    BY <1>10, <1>11 DEF Inv1, LoadInv
  <1> QED
    BY <1>1, <1>13, <1>14, <1>15 DEF FaultInv

\* A step that stops the process, or none.
LEMMA StopOne ==
  ASSUME NEW w, Inv1(w), UNCHANGED <<KeyOf, chain, entry, tunnel, th>>, FaultInv'
  PROVE  MemInv(w)' /\ TunInv(w)' /\ LoadInv(w)' /\ FaultInv'
  <1>1. MemInv(w)'
    BY DEF Inv1, MemInv, Linked, KeyOfEntry
  <1>2. TunInv(w)'
    <2> SUFFICES ASSUME NEW u \in Tunnels PROVE TunOf(w, u)'
      BY DEF TunInv
    <2>1. Owed(w, u)' = Owed(w, u) /\ One(Late(w, u))' = One(Late(w, u))
      BY DEF Owed, One, Late
    <2>2. TunOf(w, u)
      BY DEF Inv1, TunInv
    <2> QED
      BY <2>1, <2>2 DEF TunOf
  <1>3. LoadInv(w)'
    BY DEF Inv1, LoadInv
  <1> QED
    BY <1>1, <1>2, <1>3

\* Nothing is used after it was freed.
LEMMA UseFreedOne ==
  ASSUME NEW w, Threads = {w}, Inv1(w)
  PROVE  ~UseFreed(w)
  <1> SUFFICES ASSUME UseFreed(w) PROVE FALSE
    OBVIOUS
  <1> DEFINE g == th[w]
             U == TunnelOf(g.e)
  <1>1. g.pc \in {"ref", "remove", "read", "unref", "efree", "tload", "tstore", "ttest", "tfree"}
    BY DEF UseFreed, At
  <1>2. g.e \in Entries
    BY <1>1 DEF Inv1, Inv, HandInv, HandOf
  <1>3. entry[g.e].mem = "live"
    <2>1. CASE g.pc \in {"ref", "remove"}
      <3>1. KeyOfEntry(g.e) \in Keys
        BY <1>2, KeyLemma DEF Inv1, Inv
      <3>2. g.e \in ToSet(chain[KeyOfEntry(g.e)])
        BY <2>1 DEF Inv1, MemInv, Linked
      <3> QED
        BY <3>1, <3>2 DEF Inv1, Inv, ChainInv
    <2>2. CASE g.pc \notin {"ref", "remove"}
      BY <1>1, <2>2 DEF Inv1, MemInv, Ending
    <2> QED
      BY <2>1, <2>2
  <1>4. g.pc \in {"read", "tload", "tstore", "ttest", "tfree"} /\ tunnel[U].mem = "freed"
    BY <1>3 DEF UseFreed, At
  <1>5. U \in Tunnels /\ g.e \in Owed(w, U)
    BY <1>2, <1>3, TunnelOfLemma DEF Owed
  <1> QED
    BY <1>4, <1>5 DEF Inv1, TunInv, TunOf

\* A node that is to be removed is in the map: cmap_remove() finds it.
LEMMA RemoveMissingOne ==
  ASSUME NEW w, Threads = {w}, Inv1(w)
  PROVE  ~RemoveMissing(w) /\ ~RemoveWalksOff(w)
  <1> SUFFICES ASSUME th[w].pc = "remove"
               PROVE  /\ chain[KeyOfEntry(th[w].e)] # <<>>
                      /\ th[w].e \in ToSet(chain[KeyOfEntry(th[w].e)])
    BY DEF RemoveMissing, RemoveWalksOff, At
  <1>1. th[w].e \in ToSet(chain[KeyOfEntry(th[w].e)])
    BY DEF Inv1, MemInv, Linked
  <1> QED
    BY <1>1, TodoLemma
-----------------------------------------------------------------------------
(* The theorems.                                                           *)

\* No thread has a packet and nothing is allocated.
LEMMA InitOne ==
  ASSUME NEW w, Threads = {w}, Init
  PROVE  Inv1(w)
  <1>1. Inv
    BY InitLemma
  <1>2. th[w] = IdleThread /\ fault = "none" /\ victim = "none"
    BY DEF Init
  <1>3. \A e \in Entries : entry[e].mem = "unused"
    BY DEF Init
  <1>4. \A u \in Tunnels : tunnel[u].mem = "unused" /\ tunnel[u].ref_count = 0
    BY DEF Init
  <1>5. MemInv(w)
    BY <1>2, <1>3, IdleLemma DEF MemInv, Ending
  <1>6. TunInv(w)
    <2> SUFFICES ASSUME NEW u \in Tunnels PROVE TunOf(w, u)
      BY DEF TunInv
    <2>1. Owed(w, u) = {}
      BY <1>2, <1>3, IdleLemma DEF Owed
    <2> QED
      BY <1>4, <2>1 DEF TunOf
  <1>7. LoadInv(w)
    <2>1. IdleThread.rc = 0
      BY DEF IdleThread
    <2> QED
      BY <1>2, <2>1, IdleLemma DEF LoadInv
  <1> QED
    BY <1>1, <1>2, <1>5, <1>6, <1>7 DEF Inv1, FaultInv

\* Every step of w.
LEMMA NextOne ==
  ASSUME NEW w, Threads = {w}, Inv1(w), [Next]_vars
  PROVE  Inv1(w)'
  <1> DEFINE G == MemInv(w)' /\ TunInv(w)' /\ LoadInv(w)' /\ FaultInv'
  <1>1. Inv'
    BY NextLemma DEF Inv1
  <1>2. CASE UNCHANGED vars
    <2>1. UNCHANGED <<KeyOf, chain, entry, tunnel, fault, victim, th>>
      BY <1>2 DEF vars
    <2>2. FaultInv'
      BY <2>1 DEF Inv1, FaultInv
    <2>3. G
      BY <2>1, <2>2, StopOne
    <2> QED
      BY <1>1, <2>3 DEF Inv1
  <1>3. CASE Next
    <2>1. UNCHANGED KeyOf
      BY <1>3 DEF Next
    <2>2. Create(w) \/ Lookup(w) \/ Delete(w) \/ GiveUp(w)
      BY <1>3 DEF Next
    <2>3. ASSUME NEW kind \in {"null", "wild"}, NEW s \in Sessions, Fails(kind, s) PROVE G
      <3>1. FaultInv'
        BY <2>3 DEF FaultInv, Fails
      <3> QED
        BY <2>1, <2>3, <3>1, StopOne DEF Fails
    <2>4. ASSUME Create(w) PROVE G
      BY <2>1, <2>4, CreateStartOne, CreateUnknownPgwOne, PutOne, CreateEndOne DEF Create
    <2>5. ASSUME Lookup(w) PROVE G
      BY <2>1, <2>5, LookupStartOne, RefOne, ReadOne DEF Lookup
    <2>6. ASSUME Delete(w) PROVE G
      <3>0. DelMissWild(w) => th[w].sess \in Sessions
        BY DEF DelMissWild, At, Inv1, Inv, HandInv, HandOf
      <3>1. /\ DelMissWild(w) => Fails("wild", th[w].sess)
            /\ \A s \in Sessions : DeleteUnknown(w, s) => Fails("null", s)
        BY DEF DelMissWild, DeleteUnknown
      <3> HIDE DEF G
      <3>2. DelMissWild(w) \/ (\E s \in Sessions : DeleteUnknown(w, s)) => G
        BY <2>3, <3>0, <3>1
      <3>3. (\E s \in Sessions : DeleteStart(w, s)) \/ DelFind(w) \/ DelMissNull(w)
              \/ CmapRemove(w) \/ DelHeld(w) => G
        BY <2>1, DeleteStartOne, DelFindOne, DelMissNullOne, CmapRemoveOne, DelHeldOne DEF G
      <3> QED
        BY <2>6, <3>2, <3>3, RemoveMissingOne DEF Delete
    <2>7. ASSUME GiveUp(w) PROVE G
      BY <2>1, <2>7, UnrefOne, TunnelLoadOne, TunnelStoreOne, TunnelTestOne,
         TunnelFreeOne, EntryFreeOne, UseFreedOne DEF GiveUp
    <2>8. G
      BY <2>2, <2>4, <2>5, <2>6, <2>7
    <2> QED
      BY <1>1, <2>8 DEF Inv1
  <1> QED
    BY <1>2, <1>3

\* The inductive invariant holds at every moment, with one thread.
THEOREM OneInvariance == ASSUME NEW w, Threads = {w} PROVE Spec => []Inv1(w)
  <1>1. Init => Inv1(w)
    BY InitOne
  <1>2. Inv1(w) /\ [Next]_vars => Inv1(w)'
    BY NextOne
  <1> QED
    BY <1>1, <1>2, PTL DEF Spec

\* With one upcall thread no map node and no tunnel node is used after it was freed, whatever
\* keys the sessions share and however often their responses come.
THEOREM NoDangling == ASSUME NEW w, Threads = {w} PROVE Spec => []NoUseAfterFree
  <1>1. Inv1(w) => NoUseAfterFree
    BY DEF Inv1, FaultInv, NoUseAfterFree
  <1> QED
    BY <1>1, OneInvariance, PTL

\* With one upcall thread, when no handler runs, what is allocated is what the maps reach, and
\* a tunnel node counts the map nodes that refer to it.
THEOREM Accounted == ASSUME NEW w, Threads = {w} PROVE Spec => []RestAccounted
  <1>1. Inv1(w) => RestAccounted
    <2> SUFFICES ASSUME Inv1(w), AtRest PROVE RestAccounted
      BY DEF RestAccounted
    <2>1. th[w].pc = "idle" /\ th[w] = IdleThread
      BY DEF AtRest, Inv1, Inv, HandInv, HandOf
    <2>2. ASSUME NEW e \in Entries
          PROVE  entry[e].mem = "live" <=> Linked(e) /\ entry[e].ref_count = 1
      <3>1. Keepers(e) = {} /\ Users(e) = {}
        BY <2>1, IdleLemma, EntryLemma DEF Keepers, Users
      <3>2. Cardinality(Keepers(e)) = 0 /\ Cardinality(Users(e)) = 0
        BY <3>1, FS_EmptySet
      <3>3. entry[e].mem = "live" => entry[e].ref_count = IF Linked(e) THEN 1 ELSE 0
        BY <3>2 DEF Inv1, Inv, EntryRefsExact
      <3>4. entry[e].mem = "live" => entry[e].ref_count # 0
        BY <2>1 DEF Inv1, MemInv, Ending
      <3>5. Linked(e) => entry[e].mem = "live"
        <4>1. KeyOfEntry(e) \in Keys
          BY KeyLemma DEF Inv1, Inv
        <4> QED
          BY <4>1 DEF Inv1, Inv, ChainInv, Linked
      <3> QED
        BY <3>3, <3>4, <3>5
    <2>3. ASSUME NEW u \in Tunnels
          PROVE  LET users == {e \in Entries : TunnelOf(e) = u /\ entry[e].mem = "live"}
                 IN  /\ users # {} => /\ tunnel[u].mem = "live"
                                      /\ tunnel[u].ref_count = Cardinality(users)
                     /\ tunnel[u].mem = "live" => users # {}
      <3> DEFINE users == {e \in Entries : TunnelOf(e) = u /\ entry[e].mem = "live"}
      <3>1. Owed(w, u) = users
        BY <2>1 DEF Owed
      <3>2. One(Late(w, u)) = 0
        BY <2>1 DEF One, Late
      <3>3. TunOf(w, u)
        BY DEF Inv1, TunInv
      <3> HIDE DEF users
      <3>4. /\ users # {} => tunnel[u].mem = "live"
            /\ tunnel[u].mem = "live" => tunnel[u].ref_count = Cardinality(users) /\ users # {}
        BY <2>1, <3>1, <3>2, <3>3 DEF TunOf
      <3> QED
        BY <3>4 DEF users
    <2> QED
      BY <2>2, <2>3 DEF RestAccounted
  <1> QED
    BY <1>1, OneInvariance, PTL

\* What is left of the four roles is an end of KeyOrder.
LEMMA SuffixLemma ==
  \A q \in TodoSeqs : q \in {SubSeq(KeyOrder, i, 4) : i \in 1 .. 5}
  <1>1. KeyOrder \in Seq(Roles) /\ Len(KeyOrder) = 4
    BY DEF KeyOrder, Roles
  <1>2. KeyOrder[1] = "t4" /\ KeyOrder[2] = "t5" /\ KeyOrder[3] = "ueip" /\ KeyOrder[4] = "t2"
    BY DEF KeyOrder
  <1>3. ASSUME NEW i \in 1 .. 4
        PROVE  LET p == SubSeq(KeyOrder, i, 4) IN
               /\ p \in Seq(Roles) /\ Len(p) = 5 - i
               /\ \A j \in 1 .. 5 - i : p[j] = KeyOrder[i + j - 1]
    <2> DEFINE p == SubSeq(KeyOrder, i, 4)
    <2>1. \A j \in i .. 4 : KeyOrder[j] \in Roles
      <3>1. \A j \in i .. 4 : j = 1 \/ j = 2 \/ j = 3 \/ j = 4
        OBVIOUS
      <3> QED
        BY <1>2, <3>1 DEF Roles
    <2>2. /\ p \in Seq(Roles) /\ Len(p) = IF i <= 4 THEN 4 - i + 1 ELSE 0
          /\ \A j \in 1 .. 4 - i + 1 : p[j] = KeyOrder[i + j - 1]
      BY <2>1, SubSeqProperties
    <2> HIDE DEF p
    <2>3. Len(p) = 5 - i /\ 4 - i + 1 = 5 - i
      BY <2>2
    <2>4. p \in Seq(Roles) /\ \A j \in 1 .. 5 - i : p[j] = KeyOrder[i + j - 1]
      BY <2>2, <2>3
    <2> QED
      BY <2>3, <2>4 DEF p
  <1>4. SubSeq(KeyOrder, 1, 4) = <<"t4", "t5", "ueip", "t2">>
    <2> DEFINE p == SubSeq(KeyOrder, 1, 4)
               q == <<"t4", "t5", "ueip", "t2">>
    <2>1. /\ p \in Seq(Roles) /\ Len(p) = 4
          /\ p[1] = KeyOrder[1] /\ p[2] = KeyOrder[2] /\ p[3] = KeyOrder[3] /\ p[4] = KeyOrder[4]
      BY <1>1, <1>3
    <2>2. /\ q \in Seq(Roles) /\ Len(q) = 4
          /\ q[1] = "t4" /\ q[2] = "t5" /\ q[3] = "ueip" /\ q[4] = "t2"
      BY DEF Roles
    <2> HIDE DEF p, q
    <2>3. \A j \in 1 .. Len(p) : p[j] = q[j]
      <3>1. \A j \in 1 .. 4 : j = 1 \/ j = 2 \/ j = 3 \/ j = 4
        OBVIOUS
      <3> QED
        BY <1>2, <2>1, <2>2, <3>1
    <2>4. p = q
      BY <2>1, <2>2, <2>3, SeqEqual
    <2> QED
      BY <2>4 DEF p, q
  <1>5. SubSeq(KeyOrder, 2, 4) = <<"t5", "ueip", "t2">>
    <2> DEFINE p == SubSeq(KeyOrder, 2, 4)
               q == <<"t5", "ueip", "t2">>
    <2>1. /\ p \in Seq(Roles) /\ Len(p) = 3
          /\ p[1] = KeyOrder[2] /\ p[2] = KeyOrder[3] /\ p[3] = KeyOrder[4]
      BY <1>1, <1>3
    <2>2. /\ q \in Seq(Roles) /\ Len(q) = 3
          /\ q[1] = "t5" /\ q[2] = "ueip" /\ q[3] = "t2"
      BY DEF Roles
    <2> HIDE DEF p, q
    <2>3. \A j \in 1 .. Len(p) : p[j] = q[j]
      <3>1. \A j \in 1 .. 3 : j = 1 \/ j = 2 \/ j = 3
        OBVIOUS
      <3> QED
        BY <1>2, <2>1, <2>2, <3>1
    <2>4. p = q
      BY <2>1, <2>2, <2>3, SeqEqual
    <2> QED
      BY <2>4 DEF p, q
  <1>6. SubSeq(KeyOrder, 3, 4) = <<"ueip", "t2">>
    <2> DEFINE p == SubSeq(KeyOrder, 3, 4)
               q == <<"ueip", "t2">>
    <2>1. p \in Seq(Roles) /\ Len(p) = 2 /\ p[1] = KeyOrder[3] /\ p[2] = KeyOrder[4]
      BY <1>1, <1>3
    <2>2. q \in Seq(Roles) /\ Len(q) = 2 /\ q[1] = "ueip" /\ q[2] = "t2"
      BY DEF Roles
    <2> HIDE DEF p, q
    <2>3. \A j \in 1 .. Len(p) : p[j] = q[j]
      <3>1. \A j \in 1 .. 2 : j = 1 \/ j = 2
        OBVIOUS
      <3> QED
        BY <1>2, <2>1, <2>2, <3>1
    <2>4. p = q
      BY <2>1, <2>2, <2>3, SeqEqual
    <2> QED
      BY <2>4 DEF p, q
  <1>7. SubSeq(KeyOrder, 4, 4) = <<"t2">>
    <2> DEFINE p == SubSeq(KeyOrder, 4, 4)
               q == <<"t2">>
    <2>1. p \in Seq(Roles) /\ Len(p) = 1 /\ p[1] = KeyOrder[4]
      BY <1>1, <1>3
    <2>2. q \in Seq(Roles) /\ Len(q) = 1 /\ q[1] = "t2"
      BY DEF Roles
    <2> HIDE DEF p, q
    <2>3. \A j \in 1 .. Len(p) : p[j] = q[j]
      <3>1. \A j \in 1 .. 1 : j = 1
        OBVIOUS
      <3> QED
        BY <1>2, <2>1, <2>2, <3>1
    <2>4. p = q
      BY <2>1, <2>2, <2>3, SeqEqual
    <2> QED
      BY <2>4 DEF p, q
  <1>8. SubSeq(KeyOrder, 5, 4) = <<>>
    BY DEF KeyOrder
  <1>9. \A i \in {1, 2, 3, 4, 5} :
          SubSeq(KeyOrder, i, 4) \in {SubSeq(KeyOrder, j, 4) : j \in 1 .. 5}
    OBVIOUS
  <1> QED
    BY <1>4, <1>5, <1>6, <1>7, <1>8, <1>9 DEF TodoSeqs

\* The session whose handler stopped the process.
VictimInv == victim \in Sessions \cup {"none"}

\* Every step of every thread.
LEMMA VictimStep ==
  ASSUME ShapeInv, VictimInv, [Next]_vars
  PROVE  VictimInv'
  <1>1. CASE UNCHANGED vars
    BY <1>1 DEF vars, VictimInv
  <1>2. ASSUME NEW t \in Threads, Create(t) \/ Lookup(t) PROVE VictimInv'
    BY <1>2 DEF Create, Lookup, CreateStart, CreateUnknownPgw, Put, CreateEnd, LookupStart,
       Ref, Read, VictimInv
  <1>3. ASSUME NEW t \in Threads, Delete(t) PROVE VictimInv'
    <2>1. th[t].sess \in Sessions \cup {"none"}
      BY HandlerFields
    <2> QED
      BY <1>3, <2>1 DEF Delete, DeleteStart, DeleteUnknown, DelFind, DelMissNull, DelMissWild,
         CmapRemove, RemoveMissing, RemoveWalksOff, DelHeld, Fails, VictimInv
  <1>4. ASSUME NEW t \in Threads, GiveUp(t) PROVE VictimInv'
    <2>1. th[t].sess \in Sessions \cup {"none"}
      BY HandlerFields
    <2> QED
      BY <1>4, <2>1 DEF GiveUp, Unref, TunnelLoad, TunnelStore, TunnelTest, TunnelFree,
         EntryFree, UseFreed, Fails, VictimInv
  <1> QED
    BY <1>1, <1>2, <1>3, <1>4 DEF Next

\* With one upcall thread the count of a tunnel node stays between 0 and 4, and every chain
\* holds each map node at most once.
THEOREM TunnelTypes == ASSUME NEW w, Threads = {w} PROVE Spec => []TypeOK
  <1>1. Inv1(w) /\ VictimInv => TypeOK
    <2> SUFFICES ASSUME Inv1(w), VictimInv PROVE TypeOK
      OBVIOUS
    <2>1. /\ KeyOf \in KeyMaps /\ arrived \in [Sessions -> 0 .. Copies]
          /\ known \in SUBSET Sessions /\ deleted \in [Sessions -> 0 .. Copies]
      BY DEF Inv1, Inv, ShapeInv
    <2>2. \A k \in Keys : ToSet(chain[k]) \subseteq Entries /\ IsInjective(chain[k])
      BY DEF Inv1, Inv, ShapeInv, ChainInv, ToSet
    <2>3. entry \in [Entries -> [mem : {"unused", "live", "freed"}, ref_count : Nat]]
      <3>1. \A e \in Entries : entry[e] \in [mem : {"unused", "live", "freed"}, ref_count : Nat]
        BY DEF Inv1, Inv, ShapeInv, MemInv, Mems
      <3> QED
        BY <3>1 DEF Inv1, Inv, ShapeInv
    <2>4. tunnel \in [Tunnels -> [mem : {"unused", "live", "freed", "orphan"},
                                  ref_count : 0 .. 4]]
      <3>1. \A u \in Tunnels : tunnel[u] \in [mem : Mems, ref_count : Int]
                               /\ tunnel[u].ref_count \in 0 .. 4
        BY DEF Inv1, Inv, ShapeInv, TunInv, TunOf
      <3>2. \A u \in Tunnels : tunnel[u] \in [mem : {"unused", "live", "freed", "orphan"},
                                              ref_count : 0 .. 4]
        BY <3>1 DEF Mems
      <3> QED
        BY <3>2 DEF Inv1, Inv, ShapeInv
    <2>5. /\ fault \in {"none", "null", "wild", "assert", "walk", "use_after_free"}
          /\ victim \in Sessions \cup {"none"}
      BY DEF Inv1, FaultInv, VictimInv
    <2>6. th \in [Threads -> ThreadStates]
      <3>1. th[w] \in Handlers /\ th[w].rc \in 0 .. 4
        BY HandlerFields DEF Inv1, Inv, LoadInv
      <3>2. th[w] \in ThreadStates
        BY <3>1, SuffixLemma DEF Handlers, ThreadStates
      <3> QED
        BY <3>2 DEF Inv1, Inv, ShapeInv
    <2> QED
      BY <2>1, <2>2, <2>3, <2>4, <2>5, <2>6 DEF TypeOK
  <1>2. Init => VictimInv
    BY DEF Init, VictimInv
  <1>3. Inv1(w) /\ VictimInv /\ [Next]_vars => VictimInv'
    BY VictimStep DEF Inv1, Inv
  <1> QED
    BY <1>1, <1>2, <1>3, OneInvariance, PTL DEF Spec
-----------------------------------------------------------------------------
(* Sessions with keys of their own.                                        *)

\* The nodes of a session are in the order of its Create Session Responses, the newest
\* first.
OrderInv ==
  \A k \in Keys : \A i, j \in DOMAIN chain[k] :
    i < j /\ chain[k][i][1] = chain[k][j][1] => chain[k][j][2] <= chain[k][i][2]

\* w is creating or deleting session s.
Creating(w, s) == th[w].pc = "put" /\ th[w].sess = s
Deleting(w, s) == th[w].op = "delete" /\ th[w].sess = s /\ th[w].held # NoEntry

\* The responses that have set session s up, or are doing so, less the one that is being
\* undone.
Kept(w, s) ==
  {n \in 1 .. Copies :
     /\ \/ \E r \in Roles : Linked(<<s, n, r>>)
        \/ Creating(w, s) /\ n = th[w].e[2]
     /\ ~(Deleting(w, s) /\ n = th[w].held[2])}

Made(s) == {n \in 1 .. arrived[s] : tunnel[<<s, n>>].mem # "orphan"}

\* What is left of response n of session s: one node at the key of each role still to be
\* deleted.  If keys of the session coincide it may be the node of another role: f says
\* which.
MatchOf(h, s, n, f) ==
  /\ \A q, r \in ToSet(h.todo) : f[q] = f[r] => q = r
  /\ \A r \in ToSet(h.todo) : KeyOf[s][f[r]] = KeyOf[s][r]
  /\ h.pc = "remove" => /\ h.e[1] = s /\ h.e[2] = n
                        /\ \A r \in ToSet(h.todo) : f[r] # h.e[3]
  /\ \A q \in Roles : Linked(<<s, n, q>>) <=>
       \/ \E r \in ToSet(h.todo) : q = f[r]
       \/ h.pc = "remove" /\ q = h.e[3]

LeftOf(h, s, n) ==
  IF h.pc \in {"ref", "read"} THEN \A r \in Roles : Linked(<<s, n, r>>)
                              ELSE \E f \in [Roles -> Roles] : MatchOf(h, s, n, f)

BalanceOf(w, s) ==
  /\ Cardinality(Kept(w, s)) + deleted[s] = Cardinality(Made(s))
  /\ \A n \in Kept(w, s) : ~(Creating(w, s) /\ n = th[w].e[2]) =>
       \A r \in Roles : Linked(<<s, n, r>>)
  /\ Creating(w, s) =>
       \A r \in Roles : Linked(<<s, th[w].e[2], r>>) <=> r \notin ToSet(th[w].todo)
  /\ Deleting(w, s) =>
       /\ th[w].held[1] = s
       /\ \A n \in Kept(w, s) : n < th[w].held[2]
       /\ LeftOf(th[w], s, th[w].held[2])

BalanceInv(w) == \A s \in Sessions : Apart(s) => BalanceOf(w, s)

\* A session is created after all its former creations, and is known when it is deleted.
StageInv(w) ==
  /\ th[w].pc = "put" => th[w].e[2] = arrived[th[w].sess]
  /\ th[w].op = "delete" => th[w].sess \in known

Inv2(w) == Inv1(w) /\ OrderInv /\ StageInv(w) /\ BalanceInv(w) /\ FaultsExplained
-----------------------------------------------------------------------------
\* What is linked when nothing changes.
LEMMA SameLinked ==
  ASSUME UNCHANGED <<KeyOf, chain>>
  PROVE  \A e : Linked(e)' <=> Linked(e)
  BY DEF Linked, KeyOfEntry

\* The node that is put, and the order it keeps.
LEMMA PutLinked ==
  ASSUME NEW w, Threads = {w}, Inv1(w), StageInv(w), OrderInv, UNCHANGED KeyOf, Put(w)
  PROVE  LET x == <<th[w].e[1], th[w].e[2], Head(th[w].todo)>> IN
         /\ x \in Entries /\ ~Linked(x)
         /\ th[w].e[1] = th[w].sess /\ th[w].sess \in Sessions
         /\ th[w].e[2] \in 1 .. arrived[th[w].sess]
         /\ th[w].todo \in TodoSeqs \ {<<>>}
         /\ \A e \in Entries : Linked(e)' <=> Linked(e) \/ e = x
         /\ OrderInv'
  <1> DEFINE g == th[w]
             x == <<g.e[1], g.e[2], Head(g.todo)>>
             k == KeyOfEntry(x)
  <1>1. /\ ShapeInv /\ ChainInv /\ OwnInv /\ HandInv /\ g.pc = "put" /\ g.todo # <<>>
        /\ g.todo \in TodoSeqs /\ w \in Threads
        /\ chain' = [chain EXCEPT ![k] = <<x>> \o @]
    BY HandlerFields DEF Inv1, Inv, Put, At
  <1>2. g.sess \in Sessions
    BY <1>1 DEF HandInv, HandOf
  <1>3. PICK n \in 1 .. arrived[g.sess] : g.e = <<g.sess, n, "t4">>
    BY <1>1 DEF OwnInv
  <1>4. /\ g.e[1] = g.sess /\ g.e[2] = n /\ n \in 1 .. Copies
        /\ arrived[g.sess] \in 0 .. Copies
    BY <1>1, <1>2, <1>3, ConstantsLemma DEF ShapeInv
  <1>5. Head(g.todo) \in Roles /\ Head(g.todo) \in ToSet(g.todo)
    BY <1>1, TodoLemma
  <1>6. x \in Entries /\ entry[x].mem = "unused" /\ x[1] = g.sess /\ x[2] = n
    BY <1>1, <1>2, <1>4, <1>5, EntryLemma DEF OwnInv
  <1>7. k \in Keys
    BY <1>1, <1>6, KeyLemma
  <1>8. ~Linked(x)
    BY <1>1, <1>6, <1>7 DEF Linked, ChainInv
  <1> HIDE DEF x
  <1>9. /\ chain \in [Keys -> Seq(Entries)] /\ IsInjective(chain[k]) /\ x \notin ToSet(chain[k])
    BY <1>1, <1>7, <1>8 DEF ShapeInv, ChainInv, Linked
  <1> DEFINE p == <<x>> \o chain[k]
  <1>10. ToSet(p) = ToSet(chain[k]) \cup {x}
    BY <1>6, <1>7, <1>9, ConsLemma
  <1>11. chain'[k] = p /\ \A l \in Keys : l # k => chain'[l] = chain[l]
    BY <1>1, <1>7, <1>9
  <1>12. \A e \in Entries : Linked(e)' <=> Linked(e) \/ e = x
    <2> SUFFICES ASSUME NEW e \in Entries PROVE Linked(e)' <=> Linked(e) \/ e = x
      OBVIOUS
    <2>1. KeyOfEntry(e)' = KeyOfEntry(e) /\ KeyOfEntry(e) \in Keys
      BY <1>1, KeyLemma DEF KeyOfEntry
    <2>2. CASE KeyOfEntry(e) = k
      BY <1>10, <1>11, <2>1, <2>2 DEF Linked
    <2>3. CASE KeyOfEntry(e) # k
      BY <1>11, <2>1, <2>3 DEF Linked
    <2> QED
      BY <2>2, <2>3
  <1>13. OrderInv'
    <2> SUFFICES ASSUME NEW l \in Keys, NEW i \in DOMAIN chain'[l], NEW j \in DOMAIN chain'[l],
                        i < j, chain'[l][i][1] = chain'[l][j][1]
                 PROVE  chain'[l][j][2] <= chain'[l][i][2]
      BY DEF OrderInv
    <2>1. CASE l # k
      BY <1>11, <2>1 DEF OrderInv
    <2>2. CASE l = k
      <3>1. /\ p \in Seq(Entries) /\ p[1] = x /\ Len(p) = Len(chain[k]) + 1
            /\ \A m \in 1 .. Len(chain[k]) : p[m + 1] = chain[k][m]
            /\ DOMAIN chain[k] = 1 .. Len(chain[k]) /\ Len(chain[k]) \in Nat
        BY <1>6, <1>7, <1>9
      <3>2. i \in 1 .. Len(chain[k]) + 1 /\ j \in 1 .. Len(chain[k]) + 1
        BY <1>11, <2>2, <3>1
      <3> HIDE DEF p
      <3>3. j - 1 \in DOMAIN chain[k] /\ p[j] = chain[k][j - 1]
        BY SMTT(30), <3>1, <3>2
      <3>4. CASE i = 1
        <4>1. chain[k][j - 1] \in Entries /\ chain[k][j - 1] \in ToSet(chain[k])
          BY <1>7, <1>9, <3>3 DEF ToSet
        <4> DEFINE y == chain[k][j - 1]
        <4>2. entry[y].mem = "live" /\ y[1] = g.sess
          BY <1>1, <1>6, <1>7, <1>11, <2>2, <3>1, <3>3, <3>4, <4>1 DEF ChainInv
        <4>3. y[2] \in 1 .. Copies /\ y = <<y[1], y[2], y[3]>> /\ y[3] \in Roles
          BY <4>1, EntryLemma
        <4>4. y[2] <= arrived[g.sess]
          <5> HIDE DEF y
          <5>1. y = <<g.sess, y[2], y[3]>>
            BY <4>2, <4>3
          <5>2. ~(arrived[g.sess] < y[2])
            BY <1>1, <1>2, <4>2, <4>3, <5>1 DEF OwnInv
          <5> QED
            BY <1>4, <4>3, <5>2
        <4>5. n = arrived[g.sess]
          BY <1>1, <1>4 DEF StageInv
        <4> QED
          BY <1>6, <1>11, <2>2, <3>1, <3>3, <3>4, <4>4, <4>5
      <3>5. CASE i # 1
        <4>1. i - 1 \in DOMAIN chain[k] /\ p[i] = chain[k][i - 1] /\ i - 1 < j - 1
          BY SMTT(30), <3>1, <3>2, <3>5
        <4> QED
          BY <1>7, <1>11, <2>2, <3>3, <4>1 DEF OrderInv
      <3> QED
        BY <3>4, <3>5
    <2> QED
      BY <2>1, <2>2
  <1> QED
    BY <1>1, <1>2, <1>4, <1>6, <1>8, <1>12, <1>13 DEF x

\* The node that is removed.
LEMMA RemoveLinked ==
  ASSUME NEW w, Threads = {w}, Inv1(w), OrderInv, UNCHANGED KeyOf, CmapRemove(w)
  PROVE  /\ th[w].e \in Entries
         /\ \A e \in Entries : Linked(e)' <=> Linked(e) /\ e # th[w].e
         /\ OrderInv'
  <1> DEFINE x == th[w].e
             k == KeyOfEntry(x)
  <1>1. ShapeInv /\ ChainInv /\ HandInv /\ th[w].pc = "remove" /\ w \in Threads
    BY DEF Inv1, Inv, CmapRemove, At
  <1>2. x \in Entries
    BY <1>1 DEF HandInv, HandOf
  <1>3. k \in Keys
    BY <1>1, <1>2, KeyLemma
  <1>4. PICK i \in DOMAIN chain[k] :
          /\ chain[k][i] = x /\ chain' = [chain EXCEPT ![k] = RemoveAt(@, i)]
    BY DEF CmapRemove
  <1>5. chain \in [Keys -> Seq(Entries)] /\ IsInjective(chain[k])
    BY <1>1, <1>3 DEF ShapeInv, ChainInv
  <1> HIDE DEF x, k
  <1> DEFINE p == RemoveAt(chain[k], i)
  <1>6. ToSet(p) = ToSet(chain[k]) \ {x}
    BY <1>3, <1>4, <1>5, RemoveAtLemma
  <1>7. chain'[k] = p /\ \A l \in Keys : l # k => chain'[l] = chain[l]
    BY <1>3, <1>4, <1>5
  <1>8. \A e \in Entries : Linked(e)' <=> Linked(e) /\ e # x
    <2> SUFFICES ASSUME NEW e \in Entries PROVE Linked(e)' <=> Linked(e) /\ e # x
      OBVIOUS
    <2>1. KeyOfEntry(e)' = KeyOfEntry(e) /\ KeyOfEntry(e) \in Keys
      BY <1>1, KeyLemma DEF KeyOfEntry
    <2>2. CASE KeyOfEntry(e) = k
      BY <1>6, <1>7, <2>1, <2>2 DEF Linked
    <2>3. CASE KeyOfEntry(e) # k
      BY <1>7, <2>1, <2>3 DEF Linked, k
    <2> QED
      BY <2>2, <2>3
  <1>9. OrderInv'
    <2> SUFFICES ASSUME NEW l \in Keys, NEW a \in DOMAIN chain'[l], NEW b \in DOMAIN chain'[l],
                        a < b, chain'[l][a][1] = chain'[l][b][1]
                 PROVE  chain'[l][b][2] <= chain'[l][a][2]
      BY DEF OrderInv
    <2>1. CASE l # k
      BY <1>7, <2>1 DEF OrderInv
    <2>2. CASE l = k
      <3> DEFINE q == chain[k]
                 up(m) == IF m < i THEN m ELSE m + 1
      <3>1. q \in Seq(Entries) /\ DOMAIN q = 1 .. Len(q) /\ Len(q) \in Nat
        BY <1>3, <1>5
      <3>2. /\ DOMAIN p = 1 .. Len(q) - 1
            /\ \A j \in DOMAIN p : /\ j < i => j \in DOMAIN q /\ p[j] = q[j]
                                   /\ i <= j => j + 1 \in DOMAIN q /\ p[j] = q[j + 1]
        BY SMTT(30), <1>4, <3>1, RemoveAtPlaces
      <3>3. a \in DOMAIN p /\ b \in DOMAIN p /\ a \in Int /\ b \in Int /\ i \in Int
        BY <1>4, <1>7, <2>2, <3>1, <3>2
      <3> HIDE DEF p
      <3>4. up(a) \in DOMAIN q /\ p[a] = q[up(a)] /\ up(b) \in DOMAIN q /\ p[b] = q[up(b)]
        BY <3>2, <3>3
      <3>5. up(a) < up(b)
        BY <3>3
      <3> HIDE DEF up
      <3> QED
        BY <1>3, <1>7, <2>2, <3>4, <3>5 DEF OrderInv
    <2> QED
      BY <2>1, <2>2
  <1> QED
    BY <1>2, <1>8, <1>9 DEF x
-----------------------------------------------------------------------------
\* A step that leaves session s alone.
LEMMA SameBalance ==
  ASSUME NEW w, NEW s \in Sessions, BalanceOf(w, s), UNCHANGED KeyOf,
         \A n \in 1 .. Copies, r \in Roles : Linked(<<s, n, r>>)' <=> Linked(<<s, n, r>>),
         deleted'[s] = deleted[s], Made(s)' = Made(s),
         ~Creating(w, s), ~Creating(w, s)', Deleting(w, s)' <=> Deleting(w, s),
         Deleting(w, s) => /\ th'[w].held = th[w].held /\ th[w].held[2] \in 1 .. Copies
                           /\ LeftOf(th[w], s, th[w].held[2])'
  PROVE  BalanceOf(w, s)'
  <1>1. Kept(w, s)' = Kept(w, s)
    BY DEF Kept
  <1>2. Cardinality(Kept(w, s))' + deleted'[s] = Cardinality(Made(s))'
    BY <1>1 DEF BalanceOf
  <1>3. \A n \in Kept(w, s)' : \A r \in Roles : Linked(<<s, n, r>>)'
    <2>1. \A n \in Kept(w, s) : n \in 1 .. Copies /\ \A r \in Roles : Linked(<<s, n, r>>)
      BY DEF BalanceOf, Kept
    <2> QED
      BY <1>1, <2>1
  <1>4. Deleting(w, s)' => /\ th'[w].held[1] = s
                           /\ \A n \in Kept(w, s)' : n < th'[w].held[2]
                           /\ LeftOf(th[w], s, th[w].held[2])'
    BY <1>1 DEF BalanceOf
  <1> QED
    BY <1>2, <1>3, <1>4 DEF BalanceOf

\* A handler that has not reached the next node to delete.
LEMMA SameLeft ==
  ASSUME NEW g, NEW h, NEW s, NEW n, UNCHANGED <<KeyOf, chain>>, LeftOf(g, s, n),
         h.todo = g.todo, h.pc # "remove", g.pc # "remove",
         h.pc \in {"ref", "read"} <=> g.pc \in {"ref", "read"}
  PROVE  LeftOf(h, s, n)'
  <1>1. \A e : Linked(e)' <=> Linked(e)
    BY SameLinked
  <1>2. CASE h.pc \in {"ref", "read"}
    BY <1>1, <1>2 DEF LeftOf
  <1>3. CASE h.pc \notin {"ref", "read"}
    <2>1. PICK f \in [Roles -> Roles] : MatchOf(g, s, n, f)
      BY <1>3 DEF LeftOf
    <2>2. MatchOf(h, s, n, f)'
      BY <1>1, <2>1 DEF MatchOf
    <2> QED
      BY <1>3, <2>2 DEF LeftOf
  <1> QED
    BY <1>2, <1>3

\* A step of w that leaves the maps, the history and what w has to delete alone.
LEMMA HandBalance ==
  ASSUME NEW w, BalanceInv(w), Inv1(w), Threads = {w},
         UNCHANGED <<KeyOf, chain, deleted, arrived>>,
         \A u \in Tunnels : tunnel'[u].mem = "orphan" <=> tunnel[u].mem = "orphan",
         th[w].pc # "put", th'[w].pc # "put",
         \/ /\ th'[w].op = th[w].op /\ th'[w].sess = th[w].sess /\ th'[w].held = th[w].held
            /\ th'[w].todo = th[w].todo
            /\ th[w].op = "delete" =>
                 /\ th'[w].pc # "remove" /\ th[w].pc # "remove"
                 /\ th'[w].pc \in {"ref", "read"} <=> th[w].pc \in {"ref", "read"}
         \/ /\ th'[w].op # "delete" \/ th'[w].held = NoEntry
            /\ th[w].op # "delete" \/ th[w].held = NoEntry
  PROVE  BalanceInv(w)'
  <1> SUFFICES ASSUME NEW s \in Sessions, Apart(s)' PROVE BalanceOf(w, s)'
    BY DEF BalanceInv
  <1>1. Apart(s) /\ BalanceOf(w, s)
    BY DEF Apart, BalanceInv
  <1>2. \A e : Linked(e)' <=> Linked(e)
    BY SameLinked
  <1>3. Made(s)' = Made(s)
    <2>1. \A n \in 1 .. arrived[s] : <<s, n>> \in Tunnels
      BY ConstantsLemma DEF Tunnels, Inv1, Inv, ShapeInv
    <2> QED
      BY <2>1 DEF Made
  <1>4. ~Creating(w, s) /\ ~Creating(w, s)'
    BY DEF Creating
  <1>5. Deleting(w, s)' <=> Deleting(w, s)
    BY DEF Deleting
  <1>6. ASSUME Deleting(w, s)
        PROVE  /\ th'[w].held = th[w].held /\ th[w].held[2] \in 1 .. Copies
               /\ LeftOf(th[w], s, th[w].held[2])'
    <2>1. /\ th[w].op = "delete" /\ th[w].held # NoEntry /\ th'[w].held = th[w].held
          /\ th'[w].todo = th[w].todo /\ th'[w].pc # "remove" /\ th[w].pc # "remove"
          /\ th'[w].pc \in {"ref", "read"} <=> th[w].pc \in {"ref", "read"}
      BY <1>6 DEF Deleting
    <2>2. th[w].held \in Entries /\ th[w].held[2] \in 1 .. Copies
      BY <2>1, HandlerFields, EntryLemma DEF Inv1, Inv
    <2>3. LeftOf(th[w], s, th[w].held[2])
      BY <1>1, <1>6 DEF BalanceOf
    <2>p. PICK g, h, n : g = th[w] /\ h = th'[w] /\ n = th[w].held[2]
      OBVIOUS
    <2>4. LeftOf(h, s, n)'
      BY <2>1, <2>3, <2>p, SameLeft
    <2>5. LeftOf(th[w], s, th[w].held[2])'
      BY <2>1, <2>4, <2>p
    <2> QED
      BY <2>1, <2>2, <2>5
  <1> QED
    BY <1>1, <1>2, <1>3, <1>4, <1>5, <1>6, SameBalance

\* Looking a session up.
LEMMA LookupStartBalance ==
  ASSUME NEW w, Threads = {w}, Inv2(w), UNCHANGED KeyOf, NEW s \in Sessions, NEW r \in Roles,
         LookupStart(w, s, r)
  PROVE  BalanceInv(w)' /\ StageInv(w)'
  <1> DEFINE x == Head(chain[KeyOf[s][r]])
             h == [IdleThread EXCEPT !.pc = "ref", !.op = "lookup", !.sess = s, !.e = x]
  <1>1. /\ th[w].pc = "idle" /\ th[w] = IdleThread /\ Become(w, h) /\ ShapeInv
        /\ UNCHANGED <<chain, tunnel, deleted, arrived, known>> /\ Inv1(w) /\ BalanceInv(w)
    BY DEF LookupStart, At, Inv2, Inv1, Inv, HandInv, HandOf
  <1>2. h.pc = "ref" /\ h.op = "lookup"
    BY DEF IdleThread
  <1> HIDE DEF h
  <1>3. th'[w] = h
    BY <1>1 DEF Become, ShapeInv
  <1>4. BalanceInv(w)'
    BY <1>1, <1>2, <1>3, IdleLemma, HandBalance
  <1> QED
    BY <1>2, <1>3, <1>4 DEF StageInv

\* ref_count++.
LEMMA RefBalance ==
  ASSUME NEW w, Threads = {w}, Inv2(w), UNCHANGED KeyOf, Ref(w)
  PROVE  BalanceInv(w)' /\ StageInv(w)'
  <1> DEFINE g == th[w]
             h == [g EXCEPT !.pc = "read"]
  <1>1. /\ g.pc = "ref" /\ Become(w, h) /\ ShapeInv /\ g \in Handlers
        /\ UNCHANGED <<chain, tunnel, deleted, arrived, known>> /\ Inv1(w) /\ BalanceInv(w)
        /\ StageInv(w)
    BY HandlerFields DEF Ref, At, Inv2, Inv1, Inv
  <1>2. /\ h.pc = "read" /\ h.op = g.op /\ h.sess = g.sess /\ h.held = g.held
        /\ h.todo = g.todo
    BY <1>1 DEF Handlers
  <1> HIDE DEF h
  <1>3. th'[w] = h
    BY <1>1 DEF Become, ShapeInv
  <1>4. BalanceInv(w)'
    BY <1>1, <1>2, <1>3, HandBalance
  <1> QED
    BY <1>1, <1>2, <1>3, <1>4 DEF StageInv

\* Reading the tunnel node: a deletion has four keys to go.
LEMMA ReadBalance ==
  ASSUME NEW w, Threads = {w}, Inv2(w), UNCHANGED KeyOf, Read(w)
  PROVE  BalanceInv(w)' /\ StageInv(w)'
  <1> DEFINE g == th[w]
             h == IF g.op = "lookup" THEN [g EXCEPT !.pc = "unref"]
                                     ELSE [g EXCEPT !.pc = "del", !.todo = KeyOrder]
  <1>1. /\ g.pc = "read" /\ Become(w, h) /\ ShapeInv /\ g \in Handlers
        /\ UNCHANGED <<chain, tunnel, deleted, arrived, known>> /\ Inv1(w) /\ BalanceInv(w)
        /\ StageInv(w)
    BY HandlerFields DEF Read, At, Inv2, Inv1, Inv
  <1>2. /\ h.pc \in {"unref", "del"} /\ h.op = g.op /\ h.sess = g.sess /\ h.held = g.held
        /\ g.op = "lookup" => h.todo = g.todo
        /\ g.op = "delete" => h.todo = KeyOrder /\ h.pc = "del"
    BY <1>1 DEF Handlers
  <1>3. g.op \in {"lookup", "delete"}
    BY <1>1 DEF Inv1, Inv, HandInv, HandOf
  <1> HIDE DEF h
  <1>4. th'[w] = h
    BY <1>1 DEF Become, ShapeInv
  <1>5. BalanceInv(w)'
    <2>1. CASE g.op = "lookup"
      BY <1>1, <1>2, <1>4, <2>1, HandBalance
    <2>2. CASE g.op = "delete"
      <3> SUFFICES ASSUME NEW s \in Sessions, Apart(s)' PROVE BalanceOf(w, s)'
        BY DEF BalanceInv
      <3>1. Apart(s) /\ BalanceOf(w, s)
        BY <1>1 DEF Apart, BalanceInv
      <3>2. \A e : Linked(e)' <=> Linked(e)
        BY <1>1, SameLinked
      <3>3. Made(s)' = Made(s) /\ ~Creating(w, s) /\ ~Creating(w, s)'
            /\ (Deleting(w, s)' <=> Deleting(w, s))
        BY <1>1, <1>2, <1>4 DEF Made, Creating, Deleting
      <3>4. ASSUME Deleting(w, s)
            PROVE  /\ th'[w].held = th[w].held /\ th[w].held[2] \in 1 .. Copies
                   /\ LeftOf(th[w], s, th[w].held[2])'
        <4>1. g.held \in Entries /\ g.held[2] \in 1 .. Copies
          BY <1>1, <3>4, HandlerFields, EntryLemma DEF Deleting
        <4>2. PICK n : n = g.held[2]
          OBVIOUS
        <4>3. \A r \in Roles : Linked(<<s, n, r>>)
          BY <1>1, <3>1, <3>4, <4>2 DEF BalanceOf, LeftOf
        <4>4. PICK f \in [Roles -> Roles] : \A r \in Roles : f[r] = r
          <5>1. [r \in Roles |-> r] \in [Roles -> Roles]
            OBVIOUS
          <5> QED
            BY <5>1
        <4>p. PICK j : j = h
          OBVIOUS
        <4>5. ToSet(j.todo) = Roles /\ j.pc = "del"
          BY <1>2, <2>2, <4>p, TodoLemma
        <4>6. \A q \in Roles : Linked(<<s, n, q>>)'
          BY <3>2, <4>3
        <4>7. MatchOf(j, s, n, f)'
          BY <4>4, <4>5, <4>6 DEF MatchOf
        <4>8. LeftOf(j, s, n)'
          BY <4>5, <4>7 DEF LeftOf
        <4>9. LeftOf(th[w], s, th[w].held[2])'
          <5>1. th'[w] = j /\ th'[w].held[2] = n
            BY <1>2, <1>4, <4>2, <4>p
          <5> QED
            BY <4>8, <5>1
        <4> QED
          BY <1>2, <1>4, <4>1, <4>9
      <3> QED
        BY <1>1, <3>1, <3>2, <3>3, <3>4, SameBalance
    <2> QED
      BY <1>3, <2>1, <2>2
  <1> QED
    BY <1>1, <1>2, <1>4, <1>5 DEF StageInv

\* The newest node at the next key to delete of a session with keys of its own belongs to
\* the response that is being undone.
LEMMA NextToDelete ==
  ASSUME NEW w, Threads = {w}, Inv2(w), th[w].pc = "del", th[w].todo # <<>>,
         Apart(th[w].sess)
  PROVE  LET g == th[w]
             s == g.sess
             n == g.held[2]
             r == Head(g.todo)
             k == KeyToDelete(g)
             x == Head(chain[k])
         IN  /\ s \in Sessions /\ Deleting(w, s) /\ n \in 1 .. Copies /\ k = KeyOf[s][r]
             /\ chain[k] # <<>> /\ x \in Entries /\ Linked(x)
             /\ x[1] = s /\ x[2] = n /\ KeyOf[s][x[3]] = k
  <1> DEFINE g == th[w]
             s == g.sess
             n == g.held[2]
             r == Head(g.todo)
             k == KeyToDelete(g)
             x == Head(chain[k])
  <1>1. /\ ShapeInv /\ Inv /\ HandInv /\ ChainInv /\ OrderInv /\ BalanceInv(w) /\ w \in Threads
        /\ g.todo \in TodoSeqs
    BY HandlerFields DEF Inv2, Inv1, Inv
  <1>2. g.op = "delete" /\ s \in Sessions /\ g.held \in Entries
    BY <1>1 DEF HandInv, HandOf
  <1>3. Deleting(w, s) /\ n \in 1 .. Copies
    BY <1>2, EntryLemma DEF Deleting
  <1>4. BalanceOf(w, s) /\ g.held[1] = s /\ LeftOf(g, s, n)
    BY <1>1, <1>2, <1>3 DEF BalanceInv, BalanceOf
  <1>5. PICK f \in [Roles -> Roles] : MatchOf(g, s, n, f)
    BY <1>4 DEF LeftOf
  <1>6. r \in Roles /\ r \in ToSet(g.todo)
    BY <1>1, TodoLemma
  <1>7. k = KeyOf[s][r]
    BY <1>4, <1>6 DEF KeyToDelete
  <1>8. k \in Keys
    BY <1>1, <1>2, <1>6, <1>7, KeyLemma
  <1> DEFINE y == <<s, n, f[r]>>
  <1>9. f[r] \in Roles /\ y \in Entries /\ Linked(y) /\ KeyOfEntry(y) = k
    BY <1>2, <1>3, <1>5, <1>6, <1>7, EntryLemma DEF MatchOf, KeyOfEntry
  <1>10. y \in ToSet(chain[k]) /\ y[1] = s /\ y[2] = n
    BY <1>9 DEF Linked
  <1> HIDE DEF y, k
  <1>11. chain[k] \in Seq(Entries)
    BY <1>1, <1>8 DEF ShapeInv
  <1>12. PICK j \in DOMAIN chain[k] : y = chain[k][j]
    BY <1>10 DEF ToSet
  <1>13. chain[k] # <<>> /\ 1 \in DOMAIN chain[k] /\ Head(chain[k]) = chain[k][1]
    BY <1>11, <1>12
  <1>14. x \in Entries /\ x \in ToSet(chain[k]) /\ KeyOf[x[1]][x[3]] = k
    BY <1>1, <1>8, <1>13, NewestLemma
  <1>15. Linked(x)
    BY <1>14 DEF Linked, KeyOfEntry
  <1>16. x[1] \in Sessions /\ x[2] \in 1 .. Copies /\ x[3] \in Roles /\ x = <<x[1], x[2], x[3]>>
    BY <1>14, EntryLemma
  <1>17. x[1] = s
    BY <1>2, <1>6, <1>7, <1>14, <1>16 DEF Apart
  <1>18. n <= x[2]
    <2>1. x = chain[k][1] /\ y = chain[k][j] /\ j \in Nat /\ 1 <= j
      BY <1>11, <1>12, <1>13
    <2>2. CASE j = 1
      BY <1>3, <1>10, <2>1, <2>2
    <2>3. CASE 1 < j
      BY <1>1, <1>8, <1>10, <1>12, <1>13, <1>17, <2>1, <2>3 DEF OrderInv
    <2> QED
      BY <2>1, <2>2, <2>3
  <1>19. x[2] <= n
    <2>1. CASE x[2] = n
      BY <1>16, <2>1
    <2>2. CASE x[2] # n
      <3>1. x[2] \in Kept(w, s)
        BY <1>15, <1>16, <1>17, <2>2 DEF Kept, Deleting
      <3>2. x[2] < n
        BY <1>3, <1>4, <3>1 DEF BalanceOf
      <3> QED
        BY <1>3, <1>16, <3>2
    <2> QED
      BY <2>1, <2>2
  <1>20. x[2] = n
    BY <1>3, <1>16, <1>18, <1>19
  <1>21. KeyOf[s][x[3]] = k
    BY <1>14, <1>17
  <1> QED
    BY <1>2, <1>3, <1>7, <1>13, <1>14, <1>15, <1>17, <1>20, <1>21 DEF k

\* Finding the node to delete: it takes the place of the one that f had for the role.
LEMMA SwapLemma ==
  ASSUME NEW g, NEW h, NEW s, NEW n, NEW f \in [Roles -> Roles], MatchOf(g, s, n, f),
         g.todo \in TodoSeqs \ {<<>>}, g.pc # "remove", h.pc = "remove", h.todo = Tail(g.todo),
         h.e[1] = s, h.e[2] = n, h.e[3] \in Roles, Linked(<<s, n, h.e[3]>>),
         KeyOf[s][h.e[3]] = KeyOf[s][Head(g.todo)]
  PROVE  \E d \in [Roles -> Roles] : MatchOf(h, s, n, d)
  <1> DEFINE r == Head(g.todo)
             x == h.e[3]
             d == [q \in Roles |-> IF f[q] = x THEN f[r] ELSE f[q]]
  <1>1. /\ r \in Roles /\ r \in ToSet(g.todo) /\ ToSet(h.todo) = ToSet(g.todo) \ {r}
        /\ ToSet(g.todo) \subseteq Roles
    BY TodoLemma
  <1>2. PICK p \in ToSet(g.todo) : x = f[p]
    BY DEF MatchOf
  <1>3. d \in [Roles -> Roles] /\ \A q \in Roles : d[q] = IF f[q] = x THEN f[r] ELSE f[q]
    BY <1>1
  <1> HIDE DEF d
  <1>4. \A a, b \in ToSet(g.todo) : f[a] = f[b] => a = b
    BY DEF MatchOf
  <1>5. \A a \in ToSet(g.todo) : KeyOf[s][f[a]] = KeyOf[s][a]
    BY DEF MatchOf
  <1>6. \A a, b \in ToSet(h.todo) : d[a] = d[b] => a = b
    BY <1>1, <1>2, <1>3, <1>4
  <1>7. \A a \in ToSet(h.todo) : KeyOf[s][d[a]] = KeyOf[s][a]
    <2> SUFFICES ASSUME NEW a \in ToSet(h.todo) PROVE KeyOf[s][d[a]] = KeyOf[s][a]
      OBVIOUS
    <2>1. CASE f[a] = x
      <3>1. d[a] = f[r] /\ KeyOf[s][f[r]] = KeyOf[s][r] /\ KeyOf[s][f[a]] = KeyOf[s][a]
        BY <1>1, <1>3, <1>5, <2>1
      <3> QED
        BY <2>1, <3>1
    <2>2. CASE f[a] # x
      BY <1>1, <1>3, <1>5, <2>2
    <2> QED
      BY <2>1, <2>2
  <1>8. \A a \in ToSet(h.todo) : d[a] # x
    BY <1>1, <1>2, <1>3, <1>4
  <1>9. ASSUME NEW q \in Roles
        PROVE  Linked(<<s, n, q>>) <=> (\E a \in ToSet(h.todo) : q = d[a]) \/ q = x
    <2>1. Linked(<<s, n, q>>) <=> \E a \in ToSet(g.todo) : q = f[a]
      BY DEF MatchOf
    <2>2. (\E a \in ToSet(h.todo) : q = d[a]) \/ q = x => \E a \in ToSet(g.todo) : q = f[a]
      BY <1>1, <1>2, <1>3
    <2>3. ASSUME NEW a \in ToSet(g.todo), q = f[a], q # x
          PROVE  \E b \in ToSet(h.todo) : q = d[b]
      <3>1. CASE a # r
        <4>1. a \in ToSet(h.todo) /\ d[a] = f[a]
          BY <1>1, <1>3, <2>3, <3>1
        <4> QED
          BY <2>3, <4>1
      <3>2. CASE a = r
        <4>1. p # r
          BY <1>2, <2>3, <3>2
        <4>2. p \in ToSet(h.todo) /\ d[p] = f[r]
          BY <1>1, <1>2, <1>3, <4>1
        <4> QED
          BY <2>3, <3>2, <4>2
      <3> QED
        BY <3>1, <3>2
    <2> QED
      BY <2>1, <2>2, <2>3
  <1>10. MatchOf(h, s, n, d)
    BY <1>6, <1>7, <1>8, <1>9 DEF MatchOf
  <1> QED
    BY <1>3, <1>10

\* A handler at rest with the maps at rest.
LEMMA LeftSame ==
  ASSUME NEW h, NEW s, NEW n, UNCHANGED <<KeyOf, chain>>, LeftOf(h, s, n)
  PROVE  LeftOf(h, s, n)'
  <1>1. \A e : Linked(e)' <=> Linked(e)
    BY SameLinked
  <1>2. \A f \in [Roles -> Roles] : MatchOf(h, s, n, f) => MatchOf(h, s, n, f)'
    BY <1>1 DEF MatchOf
  <1> QED
    BY <1>1, <1>2 DEF LeftOf

\* A session that w has nothing to do with.
LEMMA OtherBalance ==
  ASSUME NEW w, NEW s \in Sessions, BalanceOf(w, s), UNCHANGED KeyOf,
         \A n \in 1 .. Copies, r \in Roles : Linked(<<s, n, r>>)' <=> Linked(<<s, n, r>>),
         deleted'[s] = deleted[s], Made(s)' = Made(s), th[w].sess # s, th'[w].sess # s
  PROVE  BalanceOf(w, s)'
  <1>1. /\ ~Creating(w, s) /\ ~Creating(w, s)' /\ ~Deleting(w, s) /\ ~Deleting(w, s)'
    BY DEF Creating, Deleting
  <1> QED
    BY <1>1, SameBalance

\* Finding the node to delete.
LEMMA DelFindBalance ==
  ASSUME NEW w, Threads = {w}, Inv2(w), UNCHANGED KeyOf, DelFind(w)
  PROVE  BalanceInv(w)' /\ StageInv(w)'
  <1> DEFINE g == th[w]
             x == Head(chain[KeyToDelete(g)])
             h == [g EXCEPT !.pc = "remove", !.e = x, !.todo = Tail(@)]
  <1>1. /\ g.pc = "del" /\ Become(w, h) /\ ShapeInv /\ g \in Handlers /\ w \in Threads
        /\ UNCHANGED <<chain, tunnel, deleted, arrived, known>> /\ Inv1(w) /\ BalanceInv(w)
        /\ StageInv(w) /\ g.todo # <<>> /\ g.todo \in TodoSeqs
    BY HandlerFields DEF DelFind, At, Inv2, Inv1, Inv
  <1>2. /\ h.pc = "remove" /\ h.op = g.op /\ h.sess = g.sess /\ h.held = g.held
        /\ h.e = x /\ h.todo = Tail(g.todo)
    BY <1>1 DEF Handlers
  <1>3. g.op = "delete" /\ g.sess \in Sessions
    BY <1>1 DEF Inv1, Inv, HandInv, HandOf
  <1> HIDE DEF h
  <1>4. th'[w] = h
    BY <1>1 DEF Become, ShapeInv
  <1>5. BalanceInv(w)'
    <2> SUFFICES ASSUME NEW s \in Sessions, Apart(s)' PROVE BalanceOf(w, s)'
      BY DEF BalanceInv
    <2>1. Apart(s) /\ BalanceOf(w, s)
      BY <1>1 DEF Apart, BalanceInv
    <2>2. \A e : Linked(e)' <=> Linked(e)
      BY <1>1, SameLinked
    <2>3. Made(s)' = Made(s) /\ ~Creating(w, s) /\ ~Creating(w, s)'
          /\ (Deleting(w, s)' <=> Deleting(w, s))
      BY <1>1, <1>2, <1>4 DEF Made, Creating, Deleting
    <2>4. CASE g.sess # s
      BY <1>1, <1>2, <1>4, <2>1, <2>2, <2>3, <2>4, OtherBalance
    <2>5. CASE g.sess = s
      <3>p. PICK a, b, n : a = g /\ b = h /\ n = g.held[2]
        OBVIOUS
      <3>1. /\ Deleting(w, s) /\ n \in 1 .. Copies /\ KeyToDelete(g) = KeyOf[s][Head(g.todo)]
            /\ x \in Entries /\ Linked(x) /\ x[1] = s /\ x[2] = n
            /\ KeyOf[s][x[3]] = KeyToDelete(g)
        BY <1>1, <2>1, <2>5, <3>p, NextToDelete
      <3>2. x[3] \in Roles /\ x = <<s, n, x[3]>>
        BY <3>1, EntryLemma
      <3> HIDE DEF x
      <3>3. LeftOf(a, s, n)
        BY <2>1, <3>1, <3>p DEF BalanceOf
      <3>4. PICK f \in [Roles -> Roles] : MatchOf(a, s, n, f)
        BY <1>1, <3>3, <3>p DEF LeftOf
      <3>5. \E d \in [Roles -> Roles] : MatchOf(b, s, n, d)
        <4>1. /\ a.todo \in TodoSeqs \ {<<>>} /\ a.pc # "remove" /\ b.pc = "remove"
              /\ b.todo = Tail(a.todo) /\ b.e = x /\ b.e[1] = s /\ b.e[2] = n
              /\ b.e[3] \in Roles /\ Linked(<<s, n, b.e[3]>>)
              /\ KeyOf[s][b.e[3]] = KeyOf[s][Head(a.todo)]
          BY <1>1, <1>2, <3>1, <3>2, <3>p
        <4> QED
          BY <3>4, <4>1, SwapLemma
      <3>6. LeftOf(b, s, n)
        BY <1>2, <3>5, <3>p DEF LeftOf
      <3>7. LeftOf(b, s, n)'
        BY <1>1, <3>6, LeftSame
      <3>8. th'[w] = b /\ th'[w].held = g.held /\ th'[w].held[2] = n
        BY <1>2, <1>4, <3>p
      <3>9. LeftOf(th[w], s, th[w].held[2])'
        BY <3>7, <3>8
      <3> QED
        BY <1>1, <2>1, <2>2, <2>3, <3>1, <3>p, <3>8, <3>9, SameBalance
    <2> QED
      BY <2>4, <2>5
  <1> QED
    BY <1>1, <1>2, <1>4, <1>5 DEF StageInv

\* The node is not there: the session shares keys.
LEMMA DelMissNullBalance ==
  ASSUME NEW w, Threads = {w}, Inv2(w), UNCHANGED KeyOf, DelMissNull(w)
  PROVE  BalanceInv(w)' /\ StageInv(w)'
  <1> DEFINE g == th[w]
             h == [g EXCEPT !.todo = Tail(@)]
  <1>1. /\ g.pc = "del" /\ Become(w, h) /\ ShapeInv /\ g \in Handlers /\ w \in Threads
        /\ UNCHANGED <<chain, tunnel, deleted, arrived, known>> /\ Inv1(w) /\ BalanceInv(w)
        /\ StageInv(w) /\ g.todo # <<>> /\ g.todo \in TodoSeqs
        /\ chain[KeyToDelete(g)] = <<>>
    BY HandlerFields DEF DelMissNull, At, Inv2, Inv1, Inv
  <1>2. h.pc = "del" /\ h.op = g.op /\ h.sess = g.sess
    BY <1>1 DEF Handlers
  <1> HIDE DEF h
  <1>3. th'[w] = h
    BY <1>1 DEF Become, ShapeInv
  <1>4. ~Apart(g.sess)
    BY <1>1, NextToDelete
  <1>5. BalanceInv(w)'
    <2> SUFFICES ASSUME NEW s \in Sessions, Apart(s)' PROVE BalanceOf(w, s)'
      BY DEF BalanceInv
    <2>1. Apart(s) /\ BalanceOf(w, s)
      BY <1>1 DEF Apart, BalanceInv
    <2>2. \A e : Linked(e)' <=> Linked(e)
      BY <1>1, SameLinked
    <2>3. Made(s)' = Made(s) /\ g.sess # s
      BY <1>1, <1>4, <2>1 DEF Made
    <2> QED
      BY <1>1, <1>2, <1>3, <2>1, <2>2, <2>3, OtherBalance
  <1> QED
    BY <1>1, <1>2, <1>3, <1>5 DEF StageInv

\* All four keys are done: nothing is left of the response.
LEMMA DelHeldBalance ==
  ASSUME NEW w, Threads = {w}, Inv2(w), UNCHANGED KeyOf, DelHeld(w)
  PROVE  BalanceInv(w)' /\ StageInv(w)'
  <1> DEFINE g == th[w]
             h == [g EXCEPT !.pc = "unref", !.e = g.held, !.held = NoEntry]
  <1>1. /\ g.pc = "del" /\ Become(w, h) /\ ShapeInv /\ g \in Handlers /\ w \in Threads
        /\ UNCHANGED <<chain, tunnel, deleted, arrived, known>> /\ Inv1(w) /\ BalanceInv(w)
        /\ StageInv(w) /\ g.todo = <<>>
    BY HandlerFields DEF DelHeld, At, Inv2, Inv1, Inv
  <1>2. h.pc = "unref" /\ h.op = g.op /\ h.sess = g.sess /\ h.held = NoEntry
    BY <1>1 DEF Handlers
  <1>3. g.op = "delete" /\ g.held \in Entries /\ g.held # NoEntry
    BY <1>1, EntryLemma DEF Inv1, Inv, HandInv, HandOf
  <1> HIDE DEF h
  <1>4. th'[w] = h
    BY <1>1 DEF Become, ShapeInv
  <1>5. BalanceInv(w)'
    <2> SUFFICES ASSUME NEW s \in Sessions, Apart(s)' PROVE BalanceOf(w, s)'
      BY DEF BalanceInv
    <2>1. Apart(s) /\ BalanceOf(w, s)
      BY <1>1 DEF Apart, BalanceInv
    <2>2. \A e : Linked(e)' <=> Linked(e)
      BY <1>1, SameLinked
    <2>3. Made(s)' = Made(s) /\ ~Creating(w, s) /\ ~Creating(w, s)' /\ ~Deleting(w, s)'
      BY <1>1, <1>2, <1>4 DEF Made, Creating, Deleting
    <2>4. CASE g.sess # s
      BY <1>1, <1>2, <1>4, <2>1, <2>2, <2>3, <2>4, OtherBalance
    <2>5. CASE g.sess = s
      <3>1. Deleting(w, s) /\ LeftOf(g, s, g.held[2])
        BY <1>3, <2>1, <2>5 DEF Deleting, BalanceOf
      <3>2. \A q \in Roles : ~Linked(<<s, g.held[2], q>>)
        BY <1>1, <3>1, TodoLemma DEF LeftOf, MatchOf
      <3>3. Kept(w, s)' = Kept(w, s)
        BY <2>2, <2>3, <3>1, <3>2 DEF Kept
      <3>4. \A n \in Kept(w, s) : \A r \in Roles : Linked(<<s, n, r>>)
        BY <2>1, <2>3 DEF BalanceOf
      <3>5. Cardinality(Kept(w, s)) + deleted[s] = Cardinality(Made(s))
        BY <2>1 DEF BalanceOf
      <3> QED
        BY <1>1, <2>2, <2>3, <3>3, <3>4, <3>5 DEF BalanceOf
    <2> QED
      BY <2>4, <2>5
  <1> QED
    BY <1>1, <1>2, <1>4, <1>5 DEF StageInv
-----------------------------------------------------------------------------
\* A step of w that gives a reference up.
LEMMA GiveBalance ==
  ASSUME NEW w, Threads = {w}, Inv2(w), UNCHANGED <<KeyOf, chain, deleted, arrived, known>>,
         \A u \in Tunnels : tunnel'[u].mem = "orphan" <=> tunnel[u].mem = "orphan",
         th[w].pc \in {"unref"} \cup Ending, NEW h, th'[w] = h,
         \/ h.pc \in Ending /\ h.op = th[w].op /\ h.sess = th[w].sess
              /\ h.held = th[w].held /\ h.todo = th[w].todo
         \/ th[w].pc \in {"unref", "efree"} /\ h = Resume(th[w])
  PROVE  BalanceInv(w)' /\ StageInv(w)'
  <1> DEFINE g == th[w]
  <1>1. /\ Inv1(w) /\ BalanceInv(w) /\ StageInv(w) /\ g \in Handlers
        /\ g.pc \notin {"put", "remove", "ref", "read"}
    BY HandlerFields DEF Inv2, Inv1, Inv, Ending
  <1>2. CASE h.pc \in Ending /\ h.op = g.op /\ h.sess = g.sess /\ h.held = g.held
             /\ h.todo = g.todo
    <2>1. h.pc \notin {"put", "remove", "ref", "read"}
      BY <1>2 DEF Ending
    <2>2. BalanceInv(w)'
      BY <1>1, <1>2, <2>1, HandBalance
    <2> QED
      BY <1>1, <1>2, <2>1, <2>2 DEF StageInv
  <1>3. CASE h = Resume(g) /\ g.op = "delete" /\ g.held # NoEntry
    <2>1. h = [g EXCEPT !.pc = "del", !.e = NoEntry, !.rc = 0]
      BY <1>3 DEF Resume
    <2>2. h.pc = "del" /\ h.op = g.op /\ h.sess = g.sess /\ h.held = g.held /\ h.todo = g.todo
      BY <1>1, <2>1 DEF Handlers
    <2>3. BalanceInv(w)'
      BY <1>1, <2>2, HandBalance
    <2> QED
      BY <1>1, <2>2, <2>3 DEF StageInv
  <1>4. CASE h = Resume(g) /\ ~(g.op = "delete" /\ g.held # NoEntry)
    <2>1. h = IdleThread
      BY <1>4 DEF Resume
    <2>2. BalanceInv(w)'
      BY <1>1, <1>4, <2>1, IdleLemma, HandBalance
    <2> QED
      BY <2>1, <2>2, IdleLemma DEF StageInv
  <1> QED
    BY <1>2, <1>3, <1>4

\* ref_count--.
LEMMA UnrefBalance ==
  ASSUME NEW w, Threads = {w}, Inv2(w), UNCHANGED KeyOf, Unref(w)
  PROVE  BalanceInv(w)' /\ StageInv(w)'
  <1> DEFINE g == th[w]
             h == IF entry[g.e].ref_count = 1 THEN [g EXCEPT !.pc = "tload"] ELSE Resume(g)
  <1>1. /\ g.pc = "unref" /\ Become(w, h) /\ ShapeInv /\ g \in Handlers
        /\ UNCHANGED <<chain, tunnel, deleted, arrived, known>>
    BY HandlerFields DEF Unref, At, Inv2, Inv1, Inv
  <1>2. \/ /\ h.pc \in Ending /\ h.op = g.op /\ h.sess = g.sess /\ h.held = g.held
           /\ h.todo = g.todo
        \/ h = Resume(g)
    BY <1>1 DEF Handlers, Ending
  <1> HIDE DEF h
  <1>3. th'[w] = h
    BY <1>1 DEF Become, ShapeInv
  <1> QED
    BY <1>1, <1>2, <1>3, GiveBalance

\* The load, the store and the test of the tunnel node's count.
LEMMA TunnelLoadBalance ==
  ASSUME NEW w, Threads = {w}, Inv2(w), UNCHANGED KeyOf, TunnelLoad(w)
  PROVE  BalanceInv(w)' /\ StageInv(w)'
  <1> DEFINE g == th[w]
             h == [g EXCEPT !.pc = "tstore", !.rc = tunnel[TunnelOf(g.e)].ref_count]
  <1>1. /\ g.pc = "tload" /\ Become(w, h) /\ ShapeInv /\ g \in Handlers
        /\ UNCHANGED <<chain, tunnel, deleted, arrived, known>>
    BY HandlerFields DEF TunnelLoad, At, Inv2, Inv1, Inv
  <1>2. /\ h.pc \in Ending /\ h.op = g.op /\ h.sess = g.sess /\ h.held = g.held
        /\ h.todo = g.todo /\ g.pc \in Ending
    BY <1>1 DEF Handlers, Ending
  <1> HIDE DEF h
  <1>3. th'[w] = h
    BY <1>1 DEF Become, ShapeInv
  <1> QED
    BY <1>1, <1>2, <1>3, GiveBalance

LEMMA TunnelStoreBalance ==
  ASSUME NEW w, Threads = {w}, Inv2(w), UNCHANGED KeyOf, TunnelStore(w)
  PROVE  BalanceInv(w)' /\ StageInv(w)'
  <1> DEFINE g == th[w]
             U == TunnelOf(g.e)
             h == [g EXCEPT !.pc = "ttest", !.rc = @ - 1]
  <1>1. /\ g.pc = "tstore" /\ Become(w, h) /\ ShapeInv /\ g \in Handlers
        /\ UNCHANGED <<chain, deleted, arrived, known>>
        /\ tunnel' = [tunnel EXCEPT ![U].ref_count = g.rc - 1]
    BY HandlerFields DEF TunnelStore, At, Inv2, Inv1, Inv
  <1>2. /\ h.pc \in Ending /\ h.op = g.op /\ h.sess = g.sess /\ h.held = g.held
        /\ h.todo = g.todo /\ g.pc \in Ending
    BY <1>1 DEF Handlers, Ending
  <1>3. \A u \in Tunnels : tunnel'[u].mem = tunnel[u].mem
    BY <1>1 DEF ShapeInv
  <1> HIDE DEF h
  <1>4. th'[w] = h
    BY <1>1 DEF Become, ShapeInv
  <1> QED
    BY <1>1, <1>2, <1>3, <1>4, GiveBalance

LEMMA TunnelTestBalance ==
  ASSUME NEW w, Threads = {w}, Inv2(w), UNCHANGED KeyOf, TunnelTest(w)
  PROVE  BalanceInv(w)' /\ StageInv(w)'
  <1> DEFINE g == th[w]
  <1>0. PICK rc : Become(w, [g EXCEPT !.pc = IF rc = 0 THEN "tfree" ELSE "efree"])
    BY DEF TunnelTest
  <1> DEFINE h == [g EXCEPT !.pc = IF rc = 0 THEN "tfree" ELSE "efree"]
  <1>1. /\ g.pc = "ttest" /\ Become(w, h) /\ ShapeInv /\ g \in Handlers
        /\ UNCHANGED <<chain, tunnel, deleted, arrived, known>>
    BY <1>0, HandlerFields DEF TunnelTest, At, Inv2, Inv1, Inv
  <1>2. /\ h.pc \in Ending /\ h.op = g.op /\ h.sess = g.sess /\ h.held = g.held
        /\ h.todo = g.todo /\ g.pc \in Ending
    BY <1>1 DEF Handlers, Ending
  <1> HIDE DEF h
  <1>3. th'[w] = h
    BY <1>1 DEF Become, ShapeInv
  <1> QED
    BY <1>1, <1>2, <1>3, GiveBalance

\* free() of the tunnel node, which was none of an unknown gateway.
LEMMA TunnelFreeBalance ==
  ASSUME NEW w, Threads = {w}, Inv2(w), UNCHANGED KeyOf, TunnelFree(w)
  PROVE  BalanceInv(w)' /\ StageInv(w)'
  <1> DEFINE g == th[w]
             U == TunnelOf(g.e)
             h == [g EXCEPT !.pc = "efree"]
  <1>1. /\ g.pc = "tfree" /\ Become(w, h) /\ ShapeInv /\ g \in Handlers
        /\ UNCHANGED <<chain, deleted, arrived, known>> /\ tunnel[U].mem = "live"
        /\ tunnel' = [tunnel EXCEPT ![U].mem = "freed"]
    BY HandlerFields DEF TunnelFree, At, Inv2, Inv1, Inv
  <1>2. /\ h.pc \in Ending /\ h.op = g.op /\ h.sess = g.sess /\ h.held = g.held
        /\ h.todo = g.todo /\ g.pc \in Ending
    BY <1>1 DEF Handlers, Ending
  <1>3. \A u \in Tunnels : tunnel'[u].mem = "orphan" <=> tunnel[u].mem = "orphan"
    BY <1>1 DEF ShapeInv
  <1> HIDE DEF h
  <1>4. th'[w] = h
    BY <1>1 DEF Become, ShapeInv
  <1> QED
    BY <1>1, <1>2, <1>3, <1>4, GiveBalance

\* free() of the map node.
LEMMA EntryFreeBalance ==
  ASSUME NEW w, Threads = {w}, Inv2(w), UNCHANGED KeyOf, EntryFree(w)
  PROVE  BalanceInv(w)' /\ StageInv(w)'
  <1> DEFINE g == th[w]
             h == Resume(g)
  <1>1. /\ g.pc = "efree" /\ Become(w, h) /\ ShapeInv
        /\ UNCHANGED <<chain, tunnel, deleted, arrived, known>>
    BY DEF EntryFree, At, Inv2, Inv1, Inv
  <1>2. th'[w] = h
    BY <1>1 DEF Become, ShapeInv
  <1>p. PICK j : j = h
    OBVIOUS
  <1> QED
    BY <1>1, <1>2, <1>p, GiveBalance DEF Ending

\* A map node is taken out of its chain: it is of the response that is being undone.
LEMMA CmapRemoveBalance ==
  ASSUME NEW w, Threads = {w}, Inv2(w), UNCHANGED KeyOf, CmapRemove(w)
  PROVE  BalanceInv(w)' /\ StageInv(w)' /\ OrderInv'
  <1> DEFINE g == th[w]
             h == [g EXCEPT !.pc = "unref"]
  <1>1. /\ g.pc = "remove" /\ Become(w, h) /\ ShapeInv /\ g \in Handlers /\ w \in Threads
        /\ UNCHANGED <<tunnel, deleted, arrived, known>> /\ Inv1(w) /\ BalanceInv(w)
        /\ StageInv(w) /\ OrderInv
    BY HandlerFields DEF CmapRemove, At, Inv2, Inv1, Inv
  <1>2. h.pc = "unref" /\ h.op = g.op /\ h.sess = g.sess /\ h.held = g.held /\ h.todo = g.todo
    BY <1>1 DEF Handlers
  <1>3. g.op = "delete" /\ g.held \in Entries /\ g.held # NoEntry
    BY <1>1, EntryLemma DEF Inv1, Inv, HandInv, HandOf
  <1> HIDE DEF h
  <1>4. th'[w] = h
    BY <1>1 DEF Become, ShapeInv
  <1>5. /\ g.e \in Entries /\ OrderInv'
        /\ \A e \in Entries : Linked(e)' <=> Linked(e) /\ e # g.e
    BY <1>1, RemoveLinked
  <1>6. BalanceInv(w)'
    <2> SUFFICES ASSUME NEW s \in Sessions, Apart(s)' PROVE BalanceOf(w, s)'
      BY DEF BalanceInv
    <2>1. Apart(s) /\ BalanceOf(w, s)
      BY <1>1 DEF Apart, BalanceInv
    <2>2. \A n \in 1 .. Copies, r \in Roles :
            Linked(<<s, n, r>>)' <=> Linked(<<s, n, r>>) /\ <<s, n, r>> # g.e
      BY <1>5, EntryLemma
    <2>3. Made(s)' = Made(s) /\ ~Creating(w, s) /\ ~Creating(w, s)'
          /\ (Deleting(w, s)' <=> Deleting(w, s))
      BY <1>1, <1>2, <1>4 DEF Made, Creating, Deleting
    <2>4. CASE g.sess # s
      <3>1. g.e[1] # s
        BY <1>1, <1>3, <2>1, <2>4 DEF Inv1, Inv, ApartInv, ReachOf
      <3>2. \A n \in 1 .. Copies, r \in Roles : <<s, n, r>> # g.e
        BY <3>1
      <3> QED
        BY <1>1, <1>2, <1>4, <2>1, <2>2, <2>3, <2>4, <3>2, OtherBalance
    <2>5. CASE g.sess = s
      <3>p. PICK a, b, n : a = g /\ b = h /\ n = g.held[2]
        OBVIOUS
      <3>1. Deleting(w, s) /\ LeftOf(a, s, n) /\ n \in 1 .. Copies
        BY <1>3, <2>1, <2>5, <3>p, EntryLemma DEF Deleting, BalanceOf
      <3>2. PICK f \in [Roles -> Roles] : MatchOf(a, s, n, f)
        BY <1>1, <3>1, <3>p DEF LeftOf
      <3>3. a.e = <<s, n, a.e[3]>> /\ a.e[3] \in Roles
        BY <1>1, <1>5, <3>2, <3>p, EntryLemma DEF MatchOf
      <3>4. \A q \in Roles : Linked(<<s, n, q>>)' <=> Linked(<<s, n, q>>) /\ q # a.e[3]
        BY <2>2, <3>1, <3>3, <3>p
      <3>5. \A m \in 1 .. Copies, r \in Roles :
              m # n => (Linked(<<s, m, r>>)' <=> Linked(<<s, m, r>>))
        BY <2>2, <3>3, <3>p
      <3>6. b.pc = "unref" /\ b.todo = a.todo /\ a.pc = "remove" /\ ToSet(a.todo) \subseteq Roles
        BY <1>1, <1>2, <3>p, HandlerFields, TodoLemma
      <3>7. MatchOf(b, s, n, f)'
        BY <3>2, <3>4, <3>6 DEF MatchOf
      <3>8. LeftOf(b, s, n)'
        BY <3>6, <3>7 DEF LeftOf
      <3>9. th'[w] = b /\ th'[w].held = g.held /\ th'[w].held[2] = n
        BY <1>2, <1>4, <3>p
      <3>10. LeftOf(th[w], s, th[w].held[2])'
        BY <3>8, <3>9
      <3>11. Kept(w, s)' = Kept(w, s) /\ n \notin Kept(w, s)
        BY <2>3, <3>1, <3>5, <3>9, <3>p DEF Kept
      <3>12. \A m \in Kept(w, s) : m \in 1 .. Copies /\ m < n
                                    /\ \A r \in Roles : Linked(<<s, m, r>>)
        <4>1. \A m \in Kept(w, s) : m \in 1 .. Copies
          BY DEF Kept
        <4> QED
          BY <2>1, <2>3, <3>1, <3>p, <4>1 DEF BalanceOf
      <3>13. \A m \in Kept(w, s) : \A r \in Roles : Linked(<<s, m, r>>)'
        BY <3>5, <3>11, <3>12
      <3>14. Cardinality(Kept(w, s)) + deleted[s] = Cardinality(Made(s)) /\ g.held[1] = s
        BY <2>1, <3>1 DEF BalanceOf
      <3> QED
        BY <1>1, <2>3, <3>9, <3>10, <3>11, <3>12, <3>13, <3>14 DEF BalanceOf
    <2> QED
      BY <2>4, <2>5
  <1> QED
    BY <1>1, <1>2, <1>4, <1>5, <1>6 DEF StageInv
-----------------------------------------------------------------------------
\* The sets that are counted are finite.
LEMMA CountsLemma ==
  ASSUME NEW w, ShapeInv, NEW s \in Sessions
  PROVE  /\ IsFiniteSet(Kept(w, s)) /\ IsFiniteSet(Made(s))
         /\ Cardinality(Kept(w, s)) \in Nat /\ Cardinality(Made(s)) \in Nat
         /\ deleted[s] \in Nat /\ arrived[s] \in 0 .. Copies /\ Copies \in Nat
         /\ Kept(w, s) \subseteq 1 .. Copies
  <1>1. arrived[s] \in 0 .. Copies /\ deleted[s] \in 0 .. Copies /\ Copies \in Nat
    BY ConstantsLemma DEF ShapeInv
  <1>2. IsFiniteSet(1 .. Copies) /\ IsFiniteSet(1 .. arrived[s])
    <2>1. 1 \in Int /\ Copies \in Int /\ arrived[s] \in Int
      BY <1>1
    <2> QED
      BY <2>1, FS_Interval
  <1>3. Kept(w, s) \in SUBSET (1 .. Copies) /\ Made(s) \in SUBSET (1 .. arrived[s])
    BY DEF Kept, Made
  <1>4. IsFiniteSet(Kept(w, s)) /\ IsFiniteSet(Made(s))
    BY <1>2, <1>3, FS_Subset
  <1> QED
    BY <1>1, <1>3, <1>4, FS_CardinalityType

\* A Create Session Response of a known gateway: one more is made, and kept.
LEMMA CreateStartBalance ==
  ASSUME NEW w, Threads = {w}, Inv2(w), UNCHANGED KeyOf, NEW c \in Sessions, CreateStart(w, c)
  PROVE  BalanceInv(w)' /\ StageInv(w)'
  <1>p. PICK n : n = arrived[c] + 1
    OBVIOUS
  <1> DEFINE U == <<c, n>>
             v == [mem |-> "live", ref_count |-> InitialRefs]
             x == <<c, n, "t4">>
             h == [IdleThread EXCEPT !.pc = "put", !.op = "create", !.sess = c,
                                     !.e = x, !.todo = KeyOrder]
  <1>1. /\ ShapeInv /\ Become(w, h) /\ th[w].pc = "idle" /\ th[w] = IdleThread /\ n <= Copies
        /\ tunnel' = [tunnel EXCEPT ![U] = v] /\ UNCHANGED <<chain, known, deleted>>
        /\ arrived' = [arrived EXCEPT ![c] = n] /\ Inv /\ BalanceInv(w)
    BY <1>p DEF CreateStart, At, Inv2, Inv1, Inv, HandInv, HandOf
  <1>2. n \in 1 .. Copies /\ arrived[c] \in 0 .. Copies /\ Copies \in Nat
    BY <1>1, <1>p, ConstantsLemma DEF ShapeInv
  <1>3. v.mem # "orphan" /\ x \in Entries /\ U \in Tunnels
    BY <1>2, EntryLemma DEF Roles, Tunnels
  <1>4. h.pc = "put" /\ h.op = "create" /\ h.sess = c /\ h.e = x /\ h.todo = KeyOrder
    BY DEF IdleThread
  <1>5. x[2] = n
    OBVIOUS
  <1> HIDE DEF h, v
  <1>6. th'[w] = h
    BY <1>1 DEF Become, ShapeInv
  <1>7. /\ tunnel'[U] = v /\ \A u \in Tunnels : u # U => tunnel'[u] = tunnel[u]
        /\ arrived'[c] = n /\ \A s \in Sessions : s # c => arrived'[s] = arrived[s]
    BY <1>1, <1>3 DEF ShapeInv
  <1> HIDE DEF U, x
  <1>8. BalanceInv(w)'
    <2> SUFFICES ASSUME NEW s \in Sessions, Apart(s)' PROVE BalanceOf(w, s)'
      BY DEF BalanceInv
    <2>1. Apart(s) /\ BalanceOf(w, s)
      BY <1>1 DEF Apart, BalanceInv
    <2>2. \A e : Linked(e)' <=> Linked(e)
      BY <1>1, SameLinked
    <2>3. \A m \in 1 .. arrived[s] : <<s, m>> \in Tunnels /\ m \in 1 .. Copies
      BY ConstantsLemma, <1>1 DEF Tunnels, ShapeInv
    <2>4. ~Creating(w, s) /\ ~Deleting(w, s) /\ ~Deleting(w, s)'
      BY <1>1, <1>4, <1>6, IdleLemma DEF Creating, Deleting
    <2>5. CASE s # c
      <3>1. Made(s)' = Made(s)
        BY <1>7, <2>3, <2>5 DEF Made, U
      <3>2. ~Creating(w, s)'
        BY <1>4, <1>6, <2>5 DEF Creating
      <3> QED
        BY <1>1, <2>1, <2>2, <2>4, <3>1, <3>2, SameBalance
    <2>6. CASE s = c
      <3>1. Creating(w, s)' /\ th'[w].e[2] = n
        BY <1>4, <1>5, <1>6, <2>6 DEF Creating
      <3>2. \A r \in Roles : ~Linked(<<s, n, r>>)
        <4> SUFFICES ASSUME NEW r \in Roles, Linked(<<s, n, r>>) PROVE FALSE
          OBVIOUS
        <4>1. <<s, n, r>> \in Entries
          BY <1>2, EntryLemma
        <4>2. KeyOfEntry(<<s, n, r>>) \in Keys
          BY <1>1, <4>1, KeyLemma
        <4>3. entry[<<s, n, r>>].mem = "live"
          BY <1>1, <4>2 DEF Inv, ChainInv, Linked
        <4>4. arrived[s] < n
          BY <1>p, <1>2, <2>6
        <4>5. entry[<<s, n, r>>].mem = "unused"
          BY <1>1, <1>2, <2>6, <4>4 DEF Inv, OwnInv
        <4> QED
          BY <4>3, <4>5
      <3>3. Kept(w, s)' = Kept(w, s) \cup {n} /\ n \notin Kept(w, s)
        BY <1>2, <2>2, <2>4, <3>1, <3>2 DEF Kept
      <3>4. Made(s)' = Made(s) \cup {n} /\ n \notin Made(s)
        <4>1. \A m \in 1 .. arrived[s] : tunnel'[<<s, m>>] = tunnel[<<s, m>>]
          <5>1. \A m \in 1 .. arrived[s] : m # n
            BY <1>2, <1>p, <2>6
          <5> QED
            BY <1>7, <2>3, <5>1 DEF U
        <4>2. 1 .. arrived'[s] = (1 .. arrived[s]) \cup {n} /\ n \notin 1 .. arrived[s]
          BY <1>2, <1>7, <1>p, <2>6
        <4>3. tunnel'[<<s, n>>].mem # "orphan"
          BY <1>3, <1>7, <2>6 DEF U
        <4> QED
          BY <4>1, <4>2, <4>3 DEF Made
      <3>5. /\ Cardinality(Kept(w, s) \cup {n}) = Cardinality(Kept(w, s)) + 1
            /\ Cardinality(Made(s) \cup {n}) = Cardinality(Made(s)) + 1
            /\ Cardinality(Kept(w, s)) \in Nat /\ Cardinality(Made(s)) \in Nat
            /\ deleted[s] \in Nat
        BY <1>1, <3>3, <3>4, CountsLemma, FS_AddElement
      <3>6. Cardinality(Kept(w, s)) + deleted[s] = Cardinality(Made(s))
        BY <2>1 DEF BalanceOf
      <3>7. Cardinality(Kept(w, s) \cup {n}) + deleted[s] = Cardinality(Made(s) \cup {n})
        BY <3>5, <3>6
      <3>8. \A m \in Kept(w, s) : \A r \in Roles : Linked(<<s, m, r>>)
        BY <2>1, <2>4 DEF BalanceOf
      <3>9. ToSet(th'[w].todo) = Roles
        BY <1>4, <1>6, TodoLemma
      <3> QED
        BY <1>1, <2>2, <2>4, <3>1, <3>2, <3>3, <3>4, <3>7, <3>8, <3>9 DEF BalanceOf
    <2> QED
      BY <2>5, <2>6
  <1> QED
    BY <1>4, <1>5, <1>6, <1>7, <1>8 DEF StageInv

\* The response of an unknown gateway does not count.
LEMMA CreateUnknownPgwBalance ==
  ASSUME NEW w, Threads = {w}, Inv2(w), UNCHANGED KeyOf, NEW c \in Sessions,
         CreateUnknownPgw(w, c)
  PROVE  BalanceInv(w)' /\ StageInv(w)'
  <1>p. PICK n : n = arrived[c] + 1
    OBVIOUS
  <1> DEFINE U == <<c, n>>
             v == [mem |-> "orphan", ref_count |-> 0]
  <1>1. /\ ShapeInv /\ th[w].pc = "idle" /\ th[w] = IdleThread /\ n <= Copies
        /\ tunnel' = [tunnel EXCEPT ![U] = v] /\ UNCHANGED <<chain, known, deleted, th>>
        /\ arrived' = [arrived EXCEPT ![c] = n] /\ Inv /\ BalanceInv(w)
    BY <1>p DEF CreateUnknownPgw, At, Inv2, Inv1, Inv, HandInv, HandOf
  <1>2. n \in 1 .. Copies /\ arrived[c] \in 0 .. Copies /\ Copies \in Nat
    BY <1>1, <1>p, ConstantsLemma DEF ShapeInv
  <1>3. v.mem = "orphan" /\ U \in Tunnels
    BY <1>2 DEF Tunnels
  <1> HIDE DEF v
  <1>4. /\ tunnel'[U] = v /\ \A u \in Tunnels : u # U => tunnel'[u] = tunnel[u]
        /\ arrived'[c] = n /\ \A s \in Sessions : s # c => arrived'[s] = arrived[s]
    BY <1>1, <1>3 DEF ShapeInv
  <1> HIDE DEF U
  <1>5. BalanceInv(w)'
    <2> SUFFICES ASSUME NEW s \in Sessions, Apart(s)' PROVE BalanceOf(w, s)'
      BY DEF BalanceInv
    <2>1. Apart(s) /\ BalanceOf(w, s)
      BY <1>1 DEF Apart, BalanceInv
    <2>2. \A e : Linked(e)' <=> Linked(e)
      BY <1>1, SameLinked
    <2>3. \A m \in 1 .. arrived[s] : <<s, m>> \in Tunnels /\ m \in 1 .. Copies
      BY ConstantsLemma, <1>1 DEF Tunnels, ShapeInv
    <2>4. ~Creating(w, s) /\ ~Deleting(w, s) /\ ~Creating(w, s)' /\ ~Deleting(w, s)'
      BY <1>1, IdleLemma DEF Creating, Deleting
    <2>5. Made(s)' = Made(s)
      <3>1. CASE s # c
        BY <1>4, <2>3, <3>1 DEF Made, U
      <3>2. CASE s = c
        <4>1. \A m \in 1 .. arrived[s] : tunnel'[<<s, m>>] = tunnel[<<s, m>>]
          <5>1. \A m \in 1 .. arrived[s] : m # n
            BY <1>2, <1>p, <3>2
          <5> QED
            BY <1>4, <2>3, <5>1 DEF U
        <4>2. 1 .. arrived'[s] = (1 .. arrived[s]) \cup {n}
          BY <1>2, <1>4, <1>p, <3>2
        <4>3. tunnel'[<<s, n>>].mem = "orphan"
          BY <1>3, <1>4, <3>2 DEF U
        <4> QED
          BY <4>1, <4>2, <4>3 DEF Made
      <3> QED
        BY <3>1, <3>2
    <2> QED
      BY <1>1, <2>1, <2>2, <2>4, <2>5, SameBalance
  <1> QED
    BY <1>1, <1>5, IdleLemma DEF StageInv

\* A map node is put in front of its chain.
LEMMA PutBalance ==
  ASSUME NEW w, Threads = {w}, Inv2(w), UNCHANGED KeyOf, Put(w)
  PROVE  BalanceInv(w)' /\ StageInv(w)' /\ OrderInv'
  <1> DEFINE g == th[w]
             x == <<g.e[1], g.e[2], Head(g.todo)>>
             h == [g EXCEPT !.todo = Tail(@)]
  <1>1. /\ g.pc = "put" /\ Become(w, h) /\ ShapeInv /\ g \in Handlers /\ w \in Threads
        /\ UNCHANGED <<tunnel, deleted, arrived, known>> /\ Inv1(w) /\ BalanceInv(w)
        /\ StageInv(w) /\ OrderInv
    BY HandlerFields DEF Put, At, Inv2, Inv1, Inv
  <1>2. /\ h.pc = "put" /\ h.op = g.op /\ h.sess = g.sess /\ h.held = g.held /\ h.e = g.e
        /\ h.todo = Tail(g.todo)
    BY <1>1 DEF Handlers
  <1>3. g.held = NoEntry /\ g.op = "create"
    BY <1>1 DEF Inv1, Inv, HandInv, HandOf
  <1> HIDE DEF h
  <1>4. th'[w] = h
    BY <1>1 DEF Become, ShapeInv
  <1>5. /\ x \in Entries /\ g.e[1] = g.sess /\ g.sess \in Sessions
        /\ g.todo \in TodoSeqs \ {<<>>} /\ OrderInv'
        /\ \A e \in Entries : Linked(e)' <=> Linked(e) \/ e = x
    BY <1>1, PutLinked
  <1>6. Head(g.todo) \in Roles /\ ToSet(Tail(g.todo)) = ToSet(g.todo) \ {Head(g.todo)}
        /\ Head(g.todo) \in ToSet(g.todo)
    BY <1>5, TodoLemma
  <1>7. BalanceInv(w)'
    <2> SUFFICES ASSUME NEW s \in Sessions, Apart(s)' PROVE BalanceOf(w, s)'
      BY DEF BalanceInv
    <2>1. Apart(s) /\ BalanceOf(w, s)
      BY <1>1 DEF Apart, BalanceInv
    <2>2. \A n \in 1 .. Copies, r \in Roles :
            Linked(<<s, n, r>>)' <=> Linked(<<s, n, r>>) \/ <<s, n, r>> = x
      BY <1>5, EntryLemma
    <2>3. Made(s)' = Made(s) /\ ~Deleting(w, s) /\ ~Deleting(w, s)'
      BY <1>1, <1>2, <1>3, <1>4 DEF Made, Deleting
    <2>4. CASE g.sess # s
      <3>1. \A n \in 1 .. Copies, r \in Roles : <<s, n, r>> # x
        BY <1>5, <2>4
      <3> QED
        BY <1>1, <1>2, <1>4, <2>1, <2>2, <2>3, <2>4, <3>1, OtherBalance
    <2>5. CASE g.sess = s
      <3>p. PICK n, q : n = g.e[2] /\ q = Head(g.todo)
        OBVIOUS
      <3>1. Creating(w, s) /\ Creating(w, s)' /\ th'[w].e[2] = n /\ n \in 1 .. Copies
        BY <1>1, <1>2, <1>4, <1>5, <2>5, <3>p, EntryLemma DEF Creating
      <3>2. x = <<s, n, q>>
        BY <1>5, <2>5, <3>p
      <3>3. \A m \in 1 .. Copies, r \in Roles :
              m # n => (Linked(<<s, m, r>>)' <=> Linked(<<s, m, r>>))
        BY <2>2, <3>2
      <3>4. \A r \in Roles : Linked(<<s, n, r>>)' <=> Linked(<<s, n, r>>) \/ r = q
        BY <2>2, <3>1, <3>2
      <3>5. Kept(w, s)' = Kept(w, s)
        BY <2>3, <3>1, <3>3, <3>p DEF Kept
      <3>6. \A r \in Roles : Linked(<<s, n, r>>) <=> r \notin ToSet(g.todo)
        BY <2>1, <3>1, <3>p DEF BalanceOf
      <3>7. \A r \in Roles : Linked(<<s, n, r>>)' <=> r \notin ToSet(th'[w].todo)
        BY <1>2, <1>4, <1>6, <3>4, <3>6, <3>p
      <3>8. \A m \in Kept(w, s) : m # n => \A r \in Roles : Linked(<<s, m, r>>)'
        <4>1. \A m \in Kept(w, s) : m \in 1 .. Copies
          BY DEF Kept
        <4> QED
          BY <2>1, <3>3, <3>p, <4>1 DEF BalanceOf
      <3>9. Cardinality(Kept(w, s)) + deleted[s] = Cardinality(Made(s))
        BY <2>1 DEF BalanceOf
      <3> QED
        BY <1>1, <2>3, <3>1, <3>5, <3>7, <3>8, <3>9 DEF BalanceOf
    <2> QED
      BY <2>4, <2>5
  <1> QED
    BY <1>1, <1>2, <1>4, <1>5, <1>7 DEF StageInv

\* The response goes out: the session is set up.
LEMMA CreateEndBalance ==
  ASSUME NEW w, Threads = {w}, Inv2(w), UNCHANGED KeyOf, CreateEnd(w)
  PROVE  BalanceInv(w)' /\ StageInv(w)'
  <1> DEFINE g == th[w]
  <1>1. /\ g.pc = "put" /\ Become(w, IdleThread) /\ ShapeInv /\ w \in Threads
        /\ UNCHANGED <<chain, tunnel, deleted, arrived>> /\ Inv1(w) /\ BalanceInv(w)
        /\ g.todo = <<>>
    BY HandlerFields DEF CreateEnd, At, Inv2, Inv1, Inv
  <1>2. g.held = NoEntry
    BY <1>1 DEF Inv1, Inv, HandInv, HandOf
  <1>3. th'[w] = IdleThread
    BY <1>1 DEF Become, ShapeInv
  <1>4. BalanceInv(w)'
    <2> SUFFICES ASSUME NEW s \in Sessions, Apart(s)' PROVE BalanceOf(w, s)'
      BY DEF BalanceInv
    <2>1. Apart(s) /\ BalanceOf(w, s)
      BY <1>1 DEF Apart, BalanceInv
    <2>2. \A e : Linked(e)' <=> Linked(e)
      BY <1>1, SameLinked
    <2>3. /\ Made(s)' = Made(s) /\ ~Deleting(w, s) /\ ~Deleting(w, s)' /\ ~Creating(w, s)'
      BY <1>1, <1>2, <1>3, IdleLemma DEF Made, Deleting, Creating
    <2>4. CASE ~Creating(w, s)
      BY <1>1, <2>1, <2>2, <2>3, <2>4, SameBalance
    <2>5. CASE Creating(w, s)
      <3>1. \A r \in Roles : Linked(<<s, g.e[2], r>>)
        BY <1>1, <2>1, <2>5, TodoLemma DEF BalanceOf
      <3>2. \A n \in Kept(w, s) : \A r \in Roles : Linked(<<s, n, r>>)
        BY <2>1, <3>1 DEF BalanceOf
      <3>3. "t2" \in Roles
        BY DEF Roles
      <3>4. Kept(w, s)' = Kept(w, s)
        BY <2>2, <2>3, <3>1, <3>3 DEF Kept
      <3>5. Cardinality(Kept(w, s)) + deleted[s] = Cardinality(Made(s))
        BY <2>1 DEF BalanceOf
      <3> QED
        BY <1>1, <2>2, <2>3, <3>2, <3>4, <3>5 DEF BalanceOf
    <2> QED
      BY <2>4, <2>5
  <1> QED
    BY <1>3, <1>4, IdleLemma DEF StageInv

\* A Delete Session Response takes up the newest response of the session.
LEMMA DeleteStartBalance ==
  ASSUME NEW w, Threads = {w}, Inv2(w), UNCHANGED KeyOf, NEW c \in Sessions, DeleteStart(w, c)
  PROVE  BalanceInv(w)' /\ StageInv(w)'
  <1> DEFINE k == KeyOf[c]["t2"]
             x == Head(chain[k])
             h == [IdleThread EXCEPT !.pc = "ref", !.op = "delete", !.sess = c,
                                     !.e = x, !.held = x]
  <1>1. /\ Become(w, h) /\ th[w].pc = "idle" /\ th[w] = IdleThread /\ ShapeInv /\ Inv
        /\ chain[k] # <<>> /\ deleted[c] < Copies /\ c \in known /\ BalanceInv(w) /\ OrderInv
        /\ deleted' = [deleted EXCEPT ![c] = @ + 1]
        /\ UNCHANGED <<chain, tunnel, arrived, known>>
    BY DEF DeleteStart, At, Inv2, Inv1, Inv, HandInv, HandOf
  <1>2. "t2" \in Roles /\ k \in Keys
    BY <1>1, KeyLemma DEF Roles
  <1>3. /\ x \in Entries /\ x \in ToSet(chain[k]) /\ KeyOf[x[1]][x[3]] = k /\ x # NoEntry
    BY <1>1, <1>2, NewestLemma
  <1>4. Linked(x)
    BY <1>3 DEF Linked, KeyOfEntry
  <1>5. chain[k] \in Seq(Entries) /\ x = chain[k][1] /\ 1 \in DOMAIN chain[k]
    BY <1>1, <1>2 DEF ShapeInv
  <1> HIDE DEF x
  <1>6. h.pc = "ref" /\ h.op = "delete" /\ h.held = x /\ h.sess = c
    BY DEF IdleThread
  <1> HIDE DEF h
  <1>7. th'[w] = h
    BY <1>1 DEF Become, ShapeInv
  <1>8. /\ deleted'[c] = deleted[c] + 1 /\ \A s \in Sessions : s # c => deleted'[s] = deleted[s]
    BY <1>1 DEF ShapeInv
  <1>9. BalanceInv(w)'
    <2> SUFFICES ASSUME NEW s \in Sessions, Apart(s)' PROVE BalanceOf(w, s)'
      BY DEF BalanceInv
    <2>1. Apart(s) /\ BalanceOf(w, s)
      BY <1>1 DEF Apart, BalanceInv
    <2>2. \A e : Linked(e)' <=> Linked(e)
      BY <1>1, SameLinked
    <2>3. /\ Made(s)' = Made(s) /\ ~Creating(w, s) /\ ~Creating(w, s)' /\ ~Deleting(w, s)
      BY <1>1, <1>6, <1>7, IdleLemma DEF Made, Deleting, Creating
    <2>4. CASE s # c
      <3>1. ~Deleting(w, s)'
        BY <1>6, <1>7, <2>4 DEF Deleting
      <3> QED
        BY <1>8, <2>1, <2>2, <2>3, <2>4, <3>1, SameBalance
    <2>5. CASE s = c
      <3>1. x[1] = s
        BY <1>2, <1>3, <2>1, <2>5, EntryLemma DEF Apart
      <3>p. PICK n, j : n = x[2] /\ j = h
        OBVIOUS
      <3>2. n \in 1 .. Copies /\ x = <<s, n, x[3]>> /\ x[3] \in Roles
        BY <1>3, <3>1, <3>p, EntryLemma
      <3>3. Deleting(w, s)' /\ th'[w] = j /\ th'[w].held[2] = n /\ th'[w].held[1] = s
        BY <1>3, <1>6, <1>7, <2>5, <3>1, <3>p DEF Deleting
      <3>4. n \in Kept(w, s)
        BY <1>4, <2>3, <3>2 DEF Kept
      <3>5. Kept(w, s)' = Kept(w, s) \ {n}
        BY <2>2, <2>3, <3>3 DEF Kept
      <3>6. \A m \in Kept(w, s) : m \in 1 .. Copies /\ \A r \in Roles : Linked(<<s, m, r>>)
        <4>1. \A m \in Kept(w, s) : m \in 1 .. Copies
          BY DEF Kept
        <4> QED
          BY <2>1, <2>3, <4>1 DEF BalanceOf
      <3>7. \A m \in Kept(w, s) \ {n} : m < n
        <4> SUFFICES ASSUME NEW m \in Kept(w, s), m # n PROVE m < n
          OBVIOUS
        <4> DEFINE y == <<s, m, "t2">>
        <4>1. m \in 1 .. Copies /\ Linked(y) /\ KeyOfEntry(y) = k
          BY <1>2, <2>5, <3>6 DEF KeyOfEntry
        <4>2. PICK i \in DOMAIN chain[k] : y = chain[k][i]
          BY <4>1 DEF Linked, ToSet
        <4>3. i \in Nat /\ 1 <= i /\ y[1] = s /\ y[2] = m
          BY <1>5, <4>2
        <4> HIDE DEF y
        <4>4. i # 1
          BY <1>5, <3>p, <4>2, <4>3
        <4>5. m <= n
          BY <1>1, <1>2, <1>5, <3>1, <3>p, <4>2, <4>3, <4>4 DEF OrderInv
        <4> QED
          BY <3>2, <4>1, <4>5
      <3>8. LeftOf(j, s, n)'
        BY <1>6, <2>2, <3>4, <3>6, <3>p DEF LeftOf
      <3>9. LeftOf(th[w], s, th[w].held[2])'
        BY <3>3, <3>8
      <3>10. /\ Cardinality(Kept(w, s) \ {n}) = Cardinality(Kept(w, s)) - 1
             /\ Cardinality(Kept(w, s)) \in Nat /\ Cardinality(Made(s)) \in Nat
             /\ deleted[s] \in Nat
        BY <1>1, <3>4, CountsLemma, FS_RemoveElement
      <3>11. Cardinality(Kept(w, s)) + deleted[s] = Cardinality(Made(s))
        BY <2>1 DEF BalanceOf
      <3>12. Cardinality(Kept(w, s) \ {n}) + deleted'[s] = Cardinality(Made(s))
        BY <1>8, <2>5, <3>10, <3>11
      <3> QED
        BY <2>2, <2>3, <3>3, <3>5, <3>6, <3>7, <3>9, <3>12 DEF BalanceOf
    <2> QED
      BY <2>4, <2>5
  <1> QED
    BY <1>1, <1>6, <1>7, <1>9 DEF StageInv
-----------------------------------------------------------------------------
(* The theorems.                                                           *)

\* A step that stops the process, or none.
LEMMA StopBalance ==
  ASSUME NEW w, Threads = {w}, Inv2(w),
         UNCHANGED <<KeyOf, chain, tunnel, arrived, known, deleted, th>>
  PROVE  BalanceInv(w)' /\ StageInv(w)' /\ OrderInv'
  <1>1. ASSUME NEW s \in Sessions, Apart(s)' PROVE BalanceOf(w, s)'
    <2>1. BalanceOf(w, s)
      BY <1>1 DEF Apart, Inv2, BalanceInv
    <2>2. \A e : Linked(e)' <=> Linked(e)
      BY SameLinked
    <2>3. /\ Made(s)' = Made(s) /\ (Creating(w, s)' <=> Creating(w, s))
          /\ (Deleting(w, s)' <=> Deleting(w, s)) /\ UNCHANGED <<deleted, th>>
      BY DEF Made, Creating, Deleting
    <2>4. Kept(w, s)' = Kept(w, s)
      BY <2>2, <2>3 DEF Kept
    <2>p. PICK g, n : g = th[w] /\ n = th[w].held[2]
      OBVIOUS
    <2>5. Deleting(w, s) => LeftOf(th[w], s, th[w].held[2])'
      <3>1. LeftOf(g, s, n) => LeftOf(g, s, n)'
        BY LeftSame
      <3> QED
        BY <2>1, <2>p, <3>1 DEF BalanceOf
    <2> QED
      BY <2>1, <2>2, <2>3, <2>4, <2>5 DEF BalanceOf
  <1>2. StageInv(w)'
    BY DEF Inv2, StageInv
  <1>3. OrderInv'
    BY DEF Inv2, OrderInv
  <1> QED
    BY <1>1, <1>2, <1>3 DEF BalanceInv

\* No thread has a packet and nothing is set up.
LEMMA InitBalance ==
  ASSUME NEW w, Threads = {w}, Init
  PROVE  Inv2(w)
  <1>1. Inv1(w)
    BY InitOne
  <1>2. /\ \A k \in Keys : chain[k] = <<>>
        /\ \A s \in Sessions : arrived[s] = 0 /\ deleted[s] = 0
        /\ fault = "none" /\ th[w] = IdleThread /\ ShapeInv
    BY <1>1 DEF Init, Inv1, Inv
  <1>3. OrderInv
    BY <1>2 DEF OrderInv
  <1>4. StageInv(w)
    BY <1>2, IdleLemma DEF StageInv
  <1>5. BalanceInv(w)
    <2> SUFFICES ASSUME NEW s \in Sessions PROVE BalanceOf(w, s)
      BY DEF BalanceInv
    <2>1. \A n \in 1 .. Copies, r \in Roles : ~Linked(<<s, n, r>>)
      <3> SUFFICES ASSUME NEW n \in 1 .. Copies, NEW r \in Roles PROVE ~Linked(<<s, n, r>>)
        OBVIOUS
      <3>1. KeyOfEntry(<<s, n, r>>) \in Keys
        BY <1>2, EntryLemma, KeyLemma
      <3> QED
        BY <1>2, <3>1, TodoLemma DEF Linked
    <2>2. ~Creating(w, s) /\ ~Deleting(w, s)
      BY <1>2, IdleLemma DEF Creating, Deleting
    <2>3. Kept(w, s) = {}
      BY <2>1, <2>2 DEF Kept
    <2>4. Made(s) = {}
      BY <1>2 DEF Made
    <2>5. Cardinality({}) = 0
      BY FS_EmptySet
    <2>6. Cardinality(Kept(w, s)) + deleted[s] = Cardinality(Made(s))
      BY <1>2, <2>3, <2>4, <2>5
    <2> QED
      BY <2>2, <2>3, <2>6 DEF BalanceOf
  <1>6. FaultsExplained
    BY <1>2 DEF FaultsExplained, NullExplained
  <1> QED
    BY <1>1, <1>3, <1>4, <1>5, <1>6 DEF Inv2

\* A deletion misses a key only in a session that shares keys.
LEMMA WildExplained ==
  ASSUME NEW w, Threads = {w}, Inv2(w), UNCHANGED KeyOf, DelMissWild(w)
  PROVE  ~Apart(victim)'
  <1>1. /\ th[w].pc = "del" /\ th[w].todo # <<>> /\ chain[KeyToDelete(th[w])] = <<>>
        /\ victim' = th[w].sess /\ HandInv /\ StageInv(w) /\ w \in Threads
    BY DEF DelMissWild, At, Fails, Inv2, Inv1, Inv
  <1>2. ~Apart(th[w].sess)
    BY <1>1, NextToDelete
  <1>3. PICK s : s = th[w].sess
    OBVIOUS
  <1>4. ~Apart(s)'
    BY <1>2, <1>3 DEF Apart
  <1> QED
    BY <1>1, <1>3, <1>4 DEF Apart

\* Every step of w.
LEMMA NextBalance ==
  ASSUME NEW w, Threads = {w}, Inv2(w), [Next]_vars
  PROVE  Inv2(w)'
  <1> DEFINE G == BalanceInv(w)' /\ StageInv(w)' /\ OrderInv'
             W == fault' = "wild" => ~Apart(victim)'
  <1>1. Inv1(w)' /\ NullExplained'
    <2>1. Inv1(w)'
      BY NextOne DEF Inv2
    <2> QED
      BY <2>1 DEF Inv1, Inv
  <1>2. CASE UNCHANGED vars
    <2>1. UNCHANGED <<KeyOf, chain, entry, tunnel, fault, victim, arrived, known, deleted, th>>
      BY <1>2 DEF vars
    <2>2. G
      BY <2>1, StopBalance
    <2>3. W
      BY <2>1 DEF Inv2, FaultsExplained, Apart
    <2> QED
      BY <1>1, <2>2, <2>3 DEF Inv2, FaultsExplained
  <1>3. CASE Next
    <2>1. UNCHANGED KeyOf
      BY <1>3 DEF Next
    <2>2. Create(w) \/ Lookup(w) \/ Delete(w) \/ GiveUp(w)
      BY <1>3 DEF Next
    <2>3. UNCHANGED chain => OrderInv'
      BY DEF Inv2, OrderInv
    <2>4. ASSUME NEW kind, NEW s, Fails(kind, s) PROVE G
      BY <2>1, <2>4, StopBalance DEF Fails
    <2>5. ASSUME Create(w) PROVE G /\ W
      <3>1. fault' = "none"
        BY <2>5 DEF Create, CreateStart, CreateUnknownPgw, Put, CreateEnd, At
      <3>2. ASSUME NEW s \in Sessions, CreateStart(w, s) \/ CreateUnknownPgw(w, s) PROVE G
        <4>1. UNCHANGED chain
          BY <3>2 DEF CreateStart, CreateUnknownPgw
        <4> QED
          BY <2>1, <2>3, <3>2, <4>1, CreateStartBalance, CreateUnknownPgwBalance
      <3>3. ASSUME Put(w) PROVE G
        BY <2>1, <3>3, PutBalance
      <3>4. ASSUME CreateEnd(w) PROVE G
        <4>1. UNCHANGED chain
          BY <3>4 DEF CreateEnd
        <4> QED
          BY <2>1, <2>3, <3>4, <4>1, CreateEndBalance
      <3> QED
        BY <2>5, <3>1, <3>2, <3>3, <3>4 DEF Create
    <2>6. ASSUME Lookup(w) PROVE G /\ W
      <3>1. fault' = "none" /\ UNCHANGED chain
        BY <2>6 DEF Lookup, LookupStart, Ref, Read, At
      <3>2. BalanceInv(w)' /\ StageInv(w)'
        BY <2>1, <2>6, LookupStartBalance, RefBalance, ReadBalance DEF Lookup
      <3> QED
        BY <2>3, <3>1, <3>2
    <2>7. ASSUME Delete(w) PROVE G /\ W
      <3>1. ASSUME NEW s \in Sessions, DeleteStart(w, s) PROVE G /\ W
        <4>1. fault' = "none" /\ UNCHANGED chain
          BY <3>1 DEF DeleteStart, At
        <4> QED
          BY <2>1, <2>3, <3>1, <4>1, DeleteStartBalance
      <3>2. ASSUME NEW s \in Sessions, DeleteUnknown(w, s) PROVE G /\ W
        <4>1. Fails("null", s) /\ fault' = "null"
          BY <3>2 DEF DeleteUnknown, Fails
        <4> QED
          BY <2>4, <4>1
      <3>3. ASSUME DelFind(w) \/ DelMissNull(w) \/ DelHeld(w) PROVE G /\ W
        <4>1. fault' = "none" /\ UNCHANGED chain
          BY <3>3 DEF DelFind, DelMissNull, DelHeld, At
        <4> QED
          BY <2>1, <2>3, <3>3, <4>1, DelFindBalance, DelMissNullBalance, DelHeldBalance
      <3>4. ASSUME DelMissWild(w) PROVE G /\ W
        <4>1. Fails("wild", th[w].sess)
          BY <3>4 DEF DelMissWild
        <4> QED
          BY <2>1, <2>4, <3>4, <4>1, WildExplained
      <3>5. ASSUME CmapRemove(w) PROVE G /\ W
        <4>1. fault' = "none"
          BY <3>5 DEF CmapRemove, At
        <4> QED
          BY <2>1, <3>5, <4>1, CmapRemoveBalance
      <3> HIDE DEF G, W
      <3> QED
        BY <2>7, <3>1, <3>2, <3>3, <3>4, <3>5, RemoveMissingOne DEF Delete, Inv2
    <2>8. ASSUME GiveUp(w) PROVE G /\ W
      <3>1. ~UseFreed(w)
        BY UseFreedOne DEF Inv2
      <3>2. fault' = "none" /\ UNCHANGED chain
        BY <2>8, <3>1 DEF GiveUp, Unref, TunnelLoad, TunnelStore, TunnelTest, TunnelFree,
           EntryFree, At
      <3>3. BalanceInv(w)' /\ StageInv(w)'
        BY <2>1, <2>8, <3>1, UnrefBalance, TunnelLoadBalance, TunnelStoreBalance,
           TunnelTestBalance, TunnelFreeBalance, EntryFreeBalance DEF GiveUp
      <3> QED
        BY <2>3, <3>2, <3>3
    <2>9. G /\ W
      BY <2>2, <2>5, <2>6, <2>7, <2>8
    <2> QED
      BY <1>1, <2>9 DEF Inv2, FaultsExplained
  <1> QED
    BY <1>2, <1>3

\* The inductive invariant of the balance holds at every moment, with one thread.
THEOREM BalanceInvariance == ASSUME NEW w, Threads = {w} PROVE Spec => []Inv2(w)
  <1>1. Init => Inv2(w)
    BY InitBalance
  <1>2. Inv2(w) /\ [Next]_vars => Inv2(w)'
    BY NextBalance
  <1> QED
    BY <1>1, <1>2, PTL DEF Spec

\* With one upcall thread, when no handler runs, a session with keys of its own has at each of
\* its keys one map node for each Create Session Response of a known gateway that no Delete
\* Session Response has taken away, however often both are repeated and whatever sessions that
\* share keys do (handle_gtpc_message()).
THEOREM Balanced == ASSUME NEW w, Threads = {w} PROVE Spec => []SessionBalance
  <1>1. Inv2(w) => SessionBalance
    <2> SUFFICES ASSUME Inv2(w), AtRest, NEW s \in Sessions, Apart(s), NEW r \in Roles
                 PROVE  Cardinality(NodesOf(s, r)) + deleted[s] = Cardinality(Made(s))
      BY DEF SessionBalance, Made
    <2>1. th[w] = IdleThread /\ ShapeInv /\ BalanceOf(w, s) /\ ChainInv /\ Inv
      BY DEF AtRest, Inv2, Inv1, Inv, HandInv, HandOf, BalanceInv
    <2>2. ~Creating(w, s) /\ ~Deleting(w, s)
      BY <2>1, IdleLemma DEF Creating, Deleting
    <2> DEFINE K == Kept(w, s)
               N == NodesOf(s, r)
               b == [n \in K |-> <<s, n, r>>]
    <2>3. \A n \in K : n \in 1 .. Copies /\ \A q \in Roles : Linked(<<s, n, q>>)
      <3>1. \A n \in K : n \in 1 .. Copies
        BY DEF Kept
      <3> QED
        BY <2>1, <2>2, <3>1 DEF BalanceOf
    <2>4. \A n \in K : <<s, n, r>> \in N
      <3> SUFFICES ASSUME NEW n \in K PROVE <<s, n, r>> \in N
        OBVIOUS
      <3>1. <<s, n, r>> \in ToSet(chain[KeyOf[s][r]])
        BY <2>3 DEF Linked, KeyOfEntry
      <3> QED
        BY <3>1 DEF NodesOf
    <2>5. \A e \in N : \E n \in K : e = <<s, n, r>>
      <3> SUFFICES ASSUME NEW e \in N PROVE \E n \in K : e = <<s, n, r>>
        OBVIOUS
      <3>1. e \in ToSet(chain[KeyOf[s][r]]) /\ e[1] = s /\ e[3] = r
        BY DEF NodesOf
      <3>2. KeyOf[s][r] \in Keys
        BY <2>1, KeyLemma
      <3>3. chain[KeyOf[s][r]] \in Seq(Entries)
        BY <2>1, <3>2 DEF ShapeInv
      <3>4. e \in Entries
        BY <3>1, <3>3 DEF ToSet
      <3>5. e = <<s, e[2], r>> /\ e[2] \in 1 .. Copies
        BY <3>1, <3>4, EntryLemma
      <3>6. Linked(<<s, e[2], r>>)
        <4>1. Linked(e)
          BY <3>1 DEF Linked, KeyOfEntry
        <4> QED
          BY <3>5, <4>1
      <3>7. e[2] \in K
        BY <2>2, <3>5, <3>6 DEF Kept
      <3> QED
        BY <3>5, <3>7
    <2>6. b \in Bijection(K, N)
      <3>1. b \in [K -> N]
        BY <2>4
      <3>2. \A m, n \in K : b[m] = b[n] => m = n
        OBVIOUS
      <3>3. \A e \in N : \E n \in K : b[n] = e
        BY <2>5
      <3> HIDE DEF b, K, N
      <3> QED
        BY <3>1, <3>2, <3>3 DEF Bijection, Injection, Surjection, IsInjective
    <2>7. IsFiniteSet(K)
      BY <2>1, CountsLemma
    <2>8. Cardinality(N) = Cardinality(K)
      <3> HIDE DEF b, K, N
      <3>1. ExistsBijection(K, N)
        BY <2>6 DEF ExistsBijection
      <3> QED
        BY <2>7, <3>1, FS_Bijection
    <2>9. Cardinality(K) + deleted[s] = Cardinality(Made(s))
      BY <2>1 DEF BalanceOf
    <2> QED
      BY <2>8, <2>9
  <1> QED
    BY <1>1, BalanceInvariance, PTL

\* With one upcall thread the handler of a Delete Session Response misses a key of its session
\* only if another endpoint has chosen one of that session's keys too, and t2 only then or when a
\* response for that session has been handled before (gtp_manager_del_teid_pgw()).
THEOREM FaultsHold == ASSUME NEW w, Threads = {w} PROVE Spec => []FaultsExplained
  <1>1. Inv2(w) => FaultsExplained
    BY DEF Inv2
  <1> QED
    BY <1>1, BalanceInvariance, PTL
=============================================================================
