--------------------------- MODULE GtpTunnelProofs ---------------------------
(***************************************************************************)
(* Proofs about the session tables of the GTP manager (GtpTunnel), for any *)
(* finite number of upcall threads, any sessions, keys that are shared or  *)
(* not, and responses that arrive any number of times.                     *)
(***************************************************************************)
EXTENDS GtpTunnel, FiniteSetTheorems, TLAPS

TodoSeqs ==
  {<<"t4", "t5", "ueip", "t2">>, <<"t5", "ueip", "t2">>, <<"ueip", "t2">>, <<"t2">>, <<>>}

Handlers ==
  [pc : {"idle", "put", "ref", "read", "del", "remove", "unref", "tload", "tstore",
         "ttest", "tfree", "efree"},
   op : {"none", "create", "lookup", "delete"}, sess : Sessions \cup {"none"},
   e : Entries \cup {NoEntry}, held : Entries \cup {NoEntry}, todo : TodoSeqs, rc : Int]

Mems == {"unused", "live", "freed", "orphan"}

\* Types.  The count of a tunnel node may be anything: threads race for it.
ShapeInv ==
  /\ KeyOf \in KeyMaps
  /\ chain \in [Keys -> Seq(Entries)]
  /\ entry \in [Entries -> [mem : Mems, ref_count : Nat]]
  /\ tunnel \in [Tunnels -> [mem : Mems, ref_count : Int]]
  /\ arrived \in [Sessions -> 0 .. Copies]
  /\ known \subseteq Sessions
  /\ deleted \in [Sessions -> 0 .. Copies]
  /\ th \in [Threads -> Handlers]

\* What a handler has in hand, by its place.
HandOf(h) ==
  /\ h.pc = "idle" => h = IdleThread
  /\ h.pc = "put" => h.op = "create" /\ h.held = NoEntry /\ h.sess \in Sessions
  /\ h.pc \in {"ref", "read", "remove", "unref", "tload", "tstore", "ttest", "tfree", "efree"} =>
       h.e \in Entries /\ entry[h.e].mem # "unused" /\ h.op \in {"lookup", "delete"}
  /\ h.pc \in {"ref", "read"} /\ h.op = "delete" => h.held = h.e
  /\ h.pc \in {"del", "remove"} => h.op = "delete" /\ h.held \in Entries
  /\ h.op = "delete" => h.sess \in Sessions
  /\ h.held # NoEntry => h.op = "delete" /\ entry[h.held].mem # "unused"

HandInv == \A t \in Threads : HandOf(th[t])

\* A node whose count has come down to zero is out of the map.
OutOf(h) == h.pc \in {"tload", "tstore", "ttest", "tfree", "efree"} => ~Linked(h.e)

OutInv == \A t \in Threads : OutOf(th[t])

\* A linked node is linked once, under its own key, and is not freed.
ChainInv ==
  \A k \in Keys :
    /\ IsInjective(chain[k])
    /\ \A e \in ToSet(chain[k]) : KeyOfEntry(e) = k /\ entry[e].mem = "live"

\* The nodes that a Create Session Response has still to put are its own, and are not
\* in use.
OwnInv ==
  /\ \A s \in Sessions, n \in 1 .. Copies, r \in Roles :
       arrived[s] < n => entry[<<s, n, r>>].mem = "unused"
  /\ \A t \in Threads : th[t].pc = "put" =>
       /\ \E n \in 1 .. arrived[th[t].sess] : th[t].e = <<th[t].sess, n, "t4">>
       /\ \A r \in ToSet(th[t].todo) : entry[<<th[t].e[1], th[t].e[2], r>>].mem = "unused"
  /\ \A t, u \in Threads :
       th[t].pc = "put" /\ th[u].pc = "put" /\ t # u => TunnelOf(th[t].e) # TunnelOf(th[u].e)

\* The handler of a deletion in another session does not reach the nodes of a session
\* that shares no key.
ReachOf(h) ==
  h.op = "delete" =>
    /\ deleted[h.sess] > 0
    /\ \A s \in Sessions : Apart(s) /\ h.sess # s =>
         /\ h.held # NoEntry => h.held[1] # s
         /\ h.pc = "remove" => h.e[1] # s

ApartInv == \A t \in Threads : ReachOf(th[t])

\* Before the first deletion the t2 of a session that shares no key is in the map.
KnownInv ==
  \A s \in Sessions : Apart(s) /\ deleted[s] = 0 =>
    /\ s \in known => \E n \in 1 .. Copies : Linked(<<s, n, "t2">>)
    /\ \A t \in Threads :
         th[t].pc = "put" /\ th[t].sess = s /\ "t2" \notin ToSet(th[t].todo) =>
           Linked(<<s, th[t].e[2], "t2">>)

Inv ==
  /\ ShapeInv /\ HandInv /\ OutInv /\ ChainInv /\ OwnInv /\ EntryRefsExact
  /\ ApartInv /\ KnownInv /\ NullExplained
-----------------------------------------------------------------------------
(* Sets, sequences and records.                                            *)

\* The constants.
LEMMA ConstantsLemma ==
  /\ Copies \in Nat \ {0} /\ IsFiniteSet(Threads)
  /\ \A m \in KeyMaps : \A s \in Sessions : DOMAIN m[s] = Roles
  BY TunnelAssumption

\* No map node is NoEntry, and its parts name it.
LEMMA EntryLemma ==
  /\ NoEntry \notin Entries
  /\ \A s \in Sessions, n \in 1 .. Copies, r \in Roles : <<s, n, r>> \in Entries
  /\ \A e \in Entries : /\ e[1] \in Sessions /\ e[2] \in 1 .. Copies /\ e[3] \in Roles
                        /\ e = <<e[1], e[2], e[3]>>
  BY DEF NoEntry, Entries

\* The role that is put or deleted next, and those after it.
LEMMA TodoLemma ==
  /\ KeyOrder \in TodoSeqs /\ <<>> \in TodoSeqs /\ ToSet(KeyOrder) = Roles /\ ToSet(<<>>) = {}
  /\ \A q \in TodoSeqs : ToSet(q) \subseteq Roles
  /\ \A q \in TodoSeqs \ {<<>>} :
       /\ Head(q) \in Roles /\ Tail(q) \in TodoSeqs
       /\ ToSet(Tail(q)) = ToSet(q) \ {Head(q)} /\ Head(q) \in ToSet(q)
  <1>1. ToSet(<<>>) = {}
    BY DEF ToSet
  <1>2. ToSet(<<"t2">>) = {"t2"}
    BY DEF ToSet
  <1>3. ToSet(<<"ueip", "t2">>) = {"ueip", "t2"}
    BY DEF ToSet
  <1>4. ToSet(<<"t5", "ueip", "t2">>) = {"t5", "ueip", "t2"}
    BY DEF ToSet
  <1>5. ToSet(<<"t4", "t5", "ueip", "t2">>) = {"t4", "t5", "ueip", "t2"}
    BY DEF ToSet
  <1>6. ASSUME NEW q \in TodoSeqs \ {<<>>}
        PROVE  /\ Head(q) \in Roles /\ Tail(q) \in TodoSeqs
               /\ ToSet(Tail(q)) = ToSet(q) \ {Head(q)} /\ Head(q) \in ToSet(q)
    <2>1. CASE q = <<"t2">>
      BY <1>1, <1>2, <2>1 DEF Roles, TodoSeqs
    <2>2. CASE q = <<"ueip", "t2">>
      BY <1>2, <1>3, <2>2 DEF Roles, TodoSeqs
    <2>3. CASE q = <<"t5", "ueip", "t2">>
      BY <1>3, <1>4, <2>3 DEF Roles, TodoSeqs
    <2>4. CASE q = <<"t4", "t5", "ueip", "t2">>
      BY <1>4, <1>5, <2>4 DEF Roles, TodoSeqs
    <2> QED
      BY <2>1, <2>2, <2>3, <2>4 DEF TodoSeqs
  <1>7. \A q \in TodoSeqs : ToSet(q) \subseteq Roles
    BY <1>1, <1>2, <1>3, <1>4, <1>5 DEF TodoSeqs, Roles
  <1> QED
    BY <1>1, <1>5, <1>6, <1>7 DEF KeyOrder, TodoSeqs, Roles

\* A chain with one more node in front.
LEMMA ConsLemma ==
  ASSUME NEW S, NEW q \in Seq(S), IsInjective(q), NEW x \in S, x \notin ToSet(q)
  PROVE  /\ <<x>> \o q \in Seq(S) /\ IsInjective(<<x>> \o q)
         /\ ToSet(<<x>> \o q) = ToSet(q) \cup {x}
  <1> DEFINE p == <<x>> \o q
  <1>1. p \in Seq(S) /\ Len(p) = Len(q) + 1 /\ p[1] = x /\ Len(q) \in Nat
    OBVIOUS
  <1>2. \A i \in 1 .. Len(q) : p[i + 1] = q[i]
    OBVIOUS
  <1>3. DOMAIN p = 1 .. Len(q) + 1 /\ DOMAIN q = 1 .. Len(q)
    BY <1>1
  <1> HIDE DEF p
  <1>4. \A i \in DOMAIN p : i = 1 \/ (i - 1 \in DOMAIN q /\ p[i] = q[i - 1])
    BY <1>1, <1>2, <1>3
  <1>5. \A i \in DOMAIN q : q[i] \in ToSet(q) /\ q[i] # x
    BY DEF ToSet
  <1>6. IsInjective(p)
    <2> SUFFICES ASSUME NEW i \in DOMAIN p, NEW j \in DOMAIN p, p[i] = p[j] PROVE i = j
      BY DEF IsInjective
    <2>1. CASE i = 1 \/ j = 1
      BY <1>1, <1>4, <1>5, <2>1
    <2>2. CASE i # 1 /\ j # 1
      <3>1. i - 1 = j - 1
        BY <1>4, <2>2 DEF IsInjective
      <3> QED
        BY <1>3, <3>1
    <2> QED
      BY <2>1, <2>2
  <1>7. ToSet(p) = ToSet(q) \cup {x}
    <2>1. \A y \in ToSet(p) : y \in ToSet(q) \cup {x}
      BY <1>1, <1>4, <1>5 DEF ToSet
    <2>2. \A i \in DOMAIN q : i + 1 \in DOMAIN p /\ p[i + 1] = q[i]
      BY <1>1, <1>2, <1>3
    <2>3. 1 \in DOMAIN p
      BY <1>1, <1>3
    <2>4. \A y \in ToSet(q) \cup {x} : y \in ToSet(p)
      BY <1>1, <2>2, <2>3 DEF ToSet
    <2> QED
      BY <2>1, <2>4
  <1> QED
    BY <1>1, <1>6, <1>7 DEF p

\* What RemoveAt() leaves, place by place.
LEMMA RemoveAtPlaces ==
  ASSUME NEW S, NEW q \in Seq(S), NEW i \in DOMAIN q
  PROVE  LET p == RemoveAt(q, i) IN
         /\ p \in Seq(S) /\ DOMAIN p = 1 .. Len(q) - 1
         /\ \A j \in DOMAIN p : /\ j < i => j \in DOMAIN q /\ p[j] = q[j]
                                /\ i <= j => j + 1 \in DOMAIN q /\ p[j] = q[j + 1]
  <1> DEFINE a == SubSeq(q, 1, i - 1)
             b == SubSeq(q, i + 1, Len(q))
  <1>0. i \in 1 .. Len(q) /\ DOMAIN q = 1 .. Len(q) /\ Len(q) \in Nat
    OBVIOUS
  <1>1. a \in Seq(S) /\ Len(a) = i - 1 /\ \A j \in 1 .. i - 1 : a[j] = q[j]
    BY <1>0
  <1>2. b \in Seq(S) /\ Len(b) = Len(q) - i /\ \A j \in 1 .. Len(q) - i : b[j] = q[j + i]
    BY <1>0
  <1>3. RemoveAt(q, i) = a \o b
    BY DEF RemoveAt
  <1> HIDE DEF a, b
  <1> DEFINE p == a \o b
  <1>4. p \in Seq(S) /\ Len(p) = Len(q) - 1
    <2>0. \A y, z \in Seq(S) : y \o z \in Seq(S) /\ Len(y \o z) = Len(y) + Len(z)
      OBVIOUS
    <2>1. p \in Seq(S) /\ Len(p) = Len(a) + Len(b)
      BY <2>0, <1>1, <1>2
    <2> HIDE DEF p
    <2> QED
      BY <1>0, <1>1, <1>2, <2>1
  <1>5. \A j \in 1 .. i - 1 : p[j] = a[j]
    BY <1>1, <1>2
  <1>6. \A j \in i .. Len(q) - 1 : p[j] = b[j - (i - 1)] /\ j - (i - 1) \in 1 .. Len(q) - i
    BY <1>0, <1>1, <1>2
  <1>7. \A j \in i .. Len(q) - 1 : p[j] = q[j + 1]
    <2> SUFFICES ASSUME NEW j \in i .. Len(q) - 1 PROVE p[j] = q[j + 1]
      OBVIOUS
    <2>1. j - (i - 1) + i = j + 1
      BY <1>0
    <2>2. p[j] = q[j - (i - 1) + i]
      BY <1>2, <1>6
    <2> QED
      BY <2>1, <2>2
  <1>8. DOMAIN p = 1 .. Len(q) - 1
    BY <1>4
  <1> HIDE DEF p
  <1>9. \A j \in DOMAIN p : /\ j < i => j \in DOMAIN q /\ p[j] = q[j]
                            /\ i <= j => j + 1 \in DOMAIN q /\ p[j] = q[j + 1]
    BY <1>0, <1>1, <1>5, <1>7, <1>8
  <1> QED
    BY <1>3, <1>4, <1>8, <1>9 DEF p

\* A chain with one node less.
LEMMA RemoveAtLemma ==
  ASSUME NEW S, NEW s \in Seq(S), IsInjective(s), NEW i \in DOMAIN s
  PROVE  /\ RemoveAt(s, i) \in Seq(S) /\ IsInjective(RemoveAt(s, i))
         /\ ToSet(RemoveAt(s, i)) = ToSet(s) \ {s[i]}
  <1> DEFINE r == RemoveAt(s, i)
  <1>1. i \in 1 .. Len(s) /\ DOMAIN s = 1 .. Len(s) /\ Len(s) \in Nat
    OBVIOUS
  <1>2. /\ r \in Seq(S) /\ DOMAIN r = 1 .. Len(s) - 1
        /\ \A j \in DOMAIN r : /\ j < i => j \in DOMAIN s /\ r[j] = s[j]
                               /\ i <= j => j + 1 \in DOMAIN s /\ r[j] = s[j + 1]
    BY RemoveAtPlaces
  <1> HIDE DEF r
  <1> DEFINE old(j) == IF j < i THEN j ELSE j + 1
  <1>3. \A j \in DOMAIN r : old(j) \in DOMAIN s /\ old(j) # i /\ r[j] = s[old(j)]
    BY <1>1, <1>2
  <1>4. \A j, k \in DOMAIN r : old(j) = old(k) => j = k
    BY <1>1, <1>2
  <1>5. \A k \in DOMAIN s : k # i => \E j \in DOMAIN r : old(j) = k
    <2> SUFFICES ASSUME NEW k \in DOMAIN s, k # i PROVE \E j \in DOMAIN r : old(j) = k
      OBVIOUS
    <2>1. CASE k < i
      BY <1>1, <1>2, <2>1
    <2>2. CASE ~(k < i)
      <3>1. k - 1 \in DOMAIN r /\ old(k - 1) = k
        BY <1>1, <1>2, <2>2
      <3> QED
        BY <3>1
    <2> QED
      BY <2>1, <2>2
  <1> HIDE DEF old
  <1>6. IsInjective(r)
    BY <1>3, <1>4 DEF IsInjective
  <1>7. ToSet(r) = ToSet(s) \ {s[i]}
    <2>1. \A y \in ToSet(r) : y \in ToSet(s) \ {s[i]}
      BY <1>1, <1>3 DEF ToSet, IsInjective
    <2>2. \A y \in ToSet(s) \ {s[i]} : y \in ToSet(r)
      BY <1>3, <1>5 DEF ToSet
    <2> QED
      BY <2>1, <2>2
  <1> QED
    BY <1>2, <1>6, <1>7 DEF r

\* The newest node of a chain is one of it.
LEMMA HeadLemma ==
  ASSUME NEW S, NEW q \in Seq(S), q # <<>>
  PROVE  Head(q) \in ToSet(q) /\ Head(q) \in S
  <1>1. 1 \in DOMAIN q /\ Head(q) = q[1] /\ q[1] \in S
    OBVIOUS
  <1> QED
    BY <1>1 DEF ToSet
-----------------------------------------------------------------------------
(* Handlers, and who counts.                                               *)

\* Only thread t changes.
OnlyThread(t) ==
  /\ th' \in [Threads -> Handlers]
  /\ \A u \in Threads : u # t => th'[u] = th[u]

Keeps(h, e) == h.held = e /\ h.pc # "ref"
Uses(h, e) == h.e = e /\ (h.pc = "unref" \/ (h.op = "lookup" /\ h.pc = "read"))
One(b) == IF b THEN 1 ELSE 0

\* The keys of a session are keys.
LEMMA KeyLemma ==
  ASSUME ShapeInv
  PROVE  /\ \A s \in Sessions, r \in Roles : KeyOf[s][r] \in Keys
         /\ \A e \in Entries : KeyOfEntry(e) \in Keys /\ KeyOfEntry(e) = KeyOf[e[1]][e[3]]
  <1>1. \A s \in Sessions, r \in Roles : KeyOf[s][r] \in Keys
    BY DEF ShapeInv, Keys
  <1> QED
    BY <1>1, EntryLemma DEF KeyOfEntry

\* The fields of a handler.
LEMMA HandlerFields ==
  ASSUME ShapeInv, NEW t \in Threads
  PROVE  /\ th[t] \in Handlers /\ th[t].todo \in TodoSeqs /\ th[t].rc \in Int
         /\ th[t].e \in Entries \cup {NoEntry} /\ th[t].held \in Entries \cup {NoEntry}
         /\ th[t].sess \in Sessions \cup {"none"}
  BY DEF ShapeInv, Handlers

\* A handler without a packet has nothing.
LEMMA IdleLemma ==
  /\ IdleThread \in Handlers /\ IdleThread.pc = "idle" /\ IdleThread.op = "none"
  /\ IdleThread.e = NoEntry /\ IdleThread.held = NoEntry
  BY TodoLemma DEF IdleThread, Handlers

\* A subset of the threads with one more or one less.
LEMMA OneLemma ==
  ASSUME NEW S \in SUBSET Threads, NEW T \in SUBSET Threads, NEW t \in Threads,
         \A u \in Threads : u # t => (u \in S <=> u \in T)
  PROVE  /\ Cardinality(S) \in Nat /\ Cardinality(T) \in Nat
         /\ Cardinality(T) = Cardinality(S) + One(t \in T) - One(t \in S)
         /\ t \in S => Cardinality(S) >= 1
  <1>1. IsFiniteSet(S) /\ IsFiniteSet(T)
    BY ConstantsLemma, FS_Subset
  <1>2. Cardinality(S) \in Nat /\ Cardinality(T) \in Nat
    BY <1>1, FS_CardinalityType
  <1>3. t \in S => Cardinality(S) >= 1
    BY <1>1, <1>2, FS_EmptySet
  <1>4. CASE t \in T /\ t \notin S
    <2>1. T = S \cup {t}
      BY <1>4
    <2> QED
      BY <1>1, <1>2, <1>3, <1>4, <2>1, FS_AddElement DEF One
  <1>5. CASE t \notin T /\ t \in S
    <2>1. T = S \ {t}
      BY <1>5
    <2> QED
      BY <1>1, <1>2, <1>3, <1>5, <2>1, FS_RemoveElement DEF One
  <1>6. CASE t \in T <=> t \in S
    <2>1. T = S
      BY <1>6
    <2> QED
      BY <1>2, <1>3, <1>6, <2>1 DEF One
  <1> QED
    BY <1>4, <1>5, <1>6

\* How the step of a thread changes what is counted for a map node.
LEMMA CountLemma ==
  ASSUME NEW t \in Threads, OnlyThread(t), NEW e
  PROVE  LET k == Cardinality(Keepers(e))
             u == Cardinality(Users(e))
             a == Keeps(th[t], e)
             b == Uses(th[t], e)
             c == Keeps(th'[t], e)
             d == Uses(th'[t], e)
         IN  /\ k \in Nat /\ u \in Nat /\ k' \in Nat /\ u' \in Nat
             /\ k' = k + One(c) - One(a) /\ u' = u + One(d) - One(b)
             /\ (a => k >= 1) /\ (b => u >= 1)
  <1>1. /\ Keepers(e) \in SUBSET Threads /\ Keepers(e)' \in SUBSET Threads
        /\ Users(e) \in SUBSET Threads /\ Users(e)' \in SUBSET Threads
    BY DEF Keepers, Users
  <1>2. \A v \in Threads : v # t => (v \in Keepers(e) <=> v \in Keepers(e)')
    BY DEF Keepers, OnlyThread
  <1>3. \A v \in Threads : v # t => (v \in Users(e) <=> v \in Users(e)')
    BY DEF Users, OnlyThread
  <1>4. /\ t \in Keepers(e) <=> Keeps(th[t], e)
        /\ t \in Keepers(e)' <=> Keeps(th'[t], e)
    BY DEF Keepers, Keeps
  <1>5. /\ t \in Users(e) <=> Uses(th[t], e)
        /\ t \in Users(e)' <=> Uses(th'[t], e)
    BY DEF Users, Uses
  <1>6. /\ Cardinality(Keepers(e)) \in Nat /\ Cardinality(Keepers(e)') \in Nat
        /\ Cardinality(Keepers(e)') = Cardinality(Keepers(e)) + One(Keeps(th'[t], e))
                                        - One(Keeps(th[t], e))
        /\ Keeps(th[t], e) => Cardinality(Keepers(e)) >= 1
    BY <1>1, <1>2, <1>4, OneLemma DEF One
  <1>7. /\ Cardinality(Users(e)) \in Nat /\ Cardinality(Users(e)') \in Nat
        /\ Cardinality(Users(e)') = Cardinality(Users(e)) + One(Uses(th'[t], e))
                                      - One(Uses(th[t], e))
        /\ Uses(th[t], e) => Cardinality(Users(e)) >= 1
    BY <1>1, <1>3, <1>5, OneLemma DEF One
  <1> QED
    BY <1>6, <1>7

\* A step that leaves the maps and the counts alone, and in which the thread counts for
\* the same nodes as before.
LEMMA QuietLemma ==
  ASSUME EntryRefsExact, NEW t \in Threads, OnlyThread(t), UNCHANGED <<KeyOf, chain, entry>>,
         \A e \in Entries : One(Keeps(th'[t], e)) + One(Uses(th'[t], e))
                              = One(Keeps(th[t], e)) + One(Uses(th[t], e))
  PROVE  EntryRefsExact'
  <1> SUFFICES ASSUME NEW e \in Entries, entry'[e].mem = "live"
               PROVE  entry'[e].ref_count = (IF Linked(e)' THEN 1 ELSE 0)
                        + Cardinality(Keepers(e)') + Cardinality(Users(e)')
    BY DEF EntryRefsExact
  <1>1. entry[e].mem = "live" /\ entry'[e].ref_count = entry[e].ref_count
    OBVIOUS
  <1>2. Linked(e)' <=> Linked(e)
    BY DEF Linked, KeyOfEntry
  <1>3. entry[e].ref_count = (IF Linked(e) THEN 1 ELSE 0) + Cardinality(Keepers(e))
                               + Cardinality(Users(e))
    BY <1>1 DEF EntryRefsExact
  <1>4. One(Keeps(th'[t], e)) \in Int /\ One(Uses(th'[t], e)) \in Int
        /\ One(Keeps(th[t], e)) \in Int /\ One(Uses(th[t], e)) \in Int
    BY DEF One
  <1> QED
    BY <1>1, <1>2, <1>3, <1>4, CountLemma
-----------------------------------------------------------------------------
(* Steps.                                                                  *)

\* A step that stops the process, or none.
LEMMA StopStep ==
  ASSUME Inv, UNCHANGED <<KeyOf, chain, entry, tunnel, arrived, known, deleted, th>>,
         NullExplained'
  PROVE  Inv'
  <1>1. ShapeInv'
    BY DEF Inv, ShapeInv
  <1>2. HandInv'
    BY DEF Inv, HandInv, HandOf
  <1>3. OutInv'
    BY DEF Inv, OutInv, OutOf, Linked, KeyOfEntry
  <1>4. ChainInv'
    BY DEF Inv, ChainInv, KeyOfEntry
  <1>5. OwnInv'
    BY DEF Inv, OwnInv
  <1>6. EntryRefsExact'
    BY DEF Inv, EntryRefsExact, Linked, KeyOfEntry, Keepers, Users
  <1>7. ApartInv'
    BY DEF Inv, ApartInv, ReachOf, Apart
  <1>8. KnownInv'
    BY DEF Inv, KnownInv, Apart, Linked, KeyOfEntry
  <1> QED
    BY <1>1, <1>2, <1>3, <1>4, <1>5, <1>6, <1>7, <1>8 DEF Inv

\* A step of a thread that leaves the maps, their nodes and the history alone: it is
\* enough to look at what the thread has in hand afterwards.
LEMMA HandStep ==
  ASSUME Inv, NEW t \in Threads, OnlyThread(t),
         UNCHANGED <<KeyOf, chain, entry, arrived, known, deleted>>,
         fault' = "none", tunnel' \in [Tunnels -> [mem : Mems, ref_count : Int]],
         th'[t].pc # "put", HandOf(th[t])', OutOf(th[t])', ReachOf(th[t])',
         \A e \in Entries : One(Keeps(th'[t], e)) + One(Uses(th'[t], e))
                              = One(Keeps(th[t], e)) + One(Uses(th[t], e))
  PROVE  Inv'
  <1>1. ShapeInv'
    BY DEF Inv, ShapeInv, OnlyThread
  <1>2. HandInv'
    BY DEF Inv, HandInv, HandOf, OnlyThread
  <1>3. OutInv'
    BY DEF Inv, OutInv, OutOf, Linked, KeyOfEntry, OnlyThread
  <1>4. ChainInv'
    BY DEF Inv, ChainInv, KeyOfEntry
  <1>5. OwnInv'
    BY DEF Inv, OwnInv, OnlyThread
  <1>6. EntryRefsExact'
    BY QuietLemma DEF Inv
  <1>7. ApartInv'
    BY DEF Inv, ApartInv, ReachOf, Apart, OnlyThread
  <1>8. KnownInv'
    BY DEF Inv, KnownInv, Apart, Linked, KeyOfEntry, OnlyThread
  <1>9. NullExplained'
    BY DEF NullExplained
  <1> QED
    BY <1>1, <1>2, <1>3, <1>4, <1>5, <1>6, <1>7, <1>8, <1>9 DEF Inv
-----------------------------------------------------------------------------
\* A thread goes on as h.
LEMMA BecomeLemma ==
  ASSUME ShapeInv, NEW t \in Threads, NEW h \in Handlers, Become(t, h)
  PROVE  OnlyThread(t) /\ th'[t] = h
  BY DEF ShapeInv, Become, OnlyThread

\* The newest node of a key: it is linked, live and of that key.
LEMMA NewestLemma ==
  ASSUME Inv, NEW k \in Keys, chain[k] # <<>>
  PROVE  LET e == Head(chain[k]) IN
         /\ e \in Entries /\ e \in ToSet(chain[k]) /\ entry[e].mem = "live"
         /\ KeyOf[e[1]][e[3]] = k /\ e # NoEntry
  <1>1. chain[k] \in Seq(Entries)
    BY DEF Inv, ShapeInv
  <1>2. Head(chain[k]) \in ToSet(chain[k]) /\ Head(chain[k]) \in Entries
    BY <1>1, HeadLemma
  <1> QED
    BY <1>2, EntryLemma DEF Inv, ChainInv, KeyOfEntry

\* Looking a session up.
LEMMA LookupStartStep ==
  ASSUME Inv, UNCHANGED KeyOf, NEW t \in Threads, NEW s \in Sessions, NEW r \in Roles,
         LookupStart(t, s, r)
  PROVE  Inv'
  <1> DEFINE k == KeyOf[s][r]
             h == [IdleThread EXCEPT !.pc = "ref", !.op = "lookup", !.sess = s,
                                     !.e = Head(chain[k])]
  <1>1. k \in Keys /\ ShapeInv
    BY KeyLemma DEF Inv
  <1>2. chain[k] # <<>> /\ Become(t, h) /\ At(t, "idle")
    BY DEF LookupStart
  <1>3. /\ Head(chain[k]) \in Entries /\ entry[Head(chain[k])].mem = "live"
    BY <1>1, <1>2, NewestLemma
  <1>4. /\ h \in Handlers /\ h.pc = "ref" /\ h.op = "lookup" /\ h.e = Head(chain[k])
        /\ h.held = NoEntry
    BY <1>3, IdleLemma DEF Handlers
  <1> HIDE DEF h, k
  <1>5. OnlyThread(t) /\ th'[t] = h
    BY <1>1, <1>2, <1>4, BecomeLemma
  <1>6. /\ UNCHANGED <<chain, entry, tunnel, arrived, known, deleted>>
        /\ fault' = "none" /\ th[t] = IdleThread
    BY DEF LookupStart, At, Inv, HandInv, HandOf
  <1>7. HandOf(th[t])'
    BY <1>3, <1>4, <1>5, <1>6 DEF HandOf
  <1>8. OutOf(th[t])' /\ ReachOf(th[t])'
    BY <1>4, <1>5 DEF OutOf, ReachOf
  <1>9. \A e \in Entries : One(Keeps(th'[t], e)) + One(Uses(th'[t], e))
                             = One(Keeps(th[t], e)) + One(Uses(th[t], e))
    BY <1>4, <1>5, <1>6, IdleLemma, EntryLemma DEF Keeps, Uses, One
  <1> QED
    BY <1>4, <1>5, <1>6, <1>7, <1>8, <1>9, HandStep DEF Inv, ShapeInv

\* Reading the tunnel node.
LEMMA ReadStep ==
  ASSUME Inv, UNCHANGED KeyOf, NEW t \in Threads, Read(t)
  PROVE  Inv'
  <1> DEFINE g == th[t]
             h == IF g.op = "lookup" THEN [g EXCEPT !.pc = "unref"]
                                     ELSE [g EXCEPT !.pc = "del", !.todo = KeyOrder]
  <1>1. ShapeInv /\ Become(t, h) /\ g \in Handlers
    BY HandlerFields DEF Inv, Read
  <1>2. g.pc = "read" /\ HandOf(g) /\ ReachOf(g)
    BY DEF Read, At, Inv, HandInv, ApartInv
  <1>3. /\ g.e \in Entries /\ entry[g.e].mem # "unused" /\ g.op \in {"lookup", "delete"}
        /\ g.op = "delete" => g.held = g.e
        /\ g.held # NoEntry => g.op = "delete"
    BY <1>2 DEF HandOf
  <1>4. /\ h \in Handlers /\ h.e = g.e /\ h.held = g.held /\ h.op = g.op /\ h.sess = g.sess
        /\ h.pc = IF g.op = "lookup" THEN "unref" ELSE "del"
    BY <1>1, <1>3, TodoLemma DEF Handlers
  <1> HIDE DEF h
  <1>5. OnlyThread(t) /\ th'[t] = h
    BY <1>1, <1>4, BecomeLemma
  <1>6. UNCHANGED <<chain, entry, tunnel, arrived, known, deleted>> /\ fault' = "none"
    BY DEF Read, At
  <1>7. HandOf(th[t])'
    BY <1>2, <1>3, <1>4, <1>5, <1>6 DEF HandOf
  <1>8. OutOf(th[t])' /\ ReachOf(th[t])'
    BY <1>2, <1>4, <1>5, <1>6 DEF OutOf, ReachOf, Apart
  <1>9. \A e \in Entries : One(Keeps(th'[t], e)) + One(Uses(th'[t], e))
                             = One(Keeps(th[t], e)) + One(Uses(th[t], e))
    BY <1>2, <1>3, <1>4, <1>5, EntryLemma DEF Keeps, Uses, One
  <1> QED
    BY <1>4, <1>5, <1>6, <1>7, <1>8, <1>9, HandStep DEF Inv, ShapeInv

\* The key a deletion works on, and whom it cannot reach.
LEMMA DelKeyLemma ==
  ASSUME Inv, NEW t \in Threads, th[t].pc = "del", th[t].todo # <<>>
  PROVE  /\ KeyToDelete(th[t]) \in Keys
         /\ \A s \in Sessions, r \in Roles : Apart(s) /\ th[t].sess # s =>
              KeyToDelete(th[t]) # KeyOf[s][r]
  <1> DEFINE g == th[t]
  <1>1. /\ g.held \in Entries /\ g.held[1] \in Sessions /\ g.sess \in Sessions
        /\ g.op = "delete" /\ g.held # NoEntry
    BY EntryLemma DEF Inv, HandInv, HandOf
  <1>2. Head(g.todo) \in Roles
    BY TodoLemma, HandlerFields DEF Inv
  <1>3. \A s \in Sessions : Apart(s) /\ g.sess # s => g.held[1] # s
    BY <1>1 DEF Inv, ApartInv, ReachOf
  <1>4. "t2" \in Roles
    BY DEF Roles
  <1> QED
    BY <1>1, <1>2, <1>3, <1>4, KeyLemma DEF KeyToDelete, Apart, Inv

\* Finding the node to delete.
LEMMA DelFindStep ==
  ASSUME Inv, UNCHANGED KeyOf, NEW t \in Threads, DelFind(t)
  PROVE  Inv'
  <1> DEFINE g == th[t]
             k == KeyToDelete(g)
             h == [g EXCEPT !.pc = "remove", !.e = Head(chain[k]), !.todo = Tail(@)]
  <1>1. ShapeInv /\ Become(t, h) /\ g \in Handlers /\ g.todo # <<>> /\ g.todo \in TodoSeqs
    BY HandlerFields DEF Inv, DelFind
  <1>2. g.pc = "del" /\ HandOf(g) /\ ReachOf(g) /\ chain[k] # <<>>
    BY DEF DelFind, At, Inv, HandInv, ApartInv
  <1>3. /\ g.op = "delete" /\ g.held \in Entries /\ g.sess \in Sessions
        /\ entry[g.held].mem # "unused" /\ g.held # NoEntry
    BY <1>2, EntryLemma DEF HandOf
  <1>4. /\ k \in Keys
        /\ \A s \in Sessions, r \in Roles : Apart(s) /\ g.sess # s => k # KeyOf[s][r]
    BY <1>1, <1>2, DelKeyLemma
  <1>5. /\ Head(chain[k]) \in Entries /\ entry[Head(chain[k])].mem = "live"
        /\ k = KeyOf[Head(chain[k])[1]][Head(chain[k])[3]]
    BY <1>2, <1>4, NewestLemma
  <1>6. /\ h \in Handlers /\ h.e = Head(chain[k]) /\ h.held = g.held /\ h.op = g.op
        /\ h.sess = g.sess /\ h.pc = "remove"
    BY <1>1, <1>5, TodoLemma DEF Handlers
  <1> HIDE DEF h, k
  <1>7. OnlyThread(t) /\ th'[t] = h
    BY <1>1, <1>6, BecomeLemma
  <1>8. UNCHANGED <<chain, entry, tunnel, arrived, known, deleted>> /\ fault' = "none"
    BY DEF DelFind, At
  <1>9. HandOf(th[t])'
    BY <1>3, <1>5, <1>6, <1>7, <1>8 DEF HandOf
  <1>10. \A s \in Sessions : Apart(s) /\ g.sess # s => h.e[1] # s
    BY <1>4, <1>5, <1>6, EntryLemma
  <1>11. OutOf(th[t])' /\ ReachOf(th[t])'
    BY <1>2, <1>3, <1>6, <1>7, <1>8, <1>10 DEF OutOf, ReachOf, Apart
  <1>12. \A e \in Entries : One(Keeps(th'[t], e)) + One(Uses(th'[t], e))
                              = One(Keeps(th[t], e)) + One(Uses(th[t], e))
    BY <1>2, <1>3, <1>6, <1>7 DEF Keeps, Uses, One
  <1> QED
    BY <1>6, <1>7, <1>8, <1>9, <1>11, <1>12, HandStep DEF Inv, ShapeInv

\* The node is not there and found_node happens to be NULL.
LEMMA DelMissNullStep ==
  ASSUME Inv, UNCHANGED KeyOf, NEW t \in Threads, DelMissNull(t)
  PROVE  Inv'
  <1> DEFINE g == th[t]
             h == [g EXCEPT !.todo = Tail(@)]
  <1>1. ShapeInv /\ Become(t, h) /\ g \in Handlers /\ g.todo # <<>> /\ g.todo \in TodoSeqs
    BY HandlerFields DEF Inv, DelMissNull
  <1>2. g.pc = "del" /\ HandOf(g) /\ ReachOf(g)
    BY DEF DelMissNull, At, Inv, HandInv, ApartInv
  <1>3. /\ h \in Handlers /\ h.e = g.e /\ h.held = g.held /\ h.op = g.op
        /\ h.sess = g.sess /\ h.pc = "del"
    BY <1>1, <1>2, TodoLemma DEF Handlers
  <1> HIDE DEF h
  <1>4. OnlyThread(t) /\ th'[t] = h
    BY <1>1, <1>3, BecomeLemma
  <1>5. UNCHANGED <<chain, entry, tunnel, arrived, known, deleted>> /\ fault' = "none"
    BY DEF DelMissNull, At
  <1>6. HandOf(th[t])'
    BY <1>2, <1>3, <1>4, <1>5 DEF HandOf
  <1>7. OutOf(th[t])' /\ ReachOf(th[t])'
    BY <1>2, <1>3, <1>4, <1>5 DEF OutOf, ReachOf, Apart
  <1>8. \A e \in Entries : One(Keeps(th'[t], e)) + One(Uses(th'[t], e))
                              = One(Keeps(th[t], e)) + One(Uses(th[t], e))
    BY <1>2, <1>3, <1>4 DEF Keeps, Uses, One
  <1> QED
    BY <1>3, <1>4, <1>5, <1>6, <1>7, <1>8, HandStep DEF Inv, ShapeInv

\* The handler gives up the node it looked up.
LEMMA DelHeldStep ==
  ASSUME Inv, UNCHANGED KeyOf, NEW t \in Threads, DelHeld(t)
  PROVE  Inv'
  <1> DEFINE g == th[t]
             h == [g EXCEPT !.pc = "unref", !.e = g.held, !.held = NoEntry]
  <1>1. ShapeInv /\ Become(t, h) /\ g \in Handlers
    BY HandlerFields DEF Inv, DelHeld
  <1>2. g.pc = "del" /\ HandOf(g) /\ ReachOf(g)
    BY DEF DelHeld, At, Inv, HandInv, ApartInv
  <1>3. /\ g.op = "delete" /\ g.held \in Entries /\ g.sess \in Sessions
        /\ entry[g.held].mem # "unused" /\ g.held # NoEntry
    BY <1>2, EntryLemma DEF HandOf
  <1>4. /\ h \in Handlers /\ h.e = g.held /\ h.held = NoEntry /\ h.op = g.op
        /\ h.sess = g.sess /\ h.pc = "unref"
    BY <1>1, <1>3 DEF Handlers
  <1> HIDE DEF h
  <1>5. OnlyThread(t) /\ th'[t] = h
    BY <1>1, <1>4, BecomeLemma
  <1>6. UNCHANGED <<chain, entry, tunnel, arrived, known, deleted>> /\ fault' = "none"
    BY DEF DelHeld, At
  <1>7. HandOf(th[t])'
    BY <1>3, <1>4, <1>5, <1>6 DEF HandOf
  <1>8. OutOf(th[t])' /\ ReachOf(th[t])'
    BY <1>2, <1>4, <1>5, <1>6 DEF OutOf, ReachOf, Apart
  <1>9. \A e \in Entries : One(Keeps(th'[t], e)) + One(Uses(th'[t], e))
                              = One(Keeps(th[t], e)) + One(Uses(th[t], e))
    BY <1>2, <1>3, <1>4, <1>5, EntryLemma DEF Keeps, Uses, One
  <1> QED
    BY <1>4, <1>5, <1>6, <1>7, <1>8, <1>9, HandStep DEF Inv, ShapeInv
-----------------------------------------------------------------------------
\* A step on the way from the last reference of a map node to its end.
LEMMA CountDownLemma ==
  ASSUME Inv, UNCHANGED KeyOf, NEW t \in Threads, NEW h \in Handlers, Become(t, h),
         UNCHANGED <<chain, entry, arrived, known, deleted>>, fault' = "none",
         tunnel' \in [Tunnels -> [mem : Mems, ref_count : Int]],
         th[t].pc \in {"tload", "tstore", "ttest", "tfree"},
         h.pc \in {"tstore", "ttest", "tfree", "efree"},
         h.e = th[t].e, h.held = th[t].held, h.op = th[t].op, h.sess = th[t].sess
  PROVE  Inv'
  <1>1. HandOf(th[t]) /\ OutOf(th[t]) /\ ReachOf(th[t]) /\ ShapeInv
    BY DEF Inv, HandInv, OutInv, ApartInv
  <1>2. OnlyThread(t) /\ th'[t] = h
    BY <1>1, BecomeLemma
  <1>3. HandOf(th[t])'
    BY <1>1, <1>2 DEF HandOf
  <1>4. OutOf(th[t])'
    BY <1>1, <1>2 DEF OutOf, Linked, KeyOfEntry
  <1>5. ReachOf(th[t])'
    BY <1>1, <1>2 DEF ReachOf, Apart
  <1>6. \A e \in Entries : One(Keeps(th'[t], e)) + One(Uses(th'[t], e))
                             = One(Keeps(th[t], e)) + One(Uses(th[t], e))
    BY <1>2 DEF Keeps, Uses, One
  <1> QED
    BY <1>2, <1>3, <1>4, <1>5, <1>6, HandStep

\* The tunnel node of a map node.
LEMMA TunnelLemma ==
  ASSUME Inv, NEW t \in Threads, th[t].pc \in {"tload", "tstore", "ttest", "tfree"}
  PROVE  /\ th[t] \in Handlers /\ th[t].rc \in Int
         /\ TunnelOf(th[t].e) \in Tunnels /\ tunnel[TunnelOf(th[t].e)].ref_count \in Int
  <1>1. th[t].e \in Entries
    BY DEF Inv, HandInv, HandOf
  <1>2. TunnelOf(th[t].e) \in Tunnels
    BY <1>1, EntryLemma DEF TunnelOf, Tunnels
  <1> QED
    BY <1>2, HandlerFields DEF Inv, ShapeInv

\* The load of the count of the tunnel node.
LEMMA TunnelLoadStep ==
  ASSUME Inv, UNCHANGED KeyOf, NEW t \in Threads, TunnelLoad(t)
  PROVE  Inv'
  <1> DEFINE g == th[t]
             h == [g EXCEPT !.pc = "tstore", !.rc = tunnel[TunnelOf(g.e)].ref_count]
  <1>1. g.pc = "tload" /\ Become(t, h) /\ fault' = "none"
    BY DEF TunnelLoad, At
  <1>2. g \in Handlers /\ tunnel[TunnelOf(g.e)].ref_count \in Int
    BY <1>1, TunnelLemma
  <1>3. /\ h \in Handlers /\ h.e = g.e /\ h.held = g.held /\ h.op = g.op
        /\ h.sess = g.sess /\ h.pc = "tstore"
    BY <1>2 DEF Handlers
  <1>4. /\ UNCHANGED <<chain, entry, arrived, known, deleted>>
        /\ tunnel' \in [Tunnels -> [mem : Mems, ref_count : Int]]
    BY DEF TunnelLoad, Inv, ShapeInv
  <1> HIDE DEF h
  <1> QED
    BY <1>1, <1>3, <1>4, CountDownLemma

\* The store.
LEMMA TunnelStoreStep ==
  ASSUME Inv, UNCHANGED KeyOf, NEW t \in Threads, TunnelStore(t)
  PROVE  Inv'
  <1> DEFINE g == th[t]
             v == g.rc - 1
             h == [g EXCEPT !.pc = "ttest", !.rc = v]
  <1>1. /\ g.pc = "tstore" /\ Become(t, h) /\ fault' = "none"
        /\ tunnel' = [tunnel EXCEPT ![TunnelOf(g.e)].ref_count = v]
        /\ UNCHANGED <<chain, entry, arrived, known, deleted>>
    BY DEF TunnelStore, At
  <1>2. g \in Handlers /\ v \in Int
    BY <1>1, TunnelLemma
  <1> HIDE DEF v
  <1>3. /\ h \in Handlers /\ h.e = g.e /\ h.held = g.held /\ h.op = g.op
        /\ h.sess = g.sess /\ h.pc = "ttest"
    BY <1>2 DEF Handlers
  <1>4. tunnel' \in [Tunnels -> [mem : Mems, ref_count : Int]]
    BY <1>1, <1>2 DEF Inv, ShapeInv
  <1> HIDE DEF h
  <1> QED
    BY <1>1, <1>3, <1>4, CountDownLemma

\* The test for zero.
LEMMA TunnelTestStep ==
  ASSUME Inv, UNCHANGED KeyOf, NEW t \in Threads, TunnelTest(t)
  PROVE  Inv'
  <1> DEFINE g == th[t]
  <1>1. PICK rc \in {g.rc, tunnel[TunnelOf(g.e)].ref_count} :
          Become(t, [g EXCEPT !.pc = IF rc = 0 THEN "tfree" ELSE "efree"])
    BY DEF TunnelTest
  <1> DEFINE h == [g EXCEPT !.pc = IF rc = 0 THEN "tfree" ELSE "efree"]
  <1>2. g.pc = "ttest" /\ Become(t, h) /\ fault' = "none"
    BY <1>1 DEF TunnelTest, At
  <1>3. /\ h \in Handlers /\ h.e = g.e /\ h.held = g.held /\ h.op = g.op
        /\ h.sess = g.sess /\ h.pc \in {"tfree", "efree"}
    BY <1>2, TunnelLemma DEF Handlers
  <1>4. /\ UNCHANGED <<chain, entry, arrived, known, deleted>>
        /\ tunnel' \in [Tunnels -> [mem : Mems, ref_count : Int]]
    BY DEF TunnelTest, Inv, ShapeInv
  <1> HIDE DEF h
  <1> QED
    BY <1>2, <1>3, <1>4, CountDownLemma

\* free() of the tunnel node.
LEMMA TunnelFreeStep ==
  ASSUME Inv, UNCHANGED KeyOf, NEW t \in Threads, TunnelFree(t)
  PROVE  Inv'
  <1> DEFINE g == th[t]
             h == [g EXCEPT !.pc = "efree"]
  <1>1. g.pc = "tfree" /\ Become(t, h) /\ fault' = "none"
    BY DEF TunnelFree, At
  <1>2. /\ h \in Handlers /\ h.e = g.e /\ h.held = g.held /\ h.op = g.op
        /\ h.sess = g.sess /\ h.pc = "efree"
    BY <1>1, TunnelLemma DEF Handlers
  <1>3. /\ UNCHANGED <<chain, entry, arrived, known, deleted>>
        /\ tunnel' \in [Tunnels -> [mem : Mems, ref_count : Int]]
    BY DEF TunnelFree, Inv, ShapeInv, Mems
  <1> HIDE DEF h
  <1> QED
    BY <1>1, <1>2, <1>3, CountDownLemma
-----------------------------------------------------------------------------
\* A Create Session Response of a known gateway.
LEMMA CreateStartStep ==
  ASSUME Inv, UNCHANGED KeyOf, NEW t \in Threads, NEW s \in Sessions, CreateStart(t, s)
  PROVE  Inv'
  <1> DEFINE n == arrived[s] + 1
             h == [IdleThread EXCEPT !.pc = "put", !.op = "create", !.sess = s,
                                     !.e = <<s, n, "t4">>, !.todo = KeyOrder]
  <1>1. /\ Become(t, h) /\ fault' = "none" /\ th[t] = IdleThread /\ n <= Copies /\ ShapeInv
        /\ arrived' = [arrived EXCEPT ![s] = n]
        /\ tunnel' = [tunnel EXCEPT ![<<s, n>>] = [mem |-> "live", ref_count |-> InitialRefs]]
        /\ UNCHANGED <<chain, entry, known, deleted>>
    BY DEF CreateStart, At, Inv, HandInv, HandOf
  <1>2. n \in 1 .. Copies /\ arrived[s] < n /\ \A m \in 1 .. arrived[s] : m # n
    BY <1>1, ConstantsLemma DEF ShapeInv
  <1>3. <<s, n, "t4">> \in Entries
    BY <1>2, EntryLemma DEF Roles
  <1>4. /\ h \in Handlers /\ h.pc = "put" /\ h.op = "create" /\ h.held = NoEntry
        /\ h.sess = s /\ h.todo = KeyOrder /\ h.e = <<s, n, "t4">>
    BY <1>3, IdleLemma, TodoLemma DEF Handlers
  <1> HIDE DEF h
  <1>5. OnlyThread(t) /\ th'[t] = h
    BY <1>1, <1>4, BecomeLemma
  <1>6. arrived' \in [Sessions -> 0 .. Copies] /\ arrived'[s] = n
        /\ \A u \in Sessions : arrived'[u] >= arrived[u] /\ (u # s => arrived'[u] = arrived[u])
    BY <1>1, <1>2, ConstantsLemma DEF ShapeInv
  <1>7. tunnel' \in [Tunnels -> [mem : Mems, ref_count : Int]]
    <2> DEFINE x == [mem |-> "live", ref_count |-> InitialRefs]
    <2>1. x \in [mem : Mems, ref_count : Int]
      BY DEF Mems, InitialRefs
    <2>2. tunnel' = [tunnel EXCEPT ![<<s, n>>] = x]
      BY <1>1
    <2> HIDE DEF x
    <2> QED
      BY <1>1, <2>1, <2>2 DEF ShapeInv
  <1> HIDE DEF n
  <1>8. ShapeInv'
    BY <1>1, <1>5, <1>6, <1>7 DEF ShapeInv, OnlyThread
  <1>9. HandInv'
    BY <1>1, <1>4, <1>5 DEF Inv, HandInv, HandOf, OnlyThread
  <1>10. OutInv'
    BY <1>1, <1>4, <1>5 DEF Inv, OutInv, OutOf, Linked, KeyOfEntry, OnlyThread
  <1>11. ChainInv'
    BY <1>1 DEF Inv, ChainInv, KeyOfEntry
  <1>12. OwnInv'
    <2>1. \A u \in Sessions, m \in 1 .. Copies, r \in Roles :
            arrived'[u] < m => entry'[<<u, m, r>>].mem = "unused"
      BY <1>1, <1>6 DEF Inv, OwnInv, ShapeInv
    <2>2. \A r \in ToSet(KeyOrder) : entry'[<<s, n, r>>].mem = "unused"
      BY <1>1, <1>2, TodoLemma DEF Inv, OwnInv
    <2>3. \A u \in Threads : u # t /\ th[u].pc = "put" =>
            /\ th[u].sess \in Sessions
            /\ \E m \in 1 .. arrived'[th[u].sess] : th[u].e = <<th[u].sess, m, "t4">>
            /\ TunnelOf(th[u].e) # <<s, n>>
      <3> SUFFICES ASSUME NEW u \in Threads, u # t, th[u].pc = "put"
                   PROVE  /\ th[u].sess \in Sessions
                          /\ \E m \in 1 .. arrived'[th[u].sess] : th[u].e = <<th[u].sess, m, "t4">>
                          /\ TunnelOf(th[u].e) # <<s, n>>
        OBVIOUS
      <3>1. th[u].sess \in Sessions
        BY DEF Inv, HandInv, HandOf
      <3>2. PICK m \in 1 .. arrived[th[u].sess] : th[u].e = <<th[u].sess, m, "t4">>
        BY DEF Inv, OwnInv
      <3>3. m \in 1 .. arrived'[th[u].sess]
        <4>1. /\ arrived[th[u].sess] \in Int /\ arrived'[th[u].sess] \in Int
              /\ arrived'[th[u].sess] >= arrived[th[u].sess]
          BY <1>1, <1>6, <3>1, ConstantsLemma DEF ShapeInv
        <4> QED
          BY <3>2, <4>1
      <3>4. th[u].sess = s => m # n
        BY <1>2, <3>2
      <3> QED
        BY <3>1, <3>2, <3>3, <3>4 DEF TunnelOf
    <2>4. n \in 1 .. arrived'[s] /\ TunnelOf(h.e) = <<s, n>>
      BY <1>2, <1>4, <1>6 DEF TunnelOf
    <2>5. \A u \in Threads : th'[u].pc = "put" =>
            /\ \E m \in 1 .. arrived'[th'[u].sess] : th'[u].e = <<th'[u].sess, m, "t4">>
            /\ \A r \in ToSet(th'[u].todo) : entry'[<<th'[u].e[1], th'[u].e[2], r>>].mem = "unused"
      <3> TAKE u \in Threads
      <3>1. CASE u = t
        BY <1>4, <1>5, <2>2, <2>4, <3>1
      <3>2. CASE u # t
        BY <1>1, <1>5, <2>3, <3>2 DEF OnlyThread, Inv, OwnInv
      <3> QED
        BY <3>1, <3>2
    <2>6. \A u, v \in Threads :
            th'[u].pc = "put" /\ th'[v].pc = "put" /\ u # v
              => TunnelOf(th'[u].e) # TunnelOf(th'[v].e)
      BY <1>5, <2>3, <2>4 DEF OnlyThread, Inv, OwnInv
    <2> QED
      BY <2>1, <2>5, <2>6 DEF OwnInv, TunnelOf
  <1>13. EntryRefsExact'
    <2>1. \A e \in Entries : One(Keeps(th'[t], e)) + One(Uses(th'[t], e))
                              = One(Keeps(th[t], e)) + One(Uses(th[t], e))
      BY <1>1, <1>4, <1>5, IdleLemma, EntryLemma DEF Keeps, Uses, One
    <2> QED
      BY <1>1, <1>5, <2>1, QuietLemma DEF Inv
  <1>14. ApartInv'
    BY <1>1, <1>4, <1>5 DEF Inv, ApartInv, ReachOf, Apart, OnlyThread
  <1>15. KnownInv'
    <2>1. "t2" \in ToSet(KeyOrder)
      BY TodoLemma DEF Roles
    <2> QED
      BY <1>1, <1>4, <1>5, <2>1 DEF Inv, KnownInv, Apart, Linked, KeyOfEntry, OnlyThread
  <1>16. NullExplained'
    BY <1>1 DEF NullExplained
  <1> QED
    BY <1>8, <1>9, <1>10, <1>11, <1>12, <1>13, <1>14, <1>15, <1>16 DEF Inv

\* The response of an unknown gateway.
LEMMA CreateUnknownPgwStep ==
  ASSUME Inv, UNCHANGED KeyOf, NEW t \in Threads, NEW s \in Sessions, CreateUnknownPgw(t, s)
  PROVE  Inv'
  <1> DEFINE n == arrived[s] + 1
  <1>1. /\ fault' = "none" /\ n <= Copies /\ ShapeInv
        /\ arrived' = [arrived EXCEPT ![s] = n]
        /\ tunnel' = [tunnel EXCEPT ![<<s, n>>] = [mem |-> "orphan", ref_count |-> 0]]
        /\ UNCHANGED <<chain, entry, known, deleted, th>>
    BY DEF CreateUnknownPgw, At, Inv
  <1>2. arrived' \in [Sessions -> 0 .. Copies]
        /\ \A u \in Sessions : arrived'[u] >= arrived[u]
    BY <1>1, ConstantsLemma DEF ShapeInv
  <1>3. tunnel' \in [Tunnels -> [mem : Mems, ref_count : Int]]
    <2> DEFINE x == [mem |-> "orphan", ref_count |-> 0]
    <2>1. x \in [mem : Mems, ref_count : Int]
      BY DEF Mems
    <2>2. tunnel' = [tunnel EXCEPT ![<<s, n>>] = x]
      BY <1>1
    <2> HIDE DEF x
    <2> QED
      BY <1>1, <2>1, <2>2 DEF ShapeInv
  <1> HIDE DEF n
  <1>4. ShapeInv'
    BY <1>1, <1>2, <1>3 DEF ShapeInv
  <1>5. HandInv'
    BY <1>1 DEF Inv, HandInv, HandOf
  <1>6. OutInv'
    BY <1>1 DEF Inv, OutInv, OutOf, Linked, KeyOfEntry
  <1>7. ChainInv'
    BY <1>1 DEF Inv, ChainInv, KeyOfEntry
  <1>8. OwnInv'
    <2>1. \A u \in Sessions, m \in 1 .. Copies, r \in Roles :
            arrived'[u] < m => entry'[<<u, m, r>>].mem = "unused"
      BY <1>1, <1>2 DEF Inv, OwnInv, ShapeInv
    <2>2. \A u \in Threads : th[u].pc = "put" =>
            \E m \in 1 .. arrived'[th[u].sess] : th[u].e = <<th[u].sess, m, "t4">>
      <3> SUFFICES ASSUME NEW u \in Threads, th[u].pc = "put"
                   PROVE  \E m \in 1 .. arrived'[th[u].sess] : th[u].e = <<th[u].sess, m, "t4">>
        OBVIOUS
      <3>1. th[u].sess \in Sessions
        BY DEF Inv, HandInv, HandOf
      <3>2. PICK m \in 1 .. arrived[th[u].sess] : th[u].e = <<th[u].sess, m, "t4">>
        BY DEF Inv, OwnInv
      <3>3. m \in 1 .. arrived'[th[u].sess]
        <4>1. /\ arrived[th[u].sess] \in Int /\ arrived'[th[u].sess] \in Int
              /\ arrived'[th[u].sess] >= arrived[th[u].sess]
          BY <1>1, <1>2, <3>1, ConstantsLemma DEF ShapeInv
        <4> QED
          BY <3>2, <4>1
      <3> QED
        BY <3>2, <3>3
    <2> QED
      BY <1>1, <2>1, <2>2 DEF Inv, OwnInv
  <1>9. EntryRefsExact'
    BY <1>1 DEF Inv, EntryRefsExact, Linked, KeyOfEntry, Keepers, Users
  <1>10. ApartInv'
    BY <1>1 DEF Inv, ApartInv, ReachOf, Apart
  <1>11. KnownInv'
    BY <1>1 DEF Inv, KnownInv, Apart, Linked, KeyOfEntry
  <1>12. NullExplained'
    BY <1>1 DEF NullExplained
  <1> QED
    BY <1>4, <1>5, <1>6, <1>7, <1>8, <1>9, <1>10, <1>11, <1>12 DEF Inv

\* The response goes out.
LEMMA CreateEndStep ==
  ASSUME Inv, UNCHANGED KeyOf, NEW t \in Threads, CreateEnd(t)
  PROVE  Inv'
  <1> DEFINE g == th[t]
  <1>1. /\ g.pc = "put" /\ g.todo = <<>> /\ Become(t, IdleThread) /\ fault' = "none"
        /\ known' = known \cup {g.sess} /\ ShapeInv
        /\ UNCHANGED <<chain, entry, tunnel, arrived, deleted>>
    BY DEF CreateEnd, At, Inv
  <1>2. OnlyThread(t) /\ th'[t] = IdleThread
    BY <1>1, IdleLemma, BecomeLemma
  <1>3. g.sess \in Sessions /\ g.op = "create" /\ g.held = NoEntry
    BY <1>1 DEF Inv, HandInv, HandOf
  <1>4. PICK n \in 1 .. arrived[g.sess] : g.e = <<g.sess, n, "t4">>
    BY <1>1 DEF Inv, OwnInv
  <1>5. n \in 1 .. Copies /\ g.e[2] = n
    BY <1>3, <1>4, ConstantsLemma DEF Inv, ShapeInv
  <1>6. ShapeInv'
    BY <1>1, <1>2, <1>3 DEF ShapeInv, OnlyThread
  <1>7. HandInv'
    BY <1>1, <1>2, IdleLemma DEF Inv, HandInv, HandOf, OnlyThread
  <1>8. OutInv'
    BY <1>1, <1>2, IdleLemma DEF Inv, OutInv, OutOf, Linked, KeyOfEntry, OnlyThread
  <1>9. ChainInv'
    BY <1>1 DEF Inv, ChainInv, KeyOfEntry
  <1>10. OwnInv'
    BY <1>1, <1>2, IdleLemma DEF Inv, OwnInv, OnlyThread
  <1>11. EntryRefsExact'
    <2>1. \A e \in Entries : One(Keeps(th'[t], e)) + One(Uses(th'[t], e))
                              = One(Keeps(th[t], e)) + One(Uses(th[t], e))
      BY <1>1, <1>2, <1>3, IdleLemma, EntryLemma DEF Keeps, Uses, One
    <2> QED
      BY <1>1, <1>2, <2>1, QuietLemma DEF Inv
  <1>12. ApartInv'
    BY <1>1, <1>2, IdleLemma DEF Inv, ApartInv, ReachOf, Apart, OnlyThread
  <1>13. KnownInv'
    <2>1. "t2" \notin ToSet(g.todo)
      BY <1>1, TodoLemma
    <2>2. Apart(g.sess) /\ deleted[g.sess] = 0 => Linked(<<g.sess, n, "t2">>)
      BY <1>1, <1>3, <1>5, <2>1 DEF Inv, KnownInv
    <2>3. ASSUME NEW s \in Sessions, Apart(s), deleted[s] = 0
          PROVE  /\ s \in known' => \E m \in 1 .. Copies : Linked(<<s, m, "t2">>)
                 /\ \A u \in Threads :
                      th[u].pc = "put" /\ th[u].sess = s /\ "t2" \notin ToSet(th[u].todo) =>
                        Linked(<<s, th[u].e[2], "t2">>)
      BY <1>1, <1>5, <2>2, <2>3 DEF Inv, KnownInv
    <2> QED
      BY <1>1, <1>2, <2>3, IdleLemma DEF KnownInv, Apart, Linked, KeyOfEntry, OnlyThread
  <1>14. NullExplained'
    BY <1>1 DEF NullExplained
  <1> QED
    BY <1>6, <1>7, <1>8, <1>9, <1>10, <1>11, <1>12, <1>13, <1>14 DEF Inv

\* A Delete Session Response whose session is found.
LEMMA DeleteStartStep ==
  ASSUME Inv, UNCHANGED KeyOf, NEW t \in Threads, NEW s \in Sessions, DeleteStart(t, s)
  PROVE  Inv'
  <1> DEFINE k == KeyOf[s]["t2"]
             x == Head(chain[k])
             h == [IdleThread EXCEPT !.pc = "ref", !.op = "delete", !.sess = s,
                                     !.e = x, !.held = x]
  <1>1. /\ Become(t, h) /\ fault' = "none" /\ th[t] = IdleThread /\ ShapeInv
        /\ chain[k] # <<>> /\ deleted[s] < Copies
        /\ deleted' = [deleted EXCEPT ![s] = @ + 1]
        /\ UNCHANGED <<chain, entry, tunnel, arrived, known>>
    BY DEF DeleteStart, At, Inv, HandInv, HandOf
  <1>2. "t2" \in Roles /\ k \in Keys
    BY <1>1, KeyLemma DEF Roles
  <1>3. /\ x \in Entries /\ entry[x].mem = "live" /\ KeyOf[x[1]][x[3]] = k
    BY <1>1, <1>2, NewestLemma
  <1>4. \A u \in Sessions : Apart(u) /\ u # s => x[1] # u
    BY <1>2, <1>3, EntryLemma DEF Apart
  <1> HIDE DEF x, k
  <1>5. /\ h \in Handlers /\ h.pc = "ref" /\ h.op = "delete" /\ h.held = x
        /\ h.sess = s /\ h.e = x
    BY <1>3, IdleLemma DEF Handlers
  <1> HIDE DEF h
  <1>6. OnlyThread(t) /\ th'[t] = h
    BY <1>1, <1>5, BecomeLemma
  <1>7. /\ deleted' \in [Sessions -> 0 .. Copies] /\ deleted'[s] > 0
        /\ \A u \in Sessions : /\ deleted[u] > 0 => deleted'[u] > 0
                               /\ deleted'[u] = 0 => deleted[u] = 0
    BY <1>1, ConstantsLemma DEF ShapeInv
  <1>8. ShapeInv'
    BY <1>1, <1>6, <1>7 DEF ShapeInv, OnlyThread
  <1>9. HandInv'
    BY <1>1, <1>3, <1>5, <1>6, EntryLemma DEF Inv, HandInv, HandOf, OnlyThread
  <1>10. OutInv'
    BY <1>1, <1>5, <1>6 DEF Inv, OutInv, OutOf, Linked, KeyOfEntry, OnlyThread
  <1>11. ChainInv'
    BY <1>1 DEF Inv, ChainInv, KeyOfEntry
  <1>12. OwnInv'
    BY <1>1, <1>5, <1>6 DEF Inv, OwnInv, OnlyThread
  <1>13. EntryRefsExact'
    <2>1. \A e \in Entries : One(Keeps(th'[t], e)) + One(Uses(th'[t], e))
                              = One(Keeps(th[t], e)) + One(Uses(th[t], e))
      BY <1>1, <1>5, <1>6, IdleLemma, EntryLemma DEF Keeps, Uses, One
    <2> QED
      BY <1>1, <1>6, <2>1, QuietLemma DEF Inv
  <1>14. ApartInv'
    <2>1. \A u \in Threads : th[u].op = "delete" => th[u].sess \in Sessions
      BY DEF Inv, HandInv, HandOf
    <2> QED
      BY <1>1, <1>4, <1>5, <1>6, <1>7, <2>1 DEF Inv, ApartInv, ReachOf, Apart, OnlyThread
  <1>15. KnownInv'
    <2>1. ASSUME NEW u \in Sessions, Apart(u), deleted'[u] = 0
          PROVE  /\ u \in known => \E n \in 1 .. Copies : Linked(<<u, n, "t2">>)
                 /\ \A v \in Threads :
                      th[v].pc = "put" /\ th[v].sess = u /\ "t2" \notin ToSet(th[v].todo) =>
                        Linked(<<u, th[v].e[2], "t2">>)
      BY <1>7, <2>1 DEF Inv, KnownInv
    <2>2. UNCHANGED <<chain, known>>
      BY <1>1
    <2>3. h.pc # "put"
      BY <1>5
    <2> QED
      BY <1>6, <2>1, <2>2, <2>3 DEF KnownInv, Apart, Linked, KeyOfEntry, OnlyThread
  <1>16. NullExplained'
    BY <1>1 DEF NullExplained
  <1> QED
    BY <1>8, <1>9, <1>10, <1>11, <1>12, <1>13, <1>14, <1>15, <1>16 DEF Inv
-----------------------------------------------------------------------------
\* A step on one map node that neither links nor unlinks: as HandStep, with the counts.
LEMMA EntryStep ==
  ASSUME Inv, NEW t \in Threads, OnlyThread(t),
         UNCHANGED <<KeyOf, chain, tunnel, arrived, known, deleted>>, fault' = "none",
         entry' \in [Entries -> [mem : Mems, ref_count : Nat]],
         \A y \in Entries : entry'[y].mem = "unused" <=> entry[y].mem = "unused",
         \A y \in Entries : Linked(y) => entry'[y].mem = entry[y].mem,
         th'[t].pc # "put", HandOf(th[t])', OutOf(th[t])', ReachOf(th[t])', EntryRefsExact'
  PROVE  Inv'
  <1>1. ShapeInv'
    BY DEF Inv, ShapeInv, OnlyThread
  <1>2. HandInv'
    <2> SUFFICES ASSUME NEW u \in Threads, u # t PROVE HandOf(th[u])'
      BY DEF HandInv
    <2>1. HandOf(th[u]) /\ th'[u] = th[u] /\ th[u].held \in Entries \cup {NoEntry}
      BY HandlerFields DEF Inv, HandInv, OnlyThread
    <2> QED
      BY <2>1 DEF HandOf
  <1>3. OutInv'
    BY DEF Inv, OutInv, OutOf, Linked, KeyOfEntry, OnlyThread
  <1>4. ChainInv'
    <2>1. \A k \in Keys : \A e \in ToSet(chain[k]) : e \in Entries
      BY DEF Inv, ShapeInv, ToSet
    <2> QED
      BY <2>1 DEF Inv, ChainInv, Linked, KeyOfEntry
  <1>5. OwnInv'
    <2>1. \A s \in Sessions, n \in 1 .. Copies, r \in Roles :
            arrived[s] < n => entry'[<<s, n, r>>].mem = "unused"
      BY EntryLemma DEF Inv, OwnInv
    <2>2. \A u \in Threads : th[u].pc = "put" =>
            \A r \in ToSet(th[u].todo) : entry'[<<th[u].e[1], th[u].e[2], r>>].mem = "unused"
      <3> SUFFICES ASSUME NEW u \in Threads, th[u].pc = "put", NEW r \in ToSet(th[u].todo)
                   PROVE  entry'[<<th[u].e[1], th[u].e[2], r>>].mem = "unused"
        OBVIOUS
      <3>1. r \in Roles
        BY TodoLemma, HandlerFields DEF Inv
      <3>2. th[u].sess \in Sessions
        BY DEF Inv, HandInv, HandOf
      <3>3. PICK n \in 1 .. arrived[th[u].sess] : th[u].e = <<th[u].sess, n, "t4">>
        BY DEF Inv, OwnInv
      <3>4. th[u].e[1] \in Sessions /\ th[u].e[2] \in 1 .. Copies
        BY <3>2, <3>3, ConstantsLemma DEF Inv, ShapeInv
      <3> QED
        BY <3>1, <3>4, EntryLemma DEF Inv, OwnInv
    <2> QED
      BY <2>1, <2>2 DEF Inv, OwnInv, OnlyThread
  <1>6. ApartInv'
    BY DEF Inv, ApartInv, ReachOf, Apart, OnlyThread
  <1>7. KnownInv'
    <2>1. \A u \in Threads : th'[u].pc = "put" => th'[u] = th[u]
      BY DEF OnlyThread
    <2>2. ASSUME NEW s \in Sessions, Apart(s), deleted[s] = 0
          PROVE  /\ s \in known => \E n \in 1 .. Copies : Linked(<<s, n, "t2">>)
                 /\ \A u \in Threads :
                      th'[u].pc = "put" /\ th'[u].sess = s /\ "t2" \notin ToSet(th'[u].todo) =>
                        Linked(<<s, th'[u].e[2], "t2">>)
      BY <2>1, <2>2 DEF Inv, KnownInv
    <2> QED
      BY <2>2 DEF KnownInv, Apart, Linked, KeyOfEntry
  <1>8. NullExplained'
    BY DEF NullExplained
  <1> QED
    BY <1>1, <1>2, <1>3, <1>4, <1>5, <1>6, <1>7, <1>8 DEF Inv

\* What is counted for a map node while the maps stay as they are.
LEMMA CountStep ==
  ASSUME Inv, NEW t \in Threads, OnlyThread(t), UNCHANGED <<KeyOf, chain>>,
         \A e \in Entries : entry'[e].mem = "live" =>
           /\ entry[e].mem = "live"
           /\ entry'[e].ref_count = entry[e].ref_count
                + One(Keeps(th'[t], e)) + One(Uses(th'[t], e))
                - One(Keeps(th[t], e)) - One(Uses(th[t], e))
  PROVE  EntryRefsExact'
  <1> SUFFICES ASSUME NEW e \in Entries, entry'[e].mem = "live"
               PROVE  entry'[e].ref_count = (IF Linked(e)' THEN 1 ELSE 0)
                        + Cardinality(Keepers(e)') + Cardinality(Users(e)')
    BY DEF EntryRefsExact
  <1>1. Linked(e)' <=> Linked(e)
    BY DEF Linked, KeyOfEntry
  <1>2. entry[e].ref_count = (IF Linked(e) THEN 1 ELSE 0) + Cardinality(Keepers(e))
                               + Cardinality(Users(e))
    BY DEF Inv, EntryRefsExact
  <1>3. One(Keeps(th'[t], e)) \in Int /\ One(Uses(th'[t], e)) \in Int
        /\ One(Keeps(th[t], e)) \in Int /\ One(Uses(th[t], e)) \in Int
    BY DEF One
  <1> QED
    BY <1>1, <1>2, <1>3, CountLemma

\* ref_count++.
LEMMA RefStep ==
  ASSUME Inv, UNCHANGED KeyOf, NEW t \in Threads, Ref(t)
  PROVE  Inv'
  <1> DEFINE g == th[t]
             x == g.e
             h == [g EXCEPT !.pc = "read"]
  <1>1. /\ ShapeInv /\ Become(t, h) /\ g \in Handlers /\ g.pc = "ref" /\ fault' = "none"
        /\ entry[x].mem = "live" /\ entry' = [entry EXCEPT ![x].ref_count = @ + 1]
        /\ UNCHANGED <<chain, tunnel, arrived, known, deleted>>
    BY HandlerFields DEF Inv, Ref, At
  <1>2. HandOf(g) /\ ReachOf(g)
    BY DEF Inv, HandInv, ApartInv
  <1>3. /\ x \in Entries /\ g.op \in {"lookup", "delete"}
        /\ g.op = "delete" => g.held = x
        /\ g.held # NoEntry => g.op = "delete"
    BY <1>1, <1>2 DEF HandOf
  <1>4. /\ h \in Handlers /\ h.e = x /\ h.held = g.held /\ h.op = g.op /\ h.sess = g.sess
        /\ h.pc = "read"
    BY <1>1 DEF Handlers
  <1> HIDE DEF h
  <1>5. OnlyThread(t) /\ th'[t] = h
    BY <1>1, <1>4, BecomeLemma
  <1>6. /\ entry' \in [Entries -> [mem : Mems, ref_count : Nat]]
        /\ \A y \in Entries : entry'[y].mem = entry[y].mem
        /\ \A y \in Entries : y # x => entry'[y] = entry[y]
        /\ entry'[x].ref_count = entry[x].ref_count + 1
    <2> DEFINE v == entry[x].ref_count + 1
    <2>1. v \in Nat /\ entry' = [entry EXCEPT ![x].ref_count = v]
      BY <1>1, <1>3 DEF ShapeInv
    <2> HIDE DEF v
    <2>2. /\ entry' \in [Entries -> [mem : Mems, ref_count : Nat]]
          /\ \A y \in Entries : entry'[y].mem = entry[y].mem
          /\ \A y \in Entries : y # x => entry'[y] = entry[y]
          /\ entry'[x].ref_count = v
      BY <1>1, <1>3, <2>1 DEF ShapeInv
    <2> QED
      BY <2>2 DEF v
  <1>7. HandOf(th[t])'
    BY <1>1, <1>2, <1>3, <1>4, <1>5, <1>6 DEF HandOf
  <1>8. OutOf(th[t])' /\ ReachOf(th[t])'
    BY <1>1, <1>2, <1>4, <1>5 DEF OutOf, ReachOf, Apart
  <1>9. \A e \in Entries : One(Keeps(h, e)) + One(Uses(h, e))
                              = One(Keeps(g, e)) + One(Uses(g, e)) + (IF e = x THEN 1 ELSE 0)
    BY <1>1, <1>3, <1>4, EntryLemma DEF Keeps, Uses, One
  <1>10. EntryRefsExact'
    <2>1. ASSUME NEW e \in Entries, entry'[e].mem = "live"
          PROVE  /\ entry[e].mem = "live"
                 /\ entry'[e].ref_count = entry[e].ref_count
                      + One(Keeps(h, e)) + One(Uses(h, e)) - One(Keeps(g, e)) - One(Uses(g, e))
      <3>1. entry'[e].ref_count = entry[e].ref_count + (IF e = x THEN 1 ELSE 0)
            /\ entry[e].ref_count \in Nat /\ entry[e].mem = "live"
        BY <1>1, <1>6, <2>1 DEF ShapeInv
      <3>2. One(Keeps(h, e)) \in Int /\ One(Uses(h, e)) \in Int
            /\ One(Keeps(g, e)) \in Int /\ One(Uses(g, e)) \in Int
        BY DEF One
      <3> QED
        BY <1>9, <3>1, <3>2
    <2> QED
      BY <1>1, <1>5, <2>1, CountStep
  <1> QED
    BY <1>1, <1>4, <1>5, <1>6, <1>7, <1>8, <1>10, EntryStep

\* Where a thread goes on.
LEMMA ResumeLemma ==
  ASSUME Inv, NEW t \in Threads, th[t].pc \in {"unref", "efree"}
  PROVE  LET g == th[t]
             h == Resume(g)
         IN  /\ h \in Handlers /\ h.pc \in {"idle", "del"} /\ h.held = g.held
             /\ h.pc = "idle" => h = IdleThread
             /\ h.pc = "del" =>
                  /\ h.op = "delete" /\ g.op = "delete" /\ h.sess = g.sess
                  /\ g.held \in Entries
  <1> DEFINE g == th[t]
  <1>1. g \in Handlers /\ HandOf(g) /\ g.held \in Entries \cup {NoEntry}
    BY HandlerFields DEF Inv, HandInv
  <1>2. CASE g.op = "delete" /\ g.held # NoEntry
    <2>1. Resume(g) = [g EXCEPT !.pc = "del", !.e = NoEntry, !.rc = 0]
      BY <1>2 DEF Resume
    <2>2. NoEntry \in Entries \cup {NoEntry} /\ 0 \in Int
      OBVIOUS
    <2>3. Resume(g) \in Handlers
      BY <1>1, <2>1, <2>2 DEF Handlers
    <2>4. /\ Resume(g).pc = "del" /\ Resume(g).held = g.held /\ Resume(g).op = g.op
          /\ Resume(g).sess = g.sess
      BY <1>1, <2>1 DEF Handlers
    <2> QED
      BY <1>1, <1>2, <2>3, <2>4
  <1>3. CASE ~(g.op = "delete" /\ g.held # NoEntry)
    <2>1. Resume(g) = IdleThread /\ g.held = NoEntry
      BY <1>1, <1>3 DEF Resume, HandOf
    <2> QED
      BY <2>1, IdleLemma
  <1> QED
    BY <1>2, <1>3

\* ref_count--.
LEMMA UnrefStep ==
  ASSUME Inv, UNCHANGED KeyOf, NEW t \in Threads, Unref(t)
  PROVE  Inv'
  <1> DEFINE g == th[t]
             x == g.e
             c == entry[x].ref_count
             h == IF c = 1 THEN [g EXCEPT !.pc = "tload"] ELSE Resume(g)
  <1>1. /\ ShapeInv /\ Become(t, h) /\ g \in Handlers /\ g.pc = "unref" /\ fault' = "none"
        /\ entry[x].mem = "live" /\ entry' = [entry EXCEPT ![x].ref_count = @ - 1]
        /\ UNCHANGED <<chain, tunnel, arrived, known, deleted>>
    BY HandlerFields DEF Inv, Unref, At
  <1>2. HandOf(g) /\ ReachOf(g)
    BY DEF Inv, HandInv, ApartInv
  <1>3. x \in Entries /\ c \in Nat /\ g.op \in {"lookup", "delete"}
    BY <1>1, <1>2 DEF HandOf, ShapeInv
  <1>4. c >= 1 /\ (c = 1 => ~Linked(x))
    <2>1. c = (IF Linked(x) THEN 1 ELSE 0) + Cardinality(Keepers(x)) + Cardinality(Users(x))
      BY <1>1, <1>3 DEF Inv, EntryRefsExact
    <2>2. t \in Users(x) /\ Users(x) \in SUBSET Threads /\ Keepers(x) \in SUBSET Threads
      BY <1>1 DEF Users, Keepers
    <2>3. /\ Cardinality(Users(x)) \in Nat /\ Cardinality(Users(x)) >= 1
          /\ Cardinality(Keepers(x)) \in Nat
      BY <2>2, OneLemma
    <2> QED
      BY <2>1, <2>3
  <1>5. /\ h \in Handlers /\ h.pc \in {"tload", "idle", "del"} /\ h.held = g.held
        /\ h.pc = "idle" => h = IdleThread
        /\ h.pc \in {"del", "tload"} => h.op = g.op /\ h.sess = g.sess
        /\ h.pc = "del" => h.op = "delete" /\ h.held \in Entries
        /\ h.pc = "tload" => h.e = x /\ c = 1
    <2>1. CASE c = 1
      <3>1. h = [g EXCEPT !.pc = "tload"]
        BY <2>1
      <3> QED
        BY <1>1, <2>1, <3>1 DEF Handlers
    <2>2. CASE c # 1
      <3>1. h = Resume(g)
        BY <2>2
      <3> HIDE DEF h
      <3> QED
        BY <1>1, <3>1, ResumeLemma
    <2> QED
      BY <2>1, <2>2
  <1> HIDE DEF h
  <1>6. OnlyThread(t) /\ th'[t] = h
    BY <1>1, <1>5, BecomeLemma
  <1>7. c - 1 \in Nat
    BY <1>3, <1>4
  <1>8. /\ entry' \in [Entries -> [mem : Mems, ref_count : Nat]]
        /\ \A y \in Entries : entry'[y].mem = entry[y].mem
        /\ \A y \in Entries : y # x => entry'[y] = entry[y]
        /\ entry'[x].ref_count = c - 1
    BY <1>1, <1>3, <1>7 DEF ShapeInv
  <1> HIDE DEF c
  <1>9. HandOf(th[t])'
    BY <1>1, <1>2, <1>3, <1>5, <1>6, <1>8, IdleLemma DEF HandOf
  <1>10. OutOf(th[t])'
    BY <1>1, <1>4, <1>5, <1>6 DEF OutOf, Linked, KeyOfEntry
  <1>11. ReachOf(th[t])'
    BY <1>1, <1>2, <1>5, <1>6, IdleLemma DEF ReachOf, Apart
  <1>12. \A e \in Entries : One(Keeps(g, e)) + One(Uses(g, e))
                              = One(Keeps(h, e)) + One(Uses(h, e)) + (IF e = x THEN 1 ELSE 0)
    BY <1>1, <1>5 DEF Keeps, Uses, One
  <1>13. EntryRefsExact'
    <2>1. ASSUME NEW e \in Entries, entry'[e].mem = "live"
          PROVE  /\ entry[e].mem = "live"
                 /\ entry'[e].ref_count = entry[e].ref_count
                      + One(Keeps(h, e)) + One(Uses(h, e)) - One(Keeps(g, e)) - One(Uses(g, e))
      <3>1. entry'[e].ref_count = entry[e].ref_count - (IF e = x THEN 1 ELSE 0)
            /\ entry[e].ref_count \in Nat /\ entry[e].mem = "live"
        BY <1>1, <1>8, <2>1 DEF ShapeInv, c
      <3>2. One(Keeps(h, e)) \in Int /\ One(Uses(h, e)) \in Int
            /\ One(Keeps(g, e)) \in Int /\ One(Uses(g, e)) \in Int
        BY DEF One
      <3> QED
        BY <1>12, <3>1, <3>2
    <2> QED
      BY <1>1, <1>6, <2>1, CountStep
  <1> QED
    BY <1>1, <1>5, <1>6, <1>8, <1>9, <1>10, <1>11, <1>13, EntryStep

\* free() of the map node.
LEMMA EntryFreeStep ==
  ASSUME Inv, UNCHANGED KeyOf, NEW t \in Threads, EntryFree(t)
  PROVE  Inv'
  <1> DEFINE g == th[t]
             x == g.e
             h == Resume(g)
  <1>1. /\ ShapeInv /\ Become(t, h) /\ g.pc = "efree" /\ fault' = "none"
        /\ entry[x].mem = "live" /\ entry' = [entry EXCEPT ![x].mem = "freed"]
        /\ UNCHANGED <<chain, tunnel, arrived, known, deleted>>
    BY DEF Inv, EntryFree, At
  <1>2. HandOf(g) /\ ReachOf(g) /\ OutOf(g)
    BY DEF Inv, HandInv, ApartInv, OutInv
  <1>3. x \in Entries /\ ~Linked(x)
    BY <1>1, <1>2 DEF HandOf, OutOf
  <1>4. /\ h \in Handlers /\ h.pc \in {"idle", "del"} /\ h.held = g.held
        /\ h.pc = "idle" => h = IdleThread
        /\ h.pc = "del" => /\ h.op = "delete" /\ g.op = "delete" /\ h.sess = g.sess
                           /\ g.held \in Entries
    BY <1>1, ResumeLemma
  <1> HIDE DEF h
  <1>5. OnlyThread(t) /\ th'[t] = h
    BY <1>1, <1>4, BecomeLemma
  <1>6. /\ entry' \in [Entries -> [mem : Mems, ref_count : Nat]]
        /\ \A y \in Entries : y # x => entry'[y] = entry[y]
        /\ entry'[x].mem = "freed"
    BY <1>1, <1>3 DEF ShapeInv, Mems
  <1>7. \A y \in Entries : entry'[y].mem = "unused" <=> entry[y].mem = "unused"
    BY <1>1, <1>6
  <1>8. \A y \in Entries : Linked(y) => entry'[y].mem = entry[y].mem
    BY <1>3, <1>6
  <1>9. HandOf(th[t])'
    BY <1>2, <1>4, <1>5, <1>7, IdleLemma DEF HandOf
  <1>10. OutOf(th[t])' /\ ReachOf(th[t])'
    BY <1>1, <1>2, <1>4, <1>5, IdleLemma DEF OutOf, ReachOf, Apart
  <1>11. \A e \in Entries : One(Keeps(h, e)) = One(Keeps(g, e)) /\ One(Uses(h, e)) = One(Uses(g, e))
    BY <1>1, <1>4 DEF Keeps, Uses, One
  <1>12. EntryRefsExact'
    <2>1. ASSUME NEW e \in Entries, entry'[e].mem = "live"
          PROVE  /\ entry[e].mem = "live"
                 /\ entry'[e].ref_count = entry[e].ref_count
                      + One(Keeps(h, e)) + One(Uses(h, e)) - One(Keeps(g, e)) - One(Uses(g, e))
      <3>1. entry'[e] = entry[e] /\ entry[e].mem = "live" /\ entry[e].ref_count \in Nat
        BY <1>1, <1>6, <2>1 DEF ShapeInv
      <3>2. One(Keeps(g, e)) \in Int /\ One(Uses(g, e)) \in Int
        BY DEF One
      <3> QED
        BY <1>11, <3>1, <3>2
    <2> QED
      BY <1>1, <1>5, <2>1, CountStep
  <1> QED
    BY <1>1, <1>4, <1>5, <1>6, <1>7, <1>8, <1>9, <1>10, <1>12, EntryStep
-----------------------------------------------------------------------------
\* A map node is put in front of its chain.
LEMMA PutStep ==
  ASSUME Inv, UNCHANGED KeyOf, NEW t \in Threads, Put(t)
  PROVE  Inv'
  <1> DEFINE g == th[t]
             x == <<g.e[1], g.e[2], Head(g.todo)>>
             k == KeyOfEntry(x)
             h == [g EXCEPT !.todo = Tail(@)]
  <1>1. /\ ShapeInv /\ Become(t, h) /\ g \in Handlers /\ g.pc = "put" /\ fault' = "none"
        /\ g.todo \in TodoSeqs \ {<<>>}
        /\ entry' = [entry EXCEPT ![x] = [mem |-> "live", ref_count |-> 1]]
        /\ chain' = [chain EXCEPT ![k] = <<x>> \o @]
        /\ UNCHANGED <<tunnel, arrived, known, deleted>>
    BY HandlerFields DEF Inv, Put, At
  <1>2. g.op = "create" /\ g.held = NoEntry /\ g.sess \in Sessions
    BY <1>1 DEF Inv, HandInv, HandOf
  <1>3. PICK n \in 1 .. arrived[g.sess] : g.e = <<g.sess, n, "t4">>
    BY <1>1 DEF Inv, OwnInv
  <1>4. /\ Head(g.todo) \in Roles /\ Tail(g.todo) \in TodoSeqs
        /\ ToSet(Tail(g.todo)) = ToSet(g.todo) \ {Head(g.todo)} /\ Head(g.todo) \in ToSet(g.todo)
    BY <1>1, TodoLemma
  <1>5. n \in 1 .. Copies /\ ~(arrived[g.sess] < n) /\ g.e[1] = g.sess /\ g.e[2] = n
    BY <1>2, <1>3, ConstantsLemma DEF Inv, ShapeInv
  <1>6. x \in Entries /\ x = <<g.sess, n, Head(g.todo)>> /\ k \in Keys /\ x # NoEntry
    BY <1>1, <1>2, <1>4, <1>5, EntryLemma, KeyLemma
  <1>7. entry[x].mem = "unused"
    BY <1>1, <1>4 DEF Inv, OwnInv
  <1>8. /\ h \in Handlers /\ h.pc = "put" /\ h.op = "create" /\ h.held = NoEntry
        /\ h.sess = g.sess /\ h.e = g.e /\ h.todo = Tail(g.todo)
    BY <1>1, <1>2, <1>4 DEF Handlers
  <1>9. k = KeyOf[x[1]][x[3]] /\ x[1] = g.sess /\ x[2] = n /\ x[3] = Head(g.todo)
    BY <1>6 DEF KeyOfEntry
  <1> HIDE DEF x, k, h
  <1>10. OnlyThread(t) /\ th'[t] = h
    BY <1>1, <1>8, BecomeLemma
  <1>11. \A j \in Keys : x \notin ToSet(chain[j])
    BY <1>7 DEF Inv, ChainInv
  <1>12. /\ <<x>> \o chain[k] \in Seq(Entries) /\ IsInjective(<<x>> \o chain[k])
         /\ ToSet(<<x>> \o chain[k]) = ToSet(chain[k]) \cup {x}
    <2>1. chain[k] \in Seq(Entries) /\ IsInjective(chain[k])
      BY <1>6 DEF Inv, ShapeInv, ChainInv
    <2> QED
      BY SMTT(30), <1>6, <1>11, <2>1, ConsLemma
  <1>13. /\ chain' \in [Keys -> Seq(Entries)] /\ \A j \in Keys : IsInjective(chain'[j])
         /\ \A j \in Keys : j # k => ToSet(chain'[j]) = ToSet(chain[j])
         /\ ToSet(chain'[k]) = ToSet(chain[k]) \cup {x}
    <2> DEFINE c == <<x>> \o chain[k]
    <2>1. chain' = [chain EXCEPT ![k] = c]
      BY <1>1
    <2>2. c \in Seq(Entries) /\ IsInjective(c) /\ ToSet(c) = ToSet(chain[k]) \cup {x}
      BY <1>12
    <2> HIDE DEF c
    <2>3. chain' \in [Keys -> Seq(Entries)] /\ chain'[k] = c
          /\ \A j \in Keys : j # k => chain'[j] = chain[j]
      BY <1>1, <1>6, <2>1, <2>2 DEF ShapeInv
    <2> QED
      BY <2>2, <2>3 DEF Inv, ChainInv
  <1>14. /\ entry' \in [Entries -> [mem : Mems, ref_count : Nat]]
         /\ \A y \in Entries : y # x => entry'[y] = entry[y]
         /\ entry'[x].mem = "live" /\ entry'[x].ref_count = 1
    <2> DEFINE v == [mem |-> "live", ref_count |-> 1]
    <2>1. v \in [mem : Mems, ref_count : Nat] /\ v.mem = "live" /\ v.ref_count = 1
      BY DEF Mems
    <2>2. entry' = [entry EXCEPT ![x] = v]
      BY <1>1
    <2> HIDE DEF v
    <2> QED
      BY <1>1, <1>6, <2>1, <2>2 DEF ShapeInv
  <1>15. \A y \in Entries : y \in ToSet(chain'[KeyOf[y[1]][y[3]]])
                              <=> (y \in ToSet(chain[KeyOf[y[1]][y[3]]]) \/ y = x)
    <2> TAKE y \in Entries
    <2>1. KeyOf[y[1]][y[3]] \in Keys
      BY <1>1, EntryLemma, KeyLemma
    <2> QED
      BY <1>9, <1>13, <2>1
  <1>16. \A u \in Threads :
           /\ th[u].held # x
           /\ th[u].pc \in {"ref", "read", "remove", "unref", "tload", "tstore", "ttest", "tfree",
                            "efree"} => th[u].e # x
    BY <1>6, <1>7 DEF Inv, HandInv, HandOf
  <1> USE DEF OnlyThread
  <1>17. ShapeInv'
    BY <1>1, <1>10, <1>13, <1>14 DEF ShapeInv
  <1>18. HandInv'
    <2>1. HandOf(th[t])'
      BY <1>2, <1>8, <1>10 DEF HandOf
    <2>2. ASSUME NEW u \in Threads, u # t PROVE HandOf(th[u])'
      <3>1. HandOf(th[u]) /\ th'[u] = th[u] /\ th[u].held \in Entries \cup {NoEntry}
        BY <1>10, <2>2, HandlerFields DEF Inv, HandInv
      <3> QED
        BY <1>14, <1>16, <3>1 DEF HandOf
    <2> QED
      BY <2>1, <2>2 DEF HandInv
  <1>19. OutInv'
    <2> SUFFICES ASSUME NEW u \in Threads, u # t,
                        th[u].pc \in {"tload", "tstore", "ttest", "tfree", "efree"}
                 PROVE  ~(th[u].e \in ToSet(chain'[KeyOf[th[u].e[1]][th[u].e[3]]]))
      BY <1>8, <1>10 DEF OutInv, OutOf, Linked, KeyOfEntry
    <2>1. th[u].e \in Entries /\ th[u].e # x
      BY <1>16 DEF Inv, HandInv, HandOf
    <2>2. ~(th[u].e \in ToSet(chain[KeyOf[th[u].e[1]][th[u].e[3]]]))
      BY DEF Inv, OutInv, OutOf, Linked, KeyOfEntry
    <2> QED
      BY <1>15, <2>1, <2>2
  <1>20. ChainInv'
    <2>1. \A j \in Keys : \A e \in ToSet(chain[j]) : e \in Entries
      BY <1>1 DEF ShapeInv, ToSet
    <2>2. \A j \in Keys : \A e \in ToSet(chain'[j]) :
            KeyOf[e[1]][e[3]] = j /\ entry'[e].mem = "live"
      <3> SUFFICES ASSUME NEW j \in Keys, NEW e \in ToSet(chain'[j])
                   PROVE  KeyOf[e[1]][e[3]] = j /\ entry'[e].mem = "live"
        OBVIOUS
      <3>1. CASE e = x
        <4>1. j = k
          BY <1>11, <1>13, <3>1
        <4> QED
          BY <1>9, <1>14, <3>1, <4>1
      <3>2. CASE e # x
        <4>1. e \in ToSet(chain[j])
          BY <1>13, <3>2
        <4>2. KeyOf[e[1]][e[3]] = j /\ entry[e].mem = "live"
          BY <4>1 DEF Inv, ChainInv, KeyOfEntry
        <4> QED
          BY <1>14, <2>1, <3>2, <4>1, <4>2
      <3> QED
        BY <3>1, <3>2
    <2> QED
      BY <1>13, <2>2 DEF ChainInv, KeyOfEntry
  <1>21. OwnInv'
    <2>1. \A s \in Sessions, m \in 1 .. Copies, r \in Roles :
            arrived[s] < m => entry'[<<s, m, r>>].mem = "unused"
      <3> SUFFICES ASSUME NEW s \in Sessions, NEW m \in 1 .. Copies, NEW r \in Roles,
                          arrived[s] < m
                   PROVE  entry'[<<s, m, r>>].mem = "unused"
        OBVIOUS
      <3>1. entry[<<s, m, r>>].mem = "unused" /\ <<s, m, r>> \in Entries
        BY EntryLemma DEF Inv, OwnInv
      <3>2. <<s, m, r>> # x
        BY <1>5, <1>6
      <3> QED
        BY <1>14, <3>1, <3>2
    <2>2. ASSUME NEW u \in Threads, th'[u].pc = "put"
          PROVE  /\ \E m \in 1 .. arrived[th'[u].sess] : th'[u].e = <<th'[u].sess, m, "t4">>
                 /\ \A r \in ToSet(th'[u].todo) :
                      entry'[<<th'[u].e[1], th'[u].e[2], r>>].mem = "unused"
      <3>1. th[u].pc = "put" /\ th'[u].sess = th[u].sess /\ th'[u].e = th[u].e
        BY <1>1, <1>8, <1>10, <2>2
      <3>2. PICK m \in 1 .. arrived[th[u].sess] : th[u].e = <<th[u].sess, m, "t4">>
        BY <3>1 DEF Inv, OwnInv
      <3>3. th[u].sess \in Sessions
        BY <3>1 DEF Inv, HandInv, HandOf
      <3>4. m \in 1 .. Copies /\ th[u].e[1] = th[u].sess /\ th[u].e[2] = m
        BY <3>2, <3>3, ConstantsLemma DEF Inv, ShapeInv
      <3>5. ASSUME NEW r \in ToSet(th'[u].todo)
            PROVE  /\ r \in ToSet(th[u].todo) /\ r \in Roles
                   /\ <<th[u].sess, m, r>> # x
        <4>1. CASE u = t
          BY <1>1, <1>4, <1>6, <1>8, <1>10, <3>5, <4>1, TodoLemma
        <4>2. CASE u # t
          <5>1. th'[u] = th[u] /\ th[u].todo \in TodoSeqs
            BY <1>1, <1>10, <4>2, HandlerFields
          <5>2. TunnelOf(th[u].e) # TunnelOf(g.e)
            BY <1>1, <3>1, <4>2 DEF Inv, OwnInv
          <5>3. <<th[u].sess, m>> # <<g.sess, n>>
            BY <1>5, <3>4, <5>2 DEF TunnelOf
          <5> QED
            BY <1>6, <3>5, <5>1, <5>3, TodoLemma
        <4> QED
          BY <4>1, <4>2
      <3>6. \A r \in ToSet(th'[u].todo) : entry'[<<th[u].sess, m, r>>].mem = "unused"
        <4> TAKE r \in ToSet(th'[u].todo)
        <4>1. <<th[u].sess, m, r>> \in Entries
          BY <3>3, <3>4, <3>5, EntryLemma
        <4>2. entry[<<th[u].sess, m, r>>].mem = "unused"
          BY <3>1, <3>4, <3>5 DEF Inv, OwnInv
        <4> QED
          BY <1>14, <3>5, <4>1, <4>2
      <3> QED
        BY <3>1, <3>2, <3>4, <3>6
    <2>3. \A u \in Threads : th'[u].pc = th[u].pc /\ th'[u].e = th[u].e
      BY <1>1, <1>8, <1>10
    <2>4. \A u, v \in Threads :
            th'[u].pc = "put" /\ th'[v].pc = "put" /\ u # v
              => TunnelOf(th'[u].e) # TunnelOf(th'[v].e)
      BY <2>3 DEF Inv, OwnInv
    <2> QED
      BY <1>1, <2>1, <2>2, <2>4 DEF OwnInv, TunnelOf
  <1>22. EntryRefsExact'
    <2> SUFFICES ASSUME NEW e \in Entries, entry'[e].mem = "live"
                 PROVE  entry'[e].ref_count =
                          (IF e \in ToSet(chain'[KeyOf[e[1]][e[3]]]) THEN 1 ELSE 0)
                            + Cardinality(Keepers(e)') + Cardinality(Users(e)')
      BY DEF EntryRefsExact, Linked, KeyOfEntry
    <2>1. Keepers(e)' = Keepers(e) /\ Users(e)' = Users(e)
      <3>1. \A u \in Threads : /\ th'[u].held = th[u].held /\ th'[u].pc = th[u].pc
                               /\ th'[u].e = th[u].e /\ th'[u].op = th[u].op
        BY <1>1, <1>2, <1>8, <1>10
      <3> QED
        BY <3>1 DEF Keepers, Users
    <2>2. CASE e = x
      <3>1. Keepers(e) = {} /\ Users(e) = {}
        BY <1>16, <2>2 DEF Keepers, Users
      <3>2. Cardinality(Keepers(e)) = 0 /\ Cardinality(Users(e)) = 0
        BY <3>1, FS_EmptySet
      <3> QED
        BY <1>14, <1>15, <2>1, <2>2, <3>2
    <2>3. CASE e # x
      <3>1. entry'[e] = entry[e]
        BY <1>14, <2>3
      <3>2. entry[e].ref_count = (IF e \in ToSet(chain[KeyOf[e[1]][e[3]]]) THEN 1 ELSE 0)
              + Cardinality(Keepers(e)) + Cardinality(Users(e))
        BY <3>1 DEF Inv, EntryRefsExact, Linked, KeyOfEntry
      <3>3. e \in ToSet(chain'[KeyOf[e[1]][e[3]]]) <=> e \in ToSet(chain[KeyOf[e[1]][e[3]]])
        BY <1>15, <2>3
      <3> QED
        BY <2>1, <3>1, <3>2, <3>3
    <2> QED
      BY <2>2, <2>3
  <1>23. ApartInv'
    BY <1>1, <1>8, <1>10 DEF Inv, ApartInv, ReachOf, Apart
  <1>24. KnownInv'
    <2>1. ASSUME NEW s \in Sessions, Apart(s), deleted[s] = 0
          PROVE  /\ s \in known => \E m \in 1 .. Copies :
                      <<s, m, "t2">> \in ToSet(chain'[KeyOf[s]["t2"]])
                 /\ \A u \in Threads :
                      th'[u].pc = "put" /\ th'[u].sess = s /\ "t2" \notin ToSet(th'[u].todo) =>
                        <<s, th'[u].e[2], "t2">> \in ToSet(chain'[KeyOf[s]["t2"]])
      <3>1. \A m \in 1 .. Copies : <<s, m, "t2">> \in Entries
        BY EntryLemma DEF Roles
      <3>2. \A m \in 1 .. Copies : Linked(<<s, m, "t2">>) =>
              <<s, m, "t2">> \in ToSet(chain'[KeyOf[s]["t2"]])
        BY <1>15, <3>1 DEF Linked, KeyOfEntry
      <3>3. s \in known => \E m \in 1 .. Copies : Linked(<<s, m, "t2">>)
        BY <2>1 DEF Inv, KnownInv
      <3>4. ASSUME NEW u \in Threads, th'[u].pc = "put", th'[u].sess = s,
                   "t2" \notin ToSet(th'[u].todo)
            PROVE  <<s, th'[u].e[2], "t2">> \in ToSet(chain'[KeyOf[s]["t2"]])
        <4>1. th[u].pc = "put" /\ th[u].sess = s /\ th'[u].e = th[u].e
          BY <1>1, <1>8, <1>10, <3>4
        <4>2. PICK m \in 1 .. arrived[s] : th[u].e = <<s, m, "t4">>
          BY <4>1 DEF Inv, OwnInv
        <4>3. m \in 1 .. Copies /\ th[u].e[2] = m
          BY <4>2, ConstantsLemma DEF Inv, ShapeInv
        <4>4. CASE "t2" \in ToSet(th[u].todo)
          <5>1. u = t /\ Head(g.todo) = "t2"
            BY <1>4, <1>8, <1>10, <3>4, <4>4
          <5>2. x = <<s, m, "t2">>
            BY <1>5, <1>6, <4>1, <4>3, <5>1
          <5> QED
            BY <1>6, <1>9, <1>15, <4>1, <4>3, <5>2
        <4>5. CASE "t2" \notin ToSet(th[u].todo)
          <5>1. Linked(<<s, th[u].e[2], "t2">>)
            BY <2>1, <4>1, <4>5 DEF Inv, KnownInv
          <5> QED
            BY <3>2, <4>1, <4>3, <5>1
        <4> QED
          BY <4>4, <4>5
      <3> QED
        BY <3>2, <3>3, <3>4
    <2>2. UNCHANGED <<known, deleted>>
      BY <1>1
    <2> QED
      BY <2>1, <2>2 DEF KnownInv, Apart, Linked, KeyOfEntry
  <1>25. NullExplained'
    BY <1>1 DEF NullExplained
  <1> QED
    BY <1>17, <1>18, <1>19, <1>20, <1>21, <1>22, <1>23, <1>24, <1>25 DEF Inv

\* A map node is taken out of its chain.
LEMMA CmapRemoveStep ==
  ASSUME Inv, UNCHANGED KeyOf, NEW t \in Threads, CmapRemove(t)
  PROVE  Inv'
  <1> DEFINE g == th[t]
             x == g.e
             k == KeyOfEntry(x)
             h == [g EXCEPT !.pc = "unref"]
  <1>1. /\ ShapeInv /\ Become(t, h) /\ g \in Handlers /\ g.pc = "remove" /\ fault' = "none"
        /\ UNCHANGED <<entry, tunnel, arrived, known, deleted>>
    BY HandlerFields DEF Inv, CmapRemove, At
  <1>2. PICK i \in DOMAIN chain[k] :
          chain[k][i] = x /\ chain' = [chain EXCEPT ![k] = RemoveAt(@, i)]
    BY DEF CmapRemove
  <1>3. HandOf(g) /\ ReachOf(g)
    BY DEF Inv, HandInv, ApartInv
  <1>4. /\ x \in Entries /\ entry[x].mem # "unused" /\ g.op = "delete" /\ g.held \in Entries
        /\ g.sess \in Sessions /\ g.held # NoEntry
    BY <1>1, <1>3, EntryLemma DEF HandOf
  <1>5. k \in Keys /\ k = KeyOf[x[1]][x[3]] /\ x \in ToSet(chain[k])
    BY <1>1, <1>2, <1>4, KeyLemma DEF ToSet
  <1>6. /\ h \in Handlers /\ h.pc = "unref" /\ h.op = g.op /\ h.held = g.held
        /\ h.sess = g.sess /\ h.e = x
    BY <1>1 DEF Handlers
  <1> HIDE DEF k, h
  <1>7. OnlyThread(t) /\ th'[t] = h
    BY <1>1, <1>6, BecomeLemma
  <1>8. /\ chain' \in [Keys -> Seq(Entries)] /\ \A j \in Keys : IsInjective(chain'[j])
        /\ \A j \in Keys : j # k => ToSet(chain'[j]) = ToSet(chain[j])
        /\ ToSet(chain'[k]) = ToSet(chain[k]) \ {x}
    <2> DEFINE c == RemoveAt(chain[k], i)
    <2>1. chain' = [chain EXCEPT ![k] = c]
      BY <1>2
    <2>2. chain[k] \in Seq(Entries) /\ IsInjective(chain[k])
      BY <1>5 DEF Inv, ShapeInv, ChainInv
    <2>3. c \in Seq(Entries) /\ IsInjective(c) /\ ToSet(c) = ToSet(chain[k]) \ {x}
      BY <1>2, <2>2, RemoveAtLemma
    <2> HIDE DEF c
    <2>4. chain' \in [Keys -> Seq(Entries)] /\ chain'[k] = c
          /\ \A j \in Keys : j # k => chain'[j] = chain[j]
      BY <1>1, <1>5, <2>1, <2>3 DEF ShapeInv
    <2> QED
      BY <2>3, <2>4 DEF Inv, ChainInv
  <1>9. \A y \in Entries : y \in ToSet(chain'[KeyOf[y[1]][y[3]]])
                             <=> (y \in ToSet(chain[KeyOf[y[1]][y[3]]]) /\ y # x)
    <2> TAKE y \in Entries
    <2>1. KeyOf[y[1]][y[3]] \in Keys
      BY <1>1, EntryLemma, KeyLemma
    <2> QED
      BY <1>5, <1>8, <2>1
  <1> USE DEF OnlyThread
  <1>10. ShapeInv'
    BY <1>1, <1>7, <1>8 DEF ShapeInv
  <1>11. HandInv'
    BY <1>1, <1>3, <1>4, <1>6, <1>7 DEF Inv, HandInv, HandOf
  <1>12. OutInv'
    <2> SUFFICES ASSUME NEW u \in Threads, u # t,
                        th[u].pc \in {"tload", "tstore", "ttest", "tfree", "efree"}
                 PROVE  ~(th[u].e \in ToSet(chain'[KeyOf[th[u].e[1]][th[u].e[3]]]))
      BY <1>6, <1>7 DEF OutInv, OutOf, Linked, KeyOfEntry
    <2>1. th[u].e \in Entries
      BY DEF Inv, HandInv, HandOf
    <2>2. ~(th[u].e \in ToSet(chain[KeyOf[th[u].e[1]][th[u].e[3]]]))
      BY DEF Inv, OutInv, OutOf, Linked, KeyOfEntry
    <2> QED
      BY <1>9, <2>1, <2>2
  <1>13. ChainInv'
    BY <1>1, <1>8 DEF Inv, ChainInv, KeyOfEntry
  <1>14. OwnInv'
    BY <1>1, <1>6, <1>7 DEF Inv, OwnInv
  <1>15. EntryRefsExact'
    <2> SUFFICES ASSUME NEW e \in Entries, entry[e].mem = "live"
                 PROVE  entry[e].ref_count =
                          (IF e \in ToSet(chain'[KeyOf[e[1]][e[3]]]) THEN 1 ELSE 0)
                            + Cardinality(Keepers(e)') + Cardinality(Users(e)')
      BY <1>1 DEF EntryRefsExact, Linked, KeyOfEntry
    <2>1. One(Keeps(h, e)) = One(Keeps(g, e)) /\ One(Uses(g, e)) = 0
          /\ One(Uses(h, e)) = IF e = x THEN 1 ELSE 0
      BY <1>1, <1>4, <1>6 DEF Keeps, Uses, One
    <2>2. entry[e].ref_count = (IF e \in ToSet(chain[KeyOf[e[1]][e[3]]]) THEN 1 ELSE 0)
              + Cardinality(Keepers(e)) + Cardinality(Users(e))
      BY DEF Inv, EntryRefsExact, Linked, KeyOfEntry
    <2>3. One(Keeps(g, e)) \in Int
      BY DEF One
    <2>4. /\ Cardinality(Keepers(e)) \in Nat /\ Cardinality(Users(e)) \in Nat
          /\ Cardinality(Keepers(e)') = Cardinality(Keepers(e))
          /\ Cardinality(Users(e)') = Cardinality(Users(e)) + (IF e = x THEN 1 ELSE 0)
      BY <1>7, <2>1, <2>3, CountLemma
    <2>5. (IF e \in ToSet(chain[KeyOf[e[1]][e[3]]]) THEN 1 ELSE 0)
            = (IF e \in ToSet(chain'[KeyOf[e[1]][e[3]]]) THEN 1 ELSE 0) + (IF e = x THEN 1 ELSE 0)
      BY <1>5, <1>9
    <2> QED
      BY <2>2, <2>4, <2>5
  <1>16. ApartInv'
    BY <1>1, <1>3, <1>6, <1>7 DEF Inv, ApartInv, ReachOf, Apart
  <1>17. KnownInv'
    <2>1. ASSUME NEW s \in Sessions, Apart(s), deleted[s] = 0
          PROVE  /\ s \in known => \E m \in 1 .. Copies :
                      <<s, m, "t2">> \in ToSet(chain'[KeyOf[s]["t2"]])
                 /\ \A u \in Threads :
                      th'[u].pc = "put" /\ th'[u].sess = s /\ "t2" \notin ToSet(th'[u].todo) =>
                        <<s, th'[u].e[2], "t2">> \in ToSet(chain'[KeyOf[s]["t2"]])
      <3>1. x[1] # s
        BY <1>1, <1>3, <1>4, <2>1 DEF ReachOf
      <3>2. \A m \in 1 .. Copies : <<s, m, "t2">> \in Entries /\ <<s, m, "t2">> # x
        BY <3>1, EntryLemma DEF Roles
      <3>3. \A m \in 1 .. Copies : Linked(<<s, m, "t2">>) =>
              <<s, m, "t2">> \in ToSet(chain'[KeyOf[s]["t2"]])
        BY <1>9, <3>2 DEF Linked, KeyOfEntry
      <3>4. s \in known => \E m \in 1 .. Copies : Linked(<<s, m, "t2">>)
        BY <2>1 DEF Inv, KnownInv
      <3>5. ASSUME NEW u \in Threads, th'[u].pc = "put", th'[u].sess = s,
                   "t2" \notin ToSet(th'[u].todo)
            PROVE  <<s, th'[u].e[2], "t2">> \in ToSet(chain'[KeyOf[s]["t2"]])
        <4>1. th'[u] = th[u]
          BY <1>6, <1>7, <3>5
        <4>2. PICK m \in 1 .. arrived[s] : th[u].e = <<s, m, "t4">>
          BY <3>5, <4>1 DEF Inv, OwnInv
        <4>3. m \in 1 .. Copies /\ th[u].e[2] = m
          BY <4>2, ConstantsLemma DEF Inv, ShapeInv
        <4>4. Linked(<<s, th[u].e[2], "t2">>)
          BY <2>1, <3>5, <4>1 DEF Inv, KnownInv
        <4> QED
          BY <3>3, <4>1, <4>3, <4>4
      <3> QED
        BY <3>3, <3>4, <3>5
    <2>2. UNCHANGED <<known, deleted>>
      BY <1>1
    <2> QED
      BY <2>1, <2>2 DEF KnownInv, Apart, Linked, KeyOfEntry
  <1>18. NullExplained'
    BY <1>1 DEF NullExplained
  <1> QED
    BY <1>10, <1>11, <1>12, <1>13, <1>14, <1>15, <1>16, <1>17, <1>18 DEF Inv
-----------------------------------------------------------------------------
(* The theorems.                                                           *)

\* A step that stops the process.
LEMMA FailsStep ==
  ASSUME Inv, UNCHANGED KeyOf, NEW kind, NEW s, kind # "null", Fails(kind, s)
  PROVE  Inv'
  <1>1. NullExplained'
    BY DEF NullExplained, Fails
  <1> QED
    BY <1>1, StopStep DEF Fails

\* A Delete Session Response whose t2 is not in the map.
LEMMA DeleteUnknownStep ==
  ASSUME Inv, UNCHANGED KeyOf, NEW t \in Threads, NEW s \in Sessions, DeleteUnknown(t, s)
  PROVE  Inv'
  <1>1. /\ s \in known /\ chain[KeyOf[s]["t2"]] = <<>> /\ victim' = s
        /\ UNCHANGED <<chain, entry, tunnel, arrived, known, deleted, th>>
    BY DEF DeleteUnknown, Fails
  <1>2. ToSet(chain[KeyOf[s]["t2"]]) = {}
    BY <1>1, TodoLemma
  <1>3. \A n \in 1 .. Copies : ~Linked(<<s, n, "t2">>)
    BY <1>2 DEF Linked, KeyOfEntry
  <1>4. ~Apart(s) \/ deleted[s] # 0
    BY <1>1, <1>3 DEF Inv, KnownInv
  <1>5. deleted[s] # 0 => deleted[s] > 0
    BY ConstantsLemma DEF Inv, ShapeInv
  <1>6. NullExplained'
    BY <1>1, <1>4, <1>5 DEF NullExplained, Apart
  <1> QED
    BY <1>1, <1>6, StopStep

\* The maps are empty and no thread has a packet.
LEMMA InitLemma ==
  ASSUME Init
  PROVE  Inv
  <1>1. /\ KeyOf \in KeyMaps /\ \A k \in Keys : chain[k] = <<>>
        /\ chain \in [Keys -> Seq(Entries)] /\ fault = "none" /\ known = {}
    BY DEF Init
  <1>2. \A k \in Keys : ToSet(chain[k]) = {} /\ IsInjective(chain[k])
    BY <1>1, TodoLemma DEF IsInjective
  <1>3. /\ entry \in [Entries -> [mem : Mems, ref_count : Nat]]
        /\ \A e \in Entries : entry[e].mem = "unused"
    <2> DEFINE v == [mem |-> "unused", ref_count |-> 0]
    <2>1. v \in [mem : Mems, ref_count : Nat] /\ v.mem = "unused"
      BY DEF Mems
    <2>2. entry = [e \in Entries |-> v]
      BY DEF Init
    <2> HIDE DEF v
    <2> QED
      BY <2>1, <2>2
  <1>4. tunnel \in [Tunnels -> [mem : Mems, ref_count : Int]]
    <2> DEFINE v == [mem |-> "unused", ref_count |-> 0]
    <2>1. v \in [mem : Mems, ref_count : Int]
      BY DEF Mems
    <2>2. tunnel = [u \in Tunnels |-> v]
      BY DEF Init
    <2> HIDE DEF v
    <2> QED
      BY <2>1, <2>2
  <1>5. arrived \in [Sessions -> 0 .. Copies] /\ deleted \in [Sessions -> 0 .. Copies]
    BY ConstantsLemma DEF Init
  <1>6. th \in [Threads -> Handlers] /\ \A t \in Threads : th[t] = IdleThread
    BY IdleLemma DEF Init
  <1>7. ShapeInv
    BY <1>1, <1>3, <1>4, <1>5, <1>6 DEF ShapeInv
  <1>8. HandInv
    BY <1>6, IdleLemma DEF HandInv, HandOf
  <1>9. OutInv
    BY <1>6, IdleLemma DEF OutInv, OutOf
  <1>10. ChainInv
    BY <1>2 DEF ChainInv
  <1>11. OwnInv
    BY <1>3, <1>6, IdleLemma, EntryLemma DEF OwnInv
  <1>12. EntryRefsExact
    BY <1>3 DEF EntryRefsExact
  <1>13. ApartInv
    BY <1>6, IdleLemma DEF ApartInv, ReachOf
  <1>14. KnownInv
    BY <1>1, <1>6, IdleLemma DEF KnownInv
  <1>15. NullExplained
    BY <1>1 DEF NullExplained
  <1> QED
    BY <1>7, <1>8, <1>9, <1>10, <1>11, <1>12, <1>13, <1>14, <1>15 DEF Inv

\* Every step of every thread.
LEMMA NextLemma ==
  ASSUME Inv, [Next]_vars
  PROVE  Inv'
  <1>1. CASE UNCHANGED vars
    <2>1. UNCHANGED <<KeyOf, chain, entry, tunnel, fault, victim, arrived, known, deleted, th>>
      BY <1>1 DEF vars
    <2>2. NullExplained'
      BY <2>1 DEF Inv, NullExplained, Apart
    <2> QED
      BY <2>1, <2>2, StopStep
  <1>2. CASE Next
    <2>1. UNCHANGED KeyOf
      BY <1>2 DEF Next
    <2>2. PICK t \in Threads : Create(t) \/ Lookup(t) \/ Delete(t) \/ GiveUp(t)
      BY <1>2 DEF Next
    <2>3. CASE Create(t)
      BY <2>1, <2>3, CreateStartStep, CreateUnknownPgwStep, PutStep, CreateEndStep DEF Create
    <2>4. CASE Lookup(t)
      BY <2>1, <2>4, LookupStartStep, RefStep, ReadStep DEF Lookup
    <2>5. CASE Delete(t)
      <3>1. DelMissWild(t) => Fails("wild", th[t].sess)
        BY DEF DelMissWild
      <3>2. RemoveMissing(t) => Fails("assert", th[t].sess)
        BY DEF RemoveMissing
      <3>3. RemoveWalksOff(t) => Fails("walk", th[t].sess)
        BY DEF RemoveWalksOff
      <3> QED
        BY <2>1, <2>5, <3>1, <3>2, <3>3, DeleteStartStep, DeleteUnknownStep, DelFindStep,
           DelMissNullStep, FailsStep, CmapRemoveStep, DelHeldStep DEF Delete
    <2>6. CASE GiveUp(t)
      <3>1. UseFreed(t) => Fails("use_after_free", th[t].sess)
        BY DEF UseFreed
      <3> QED
        BY <2>1, <2>6, <3>1, UnrefStep, TunnelLoadStep, TunnelStoreStep, TunnelTestStep,
           TunnelFreeStep, EntryFreeStep, FailsStep DEF GiveUp
    <2> QED
      BY <2>2, <2>3, <2>4, <2>5, <2>6
  <1> QED
    BY <1>1, <1>2

\* The inductive invariant holds at every moment.
THEOREM Invariance == Spec => []Inv
  <1>1. Init => Inv
    BY InitLemma
  <1>2. Inv /\ [Next]_vars => Inv'
    BY NextLemma
  <1> QED
    BY <1>1, <1>2, PTL DEF Spec

\* The count of a map node in teid2pgw and ueip2pgw is exact at every moment: one for the
\* map and one for each handler that has it in hand, whatever the upcall threads do and
\* even though the tunnel nodes behind it are counted without a lock.
THEOREM RefsExact == Spec => []EntryRefsExact
  <1>1. Inv => EntryRefsExact
    BY DEF Inv
  <1> QED
    BY <1>1, Invariance, PTL

\* The handler of a Delete Session Response dereferences NULL only if the very session it is
\* about was deleted before or shares a key with another one; with any number of upcall
\* threads (handle_gtpc_message(), gtp_manager_get_teid_pgw()).
THEOREM NullHolds == Spec => []NullExplained
  <1>1. Inv => NullExplained
    BY DEF Inv
  <1> QED
    BY <1>1, Invariance, PTL
=============================================================================
