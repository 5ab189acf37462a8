----------------------------- MODULE CmapProofs -----------------------------
(***************************************************************************)
(* Proofs about the concurrent map (module Cmap), for any nodes, hash      *)
(* functions, slots per bucket, load limits and depth of the search.       *)
(*                                                                         *)
(* The writer's invariant MapOK says what the published cmap_impl holds:   *)
(* between two changes, every linked node in one chain where a search finds *)
(* it (RestOK); inside cmap_set_bucket(), a table that is the one before the *)
(* insertion with the first stores of the plan made (MidAt).               *)
(*                                                                         *)
(* The readers' invariant ReadersOK says what a reader knows.  A search:   *)
(* a bucket whose counter is still the one that was read has been looked at *)
(* as it is (SearchOK); in the chain, what has to be visited is ahead      *)
(* (WalkOK).  An iteration without insertions: what has been visited is not *)
(* ahead of the cursor, and what has to be is (OnceOK).  A step of the     *)
(* writer is summed up for the readers in Passes: how it relinks the chains *)
(* (Relink), what it does to the published tables (Turn), and what it adds *)
(* to the histories (Told).  With both invariants every step is a step of  *)
(* ConcurrentMap or none (MapStep).                                        *)
(***************************************************************************)
EXTENDS Cmap, FiniteSetTheorems, SequenceTheorems, TLAPS

-----------------------------------------------------------------------------
(* Numbers, slots and orders. *)

\* Min() of FiniteSetsExt picks the least member: the first empty slot, the shortest path.
LEMMA NatMin ==
  ASSUME NEW S \in SUBSET Nat, S # {}
  PROVE  Min(S) \in S /\ \A k \in S : Min(S) <= k
<1> DEFINE R == OpToRel(<, Nat)
<1>1. IsWellFoundedOn(R, Nat)
  BY NatLessThanWellFounded, Zenon
<1>2. PICK x \in S : \A y \in S : ~(<<y, x>> \in R)
  <2> HIDE DEF R
  <2> QED BY <1>1, WFMin
<1>3. \A y \in S : ~(y < x)
  BY <1>2 DEF OpToRel
<1>4. \E m \in S : \A k \in S : m <= k
  BY <1>3
<1> QED BY <1>4, Zenon DEF Min

\* Induction over the natural numbers, with the property as a set.
LEMMA Induct ==
  ASSUME NEW S, 0 \in S, \A n \in Nat : n \in S => n + 1 \in S
  PROVE  Nat \subseteq S
<1> DEFINE T == Nat \ S
<1>1. SUFFICES ASSUME T # {} PROVE FALSE
  OBVIOUS
<1>2. PICK m \in T : \A k \in T : m <= k
  <2>1. T \in SUBSET Nat
    OBVIOUS
  <2> HIDE DEF T
  <2> QED BY <1>1, <2>1, NatMin
<1>3. m - 1 \in Nat /\ m - 1 \notin T
  BY <1>2
<1> QED BY <1>2, <1>3

\* The position of a slot, counted through all buckets as cmap_try_rehash() goes
\* through them, gives back the bucket and the slot.
LEMMA Position ==
  ASSUME NEW b \in Nat, NEW i \in Slots, NEW n \in Nat, b < n
  PROVE  LET k == b * K + i IN
         k \in 1 .. n * K /\ (k - 1) \div K = b /\ ((k - 1) % K) + 1 = i
<1> K \in Nat \ {0}
  BY CmapAssumption
<1>1. b * K \in Nat /\ b * K + K <= n * K
  <2>1. n * K = (b + 1) * K + (n - b - 1) * K /\ (b + 1) * K = b * K + K
    OBVIOUS
  <2>2. (n - b - 1) * K >= 0
    OBVIOUS
  <2> QED BY <2>1, <2>2
<1>2. i \in 1 .. K
  BY DEF Slots
<1>3. PICK k \in Nat : k = b * K + i
  BY <1>1, <1>2
<1>4. k - 1 = b * K + (i - 1)  /\ i - 1 \in 0 .. K - 1
  BY <1>2, <1>3
<1> DEFINE q == (k - 1) \div K
           r == (k - 1) % K
<1>5. q \in Nat /\ r \in 0 .. K - 1 /\ k - 1 = q * K + r
  BY <1>2, <1>3, <1>1
<1>6. \A x, y \in Nat : x < y => x * K + K <= y * K
  <2> TAKE x, y \in Nat
  <2> HAVE x < y
  <2>1. y * K = (x + 1) * K + (y - x - 1) * K /\ (x + 1) * K = x * K + K
    OBVIOUS
  <2>2. (y - x - 1) * K >= 0
    OBVIOUS
  <2> QED BY <2>1, <2>2
<1>7. q = b
  <2> HIDE DEF q, r
  <2>1. ~(q < b) /\ ~(b < q)
    BY <1>4, <1>5, <1>6, <1>1
  <2> QED BY <2>1, <1>5
<1>8. r = i - 1
  <2> HIDE DEF q, r
  <2> QED BY <1>7, <1>4, <1>5
<1> QED BY <1>1, <1>2, <1>3, <1>7, <1>8

\* Every position is that of one slot of one bucket.
LEMMA SlotAt ==
  ASSUME NEW n \in Nat, NEW k \in 1 .. n * K
  PROVE  /\ (k - 1) \div K \in 0 .. n - 1 /\ ((k - 1) % K) + 1 \in Slots
         /\ k = ((k - 1) \div K) * K + (((k - 1) % K) + 1)
<1> K \in Nat \ {0}
  BY CmapAssumption
<1> DEFINE q == (k - 1) \div K
           r == (k - 1) % K
<1>1. q \in Nat /\ r \in 0 .. K - 1 /\ k - 1 = q * K + r
  OBVIOUS
<1>2. q < n
  <2>1. SUFFICES ASSUME q >= n PROVE FALSE
    BY <1>1
  <2>2. q * K >= n * K
    <3>1. q * K = n * K + (q - n) * K /\ (q - n) * K >= 0
      BY <1>1, <2>1
    <3> QED BY <3>1, <1>1
  <2> QED BY <2>2, <1>1
<1> QED BY <1>1, <1>2 DEF Slots

\* A finite set has a least member under a strict order: the search queue has a
\* first path.
LEMMA FirstOf ==
  ASSUME NEW S, IsFiniteSet(S), S # {}, NEW R,
         \A x \in S : <<x, x>> \notin R,
         \A x, y, z \in S : <<x, y>> \in R /\ <<y, z>> \in R => <<x, z>> \in R
  PROVE  \E x \in S : \A y \in S : <<y, x>> \notin R
<1> DEFINE Before(x) == {y \in S : <<y, x>> \in R}
           Counts == {Cardinality(Before(x)) : x \in S}
<1>1. \A x \in S : IsFiniteSet(Before(x)) /\ Cardinality(Before(x)) \in Nat
  <2> TAKE x \in S
  <2>1. Before(x) \in SUBSET S
    OBVIOUS
  <2> QED BY <2>1, FS_Subset, FS_CardinalityType
<1> HIDE DEF Before
<1>2. Counts \in SUBSET Nat /\ Counts # {}
  <2>1. \A c \in Counts : c \in Nat
    BY <1>1
  <2>2. PICK x \in S : TRUE
    OBVIOUS
  <2>3. Cardinality(Before(x)) \in Counts
    OBVIOUS
  <2> QED BY <2>1, <2>3
<1>3. PICK x \in S : \A y \in S : Cardinality(Before(x)) <= Cardinality(Before(y))
  <2>1. Min(Counts) \in Counts /\ \A k \in Counts : Min(Counts) <= k
    <3> HIDE DEF Counts
    <3> QED BY <1>2, NatMin
  <2>2. PICK x \in S : Min(Counts) = Cardinality(Before(x))
    BY <2>1
  <2>3. \A y \in S : Cardinality(Before(y)) \in Counts
    OBVIOUS
  <2> HIDE DEF Counts
  <2> QED BY <2>1, <2>2, <2>3
<1>4. \A y \in S : <<y, x>> \notin R
  <2>1. SUFFICES ASSUME NEW y \in S, <<y, x>> \in R PROVE FALSE
    OBVIOUS
  <2>2. Before(y) \subseteq Before(x) /\ y \in Before(x) /\ y \notin Before(y)
    BY <2>1 DEF Before
  <2>3. Cardinality(Before(y)) < Cardinality(Before(x))
    <3>1. Before(y) \in SUBSET Before(x) /\ Before(y) # Before(x)
      BY <2>2
    <3>2. Cardinality(Before(y)) <= Cardinality(Before(x))
      BY <1>1, <3>1, FS_Subset
    <3>3. Cardinality(Before(y)) # Cardinality(Before(x))
      BY <1>1, <3>1, FS_Subset
    <3> QED BY <1>1, <3>2, <3>3
  <2> QED BY <2>3, <1>3, <1>1
<1> QED BY <1>4

-----------------------------------------------------------------------------
(* Tables, buckets and the paths of the breadth-first search. *)

\* The cmap_impls of mask m.
Table(m) ==
  [mask : {m}, basis : Bases, n : Int, counter : [0 .. m -> Nat],
   hashes : [0 .. m -> [Slots -> Hashes \cup {0}]],
   nodes : [0 .. m -> [Slots -> Nodes \cup {Null}]]]

\* A well-typed cmap_impl.
IsImpl(im) == im.mask \in Nat /\ im \in Table(im.mask)

\* The types of the fields of a cmap_impl.
LEMMA ImplFacts ==
  ASSUME NEW im, IsImpl(im)
  PROVE  /\ im.mask \in Nat /\ im.basis \in Bases /\ im.n \in Int
         /\ im.counter \in [0 .. im.mask -> Nat]
         /\ im.hashes \in [0 .. im.mask -> [Slots -> Hashes \cup {0}]]
         /\ im.nodes \in [0 .. im.mask -> [Slots -> Nodes \cup {Null}]]
  BY DEF IsImpl, Table

\* h & impl->mask is a bucket of the table, for both hash functions.
LEMMA BucketIn ==
  ASSUME NEW im, IsImpl(im), NEW h \in Hashes \cup {0}
  PROVE  Bucket1(im, h) \in 0 .. im.mask /\ Bucket2(im, h) \in 0 .. im.mask
<1>1. PICK f \in Nat : f = HashFinish[im.basis][h]
  BY ImplFacts, CmapAssumption
<1>2. PICK M \in Nat \ {0} : M = 2^HalfBits
  BY CmapAssumption
<1>3. f % M \in Nat /\ f \div M \in Nat
  OBVIOUS
<1>4. (f % M) * M + f \div M \in Nat
  BY <1>3
<1>5. \A x \in Nat, m \in Nat : x % (m + 1) \in 0 .. m
  <2> TAKE x \in Nat, m \in Nat
  <2>1. m + 1 \in Nat \ {0}
    OBVIOUS
  <2>2. x % (m + 1) \in 0 .. (m + 1) - 1
    BY <2>1
  <2> QED BY <2>2
<1>6. f % (im.mask + 1) \in 0 .. im.mask
  BY <1>5, ImplFacts
<1>7. ((f % M) * M + f \div M) % (im.mask + 1) \in 0 .. im.mask
  <2> DEFINE g == (f % M) * M + f \div M
  <2>1. g \in Nat
    BY <1>4
  <2> HIDE DEF g
  <2> QED BY <2>1, <1>5, ImplFacts
<1> QED BY <1>1, <1>2, <1>6, <1>7 DEF Bucket1, Bucket2, other_hash

\* other_bucket_protected() stays in the table.
LEMMA OtherIn ==
  ASSUME NEW im, IsImpl(im), NEW b \in 0 .. im.mask, NEW i \in Slots
  PROVE  other_bucket_protected(im, b, i) \in 0 .. im.mask
<1>1. PICK h \in Hashes \cup {0} : h = im.hashes[b][i]
  BY ImplFacts
<1> QED BY <1>1, BucketIn DEF other_bucket_protected

\* A sequence without its last member.
Butlast(s) == [k \in 1 .. Len(s) - 1 |-> s[k]]

\* A sequence is its front and its last member.
LEMMA SeqLast ==
  ASSUME NEW S, NEW s \in Seq(S), Len(s) # 0
  PROVE  /\ Butlast(s) \in Seq(S) /\ Len(Butlast(s)) = Len(s) - 1
         /\ s = Append(Butlast(s), s[Len(s)])
         /\ \A k \in 1 .. Len(s) - 1 : Butlast(s)[k] = s[k]
<1> DEFINE n == Len(s) - 1
           t == [k \in 1 .. n |-> s[k]]
<1>0. n \in Nat /\ Len(s) = n + 1
  OBVIOUS
<1>1. t \in Seq(S) /\ Len(t) = n
  OBVIOUS
<1>2. s[n + 1] \in S
  OBVIOUS
<1>3. Append(t, s[n + 1]) = s
  <2>1. Append(t, s[n + 1]) \in Seq(S) /\ Len(Append(t, s[n + 1])) = n + 1
    BY <1>1, <1>2
  <2>2. \A k \in 1 .. n + 1 : Append(t, s[n + 1])[k] = s[k]
    BY <1>1, <1>2
  <2> QED BY <2>1, <2>2
<1>4. \A k \in 1 .. n : t[k] = s[k]
  OBVIOUS
<1>5. Butlast(s) = t
  BY DEF Butlast
<1> HIDE DEF t
<1> QED BY <1>0, <1>1, <1>3, <1>4, <1>5, Zenon

\* The members of a sequence over S are in S.
LEMMA SeqElem ==
  ASSUME NEW S, NEW s \in Seq(S), NEW k \in 1 .. Len(s)
  PROVE  s[k] \in S
  OBVIOUS

\* What Append() leaves alone and what it adds.
LEMMA AppendFacts ==
  ASSUME NEW S, NEW s \in Seq(S), NEW v \in S
  PROVE  /\ Append(s, v) \in Seq(S) /\ Len(Append(s, v)) = Len(s) + 1
         /\ \A k \in 1 .. Len(s) : Append(s, v)[k] = s[k]
         /\ Append(s, v)[Len(s) + 1] = v
  OBVIOUS

\* The type of a path of cmap_insert_bfs().
PathT(im) == [start : 1 .. 2, at : Seq(0 .. im.mask), slots : Seq(Slots)]

\* A path of n hops from one of the two buckets in b, each to the other bucket of
\* the chain in a slot, none within its bucket.
IsPath(im, b, n, p) ==
  /\ p \in PathT(im)
  /\ Len(p.at) = n + 1 /\ Len(p.slots) = n
  /\ p.at[1] = b[p.start]
  /\ \A k \in 1 .. n : /\ p.at[k + 1] = other_bucket_protected(im, p.at[k], p.slots[k])
                       /\ p.at[k + 1] # p.at[k]

\* The paths without a hop.
Level0(b) == {[start |-> k, at |-> <<b[k]>>, slots |-> <<>>] : k \in 1 .. 2}

\* Paths() by its recursion.
LEMMA PathsRecursion ==
  ASSUME NEW im, NEW b
  PROVE  Paths(im, b) = [n \in 0 .. MaxDepth + 1 |->
           IF n = 0 THEN Level0(b) ELSE Hops(im, Paths(im, b)[n - 1])]
<1> DEFINE Rec(N, g) == g = [n \in 0 .. N |-> IF n = 0 THEN Level0(b) ELSE Hops(im, g[n - 1])]
           S == {N \in Nat : \E g : Rec(N, g)}
<1>1. 0 \in S
  <2>1. Rec(0, [n \in 0 .. 0 |-> Level0(b)])
    OBVIOUS
  <2> QED BY <2>1
<1>2. \A N \in Nat : N \in S => N + 1 \in S
  <2> TAKE N \in Nat
  <2>1. HAVE N \in S
  <2>2. PICK g : Rec(N, g)
    BY <2>1
  <2> DEFINE f == [n \in 0 .. N + 1 |-> IF n <= N THEN g[n] ELSE Hops(im, g[N])]
  <2>3. \A n \in 0 .. N + 1 : f[n] = IF n = 0 THEN Level0(b) ELSE Hops(im, f[n - 1])
    <3> TAKE n \in 0 .. N + 1
    <3>1. CASE n = 0
      BY <3>1, <2>2
    <3>2. CASE n \in 1 .. N
      BY <3>2, <2>2
    <3>3. CASE n = N + 1
      BY <3>3
    <3> QED BY <3>1, <3>2, <3>3
  <2>4. Rec(N + 1, f)
    BY <2>3
  <2> HIDE DEF Rec, f
  <2>5. \E g1 : Rec(N + 1, g1)
    BY <2>4
  <2> QED BY <2>5
<1>3. MaxDepth + 1 \in Nat
  BY CmapAssumption
<1>4. \E g : Rec(MaxDepth + 1, g)
  <2> HIDE DEF Rec
  <2>1. Nat \subseteq S
    <3> HIDE DEF S
    <3> QED BY <1>1, <1>2, Induct
  <2> QED BY <2>1, <1>3
<1>5. Paths(im, b) = CHOOSE g : Rec(MaxDepth + 1, g)
  BY Zenon DEF Paths, Level0
<1>6. Rec(MaxDepth + 1, Paths(im, b))
  <2> HIDE DEF Rec
  <2> QED BY <1>4, <1>5
<1> QED BY <1>6

\* The first level of the search holds the paths without a hop.
LEMMA PathBase ==
  ASSUME NEW im, NEW b, b[1] \in 0 .. im.mask, b[2] \in 0 .. im.mask, NEW p
  PROVE  p \in Level0(b) <=> IsPath(im, b, 0, p)
<1>1. ASSUME p \in Level0(b) PROVE IsPath(im, b, 0, p)
  <2>1. PICK k \in 1 .. 2 : p = [start |-> k, at |-> <<b[k]>>, slots |-> <<>>]
    BY <1>1 DEF Level0
  <2>2. b[k] \in 0 .. im.mask
    OBVIOUS
  <2>3. <<b[k]>> \in Seq(0 .. im.mask) /\ Len(<<b[k]>>) = 1 /\ <<b[k]>>[1] = b[k]
    BY <2>2
  <2>4. <<>> \in Seq(Slots) /\ Len(<<>>) = 0
    OBVIOUS
  <2>5. p.start = k /\ p.at = <<b[k]>> /\ p.slots = <<>> /\ p \in PathT(im)
    BY <2>1, <2>3, <2>4 DEF PathT
  <2> QED BY <2>3, <2>4, <2>5 DEF IsPath
<1>2. ASSUME IsPath(im, b, 0, p) PROVE p \in Level0(b)
  <2>1. p = [start |-> p.start, at |-> p.at, slots |-> p.slots] /\ p.start \in 1 .. 2
    BY <1>2 DEF IsPath, PathT
  <2>2. p.at \in Seq(0 .. im.mask) /\ Len(p.at) = 1 /\ p.at[1] = b[p.start]
    BY <1>2 DEF IsPath, PathT
  <2>3. p.at = <<b[p.start]>>
    BY <2>2
  <2>4. p.slots \in Seq(Slots) /\ Len(p.slots) = 0
    BY <1>2 DEF IsPath, PathT
  <2>5. p.slots = <<>>
    BY <2>4
  <2> QED BY <2>1, <2>3, <2>5 DEF Level0
<1> QED BY <1>1, <1>2

\* The next level of the search holds the paths with one more hop.
LEMMA PathStep ==
  ASSUME NEW im, IsImpl(im), NEW b, NEW n \in Nat, NEW L,
         \A q : q \in L <=> IsPath(im, b, n, q), NEW p
  PROVE  p \in Hops(im, L) <=> IsPath(im, b, n + 1, p)
<1>1. ASSUME p \in Hops(im, L) PROVE IsPath(im, b, n + 1, p)
  <2>1. PICK q \in L, i \in Slots :
          /\ other_bucket_protected(im, Last(q.at), i) # Last(q.at)
          /\ p = Hop(im, q, i)
    BY <1>1 DEF Hops
  <2>2. IsPath(im, b, n, q)
    BY <2>1
  <2>3. /\ q \in PathT(im) /\ q.start \in 1 .. 2 /\ q.at \in Seq(0 .. im.mask)
        /\ q.slots \in Seq(Slots) /\ Len(q.at) = n + 1 /\ Len(q.slots) = n
    BY <2>2 DEF IsPath, PathT
  <2>4. Last(q.at) = q.at[n + 1] /\ q.at[n + 1] \in 0 .. im.mask
    <3>1. n + 1 \in 1 .. Len(q.at)
      BY <2>3
    <3> QED BY <2>3, <3>1, SeqElem DEF Last
  <2> DEFINE v == other_bucket_protected(im, q.at[n + 1], i)
  <2>5. v \in 0 .. im.mask
    BY <2>4, OtherIn
  <2>6. p = [q EXCEPT !.at = Append(q.at, v), !.slots = Append(q.slots, i)]
    BY <2>1, <2>4 DEF Hop
  <2> HIDE DEF v
  <2>7. /\ Append(q.at, v) \in Seq(0 .. im.mask) /\ Len(Append(q.at, v)) = n + 2
        /\ \A k \in 1 .. n + 1 : Append(q.at, v)[k] = q.at[k]
        /\ Append(q.at, v)[n + 2] = v
    BY <2>3, <2>5, AppendFacts
  <2>8. /\ Append(q.slots, i) \in Seq(Slots) /\ Len(Append(q.slots, i)) = n + 1
        /\ \A k \in 1 .. n : Append(q.slots, i)[k] = q.slots[k]
        /\ Append(q.slots, i)[n + 1] = i
    BY <2>3, AppendFacts
  <2>9. /\ p.start = q.start /\ p.at = Append(q.at, v) /\ p.slots = Append(q.slots, i)
        /\ p \in PathT(im)
    BY <2>3, <2>6, <2>7, <2>8 DEF PathT
  <2>10. p.at[1] = b[p.start]
    BY <2>2, <2>7, <2>9 DEF IsPath
  <2>11. ASSUME NEW k \in 1 .. n + 1
         PROVE  /\ p.at[k + 1] = other_bucket_protected(im, p.at[k], p.slots[k])
                /\ p.at[k + 1] # p.at[k]
    <3>1. CASE k \in 1 .. n
      <4>1. /\ q.at[k + 1] = other_bucket_protected(im, q.at[k], q.slots[k])
            /\ q.at[k + 1] # q.at[k]
        BY <3>1, <2>2 DEF IsPath
      <4>2. p.at[k] = q.at[k] /\ p.at[k + 1] = q.at[k + 1] /\ p.slots[k] = q.slots[k]
        <5>1. k \in 1 .. n + 1 /\ k + 1 \in 1 .. n + 1
          BY <3>1
        <5> QED BY <5>1, <3>1, <2>7, <2>8, <2>9
      <4> QED BY <4>1, <4>2
    <3>2. CASE k = n + 1
      <4>1. p.at[k] = q.at[n + 1] /\ p.at[k + 1] = v /\ p.slots[k] = i
        BY <3>2, <2>7, <2>8, <2>9
      <4> QED BY <4>1, <2>1, <2>4 DEF v
    <3> QED BY <3>1, <3>2
  <2> QED BY <2>7, <2>8, <2>9, <2>10, <2>11 DEF IsPath
<1>2. ASSUME IsPath(im, b, n + 1, p) PROVE p \in Hops(im, L)
  <2>1. /\ p \in PathT(im) /\ p.start \in 1 .. 2 /\ p.at \in Seq(0 .. im.mask)
        /\ p.slots \in Seq(Slots) /\ Len(p.at) = (n + 1) + 1 /\ Len(p.slots) = n + 1
    BY <1>2 DEF IsPath, PathT
  <2> DEFINE t == Butlast(p.at)
             u == Butlast(p.slots)
  <2>2. /\ t \in Seq(0 .. im.mask) /\ Len(t) = n + 1 /\ p.at = Append(t, p.at[n + 2])
        /\ \A k \in 1 .. n + 1 : t[k] = p.at[k]
    <3>1. Len(p.at) # 0 /\ Len(p.at) = n + 2 /\ (n + 2) - 1 = n + 1
      BY <2>1
    <3> HIDE DEF t
    <3> QED BY <2>1, <3>1, SeqLast DEF t
  <2>3. /\ u \in Seq(Slots) /\ Len(u) = n /\ p.slots = Append(u, p.slots[n + 1])
        /\ \A k \in 1 .. n : u[k] = p.slots[k]
    <3>1. Len(p.slots) # 0 /\ Len(p.slots) = n + 1 /\ (n + 1) - 1 = n
      BY <2>1
    <3> HIDE DEF u
    <3> QED BY <2>1, <3>1, SeqLast DEF u
  <2> HIDE DEF t, u
  <2> DEFINE q == [start |-> p.start, at |-> t, slots |-> u]
             i == p.slots[n + 1]
  <2>4. q \in PathT(im) /\ q.at = t /\ q.slots = u /\ q.start = p.start /\ i \in Slots
    <3>1. n + 1 \in 1 .. Len(p.slots)
      BY <2>1
    <3> QED BY <2>1, <2>2, <2>3, <3>1, SeqElem DEF PathT
  <2>5. IsPath(im, b, n, q)
    <3>0. p.at[1] = b[p.start] /\ 1 \in 1 .. n + 1
      BY <1>2 DEF IsPath
    <3>1. p.at[1] = b[p.start] /\ t[1] = p.at[1]
      BY <3>0, <2>2
    <3>2. ASSUME NEW k \in 1 .. n
          PROVE  /\ t[k + 1] = other_bucket_protected(im, t[k], u[k])
                 /\ t[k + 1] # t[k]
      <4>1. /\ p.at[k + 1] = other_bucket_protected(im, p.at[k], p.slots[k])
            /\ p.at[k + 1] # p.at[k]
        BY <1>2 DEF IsPath
      <4>2. t[k] = p.at[k] /\ t[k + 1] = p.at[k + 1] /\ u[k] = p.slots[k]
        BY <2>2, <2>3
      <4> QED BY <4>1, <4>2
    <3> HIDE DEF q
    <3> QED BY <2>2, <2>3, <2>4, <3>1, <3>2 DEF IsPath
  <2>6. Last(q.at) = p.at[n + 1]
    BY <2>2, <2>4 DEF Last
  <2>7. /\ p.at[n + 2] = other_bucket_protected(im, p.at[n + 1], p.slots[n + 1])
        /\ p.at[n + 2] # p.at[n + 1]
    BY <1>2 DEF IsPath
  <2>8. p = Hop(im, q, i)
    <3> DEFINE h == Hop(im, q, i)
               y == Append(t, p.at[n + 2])
               z == Append(u, i)
    <3>1. h = [q EXCEPT !.at = y, !.slots = z]
      <4>1. p.at[n + 2] = other_bucket_protected(im, Last(q.at), i)
        BY <2>6, <2>7
      <4> HIDE DEF q, i
      <4> QED BY <4>1, <2>4 DEF Hop
    <3>2. y = p.at /\ z = p.slots
      BY <2>2, <2>3
    <3> HIDE DEF y, z, q, h
    <3>3. h \in PathT(im) /\ h.start = q.start /\ h.at = y /\ h.slots = z
      BY <3>1, <3>2, <2>1, <2>4 DEF PathT
    <3>4. p = h
      BY <3>2, <3>3, <2>1, <2>4 DEF PathT
    <3> QED BY <3>4 DEF h
  <2>9. q \in L
    BY <2>5
  <2> HIDE DEF q, i
  <2>10. <<q, i>> \in {t1 \in L \X Slots :
             other_bucket_protected(im, Last(t1[1].at), t1[2]) # Last(t1[1].at)}
    BY <2>4, <2>6, <2>7, <2>9 DEF i
  <2> QED BY <2>8, <2>10 DEF Hops
<1> QED BY <1>1, <1>2

\* Each level of the search is finite.
LEMMA HopsFinite ==
  ASSUME NEW im, NEW L, IsFiniteSet(L)
  PROVE  IsFiniteSet(Hops(im, L))
<1> DEFINE T == {t \in L \X Slots :
             other_bucket_protected(im, Last(t[1].at), t[2]) # Last(t[1].at)}
           f == [s \in T |-> Hop(im, s[1], s[2])]
<1>1. IsFiniteSet(Slots)
  <2>1. 1 \in Int /\ K \in Int
    BY CmapAssumption
  <2> QED BY <2>1, FS_Interval DEF Slots
<1>2. IsFiniteSet(L \X Slots)
  BY <1>1, FS_Product
<1>3. IsFiniteSet(T)
  BY <1>2, FS_Subset
<1>4. Hops(im, L) = {f[s] : s \in T}
  BY DEF Hops
<1> HIDE DEF f
<1>5. IsFiniteSet({f[s] : s \in T})
  <2>1. \A x \in {f[s] : s \in T} : \E s \in T : x = f[s]
    OBVIOUS
  <2>2. f \in [T -> {f[s] : s \in T}]
    BY DEF f
  <2>3. f \in Surjection(T, {f[s] : s \in T})
    BY <2>1, <2>2 DEF Surjection
  <2> HIDE DEF T
  <2> QED BY <1>3, <2>3, FS_Surjection
<1> QED BY <1>4, <1>5

\* Level n of the search holds exactly the paths of n hops.
LEMMA Levels ==
  ASSUME NEW im, IsImpl(im), NEW b, b[1] \in 0 .. im.mask, b[2] \in 0 .. im.mask,
         NEW n \in 0 .. MaxDepth + 1
  PROVE  /\ \A p : p \in Paths(im, b)[n] <=> IsPath(im, b, n, p)
         /\ IsFiniteSet(Paths(im, b)[n])
<1> DEFINE Ok(k) == /\ \A p : p \in Paths(im, b)[k] <=> IsPath(im, b, k, p)
                    /\ IsFiniteSet(Paths(im, b)[k])
           S == {k \in Nat : k <= MaxDepth + 1 => Ok(k)}
<1> MaxDepth \in Nat
  BY CmapAssumption
<1>1. Paths(im, b)[0] = Level0(b)
  BY PathsRecursion
<1>2. \A k \in Nat : k + 1 <= MaxDepth + 1 =>
        Paths(im, b)[k + 1] = Hops(im, Paths(im, b)[k])
  BY PathsRecursion
<1>3. Ok(0)
  <2>1. IsFiniteSet(Level0(b))
    <3> DEFINE g(k) == [start |-> k, at |-> <<b[k]>>, slots |-> <<>>]
    <3>1. Level0(b) = {g(1)} \cup {g(2)}
      <4>1. 1 .. 2 = {1, 2}
        OBVIOUS
      <4> HIDE DEF g
      <4>2. {g(k) : k \in 1 .. 2} = {g(1)} \cup {g(2)}
        BY <4>1
      <4> QED BY <4>2 DEF Level0, g
    <3> HIDE DEF g
    <3>2. IsFiniteSet({g(1)})
      BY FS_Singleton
    <3> QED BY <3>1, <3>2, FS_AddElement
  <2> QED BY <1>1, <2>1, PathBase
<1>4. \A k \in Nat : k \in S => k + 1 \in S
  <2> TAKE k \in Nat
  <2> HAVE k \in S
  <2>1. SUFFICES ASSUME k + 1 <= MaxDepth + 1 PROVE Ok(k + 1)
    OBVIOUS
  <2>2. Ok(k)
    BY <2>1
  <2>3. Paths(im, b)[k + 1] = Hops(im, Paths(im, b)[k])
    BY <1>2, <2>1
  <2>4. IsFiniteSet(Paths(im, b)[k + 1])
    BY <2>2, <2>3, HopsFinite
  <2>5. \A p : p \in Hops(im, Paths(im, b)[k]) <=> IsPath(im, b, k + 1, p)
    BY <2>2, PathStep
  <2> QED BY <2>3, <2>4, <2>5
<1>5. n \in S
  <2> HIDE DEF Ok
  <2>1. 0 \in S
    BY <1>3
  <2>2. Nat \subseteq S
    <3> HIDE DEF S
    <3> QED BY <2>1, <1>4, Induct
  <2> QED BY <2>2
<1> HIDE DEF Ok
<1>6. Ok(n)
  BY <1>5
<1> QED BY <1>6 DEF Ok

\* What the type of a path says of its parts.
PathTypesOK(im, n, p) ==
  /\ p.start \in 1 .. 2 /\ p.at \in Seq(0 .. im.mask) /\ p.slots \in Seq(Slots)
  /\ Len(p.at) = n + 1 /\ Len(p.slots) = n
  /\ \A k \in 1 .. n + 1 : p.at[k] \in 0 .. im.mask
  /\ \A k \in 1 .. n : p.slots[k] \in Slots /\ p.slots[k] \in Nat
  /\ Last(p.at) = p.at[n + 1]

\* The parts of a path have their types.
LEMMA PathTypes ==
  ASSUME NEW im, NEW b, NEW n \in Nat, NEW p, IsPath(im, b, n, p)
  PROVE  PathTypesOK(im, n, p)
<1>1. /\ p.start \in 1 .. 2 /\ p.at \in Seq(0 .. im.mask) /\ p.slots \in Seq(Slots)
      /\ Len(p.at) = n + 1 /\ Len(p.slots) = n
  BY DEF IsPath, PathT
<1>2. \A k \in 1 .. n + 1 : p.at[k] \in 0 .. im.mask
  BY <1>1, SeqElem
<1>3. \A k \in 1 .. n : p.slots[k] \in Slots
  BY <1>1
<1>4. Slots \subseteq Nat
  BY CmapAssumption DEF Slots
<1> QED BY <1>1, <1>2, <1>3, <1>4 DEF Last, PathTypesOK

\* Some path of the set comes before all others.
LEMMA FirstPath ==
  ASSUME NEW im, NEW b, NEW n \in Nat, NEW S, IsFiniteSet(S), S # {},
         \A p \in S : IsPath(im, b, n, p)
  PROVE  \E p \in S : \A q \in S : ~Earlier(q, p)
<1> DEFINE R == {s \in S \X S : Earlier(s[1], s[2])}
<1>0. \A p \in S : /\ p.start \in Nat /\ DOMAIN p.slots = 1 .. n
                   /\ \A k \in 1 .. n : p.slots[k] \in Nat
  <2> TAKE p \in S
  <2>0. IsPath(im, b, n, p)
    OBVIOUS
  <2>1. p.start \in 1 .. 2 /\ p.slots \in Seq(Slots) /\ Len(p.slots) = n
        /\ \A k \in 1 .. n : p.slots[k] \in Nat
    <3>1. PathTypesOK(im, n, p)
      BY <2>0, PathTypes, Zenon
    <3> QED BY <3>1 DEF PathTypesOK
  <2> QED BY <2>1
<1>1. \A p \in S : <<p, p>> \notin R
  BY <1>0 DEF Earlier
<1>2. \A p, q, s \in S : Earlier(p, q) /\ Earlier(q, s) => Earlier(p, s)
  <2> TAKE p, q, s \in S
  <2>0. HAVE Earlier(p, q) /\ Earlier(q, s)
  <2>1. CASE p.start < q.start \/ q.start < s.start
    BY <2>0, <2>1, <1>0 DEF Earlier
  <2>2. CASE p.start = q.start /\ q.start = s.start
    <3>1. PICK i \in 1 .. n : p.slots[i] < q.slots[i] /\ \A j \in 1 .. i - 1 : p.slots[j] = q.slots[j]
      <4>1. ~(p.start < q.start) /\ DOMAIN p.slots = 1 .. n
        BY <2>2, <1>0
      <4> QED BY <4>1, <2>0 DEF Earlier
    <3>2. PICK k \in 1 .. n : q.slots[k] < s.slots[k] /\ \A j \in 1 .. k - 1 : q.slots[j] = s.slots[j]
      BY <2>0, <2>2, <1>0 DEF Earlier
    <3>3. \E m \in 1 .. n : p.slots[m] < s.slots[m] /\ \A j \in 1 .. m - 1 : p.slots[j] = s.slots[j]
      <4>1. CASE i <= k
        <5>1. p.slots[i] < s.slots[i]
          BY <4>1, <3>1, <3>2, <1>0
        <5>2. \A j \in 1 .. i - 1 : p.slots[j] = s.slots[j]
          BY <4>1, <3>1, <3>2
        <5> QED BY <5>1, <5>2
      <4>2. CASE k < i
        <5>1. p.slots[k] < s.slots[k]
          BY <4>2, <3>1, <3>2, <1>0
        <5>2. \A j \in 1 .. k - 1 : p.slots[j] = s.slots[j]
          BY <4>2, <3>1, <3>2
        <5> QED BY <5>1, <5>2
      <4> QED BY <4>1, <4>2
    <3> QED BY <3>3, <2>2, <1>0 DEF Earlier
  <2> QED BY <2>0, <2>1, <2>2 DEF Earlier
<1>3. \A p, q, s \in S : <<p, q>> \in R /\ <<q, s>> \in R => <<p, s>> \in R
  BY <1>2
<1>4. \A p, q \in S : <<q, p>> \notin R => ~Earlier(q, p)
  OBVIOUS
<1> HIDE DEF R
<1>5. \E p \in S : \A q \in S : <<q, p>> \notin R
  BY <1>1, <1>3, FirstOf
<1> QED BY <1>4, <1>5

\* The first k hops of a path.
PathPrefix(p, k) ==
  [start |-> p.start, at |-> [x \in 1 .. k |-> p.at[x]],
   slots |-> [x \in 1 .. k - 1 |-> p.slots[x]]]

\* Every beginning of a path is a path.
PrefixOK(im, b, n, p) ==
  \A k \in 1 .. n : /\ IsPath(im, b, k - 1, PathPrefix(p, k))
                    /\ Last(PathPrefix(p, k).at) = p.at[k]

\* Every beginning of a path is a path, so that a shortest path to an empty slot
\* goes through full buckets.
LEMMA Prefix ==
  ASSUME NEW im, NEW b, NEW n \in Nat, NEW p, IsPath(im, b, n, p)
  PROVE  PrefixOK(im, b, n, p)
<1> SUFFICES ASSUME NEW k \in 1 .. n
             PROVE  /\ IsPath(im, b, k - 1, PathPrefix(p, k))
                    /\ Last(PathPrefix(p, k).at) = p.at[k]
  BY DEF PrefixOK
<1> DEFINE at == [x \in 1 .. k |-> p.at[x]]
           slots == [x \in 1 .. k - 1 |-> p.slots[x]]
           q == [start |-> p.start, at |-> at, slots |-> slots]
<1>0. k - 1 \in Nat /\ (k - 1) + 1 = k
  OBVIOUS
<1>1. /\ p.start \in 1 .. 2
      /\ \A x \in 1 .. n + 1 : p.at[x] \in 0 .. im.mask
      /\ \A x \in 1 .. n : p.slots[x] \in Slots
  <2>1. PathTypesOK(im, n, p)
    BY PathTypes, Zenon
  <2> QED BY <2>1 DEF PathTypesOK
<1>2. at \in Seq(0 .. im.mask) /\ Len(at) = k /\ slots \in Seq(Slots) /\ Len(slots) = k - 1
  BY <1>1
<1>3. \A x \in 1 .. k : at[x] = p.at[x]
  OBVIOUS
<1>4. \A x \in 1 .. k - 1 : slots[x] = p.slots[x]
  OBVIOUS
<1> HIDE DEF at, slots
<1>5. q \in PathT(im) /\ q.at = at /\ q.slots = slots /\ q.start = p.start
  BY <1>1, <1>2 DEF PathT
<1> HIDE DEF q
<1>6. q.at[1] = b[q.start]
  BY <1>3, <1>5 DEF IsPath
<1>7. ASSUME NEW x \in 1 .. k - 1
      PROVE  /\ q.at[x + 1] = other_bucket_protected(im, q.at[x], q.slots[x])
             /\ q.at[x + 1] # q.at[x]
  <2>1. q.at[x] = p.at[x] /\ q.at[x + 1] = p.at[x + 1] /\ q.slots[x] = p.slots[x]
    BY <1>3, <1>4, <1>5
  <2>2. x \in 1 .. n
    OBVIOUS
  <2> QED BY <2>1, <2>2 DEF IsPath
<1>8. IsPath(im, b, k - 1, q)
  BY <1>0, <1>2, <1>5, <1>6, <1>7 DEF IsPath
<1>9. Last(q.at) = p.at[k]
  BY <1>2, <1>3, <1>5 DEF Last
<1> QED BY <1>8, <1>9 DEF PathPrefix, q, at, slots

\* A path that comes back to a bucket without the way round.
PathCut(p, n, j, k) ==
  LET d == k - j
      m == n - d
  IN [start |-> p.start,
      at |-> [x \in 1 .. m + 1 |-> IF x <= j THEN p.at[x] ELSE p.at[x + d]],
      slots |-> [x \in 1 .. m |-> IF x < j THEN p.slots[x] ELSE p.slots[x + d]]]

\* A path that comes back to a bucket can be cut short.
CutOK(im, b, n, p) ==
  \A j, k \in 1 .. n : j < k /\ p.at[j] = p.at[k] =>
    /\ IsPath(im, b, n - (k - j), PathCut(p, n, j, k))
    /\ Last(PathCut(p, n, j, k).at) = p.at[n + 1]

\* A path that comes back to a bucket can be cut short, so that a shortest path
\* visits a bucket once.
LEMMA Shortcut ==
  ASSUME NEW im, NEW b, NEW n \in Nat, NEW p, IsPath(im, b, n, p)
  PROVE  CutOK(im, b, n, p)
<1> SUFFICES ASSUME NEW j \in 1 .. n, NEW k \in 1 .. n, j < k, p.at[j] = p.at[k]
             PROVE  /\ IsPath(im, b, n - (k - j), PathCut(p, n, j, k))
                    /\ Last(PathCut(p, n, j, k).at) = p.at[n + 1]
  BY DEF CutOK
<1> DEFINE d == k - j
           m == n - d
           at == [x \in 1 .. m + 1 |-> IF x <= j THEN p.at[x] ELSE p.at[x + d]]
           slots == [x \in 1 .. m |-> IF x < j THEN p.slots[x] ELSE p.slots[x + d]]
           q == [start |-> p.start, at |-> at, slots |-> slots]
<1>0. d \in Nat /\ d >= 1 /\ m \in Nat /\ j <= m /\ j + d = k /\ m + d = n
  OBVIOUS
<1> HIDE DEF d, m
<1>1. /\ p.start \in 1 .. 2
      /\ \A x \in 1 .. n + 1 : p.at[x] \in 0 .. im.mask
      /\ \A x \in 1 .. n : p.slots[x] \in Slots
  <2>1. PathTypesOK(im, n, p)
    BY PathTypes, Zenon
  <2> QED BY <2>1 DEF PathTypesOK
<1>2. /\ at \in Seq(0 .. im.mask) /\ Len(at) = m + 1
      /\ slots \in Seq(Slots) /\ Len(slots) = m
  <2>1. \A x \in 1 .. m + 1 : (IF x <= j THEN p.at[x] ELSE p.at[x + d]) \in 0 .. im.mask
    BY <1>0, <1>1
  <2>2. \A x \in 1 .. m : (IF x < j THEN p.slots[x] ELSE p.slots[x + d]) \in Slots
    BY <1>0, <1>1
  <2> QED BY <1>0, <2>1, <2>2
<1>3. \A x \in 1 .. m + 1 : at[x] = IF x <= j THEN p.at[x] ELSE p.at[x + d]
  OBVIOUS
<1>4. \A x \in 1 .. m : slots[x] = IF x < j THEN p.slots[x] ELSE p.slots[x + d]
  OBVIOUS
<1> HIDE DEF at, slots
<1>5. q \in PathT(im) /\ q.at = at /\ q.slots = slots /\ q.start = p.start
  BY <1>1, <1>2 DEF PathT
<1> HIDE DEF q
<1>6. q.at[1] = b[q.start]
  BY <1>0, <1>3, <1>5 DEF IsPath
<1>7. ASSUME NEW x \in 1 .. m
      PROVE  /\ q.at[x + 1] = other_bucket_protected(im, q.at[x], q.slots[x])
             /\ q.at[x + 1] # q.at[x]
  <2>0. \A y \in 1 .. n : /\ p.at[y + 1] = other_bucket_protected(im, p.at[y], p.slots[y])
                          /\ p.at[y + 1] # p.at[y]
    BY DEF IsPath
  <2>1. CASE x < j
    <3>1. q.at[x] = p.at[x] /\ q.at[x + 1] = p.at[x + 1] /\ q.slots[x] = p.slots[x]
      BY <2>1, <1>0, <1>3, <1>4, <1>5
    <3>2. x \in 1 .. n
      BY <1>0
    <3> QED BY <3>1, <3>2, <2>0
  <2>2. CASE x >= j
    <3>1. q.at[x] = p.at[x + d] /\ q.at[x + 1] = p.at[(x + d) + 1] /\ q.slots[x] = p.slots[x + d]
      <4>1. x + 1 > j /\ (x + 1) + d = (x + d) + 1
        BY <2>2, <1>0
      <4>2. q.at[x + 1] = p.at[(x + d) + 1] /\ q.slots[x] = p.slots[x + d]
        BY <4>1, <2>2, <1>0, <1>3, <1>4, <1>5
      <4>3. q.at[x] = p.at[x + d]
        <5>1. CASE x = j
          BY <5>1, <1>0, <1>3, <1>5
        <5>2. CASE x > j
          BY <5>2, <1>0, <1>3, <1>5
        <5> QED BY <5>1, <5>2, <2>2
      <4> QED BY <4>2, <4>3
    <3>2. x + d \in 1 .. n
      BY <1>0
    <3> QED BY <3>1, <3>2, <2>0
  <2> QED BY <2>1, <2>2, <1>0
<1>8. IsPath(im, b, m, q)
  BY <1>0, <1>2, <1>5, <1>6, <1>7 DEF IsPath
<1>9. Last(q.at) = p.at[n + 1]
  <2>1. Last(q.at) = at[m + 1]
    BY <1>0, <1>2, <1>5 DEF Last
  <2>2. at[m + 1] = p.at[(m + 1) + d] /\ (m + 1) + d = n + 1
    BY <1>0, <1>3
  <2> QED BY <2>1, <2>2
<1> QED BY <1>8, <1>9 DEF m, d, q, at, slots, PathCut

\* The stores of cmap_insert_bfs() are those of a path through different full
\* buckets to one with an empty slot.
BfsOK(im, b, node, hash) ==
  \E n \in Nat \ {0} : \E p :
    /\ IsPath(im, b, n, p)
    /\ cmap_insert_bfs(im, b, node, hash) = PathStores(im, p, node, hash)
    /\ EmptySlots(im, p.at[n + 1]) # {}
    /\ \A k \in 1 .. n : EmptySlots(im, p.at[k]) = {}
    /\ \A j, k \in 1 .. n + 1 : j # k => p.at[j] # p.at[k]

\* cmap_insert_bfs() takes a path through different full buckets to one with an
\* empty slot.
LEMMA Bfs ==
  ASSUME NEW im, IsImpl(im), NEW b, b[1] \in 0 .. im.mask, b[2] \in 0 .. im.mask,
         EmptySlots(im, b[1]) = {}, EmptySlots(im, b[2]) = {}, NEW node, NEW hash,
         cmap_insert_bfs(im, b, node, hash) # <<>>
  PROVE  BfsOK(im, b, node, hash)
<1> DEFINE level == Paths(im, b)
           found == [n \in 1 .. MaxDepth + 1 |->
                       {p \in level[n] : EmptySlots(im, Last(p.at)) # {}}]
           hops == {n \in DOMAIN found : found[n] # {}}
           best == found[Min(hops)]
           first == CHOOSE p \in best : \A q \in best : ~Earlier(q, p)
<1> MaxDepth \in Nat
  BY CmapAssumption
<1>1. hops # {} /\ cmap_insert_bfs(im, b, node, hash) = PathStores(im, first, node, hash)
  BY DEF cmap_insert_bfs
<1>2. hops \in SUBSET (1 .. MaxDepth + 1)
  OBVIOUS
<1>3. \A n \in 1 .. MaxDepth + 1 : \A p : p \in level[n] <=> IsPath(im, b, n, p)
  BY Levels
<1>4. \A n \in 1 .. MaxDepth + 1 : IsFiniteSet(level[n])
  BY Levels
<1> HIDE DEF level
<1>5. \A n \in 1 .. MaxDepth + 1 : found[n] = {p \in level[n] : EmptySlots(im, Last(p.at)) # {}}
  OBVIOUS
<1>6. \A n : n \in hops <=> n \in 1 .. MaxDepth + 1 /\ found[n] # {}
  OBVIOUS
<1> HIDE DEF found, hops
<1>7. PICK n \in Nat : n = Min(hops) /\ n \in hops /\ \A k \in hops : n <= k
  <2>1. hops \in SUBSET Nat
    BY <1>2
  <2> QED BY <1>1, <2>1, NatMin
<1>8. n \in 1 .. MaxDepth + 1 /\ best = found[n] /\ best # {}
  BY <1>7, <1>6
<1>9. IsFiniteSet(best) /\ \A p \in best : IsPath(im, b, n, p)
  <2>1. best \in SUBSET level[n]
    BY <1>8, <1>5
  <2> HIDE DEF best
  <2> QED BY <2>1, <1>8, <1>3, <1>4, FS_Subset
<1>10. first \in best
  <2> HIDE DEF best
  <2>1. \E p \in best : \A q \in best : ~Earlier(q, p)
    BY <1>8, <1>9, FirstPath
  <2> QED BY <2>1
<1> HIDE DEF first, best
<1>0. PICK p : p = first
  OBVIOUS
<1>11. IsPath(im, b, n, p) /\ EmptySlots(im, Last(p.at)) # {}
  BY <1>0, <1>8, <1>9, <1>10, <1>5
<1>12. EmptySlots(im, p.at[n + 1]) # {}
  <2>1. Last(p.at) = p.at[n + 1]
    <3>1. PathTypesOK(im, n, p)
      BY <1>7, <1>11, PathTypes, Zenon
    <3> QED BY <3>1 DEF PathTypesOK
  <2> QED BY <2>1, <1>11
<1>13. ASSUME NEW m \in Nat, m # 0, m < n, NEW q, IsPath(im, b, m, q)
       PROVE  EmptySlots(im, Last(q.at)) = {}
  <2>1. m \in 1 .. MaxDepth + 1 /\ m \notin hops
    BY <1>13, <1>7, <1>8
  <2>2. found[m] = {} /\ q \in level[m]
    BY <2>1, <1>3, <1>6, <1>13
  <2> QED BY <2>1, <2>2, <1>5
<1>14. \A k \in 1 .. n : EmptySlots(im, p.at[k]) = {}
  <2> TAKE k \in 1 .. n
  <2>1. CASE k = 1
    <3>1. p.at[1] = b[p.start] /\ p.start \in 1 .. 2
      <4>1. PathTypesOK(im, n, p)
        BY <1>7, <1>11, PathTypes, Zenon
      <4> QED BY <4>1, <1>11 DEF IsPath, PathTypesOK
    <3> QED BY <2>1, <3>1
  <2>2. CASE k # 1
    <3> DEFINE q == PathPrefix(p, k)
    <3>1. IsPath(im, b, k - 1, q) /\ Last(q.at) = p.at[k]
      <4>1. PrefixOK(im, b, n, p)
        BY <1>7, <1>11, Prefix, Zenon
      <4> QED BY <4>1 DEF PrefixOK
    <3> HIDE DEF q
    <3>2. k - 1 \in Nat /\ k - 1 # 0 /\ k - 1 < n
      BY <2>2
    <3> QED BY <3>1, <3>2, <1>13
  <2> QED BY <2>1, <2>2
<1>15. ASSUME NEW j \in 1 .. n + 1, NEW k \in 1 .. n + 1, j < k PROVE p.at[j] # p.at[k]
  <2>1. CASE k = n + 1
    <3>1. j \in 1 .. n
      BY <2>1, <1>15
    <3> QED BY <3>1, <2>1, <1>12, <1>14
  <2>2. CASE k # n + 1
    <3>1. SUFFICES ASSUME p.at[j] = p.at[k] PROVE FALSE
      OBVIOUS
    <3>2. j \in 1 .. n /\ k \in 1 .. n
      BY <2>2, <1>15
    <3> DEFINE q == PathCut(p, n, j, k)
    <3>3. IsPath(im, b, n - (k - j), q) /\ Last(q.at) = p.at[n + 1]
      <4>1. CutOK(im, b, n, p)
        BY <1>7, <1>11, Shortcut, Zenon
      <4> QED BY <4>1, <3>1, <3>2, <1>15 DEF CutOK
    <3> HIDE DEF q
    <3>4. n - (k - j) \in Nat /\ n - (k - j) # 0 /\ n - (k - j) < n
      BY <3>2, <1>15
    <3> QED BY <3>3, <3>4, <1>12, <1>13
  <2> QED BY <2>1, <2>2
<1>16. \A j, k \in 1 .. n + 1 : j # k => p.at[j] # p.at[k]
  <2> TAKE j, k \in 1 .. n + 1
  <2> HAVE j # k
  <2>1. j < k \/ k < j
    OBVIOUS
  <2> QED BY <2>1, <1>15
<1>17. n \in Nat \ {0}
  BY <1>8
<1> QED BY <1>0, <1>1, <1>11, <1>12, <1>14, <1>16, <1>17 DEF BfsOK

-----------------------------------------------------------------------------
(* The stores of an insertion. *)

\* A slot in use whose chain a search finds: its hash is that of its nodes, it is
\* in one of its hash's buckets, and no slot that is looked at before has the hash.
GoodSlot(im, b, i) ==
  LET h == im.hashes[b][i] IN
  /\ HashOf[im.nodes[b][i]] = h
  /\ b = Bucket1(im, h) \/ b = Bucket2(im, h)
  /\ \A j \in Slots : j < i => im.hashes[b][j] # h
  /\ b # Bucket1(im, h) => \A j \in Slots : im.hashes[Bucket1(im, h)][j] # h

\* Every chain of im is where a search finds it.
GoodTable(im) ==
  \A b \in 0 .. im.mask : \A i \in Slots : im.nodes[b][i] # Null => GoodSlot(im, b, i)

\* The type of a store of cmap_set_bucket() into im.
StoreT(im) == [b : 0 .. im.mask, i : Slots, node : Nodes, hash : Hashes, dup : {FALSE}]

\* The stores that put node into im, with a hash no slot of its buckets has: to
\* different buckets, the first to the first empty slot of its bucket, every other
\* to a slot whose chain the store before has copied to its other bucket.
PlanOK(im, plan, node, h) ==
  /\ plan \in Seq(StoreT(im)) /\ Len(plan) \in Nat \ {0}
  /\ \A j, k \in 1 .. Len(plan) : j # k => plan[j].b # plan[k].b
  /\ plan[Len(plan)].node = node /\ plan[Len(plan)].hash = h
  /\ plan[Len(plan)].b = Bucket1(im, h) \/ plan[Len(plan)].b = Bucket2(im, h)
  /\ \A j \in Slots : im.hashes[Bucket1(im, h)][j] # h /\ im.hashes[Bucket2(im, h)][j] # h
  /\ im.nodes[plan[1].b][plan[1].i] = Null
  /\ \A j \in Slots : j < plan[1].i => im.nodes[plan[1].b][j] # Null
  /\ \A k \in 2 .. Len(plan) : \A j \in Slots : im.nodes[plan[k].b][j] # Null
  /\ \A k \in 1 .. Len(plan) - 1 :
       /\ plan[k].node = im.nodes[plan[k + 1].b][plan[k + 1].i]
       /\ plan[k].hash = im.hashes[plan[k + 1].b][plan[k + 1].i]
       /\ \/ plan[k].b = Bucket1(im, plan[k].hash) /\ plan[k + 1].b = Bucket2(im, plan[k].hash)
          \/ plan[k].b = Bucket2(im, plan[k].hash) /\ plan[k + 1].b = Bucket1(im, plan[k].hash)

\* The store of cmap_insert_dup(): to the first slot with the hash, in the first
\* bucket that has one.
DupOK(im, st, node, h) ==
  /\ st.dup = TRUE /\ st.node = node /\ st.hash = h /\ st.b \in 0 .. im.mask /\ st.i \in Slots
  /\ im.hashes[st.b][st.i] = h
  /\ \A j \in Slots : j < st.i => im.hashes[st.b][j] # h
  /\ \/ st.b = Bucket1(im, h)
     \/ /\ st.b = Bucket2(im, h)
        /\ \A j \in Slots : im.hashes[Bucket1(im, h)][j] # h

\* A hash exists in a single used slot.
LEMMA OneUsed ==
  ASSUME NEW im, IsImpl(im), GoodTable(im),
         NEW b \in 0 .. im.mask, NEW i \in Slots, im.nodes[b][i] # Null,
         NEW c \in 0 .. im.mask, NEW j \in Slots, im.nodes[c][j] # Null,
         im.hashes[b][i] = im.hashes[c][j]
  PROVE  b = c /\ i = j
<1>1. GoodSlot(im, b, i) /\ GoodSlot(im, c, j)
  BY DEF GoodTable
<1>2. b = c
  BY <1>1 DEF GoodSlot
<1>3. i \in Nat /\ j \in Nat
  BY CmapAssumption DEF Slots
<1>4. ~(i < j) /\ ~(j < i)
  BY <1>1, <1>2 DEF GoodSlot
<1> QED BY <1>2, <1>3, <1>4

\* The first slot of a set of slots.
LEMMA MinSlot ==
  ASSUME NEW S \in SUBSET Slots, S # {}
  PROVE  Min(S) \in S /\ Min(S) \in Slots /\ \A j \in Slots : j < Min(S) => j \notin S
<1>1. Slots \subseteq Nat
  BY CmapAssumption DEF Slots
<1>2. S \in SUBSET Nat
  BY <1>1
<1>3. Min(S) \in S /\ \A k \in S : Min(S) <= k
  BY <1>2, NatMin
<1>4. PICK m \in Nat : m = Min(S)
  BY <1>2, <1>3
<1>5. \A j \in Slots : j < m => j \notin S
  BY <1>1, <1>3, <1>4
<1> QED BY <1>3, <1>4, <1>5

\* The stores of PathStores() for a path of the search.
LEMMA PathPlan ==
  ASSUME NEW im, IsImpl(im), GoodTable(im), NEW node \in Nodes, NEW h, h = HashOf[node],
         NEW b, b[1] = Bucket1(im, h), b[2] = Bucket2(im, h),
         \A j \in Slots : im.hashes[b[1]][j] # h /\ im.hashes[b[2]][j] # h,
         NEW n \in Nat \ {0}, NEW p, IsPath(im, b, n, p),
         EmptySlots(im, p.at[n + 1]) # {},
         \A k \in 1 .. n : EmptySlots(im, p.at[k]) = {},
         \A j, k \in 1 .. n + 1 : j # k => p.at[j] # p.at[k]
  PROVE  PlanOK(im, PathStores(im, p, node, h), node, h)
<1> DEFINE free == Min(EmptySlots(im, p.at[n + 1]))
           slot == Append(p.slots, free)
           S(k) == Store(p.at[k + 1], slot[k + 1],
                  im.nodes[p.at[k]][slot[k]], im.hashes[p.at[k]][slot[k]])
           moved == [k \in 1 .. n |-> S(k)]
           last == Store(p.at[1], slot[1], node, h)
           plan == Append(Reverse(moved), last)
<1>0. PathTypesOK(im, n, p)
  BY PathTypes, Zenon
<1>1. /\ p.start \in 1 .. 2 /\ Len(p.slots) = n /\ p.slots \in Seq(Slots)
      /\ \A k \in 1 .. n + 1 : p.at[k] \in 0 .. im.mask
      /\ \A k \in 1 .. n : p.slots[k] \in Slots
  BY <1>0 DEF PathTypesOK
<1>2. PathStores(im, p, node, h) = plan
  BY <1>1 DEF PathStores
<1>3. /\ free \in Slots /\ im.nodes[p.at[n + 1]][free] = Null
      /\ \A j \in Slots : j < free => im.nodes[p.at[n + 1]][j] # Null
  <2>1. EmptySlots(im, p.at[n + 1]) \in SUBSET Slots
    BY DEF EmptySlots
  <2>2. free \in EmptySlots(im, p.at[n + 1]) /\ free \in Slots
        /\ \A j \in Slots : j < free => j \notin EmptySlots(im, p.at[n + 1])
    BY <2>1, MinSlot
  <2> HIDE DEF free
  <2> QED BY <2>2 DEF EmptySlots
<1> HIDE DEF free
<1>4. /\ slot \in Seq(Slots) /\ Len(slot) = n + 1 /\ slot[n + 1] = free
      /\ \A k \in 1 .. n : slot[k] = p.slots[k]
  BY <1>1, <1>3, AppendFacts
<1> HIDE DEF slot
<1>5. \A k \in 1 .. n + 1 : slot[k] \in Slots
  BY <1>4, SeqElem
<1>6. ASSUME NEW k \in 1 .. n
      PROVE  /\ \A j \in Slots : im.nodes[p.at[k]][j] # Null
             /\ im.nodes[p.at[k]][slot[k]] \in Nodes /\ im.hashes[p.at[k]][slot[k]] \in Hashes
             /\ GoodSlot(im, p.at[k], slot[k])
  <2>0. k \in 1 .. n + 1
    OBVIOUS
  <2>1. \A j \in Slots : im.nodes[p.at[k]][j] # Null
    BY DEF EmptySlots
  <2>2. p.at[k] \in 0 .. im.mask /\ slot[k] \in Slots
    BY <2>0, <1>1, <1>5
  <2>3. im.nodes[p.at[k]][slot[k]] \in Nodes
    BY <2>1, <2>2, ImplFacts
  <2>4. GoodSlot(im, p.at[k], slot[k])
    BY <2>1, <2>2 DEF GoodTable
  <2>5. im.hashes[p.at[k]][slot[k]] \in Hashes
    BY <2>3, <2>4, Zenon DEF GoodSlot, Hashes
  <2> QED BY <2>1, <2>3, <2>4, <2>5
<1>7. \A k \in 1 .. n : S(k) \in StoreT(im)
  <2> TAKE k \in 1 .. n
  <2>1. k + 1 \in 1 .. n + 1
    OBVIOUS
  <2> QED BY <2>1, <1>1, <1>5, <1>6 DEF Store, StoreT
<1>8. last \in StoreT(im)
  <2>1. 1 \in 1 .. n + 1
    OBVIOUS
  <2> QED BY <2>1, <1>1, <1>5 DEF Store, StoreT, Hashes
<1>9. moved \in Seq(StoreT(im)) /\ Len(moved) = n /\ \A k \in 1 .. n : moved[k] = S(k)
  <2> HIDE DEF S
  <2> QED BY <1>7
<1>10. /\ Reverse(moved) \in Seq(StoreT(im)) /\ Len(Reverse(moved)) = n
       /\ \A k \in 1 .. n : Reverse(moved)[k] = S((n - k) + 1)
  <2> HIDE DEF S, moved
  <2>1. Reverse(moved) = [k \in 1 .. n |-> moved[(n - k) + 1]]
    BY <1>9 DEF Reverse
  <2>2. \A k \in 1 .. n : (n - k) + 1 \in 1 .. n
    OBVIOUS
  <2>3. \A k \in 1 .. n : moved[(n - k) + 1] \in StoreT(im) /\ moved[(n - k) + 1] = S((n - k) + 1)
    BY <2>2, <1>7, <1>9
  <2> QED BY <2>1, <2>3
<1> HIDE DEF moved
<1>11. /\ plan \in Seq(StoreT(im)) /\ Len(plan) = n + 1 /\ plan[n + 1] = last
       /\ \A k \in 1 .. n : plan[k] = S((n - k) + 1)
  <2> HIDE DEF S, last
  <2> QED BY <1>8, <1>10, AppendFacts
<1> HIDE DEF plan
<1>12. ASSUME NEW k \in 1 .. n + 1
       PROVE  plan[k].b = p.at[(n + 2) - k] /\ plan[k].i = slot[(n + 2) - k]
  <2>1. CASE k \in 1 .. n
    <3>1. ((n - k) + 1) + 1 = (n + 2) - k
      OBVIOUS
    <3>2. plan[k] = S((n - k) + 1)
      BY <2>1, <1>11
    <3> QED BY <3>1, <3>2 DEF Store
  <2>2. CASE k = n + 1
    <3>1. (n + 2) - k = 1
      BY <2>2
    <3> QED BY <3>1, <2>2, <1>11 DEF Store
  <2> QED BY <2>1, <2>2
<1>13. ASSUME NEW k \in 1 .. n
       PROVE  /\ plan[k].node = im.nodes[plan[k + 1].b][plan[k + 1].i]
              /\ plan[k].hash = im.hashes[plan[k + 1].b][plan[k + 1].i]
  <2>1. k + 1 \in 1 .. n + 1 /\ (n + 2) - (k + 1) = (n - k) + 1
    OBVIOUS
  <2>2. plan[k + 1].b = p.at[(n - k) + 1] /\ plan[k + 1].i = slot[(n - k) + 1]
    BY <2>1, <1>12
  <2>3. plan[k] = S((n - k) + 1)
    BY <1>11
  <2> QED BY <2>2, <2>3 DEF Store
<1>14. ASSUME NEW k \in 1 .. n
       PROVE  \/ plan[k].b = Bucket1(im, plan[k].hash) /\ plan[k + 1].b = Bucket2(im, plan[k].hash)
              \/ plan[k].b = Bucket2(im, plan[k].hash) /\ plan[k + 1].b = Bucket1(im, plan[k].hash)
  <2> DEFINE m == (n - k) + 1
  <2>1. m \in 1 .. n /\ m + 1 = (n + 2) - k /\ k + 1 \in 1 .. n + 1 /\ (n + 2) - (k + 1) = m
    OBVIOUS
  <2> HIDE DEF m
  <2>2. plan[k].b = p.at[m + 1] /\ plan[k + 1].b = p.at[m] /\ plan[k + 1].i = slot[m]
    BY <2>1, <1>12
  <2>3. plan[k].hash = im.hashes[p.at[m]][slot[m]]
    BY <2>2, <1>13
  <2>4. /\ p.at[m + 1] = other_bucket_protected(im, p.at[m], p.slots[m])
        /\ p.at[m + 1] # p.at[m]
    BY <2>1 DEF IsPath
  <2>5. slot[m] = p.slots[m] /\ GoodSlot(im, p.at[m], slot[m])
    BY <2>1, <1>4, <1>6
  <2> QED BY <2>2, <2>3, <2>4, <2>5, Zenon DEF GoodSlot, other_bucket_protected
<1>15. \A j, k \in 1 .. n + 1 : j # k => plan[j].b # plan[k].b
  <2> TAKE j, k \in 1 .. n + 1
  <2> HAVE j # k
  <2>1. (n + 2) - j \in 1 .. n + 1 /\ (n + 2) - k \in 1 .. n + 1 /\ (n + 2) - j # (n + 2) - k
    OBVIOUS
  <2> QED BY <2>1, <1>12
<1>16. \A k \in 2 .. n + 1 : \A j \in Slots : im.nodes[plan[k].b][j] # Null
  <2> TAKE k \in 2 .. n + 1
  <2>1. k \in 1 .. n + 1 /\ (n + 2) - k \in 1 .. n
    OBVIOUS
  <2> QED BY <2>1, <1>6, <1>12
<1>17. /\ plan[1].b = p.at[n + 1] /\ plan[1].i = free
  <2>1. 1 \in 1 .. n + 1 /\ (n + 2) - 1 = n + 1
    OBVIOUS
  <2> QED BY <2>1, <1>4, <1>12
<1>18. /\ plan[n + 1].node = node /\ plan[n + 1].hash = h
       /\ plan[n + 1].b = Bucket1(im, h) \/ plan[n + 1].b = Bucket2(im, h)
  <2>1. p.at[1] = b[p.start]
    BY DEF IsPath
  <2> QED BY <2>1, <1>1, <1>11 DEF Store
<1>19. n + 1 \in Nat \ {0} /\ (n + 1) - 1 = n
  OBVIOUS
<1>20. PlanOK(im, plan, node, h)
  BY <1>3, <1>11, <1>13, <1>14, <1>15, <1>16, <1>17, <1>18, <1>19 DEF PlanOK
<1> QED BY <1>2, <1>20

\* What cmap_try_insert() does, if it finds a place.
LEMMA InsertPlan ==
  ASSUME NEW im, IsImpl(im), GoodTable(im), NEW node \in Nodes, NEW h, h = HashOf[node],
         NEW plan, plan = cmap_try_insert(im, node, h), plan # <<>>
  PROVE  \/ /\ plan[1].dup = TRUE /\ plan = <<plan[1]>>
            /\ DupOK(im, plan[1], node, h)
         \/ plan[1].dup = FALSE /\ PlanOK(im, plan, node, h)
<1> DEFINE b == <<Bucket1(im, h), Bucket2(im, h)>>
           dup == {k \in 1 .. 2 : SlotsWith(im, b[k], h) # {}}
           room == {k \in 1 .. 2 : EmptySlots(im, b[k]) # {}}
           dst == DupStore(b[Min(dup)], Min(SlotsWith(im, b[Min(dup)], h)), node, h)
           rst == Store(b[Min(room)], Min(EmptySlots(im, b[Min(room)])), node, h)
<1>0. h \in Hashes
  BY DEF Hashes
<1>1. b[1] = Bucket1(im, h) /\ b[2] = Bucket2(im, h)
  OBVIOUS
<1>2. Bucket1(im, h) \in 0 .. im.mask /\ Bucket2(im, h) \in 0 .. im.mask
  BY <1>0, BucketIn
<1>3. plan = IF dup # {} THEN <<dst>> ELSE IF room # {} THEN <<rst>>
             ELSE cmap_insert_bfs(im, b, node, h)
  BY DEF cmap_try_insert
<1>4. /\ \A k : k \in dup <=> k \in 1 .. 2 /\ SlotsWith(im, b[k], h) # {}
      /\ \A k : k \in room <=> k \in 1 .. 2 /\ EmptySlots(im, b[k]) # {}
  OBVIOUS
<1>5. dup \in SUBSET Nat /\ room \in SUBSET Nat
  OBVIOUS
<1>6. /\ \A c : SlotsWith(im, c, h) \in SUBSET Slots /\ EmptySlots(im, c) \in SUBSET Slots
      /\ \A c, j : j \in SlotsWith(im, c, h) <=> j \in Slots /\ im.hashes[c][j] = h
      /\ \A c, j : j \in EmptySlots(im, c) <=> j \in Slots /\ im.nodes[c][j] = Null
  BY DEF SlotsWith, EmptySlots
<1> HIDE DEF b, dup, room
<1>7. CASE dup # {}
  <2>1. PICK k \in Nat : k = Min(dup) /\ k \in dup /\ \A x \in dup : k <= x
    BY <1>5, <1>7, NatMin
  <2>2. k \in 1 .. 2 /\ SlotsWith(im, b[k], h) # {}
    BY <2>1, <1>4
  <2>3. PICK i \in Slots : /\ i = Min(SlotsWith(im, b[k], h)) /\ i \in SlotsWith(im, b[k], h)
                           /\ \A j \in Slots : j < i => j \notin SlotsWith(im, b[k], h)
    BY <2>2, <1>6, MinSlot
  <2>4. dst.b = b[k] /\ dst.i = i /\ dst.node = node /\ dst.hash = h /\ dst.dup = TRUE
    BY <2>1, <2>3 DEF DupStore, Store
  <2>5. plan = <<dst>>
    BY <1>3, <1>7
  <2>6. im.hashes[b[k]][i] = h /\ \A j \in Slots : j < i => im.hashes[b[k]][j] # h
    BY <2>3, <1>6
  <2>7. k = 2 => \A j \in Slots : im.hashes[b[1]][j] # h
    <3>1. k = 2 => 1 \notin dup
      BY <2>1
    <3> QED BY <3>1, <1>4, <1>6
  <2>8. DupOK(im, dst, node, h)
    BY <2>2, <2>4, <2>6, <2>7, <1>1, <1>2 DEF DupOK
  <2>9. dst.dup = TRUE
    BY <2>4
  <2> HIDE DEF dst
  <2> QED BY <2>5, <2>8, <2>9
<1>8. CASE dup = {}
  <2>1. \A j \in Slots : im.hashes[b[1]][j] # h /\ im.hashes[b[2]][j] # h
    <3>1. 1 \notin dup /\ 2 \notin dup
      BY <1>8
    <3> QED BY <3>1, <1>4, <1>6
  <2>2. CASE room # {}
    <3>1. PICK k \in Nat : k = Min(room) /\ k \in room /\ \A x \in room : k <= x
      BY <1>5, <2>2, NatMin
    <3>2. k \in 1 .. 2 /\ EmptySlots(im, b[k]) # {}
      BY <3>1, <1>4
    <3>3. PICK i \in Slots : /\ i = Min(EmptySlots(im, b[k])) /\ i \in EmptySlots(im, b[k])
                             /\ \A j \in Slots : j < i => j \notin EmptySlots(im, b[k])
      BY <3>2, <1>6, MinSlot
    <3>4. rst = [b |-> b[k], i |-> i, node |-> node, hash |-> h, dup |-> FALSE]
      BY <3>1, <3>3 DEF Store
    <3>5. plan = <<rst>>
      BY <1>3, <1>8, <2>2
    <3>6. im.nodes[b[k]][i] = Null /\ \A j \in Slots : j < i => im.nodes[b[k]][j] # Null
      BY <3>3, <1>6
    <3>7. b[k] = Bucket1(im, h) \/ b[k] = Bucket2(im, h)
      BY <3>2, <1>1
    <3>8. /\ rst \in StoreT(im) /\ rst.b = b[k] /\ rst.i = i /\ rst.node = node
          /\ rst.hash = h /\ rst.dup = FALSE
      BY <3>4, <3>7, <1>0, <1>2 DEF StoreT
    <3> HIDE DEF rst
    <3>9. plan \in Seq(StoreT(im)) /\ Len(plan) = 1 /\ plan[1] = rst
      BY <3>5, <3>8
    <3>10. PlanOK(im, plan, node, h)
      BY <3>6, <3>7, <3>8, <3>9, <2>1, <1>1 DEF PlanOK
    <3> QED BY <3>8, <3>9, <3>10
  <2>3. CASE room = {}
    <3>1. plan = cmap_insert_bfs(im, b, node, h)
      BY <1>3, <1>8, <2>3
    <3>2. EmptySlots(im, b[1]) = {} /\ EmptySlots(im, b[2]) = {}
      <4>1. 1 \notin room /\ 2 \notin room
        BY <2>3
      <4> QED BY <4>1, <1>4
    <3>3. b[1] \in 0 .. im.mask /\ b[2] \in 0 .. im.mask
      BY <1>1, <1>2
    <3>4. PICK n, p :
           /\ n \in Nat \ {0} /\ IsPath(im, b, n, p)
           /\ cmap_insert_bfs(im, b, node, h) = PathStores(im, p, node, h)
           /\ EmptySlots(im, p.at[n + 1]) # {}
           /\ \A k \in 1 .. n : EmptySlots(im, p.at[k]) = {}
           /\ \A j, k \in 1 .. n + 1 : j # k => p.at[j] # p.at[k]
      <4>1. BfsOK(im, b, node, h)
        BY <3>1, <3>2, <3>3, Bfs, Zenon
      <4> QED BY <4>1 DEF BfsOK
    <3>5. PlanOK(im, plan, node, h)
      BY <3>1, <3>4, <1>1, <2>1, PathPlan
    <3>6. plan[1] \in StoreT(im)
      BY <3>5 DEF PlanOK
    <3>7. plan[1].dup = FALSE
      BY <3>6 DEF StoreT
    <3> QED BY <3>5, <3>7
  <2> QED BY <2>2, <2>3
<1> QED BY <1>7, <1>8

\* Store k of the plan is to slot i of bucket b.
At(plan, k, b, i) == plan[k].b = b /\ plan[k].i = i

\* cur is im after the stores of the first a nodes and of the first c hashes.
MidOK(im, plan, a, c, cur) ==
  /\ IsImpl(cur) /\ cur.mask = im.mask /\ cur.basis = im.basis
  /\ \A b \in 0 .. im.mask : \A i \in Slots :
       /\ \A k \in 1 .. a : At(plan, k, b, i) => cur.nodes[b][i] = plan[k].node
       /\ (\A k \in 1 .. a : ~At(plan, k, b, i)) => cur.nodes[b][i] = im.nodes[b][i]
       /\ \A k \in 1 .. c : At(plan, k, b, i) => cur.hashes[b][i] = plan[k].hash
       /\ (\A k \in 1 .. c : ~At(plan, k, b, i)) => cur.hashes[b][i] = im.hashes[b][i]

\* x is the first node of a chain of im.
IsHead(im, x) == \E b \in 0 .. im.mask : \E i \in Slots : im.nodes[b][i] = x

\* The types of the stores.
PlanTyped(im, plan) ==
  \A k \in 1 .. Len(plan) :
    /\ plan[k] \in StoreT(im) /\ plan[k].b \in 0 .. im.mask /\ plan[k].i \in Slots
    /\ plan[k].node \in Nodes /\ plan[k].hash \in Hashes /\ plan[k].dup = FALSE

\* The slot a moved chain comes from.
PlanSources(im, plan) ==
  \A k \in 1 .. Len(plan) : k # Len(plan) =>
     /\ k + 1 \in 1 .. Len(plan)
     /\ plan[k + 1].b \in 0 .. im.mask /\ plan[k + 1].i \in Slots
     /\ im.nodes[plan[k + 1].b][plan[k + 1].i] = plan[k].node /\ plan[k].node # Null
     /\ im.hashes[plan[k + 1].b][plan[k + 1].i] = plan[k].hash
     /\ GoodSlot(im, plan[k + 1].b, plan[k + 1].i)
     /\ plan[k].b # plan[k + 1].b
     /\ \A j \in Slots : im.nodes[plan[k + 1].b][j] # Null

\* A chain whose hash is stored again is the one that is moved there.
PlanUnique(im, plan) ==
  \A k \in 1 .. Len(plan) : \A b \in 0 .. im.mask : \A i \in Slots :
    im.nodes[b][i] # Null /\ im.hashes[b][i] = plan[k].hash =>
      k # Len(plan) /\ At(plan, k + 1, b, i)

\* Every store is of a chain with its hash.
PlanHashes(im, plan) ==
  \A k \in 1 .. Len(plan) :
     /\ HashOf[plan[k].node] = plan[k].hash
     /\ plan[k].b = Bucket1(im, plan[k].hash) \/ plan[k].b = Bucket2(im, plan[k].hash)

\* Before the slot of a store no slot of the bucket has its hash, and none of the first
\* bucket if the store goes to the second, but the slot the chain comes from.
PlanFirst(im, plan) ==
  \A k \in 1 .. Len(plan) :
     /\ \A j \in Slots : j < plan[k].i => im.hashes[plan[k].b][j] # plan[k].hash
     /\ plan[k].b # Bucket1(im, plan[k].hash) =>
          \A j \in Slots :
            im.hashes[Bucket1(im, plan[k].hash)][j] = plan[k].hash =>
              k # Len(plan) /\ At(plan, k + 1, Bucket1(im, plan[k].hash), j)

\* The stores of a plan have their types.
LEMMA PlanTypes ==
  ASSUME NEW im, NEW plan, NEW node, NEW h, PlanOK(im, plan, node, h)
  PROVE  PlanTyped(im, plan)
<1> SUFFICES ASSUME NEW k \in 1 .. Len(plan)
             PROVE  /\ plan[k] \in StoreT(im) /\ plan[k].b \in 0 .. im.mask /\ plan[k].i \in Slots
                    /\ plan[k].node \in Nodes /\ plan[k].hash \in Hashes /\ plan[k].dup = FALSE
  BY DEF PlanTyped
<1>1. plan \in Seq(StoreT(im))
  BY DEF PlanOK
<1>2. plan[k] \in StoreT(im)
  BY <1>1, SeqElem
<1> QED BY <1>2 DEF StoreT

\* Each moved chain comes from the slot that the next store overwrites, where it
\* was in its place.
LEMMA Sources ==
  ASSUME NEW im, IsImpl(im), GoodTable(im), NEW plan, NEW node \in Nodes,
         PlanOK(im, plan, node, HashOf[node])
  PROVE  PlanSources(im, plan)
<1>0. PICK n \in Nat \ {0} : n = Len(plan)
  BY DEF PlanOK
<1> SUFFICES ASSUME NEW k \in 1 .. n, k # n
             PROVE  /\ k + 1 \in 1 .. n
                    /\ plan[k + 1].b \in 0 .. im.mask /\ plan[k + 1].i \in Slots
                    /\ im.nodes[plan[k + 1].b][plan[k + 1].i] = plan[k].node /\ plan[k].node # Null
                    /\ im.hashes[plan[k + 1].b][plan[k + 1].i] = plan[k].hash
                    /\ GoodSlot(im, plan[k + 1].b, plan[k + 1].i)
                    /\ plan[k].b # plan[k + 1].b
                    /\ \A j \in Slots : im.nodes[plan[k + 1].b][j] # Null
  BY <1>0 DEF PlanSources
<1>1. k + 1 \in 1 .. n /\ k \in 1 .. n - 1 /\ k + 1 \in 2 .. n /\ k # k + 1 /\ k \in 1 .. n
  BY <1>0
<1>t. PlanTyped(im, plan)
  BY PlanTypes, Zenon
<1>2. plan[k + 1].b \in 0 .. im.mask /\ plan[k + 1].i \in Slots
  BY <1>0, <1>1, <1>t DEF PlanTyped
<1>3. plan[k].node \in Nodes
  BY <1>0, <1>1, <1>t DEF PlanTyped
<1>4. plan[k].node # Null
  BY <1>3, CmapAssumption
<1>5. /\ im.nodes[plan[k + 1].b][plan[k + 1].i] = plan[k].node
      /\ im.hashes[plan[k + 1].b][plan[k + 1].i] = plan[k].hash
      /\ plan[k].b # plan[k + 1].b
      /\ \A j \in Slots : im.nodes[plan[k + 1].b][j] # Null
  BY <1>0, <1>1 DEF PlanOK
<1>6. GoodSlot(im, plan[k + 1].b, plan[k + 1].i)
  BY <1>2, <1>4, <1>5 DEF GoodTable
<1> QED BY <1>1, <1>2, <1>4, <1>5, <1>6

\* No chain but the moved one has the hash of a store.
LEMMA Unique ==
  ASSUME NEW im, IsImpl(im), GoodTable(im), NEW plan, NEW node \in Nodes,
         PlanOK(im, plan, node, HashOf[node])
  PROVE  PlanUnique(im, plan)
<1> SUFFICES ASSUME NEW k \in 1 .. Len(plan), NEW b \in 0 .. im.mask, NEW i \in Slots,
                    im.nodes[b][i] # Null, im.hashes[b][i] = plan[k].hash
             PROVE  k # Len(plan) /\ At(plan, k + 1, b, i)
  BY DEF PlanUnique
<1>1. k # Len(plan)
  <2>1. SUFFICES ASSUME k = Len(plan) PROVE FALSE
    OBVIOUS
  <2>2. im.hashes[b][i] = HashOf[node]
    BY <2>1 DEF PlanOK
  <2>3. GoodSlot(im, b, i)
    BY DEF GoodTable
  <2>4. b = Bucket1(im, HashOf[node]) \/ b = Bucket2(im, HashOf[node])
    BY <2>2, <2>3 DEF GoodSlot
  <2> QED BY <2>2, <2>4 DEF PlanOK
<1>s. PlanSources(im, plan)
  BY Sources, Zenon
<1>2. /\ plan[k + 1].b \in 0 .. im.mask /\ plan[k + 1].i \in Slots
      /\ im.nodes[plan[k + 1].b][plan[k + 1].i] # Null
      /\ im.hashes[plan[k + 1].b][plan[k + 1].i] = plan[k].hash
  BY <1>1, <1>s DEF PlanSources
<1>3. b = plan[k + 1].b /\ i = plan[k + 1].i
  BY <1>2, OneUsed
<1> QED BY <1>1, <1>3 DEF At

\* The hash of a store is that of its chain, its bucket one of the hash's two.
LEMMA StoreHash ==
  ASSUME NEW im, IsImpl(im), GoodTable(im), NEW plan, NEW node \in Nodes,
         PlanOK(im, plan, node, HashOf[node])
  PROVE  PlanHashes(im, plan)
<1>0. PICK n \in Nat \ {0} : n = Len(plan)
  BY DEF PlanOK
<1> SUFFICES ASSUME NEW k \in 1 .. n
             PROVE  /\ HashOf[plan[k].node] = plan[k].hash
                    /\ plan[k].b = Bucket1(im, plan[k].hash) \/ plan[k].b = Bucket2(im, plan[k].hash)
  BY <1>0 DEF PlanHashes
<1>1. CASE k = n
  BY <1>0, <1>1 DEF PlanOK
<1>2. CASE k # n
  <2>1. k \in 1 .. n - 1
    BY <1>0, <1>2
  <2>s. PlanSources(im, plan)
    BY Sources, Zenon
  <2>2. HashOf[plan[k].node] = plan[k].hash
    <3>1. /\ GoodSlot(im, plan[k + 1].b, plan[k + 1].i)
          /\ im.nodes[plan[k + 1].b][plan[k + 1].i] = plan[k].node
          /\ im.hashes[plan[k + 1].b][plan[k + 1].i] = plan[k].hash
      BY <1>0, <1>2, <2>s DEF PlanSources
    <3> QED BY <3>1 DEF GoodSlot
  <2>3. plan[k].b = Bucket1(im, plan[k].hash) \/ plan[k].b = Bucket2(im, plan[k].hash)
    BY <1>0, <2>1 DEF PlanOK
  <2> QED BY <2>2, <2>3
<1> QED BY <1>1, <1>2

\* Nothing that a search looks at before the slot of a store has its hash.
LEMMA StoreFirst ==
  ASSUME NEW im, IsImpl(im), GoodTable(im), NEW plan, NEW node \in Nodes,
         PlanOK(im, plan, node, HashOf[node])
  PROVE  PlanFirst(im, plan)
<1>0. PICK n \in Nat \ {0} : n = Len(plan)
  BY DEF PlanOK
<1>s. PlanSources(im, plan)
  BY Sources, Zenon
<1>u. PlanUnique(im, plan)
  BY Unique, Zenon
<1>t. PlanTyped(im, plan)
  BY PlanTypes, Zenon
<1> SUFFICES ASSUME NEW k \in 1 .. n
             PROVE  /\ \A j \in Slots : j < plan[k].i => im.hashes[plan[k].b][j] # plan[k].hash
                    /\ plan[k].b # Bucket1(im, plan[k].hash) =>
                         \A j \in Slots :
                           im.hashes[Bucket1(im, plan[k].hash)][j] = plan[k].hash =>
                             k # n /\ At(plan, k + 1, Bucket1(im, plan[k].hash), j)
  BY <1>0 DEF PlanFirst
<1> DEFINE B == plan[k].b
           H == plan[k].hash
<1>1. B \in 0 .. im.mask /\ plan[k].i \in Slots
  BY <1>0, <1>t DEF PlanTyped
<1>2. CASE k = n
  <2>1. H = HashOf[node] /\ (B = Bucket1(im, H) \/ B = Bucket2(im, H))
    BY <1>0, <1>2 DEF PlanOK
  <2>2. \A j \in Slots : im.hashes[Bucket1(im, H)][j] # H /\ im.hashes[Bucket2(im, H)][j] # H
    BY <2>1 DEF PlanOK
  <2> QED BY <2>1, <2>2
<1>3. CASE k # n
  <2>0. B # plan[k + 1].b
    BY <1>0, <1>3, <1>s DEF PlanSources
  <2>1. ASSUME NEW j \in Slots, j < plan[k].i PROVE im.hashes[B][j] # H
    <3>1. im.nodes[B][j] # Null
      <4>1. CASE k = 1
        BY <4>1, <2>1 DEF PlanOK
      <4>2. CASE k # 1
        <5>1. k \in 2 .. n
          BY <4>2, <1>0
        <5> QED BY <5>1, <1>0 DEF PlanOK
      <4> QED BY <4>1, <4>2
    <3>2. im.hashes[B][j] = H => B = plan[k + 1].b
      BY <1>0, <1>1, <3>1, <1>u DEF PlanUnique, At
    <3> QED BY <3>2, <2>0
  <2>2. ASSUME B # Bucket1(im, H), NEW j \in Slots, im.hashes[Bucket1(im, H)][j] = H
        PROVE  At(plan, k + 1, Bucket1(im, H), j)
    <3>1. k \in 1 .. n - 1
      BY <1>0, <1>3
    <3>2. plan[k + 1].b = Bucket1(im, H)
      BY <1>0, <2>2, <3>1 DEF PlanOK
    <3>3. plan[k + 1].b \in 0 .. im.mask /\ im.nodes[plan[k + 1].b][j] # Null
      BY <1>0, <1>3, <1>s DEF PlanSources
    <3>4. j = plan[k + 1].i
      BY <1>0, <2>2, <3>2, <3>3, <1>u DEF PlanUnique, At
    <3> QED BY <3>2, <3>4 DEF At
  <2> QED BY <2>1, <2>2, <1>0, <1>3
<1> QED BY <1>2, <1>3

\* The table after all stores.
LEMMA PlanGood ==
  ASSUME NEW im, IsImpl(im), GoodTable(im), NEW plan, NEW node \in Nodes,
         PlanOK(im, plan, node, HashOf[node]),
         NEW cur, MidOK(im, plan, Len(plan), Len(plan), cur)
  PROVE  /\ GoodTable(cur)
         /\ \A x \in Nodes : IsHead(cur, x) <=> IsHead(im, x) \/ x = node
<1>0. PICK n \in Nat \ {0} : n = Len(plan)
  BY DEF PlanOK
<1>s. PlanSources(im, plan)
  BY Sources, Zenon
<1>u. PlanUnique(im, plan)
  BY Unique, Zenon
<1>t. PlanTyped(im, plan)
  BY PlanTypes, Zenon
<1>h. PlanHashes(im, plan)
  BY StoreHash, Zenon
<1>f. PlanFirst(im, plan)
  BY StoreFirst, Zenon
<1>1. /\ cur.mask = im.mask
      /\ \A h : Bucket1(cur, h) = Bucket1(im, h) /\ Bucket2(cur, h) = Bucket2(im, h)
  BY DEF MidOK, Bucket1, Bucket2
<1>2. \A j, k \in 1 .. n : plan[j].b = plan[k].b => j = k
  BY <1>0 DEF PlanOK
<1>3. \A b \in 0 .. im.mask : \A i \in Slots : \A k \in 1 .. n : At(plan, k, b, i) =>
        cur.nodes[b][i] = plan[k].node /\ cur.hashes[b][i] = plan[k].hash
  BY <1>0 DEF MidOK
<1>4. \A b \in 0 .. im.mask : \A i \in Slots : (\A k \in 1 .. n : ~At(plan, k, b, i)) =>
        cur.nodes[b][i] = im.nodes[b][i] /\ cur.hashes[b][i] = im.hashes[b][i]
  BY <1>0 DEF MidOK
\* A hash in a slot of cur is old or comes from a store.
<1>5. ASSUME NEW b \in 0 .. im.mask, NEW i \in Slots
      PROVE  \/ \E k \in 1 .. n : At(plan, k, b, i) /\ cur.hashes[b][i] = plan[k].hash
             \/ cur.hashes[b][i] = im.hashes[b][i] /\ \A k \in 1 .. n : ~At(plan, k, b, i)
  BY <1>3, <1>4
<1>6. ASSUME NEW j \in 1 .. n, NEW k \in 1 .. n, plan[j].hash = plan[k].hash PROVE j = k
  <2>1. CASE j # n
    <3>1. /\ plan[j + 1].b \in 0 .. im.mask /\ plan[j + 1].i \in Slots
          /\ im.nodes[plan[j + 1].b][plan[j + 1].i] # Null /\ j + 1 \in 1 .. n
          /\ im.hashes[plan[j + 1].b][plan[j + 1].i] = plan[j].hash
      BY <2>1, <1>0, <1>s DEF PlanSources
    <3>2. k # n /\ At(plan, k + 1, plan[j + 1].b, plan[j + 1].i)
      BY <3>1, <1>6, <1>0, <1>u DEF PlanUnique
    <3>3. k + 1 \in 1 .. n
      BY <3>2, <1>0
    <3>4. k + 1 = j + 1
      BY <3>1, <3>2, <3>3, <1>2 DEF At
    <3> QED BY <3>4
  <2>2. CASE k # n
    <3>1. /\ plan[k + 1].b \in 0 .. im.mask /\ plan[k + 1].i \in Slots
          /\ im.nodes[plan[k + 1].b][plan[k + 1].i] # Null /\ k + 1 \in 1 .. n
          /\ im.hashes[plan[k + 1].b][plan[k + 1].i] = plan[k].hash
      BY <2>2, <1>0, <1>s DEF PlanSources
    <3>2. j # n /\ At(plan, j + 1, plan[k + 1].b, plan[k + 1].i)
      BY <3>1, <1>6, <1>0, <1>u DEF PlanUnique
    <3>3. j + 1 \in 1 .. n
      BY <3>2, <1>0
    <3>4. k + 1 = j + 1
      BY <3>1, <3>2, <3>3, <1>2 DEF At
    <3> QED BY <3>4
  <2> QED BY <2>1, <2>2
<1>7. ASSUME NEW b \in 0 .. im.mask, NEW i \in Slots, cur.nodes[b][i] # Null
      PROVE  GoodSlot(cur, b, i)
  <2> DEFINE H == cur.hashes[b][i]
             B1 == Bucket1(im, H)
  <2>1. CASE \E k \in 1 .. n : At(plan, k, b, i)
    <3>1. PICK k \in 1 .. n : At(plan, k, b, i)
      BY <2>1
    <3>2. cur.nodes[b][i] = plan[k].node /\ H = plan[k].hash
      BY <3>1, <1>3
    <3>3. HashOf[plan[k].node] = H /\ (b = Bucket1(im, H) \/ b = Bucket2(im, H))
      BY <3>1, <3>2, <1>0, <1>h DEF PlanHashes, At
    <3>b. b # B1 => B1 \in 0 .. im.mask
      <4>1. H \in Hashes
        BY <3>2, <1>0, <1>t DEF PlanTyped
      <4> QED BY <4>1, BucketIn
    <3>4. ASSUME NEW j \in Slots, j < i PROVE cur.hashes[b][j] # H
      <4>1. \A m \in 1 .. n : ~At(plan, m, b, j)
        <5>1. i \in Nat /\ j \in Nat
          BY CmapAssumption DEF Slots
        <5> QED BY <3>1, <3>4, <5>1, <1>2 DEF At
      <4>2. cur.hashes[b][j] = im.hashes[b][j]
        BY <4>1, <1>4
      <4>3. im.hashes[b][j] # H
        BY <3>1, <3>2, <3>4, <1>0, <1>f DEF PlanFirst, At
      <4> QED BY <4>2, <4>3
    <3>5. ASSUME b # B1, NEW j \in Slots PROVE cur.hashes[B1][j] # H
      <4>1. CASE \E m \in 1 .. n : At(plan, m, B1, j)
        <5>1. PICK m \in 1 .. n : At(plan, m, B1, j)
          BY <4>1
        <5>2. cur.hashes[B1][j] = plan[m].hash
          BY <5>1, <3>b, <3>5, <1>3
        <5>3. m # k
          BY <3>1, <3>5, <5>1 DEF At
        <5> QED BY <5>2, <5>3, <3>2, <1>6
      <4>2. CASE \A m \in 1 .. n : ~At(plan, m, B1, j)
        <5>1. cur.hashes[B1][j] = im.hashes[B1][j]
          BY <4>2, <3>b, <3>5, <1>4
        <5>2. im.hashes[B1][j] = H => k # n /\ At(plan, k + 1, B1, j)
          BY <3>1, <3>2, <3>5, <1>0, <1>f DEF PlanFirst, At
        <5>3. k # n => k + 1 \in 1 .. n
          BY <1>0
        <5> QED BY <5>1, <5>2, <5>3, <4>2
      <4> QED BY <4>1, <4>2
    <3> QED BY <1>1, <3>2, <3>3, <3>4, <3>5 DEF GoodSlot
  <2>2. CASE \A k \in 1 .. n : ~At(plan, k, b, i)
    <3>1. cur.nodes[b][i] = im.nodes[b][i] /\ H = im.hashes[b][i]
      BY <2>2, <1>4
    <3>2. GoodSlot(im, b, i)
      BY <3>1, <1>7 DEF GoodTable
    <3>3. \A m \in 1 .. n : plan[m].hash # H
      <4> SUFFICES ASSUME NEW m \in 1 .. n, plan[m].hash = H PROVE FALSE
        OBVIOUS
      <4>1. m # n /\ At(plan, m + 1, b, i)
        BY <3>1, <1>7, <1>0, <1>u DEF PlanUnique
      <4>2. m + 1 \in 1 .. n
        BY <4>1, <1>0
      <4> QED BY <4>1, <4>2, <2>2
    <3>4. ASSUME NEW j \in Slots, j < i PROVE cur.hashes[b][j] # H
      BY <3>1, <3>2, <3>3, <3>4, <1>5 DEF GoodSlot
    <3>5. ASSUME b # B1, NEW j \in Slots PROVE cur.hashes[B1][j] # H
      <4>1. B1 \in 0 .. im.mask
        BY <3>1, ImplFacts, BucketIn
      <4> QED BY <4>1, <3>1, <3>2, <3>3, <3>5, <1>5 DEF GoodSlot
    <3> QED BY <1>1, <3>1, <3>2, <3>4, <3>5 DEF GoodSlot
  <2> QED BY <2>1, <2>2
<1>8. GoodTable(cur)
  BY <1>1, <1>7 DEF GoodTable
<1>9. ASSUME NEW x \in Nodes, IsHead(cur, x) PROVE IsHead(im, x) \/ x = node
  <2>1. PICK b \in 0 .. im.mask, i \in Slots : cur.nodes[b][i] = x
    BY <1>1, <1>9 DEF IsHead
  <2>2. CASE \A k \in 1 .. n : ~At(plan, k, b, i)
    BY <2>1, <2>2, <1>4 DEF IsHead
  <2>3. CASE \E k \in 1 .. n : At(plan, k, b, i)
    <3>1. PICK k \in 1 .. n : At(plan, k, b, i)
      BY <2>3
    <3>2. plan[k].node = x
      BY <3>1, <2>1, <1>3
    <3>3. CASE k = n
      BY <3>2, <3>3, <1>0 DEF PlanOK
    <3>4. CASE k # n
      <4>1. /\ plan[k + 1].b \in 0 .. im.mask /\ plan[k + 1].i \in Slots
            /\ im.nodes[plan[k + 1].b][plan[k + 1].i] = plan[k].node
        BY <3>4, <1>0, <1>s DEF PlanSources
      <4> QED BY <4>1, <3>2 DEF IsHead
    <3> QED BY <3>3, <3>4
  <2> QED BY <2>2, <2>3
<1>10. ASSUME NEW k \in 1 .. n PROVE IsHead(cur, plan[k].node)
  <2>1. plan[k].b \in 0 .. im.mask /\ plan[k].i \in Slots
    BY <1>0, <1>t DEF PlanTyped
  <2>2. cur.nodes[plan[k].b][plan[k].i] = plan[k].node
    BY <2>1, <1>3 DEF At
  <2> QED BY <2>1, <2>2, <1>1 DEF IsHead
<1>11. IsHead(cur, node)
  <2>1. n \in 1 .. n /\ plan[n].node = node
    BY <1>0 DEF PlanOK
  <2> QED BY <2>1, <1>10
<1>12. ASSUME NEW x \in Nodes, IsHead(im, x) PROVE IsHead(cur, x)
  <2>1. PICK b \in 0 .. im.mask, i \in Slots : im.nodes[b][i] = x
    BY <1>12 DEF IsHead
  <2>2. CASE \A k \in 1 .. n : ~At(plan, k, b, i)
    BY <2>1, <2>2, <1>1, <1>4 DEF IsHead
  <2>3. CASE \E k \in 1 .. n : At(plan, k, b, i)
    <3>1. PICK k \in 1 .. n : At(plan, k, b, i)
      BY <2>3
    <3>2. k # 1
      <4>1. x # Null
        BY CmapAssumption
      <4> QED BY <4>1, <2>1, <3>1 DEF PlanOK, At
    <3>3. k - 1 \in 1 .. n /\ k - 1 # n /\ (k - 1) + 1 = k
      BY <3>2
    <3>4. im.nodes[plan[k].b][plan[k].i] = plan[k - 1].node
      <4>1. \A m \in 1 .. n : m # n => im.nodes[plan[m + 1].b][plan[m + 1].i] = plan[m].node
        BY <1>0, <1>s DEF PlanSources
      <4> QED BY <3>3, <4>1
    <3>5. plan[k - 1].node = x
      BY <3>1, <3>4, <2>1 DEF At
    <3> QED BY <3>3, <3>5, <1>10
  <2> QED BY <2>2, <2>3
<1> QED BY <1>8, <1>9, <1>11, <1>12

\* A slot that a search for its hash comes to first, in use or not.
Placed(im, b, i) ==
  LET h == im.hashes[b][i] IN
  /\ b = Bucket1(im, h) \/ b = Bucket2(im, h)
  /\ \A j \in Slots : j < i => im.hashes[b][j] # h
  /\ b # Bucket1(im, h) => \A j \in Slots : im.hashes[Bucket1(im, h)][j] # h

\* No bucket is being changed.
Even(im) == \A b \in 0 .. im.mask : im.counter[b] % 2 = 0

\* cur is im with another node in one slot.
SetOK(im, b, i, x, cur) ==
  /\ IsImpl(cur) /\ cur.mask = im.mask /\ cur.basis = im.basis /\ cur.hashes = im.hashes
  /\ cur.nodes[b][i] = x
  /\ \A c \in 0 .. im.mask : \A j \in Slots : c # b \/ j # i => cur.nodes[c][j] = im.nodes[c][j]

\* A store of a node to the place of its hash keeps every chain findable.
LEMMA SetGood ==
  ASSUME NEW im, IsImpl(im), GoodTable(im), NEW b \in 0 .. im.mask, NEW i \in Slots,
         NEW x, x # Null => HashOf[x] = im.hashes[b][i] /\ Placed(im, b, i),
         NEW cur, SetOK(im, b, i, x, cur)
  PROVE  GoodTable(cur)
<1>1. /\ cur.mask = im.mask /\ cur.hashes = im.hashes
      /\ \A h : Bucket1(cur, h) = Bucket1(im, h) /\ Bucket2(cur, h) = Bucket2(im, h)
  BY DEF SetOK, Bucket1, Bucket2
<1> SUFFICES ASSUME NEW c \in 0 .. im.mask, NEW j \in Slots, cur.nodes[c][j] # Null
             PROVE  GoodSlot(cur, c, j)
  BY <1>1 DEF GoodTable
<1>2. CASE c = b /\ j = i
  <2>1. cur.nodes[c][j] = x
    BY <1>2 DEF SetOK
  <2> QED BY <1>1, <1>2, <2>1 DEF Placed, GoodSlot
<1>3. CASE c # b \/ j # i
  <2>1. cur.nodes[c][j] = im.nodes[c][j]
    BY <1>3 DEF SetOK
  <2>2. GoodSlot(im, c, j)
    BY <2>1 DEF GoodTable
  <2> QED BY <1>1, <2>1, <2>2 DEF GoodSlot
<1> QED BY <1>2, <1>3

\* A findable chain is in the place of its hash.
LEMMA UsedPlaced ==
  ASSUME NEW im, NEW b, NEW i, GoodSlot(im, b, i)
  PROVE  Placed(im, b, i)
  BY DEF Placed, GoodSlot

\* cmap_insert_dup() stores to the place of the hash.
LEMMA DupPlaced ==
  ASSUME NEW im, NEW st, NEW node, NEW h, DupOK(im, st, node, h)
  PROVE  Placed(im, st.b, st.i) /\ im.hashes[st.b][st.i] = h
  BY DEF Placed, DupOK

\* A function with one value changed.
LEMMA ExceptIn ==
  ASSUME NEW A, NEW B, NEW f \in [A -> B], NEW a \in A, NEW v \in B
  PROVE  /\ [f EXCEPT ![a] = v] \in [A -> B] /\ [f EXCEPT ![a] = v][a] = v
         /\ \A x \in A : x # a => [f EXCEPT ![a] = v][x] = f[x]
  OBVIOUS

\* A counter that is incremented once changes its parity, twice keeps it.
LEMMA Parity ==
  \A c \in Nat : /\ c % 2 = 0 \/ c % 2 = 1
                 /\ (c + 2) % 2 = c % 2 /\ (c + 1) % 2 = 1 - (c % 2)
  OBVIOUS

\* The stores into a cmap_impl that no reader sees: all nodes and all hashes of the
\* plan, and counters that stay even.
LEMMA StoredMid ==
  ASSUME NEW im, IsImpl(im), Even(im), NEW plan, NEW node, NEW h, PlanOK(im, plan, node, h)
  PROVE  /\ MidOK(im, plan, Len(plan), Len(plan), Stored(im, plan))
         /\ Even(Stored(im, plan)) /\ Stored(im, plan).n = im.n
<1>0. PICK n \in Nat \ {0} : n = Len(plan) /\ DOMAIN plan = 1 .. n
  BY DEF PlanOK
<1>t. PlanTyped(im, plan)
  BY PlanTypes, Zenon
<1>1. \A j, k \in 1 .. n : plan[j].b = plan[k].b => j = k
  BY <1>0 DEF PlanOK
<1> DEFINE to(b) == {k \in DOMAIN plan : plan[k].b = b}
           st(b) == plan[Max(to(b))]
           N == [b \in 0 .. im.mask |->
                  IF to(b) = {} THEN im.nodes[b] ELSE [im.nodes[b] EXCEPT ![st(b).i] = st(b).node]]
           H == [b \in 0 .. im.mask |->
                  IF to(b) = {} THEN im.hashes[b] ELSE [im.hashes[b] EXCEPT ![st(b).i] = st(b).hash]]
           C == [b \in 0 .. im.mask |->
                  IF to(b) = {} \/ st(b).dup THEN im.counter[b] ELSE im.counter[b] + 2]
           cur == [im EXCEPT !.nodes = N, !.hashes = H, !.counter = C]
<1>2. Stored(im, plan) = cur
  BY DEF Stored
<1>3. ASSUME NEW k \in 1 .. n PROVE to(plan[k].b) # {} /\ st(plan[k].b) = plan[k]
  <2>1. to(plan[k].b) = {k}
    BY <1>0, <1>1
  <2> HIDE DEF to
  <2>2. Max(to(plan[k].b)) = k
    BY <2>1 DEF Max
  <2> QED BY <2>1, <2>2
<1>4. ASSUME NEW b \in 0 .. im.mask, \A k \in 1 .. n : plan[k].b # b PROVE to(b) = {}
  BY <1>0, <1>4
<1>5. ASSUME NEW b \in 0 .. im.mask, NEW k \in 1 .. n, plan[k].b = b
      PROVE  /\ N[b] = [im.nodes[b] EXCEPT ![plan[k].i] = plan[k].node]
             /\ H[b] = [im.hashes[b] EXCEPT ![plan[k].i] = plan[k].hash]
             /\ C[b] = im.counter[b] + 2
  <2>1. plan[k].dup = FALSE
    BY <1>0, <1>t DEF PlanTyped
  <2> HIDE DEF to, st
  <2> QED BY <1>3, <1>5, <2>1
<1>6. ASSUME NEW b \in 0 .. im.mask, \A k \in 1 .. n : plan[k].b # b
      PROVE  N[b] = im.nodes[b] /\ H[b] = im.hashes[b] /\ C[b] = im.counter[b]
  <2> HIDE DEF to, st
  <2> QED BY <1>4, <1>6
<1>7. DOMAIN N = 0 .. im.mask /\ DOMAIN H = 0 .. im.mask /\ DOMAIN C = 0 .. im.mask
      /\ N = [b \in 0 .. im.mask |-> N[b]] /\ H = [b \in 0 .. im.mask |-> H[b]]
      /\ C = [b \in 0 .. im.mask |-> C[b]]
  <2> HIDE DEF to, st
  <2> QED OBVIOUS
<1> HIDE DEF N, H, C
<1>8. ASSUME NEW b \in 0 .. im.mask
      PROVE  /\ N[b] \in [Slots -> Nodes \cup {Null}] /\ H[b] \in [Slots -> Hashes \cup {0}]
             /\ C[b] \in Nat /\ C[b] % 2 = 0
  <2>0. im.counter[b] \in Nat /\ im.counter[b] % 2 = 0
    BY ImplFacts DEF Even
  <2>1. /\ im.nodes[b] \in [Slots -> Nodes \cup {Null}]
        /\ im.hashes[b] \in [Slots -> Hashes \cup {0}]
    BY ImplFacts
  <2>2. CASE \A k \in 1 .. n : plan[k].b # b
    BY <2>0, <2>1, <2>2, <1>6
  <2>3. CASE \E k \in 1 .. n : plan[k].b = b
    <3>1. PICK k \in 1 .. n : plan[k].b = b
      BY <2>3
    <3>2. plan[k].i \in Slots /\ plan[k].node \in Nodes /\ plan[k].hash \in Hashes
      BY <1>0, <1>t DEF PlanTyped
    <3>3. C[b] = im.counter[b] + 2 /\ C[b] \in Nat /\ C[b] % 2 = 0
      <4>1. C[b] = im.counter[b] + 2
        BY <3>1, <1>5
      <4>2. PICK x \in Nat : x = im.counter[b] /\ x % 2 = 0
        BY <2>0
      <4>3. x + 2 \in Nat /\ (x + 2) % 2 = 0
        BY <4>2
      <4> QED BY <4>1, <4>2, <4>3
    <3>4. /\ [im.nodes[b] EXCEPT ![plan[k].i] = plan[k].node] \in [Slots -> Nodes \cup {Null}]
          /\ [im.hashes[b] EXCEPT ![plan[k].i] = plan[k].hash] \in [Slots -> Hashes \cup {0}]
      BY <2>1, <3>2, ExceptIn
    <3> QED BY <3>1, <3>3, <3>4, <1>5
  <2> QED BY <2>2, <2>3
<1>9. /\ N \in [0 .. im.mask -> [Slots -> Nodes \cup {Null}]]
      /\ H \in [0 .. im.mask -> [Slots -> Hashes \cup {0}]]
      /\ C \in [0 .. im.mask -> Nat]
  BY <1>7, <1>8
<1>10. /\ cur.mask = im.mask /\ cur.basis = im.basis /\ cur.n = im.n /\ cur.nodes = N
       /\ cur.hashes = H /\ cur.counter = C /\ cur \in Table(im.mask) /\ im.mask \in Nat
  BY <1>9 DEF IsImpl, Table
<1> HIDE DEF cur
<1>11. IsImpl(cur)
  BY <1>10 DEF IsImpl
<1>12. ASSUME NEW b \in 0 .. im.mask, NEW i \in Slots
       PROVE  /\ \A k \in 1 .. n : At(plan, k, b, i) => cur.nodes[b][i] = plan[k].node
              /\ (\A k \in 1 .. n : ~At(plan, k, b, i)) => cur.nodes[b][i] = im.nodes[b][i]
              /\ \A k \in 1 .. n : At(plan, k, b, i) => cur.hashes[b][i] = plan[k].hash
              /\ (\A k \in 1 .. n : ~At(plan, k, b, i)) => cur.hashes[b][i] = im.hashes[b][i]
  <2>1. /\ im.nodes[b] \in [Slots -> Nodes \cup {Null}]
        /\ im.hashes[b] \in [Slots -> Hashes \cup {0}]
    BY ImplFacts
  <2>2. CASE \A k \in 1 .. n : plan[k].b # b
    BY <2>2, <1>6, <1>10 DEF At
  <2>3. CASE \E k \in 1 .. n : plan[k].b = b
    <3>1. PICK k \in 1 .. n : plan[k].b = b
      BY <2>3
    <3>2. \A m \in 1 .. n : At(plan, m, b, i) => m = k
      BY <3>1, <1>1 DEF At
    <3>3. /\ cur.nodes[b] = [im.nodes[b] EXCEPT ![plan[k].i] = plan[k].node]
          /\ cur.hashes[b] = [im.hashes[b] EXCEPT ![plan[k].i] = plan[k].hash]
      BY <3>1, <1>5, <1>10
    <3>4. CASE plan[k].i = i
      BY <2>1, <3>1, <3>2, <3>3, <3>4 DEF At
    <3>5. CASE plan[k].i # i
      BY <2>1, <3>1, <3>2, <3>3, <3>5 DEF At
    <3> QED BY <3>4, <3>5
  <2> QED BY <2>2, <2>3
<1>13. MidOK(im, plan, n, n, cur)
  BY <1>10, <1>11, <1>12 DEF MidOK
<1>14. Even(cur)
  BY <1>8, <1>10 DEF Even
<1> QED BY <1>0, <1>2, <1>10, <1>13, <1>14

\* The store of cmap_insert_dup() into a cmap_impl that no reader sees.
LEMMA StoredDup ==
  ASSUME NEW im, IsImpl(im), NEW st, NEW node \in Nodes, NEW h, DupOK(im, st, node, h)
  PROVE  /\ SetOK(im, st.b, st.i, node, Stored(im, <<st>>))
         /\ Stored(im, <<st>>).counter = im.counter /\ Stored(im, <<st>>).n = im.n
<1> DEFINE plan == <<st>>
           to(b) == {k \in DOMAIN plan : plan[k].b = b}
           s(b) == plan[Max(to(b))]
           N == [b \in 0 .. im.mask |->
                  IF to(b) = {} THEN im.nodes[b] ELSE [im.nodes[b] EXCEPT ![s(b).i] = s(b).node]]
           H == [b \in 0 .. im.mask |->
                  IF to(b) = {} THEN im.hashes[b] ELSE [im.hashes[b] EXCEPT ![s(b).i] = s(b).hash]]
           C == [b \in 0 .. im.mask |->
                  IF to(b) = {} \/ s(b).dup THEN im.counter[b] ELSE im.counter[b] + 2]
           cur == [im EXCEPT !.nodes = N, !.hashes = H, !.counter = C]
<1>0. /\ st.dup = TRUE /\ st.node = node /\ st.hash = h /\ st.b \in 0 .. im.mask
      /\ st.i \in Slots /\ im.hashes[st.b][st.i] = h
  BY DEF DupOK
<1>1. Stored(im, <<st>>) = cur
  BY DEF Stored
<1>2. \A b : b # st.b => to(b) = {}
  OBVIOUS
<1>3. to(st.b) = {1}
  OBVIOUS
<1>4. Max({1}) = 1
  BY DEF Max
<1>5. s(st.b) = st
  <2> HIDE DEF to
  <2> QED BY <1>3, <1>4
<1> HIDE DEF to, s
<1>6. /\ im.counter \in [0 .. im.mask -> Nat]
      /\ im.hashes \in [0 .. im.mask -> [Slots -> Hashes \cup {0}]]
      /\ im.nodes \in [0 .. im.mask -> [Slots -> Nodes \cup {Null}]]
  BY ImplFacts
<1>7. C = im.counter
  <2>1. \A b \in 0 .. im.mask : C[b] = im.counter[b]
    BY <1>0, <1>2, <1>5
  <2> QED BY <2>1, <1>6
<1>8. H = im.hashes
  <2>1. [im.hashes[st.b] EXCEPT ![st.i] = h] = im.hashes[st.b]
    BY <1>0, <1>6
  <2>2. \A b \in 0 .. im.mask : H[b] = im.hashes[b]
    BY <1>0, <1>2, <1>3, <1>5, <2>1
  <2> QED BY <2>2, <1>6
<1>9. /\ N[st.b] = [im.nodes[st.b] EXCEPT ![st.i] = node]
      /\ \A b \in 0 .. im.mask : b # st.b => N[b] = im.nodes[b]
  BY <1>0, <1>2, <1>3, <1>5
<1>10. N = [b \in 0 .. im.mask |-> N[b]]
  OBVIOUS
<1> HIDE DEF N, H, C
<1>11. N \in [0 .. im.mask -> [Slots -> Nodes \cup {Null}]]
  <2>1. N[st.b] \in [Slots -> Nodes \cup {Null}]
    <3>1. im.nodes[st.b] \in [Slots -> Nodes \cup {Null}] /\ node \in Nodes \cup {Null}
      BY <1>0, <1>6
    <3> QED BY <3>1, <1>0, <1>9, ExceptIn
  <2>2. \A b \in 0 .. im.mask : N[b] \in [Slots -> Nodes \cup {Null}]
    BY <2>1, <1>6, <1>9
  <2> QED BY <2>2, <1>10
<1>12. /\ cur.mask = im.mask /\ cur.basis = im.basis /\ cur.n = im.n /\ cur.nodes = N
       /\ cur.hashes = im.hashes /\ cur.counter = im.counter /\ cur \in Table(im.mask)
       /\ im.mask \in Nat
  BY <1>7, <1>8, <1>6, <1>11 DEF IsImpl, Table
<1> HIDE DEF cur
<1>13. cur.nodes[st.b][st.i] = node
  BY <1>0, <1>6, <1>9, <1>12
<1>14. \A c \in 0 .. im.mask : \A j \in Slots : c # st.b \/ j # st.i =>
         cur.nodes[c][j] = im.nodes[c][j]
  <2> TAKE c \in 0 .. im.mask
  <2> TAKE j \in Slots
  <2>1. CASE c = st.b /\ j # st.i
    BY <2>1, <1>0, <1>6, <1>9, <1>12
  <2>2. CASE c # st.b
    BY <2>2, <1>9, <1>12
  <2> QED BY <2>1, <2>2
<1>15. SetOK(im, st.b, st.i, node, cur)
  BY <1>12, <1>13, <1>14 DEF SetOK, IsImpl
<1> QED BY <1>1, <1>12, <1>15

-----------------------------------------------------------------------------
(* A rehash moves every chain. *)

\* An unpublished cmap_impl that some chains of old have been put into.
Fresh(im, mask, basis) ==
  /\ IsImpl(im) /\ GoodTable(im) /\ Even(im)
  /\ im.mask = mask /\ im.basis = basis /\ im.n = 0

\* cmap_impl_create() makes an empty table.
LEMMA Created ==
  ASSUME NEW mask \in Nat, NEW basis \in Bases
  PROVE  /\ Fresh(cmap_impl_create(mask, basis), mask, basis)
         /\ \A x \in Nodes : ~IsHead(cmap_impl_create(mask, basis), x)
<1> DEFINE im == cmap_impl_create(mask, basis)
           N == [b \in 0 .. mask |-> [i \in Slots |-> Null]]
           H == [b \in 0 .. mask |-> [i \in Slots |-> 0]]
           C == [b \in 0 .. mask |-> 0]
<1>1. /\ N \in [0 .. mask -> [Slots -> Nodes \cup {Null}]]
      /\ H \in [0 .. mask -> [Slots -> Hashes \cup {0}]]
      /\ C \in [0 .. mask -> Nat]
      /\ \A b \in 0 .. mask : C[b] = 0 /\ \A i \in Slots : N[b][i] = Null
  OBVIOUS
<1>2. im = [mask |-> mask, basis |-> basis, n |-> 0, counter |-> C, hashes |-> H, nodes |-> N]
  BY DEF cmap_impl_create
<1> HIDE DEF im, N, H, C
<1>3. /\ im.mask = mask /\ im.basis = basis /\ im.n = 0 /\ im.nodes = N /\ im.counter = C
      /\ im \in Table(mask)
  BY <1>1, <1>2 DEF Table
<1>4. IsImpl(im) /\ GoodTable(im)
  BY <1>1, <1>3 DEF IsImpl, GoodTable
<1>5. Even(im)
  BY <1>1, <1>3 DEF Even
<1>6. \A x \in Nodes : ~IsHead(im, x)
  BY <1>1, <1>3, CmapAssumption DEF IsHead
<1> QED BY <1>3, <1>4, <1>5, <1>6 DEF im, Fresh

\* One more chain.
LEMMA ChainPut ==
  ASSUME NEW mask, NEW basis, NEW im, Fresh(im, mask, basis), NEW node \in Nodes,
         \A b \in 0 .. im.mask : \A i \in Slots :
           im.nodes[b][i] # Null => im.hashes[b][i] # HashOf[node],
         NEW plan, plan = cmap_try_insert(im, node, HashOf[node]), plan # <<>>
  PROVE  /\ Fresh(Stored(im, plan), mask, basis)
         /\ \A x \in Nodes : IsHead(Stored(im, plan), x) <=> IsHead(im, x) \/ x = node
<1> DEFINE h == HashOf[node]
           cur == Stored(im, plan)
<1>0. IsImpl(im) /\ GoodTable(im) /\ Even(im) /\ im.mask = mask /\ im.basis = basis /\ im.n = 0
  BY DEF Fresh
<1>1. \/ plan[1].dup = TRUE /\ plan = <<plan[1]>> /\ DupOK(im, plan[1], node, h)
      \/ plan[1].dup = FALSE /\ PlanOK(im, plan, node, h)
  BY <1>0, InsertPlan
<1>2. CASE PlanOK(im, plan, node, h)
  <2>1. MidOK(im, plan, Len(plan), Len(plan), cur) /\ Even(cur) /\ cur.n = im.n
    BY <1>0, <1>2, StoredMid
  <2> HIDE DEF cur
  <2>2. GoodTable(cur) /\ \A x \in Nodes : IsHead(cur, x) <=> IsHead(im, x) \/ x = node
    BY <2>1, <1>0, <1>2, PlanGood
  <2>3. IsImpl(cur) /\ cur.mask = im.mask /\ cur.basis = im.basis
    BY <2>1 DEF MidOK
  <2> QED BY <1>0, <2>1, <2>2, <2>3 DEF Fresh, cur
<1>3. CASE plan = <<plan[1]>> /\ DupOK(im, plan[1], node, h)
  <2> DEFINE st == plan[1]
  <2>1. DupOK(im, st, node, h) /\ cur = Stored(im, <<st>>)
    BY <1>3
  <2> HIDE DEF cur, st, h
  <2>2. SetOK(im, st.b, st.i, node, cur) /\ cur.counter = im.counter /\ cur.n = im.n
    BY <2>1, <1>0, StoredDup
  <2>3. st.b \in 0 .. im.mask /\ st.i \in Slots
    BY <2>1 DEF DupOK
  <2>4. Placed(im, st.b, st.i) /\ im.hashes[st.b][st.i] = h
    BY <2>1, DupPlaced
  <2>5. GoodTable(cur)
    BY <2>2, <2>3, <2>4, <1>0, SetGood DEF h
  <2>6. IsImpl(cur) /\ cur.mask = im.mask /\ cur.basis = im.basis
    BY <2>2 DEF SetOK
  <2>7. Even(cur)
    BY <2>2, <2>6, <1>0 DEF Even
  <2>8. im.nodes[st.b][st.i] = Null
    BY <2>3, <2>4 DEF h
  <2>9. ASSUME NEW x \in Nodes PROVE IsHead(cur, x) <=> IsHead(im, x) \/ x = node
    <3>0. x # Null
      BY CmapAssumption
    <3>1. IsHead(cur, node)
      BY <2>2, <2>3, <2>6 DEF IsHead, SetOK
    <3>2. IsHead(im, x) => IsHead(cur, x)
      BY <2>2, <2>6, <2>8, <3>0 DEF IsHead, SetOK
    <3>3. IsHead(cur, x) => IsHead(im, x) \/ x = node
      BY <2>2, <2>6 DEF IsHead, SetOK
    <3> QED BY <3>1, <3>2, <3>3
  <2> QED BY <1>0, <2>2, <2>5, <2>6, <2>7, <2>9 DEF Fresh, cur
<1> QED BY <1>1, <1>2, <1>3

\* cmap_try_rehash() by its recursion.
LEMMA RehashRecursion ==
  ASSUME NEW old, NEW new, (old.mask + 1) * K \in Nat
  PROVE  \E g : /\ cmap_try_rehash(old, new) = g[(old.mask + 1) * K]
                /\ g = [k \in 0 .. (old.mask + 1) * K |->
                          IF k = 0 THEN new ELSE RehashSlot(old, g[k - 1], k)]
<1> DEFINE Rec(N, g) == g = [k \in 0 .. N |-> IF k = 0 THEN new ELSE RehashSlot(old, g[k - 1], k)]
           S == {N \in Nat : \E g : Rec(N, g)}
<1>1. 0 \in S
  <2>1. Rec(0, [n \in 0 .. 0 |-> new])
    OBVIOUS
  <2> QED BY <2>1
<1>2. \A N \in Nat : N \in S => N + 1 \in S
  <2> TAKE N \in Nat
  <2>1. HAVE N \in S
  <2>2. PICK g : Rec(N, g)
    BY <2>1
  <2> DEFINE f == [n \in 0 .. N + 1 |-> IF n <= N THEN g[n] ELSE RehashSlot(old, g[N], N + 1)]
  <2>3. \A n \in 0 .. N + 1 : f[n] = IF n = 0 THEN new ELSE RehashSlot(old, f[n - 1], n)
    <3> TAKE n \in 0 .. N + 1
    <3>1. CASE n = 0
      BY <3>1, <2>2
    <3>2. CASE n \in 1 .. N
      BY <3>2, <2>2
    <3>3. CASE n = N + 1
      BY <3>3
    <3> QED BY <3>1, <3>2, <3>3
  <2>4. Rec(N + 1, f)
    BY <2>3
  <2> HIDE DEF Rec, f
  <2>5. \E g1 : Rec(N + 1, g1)
    BY <2>4
  <2> QED BY <2>5
<1>4. \E g : Rec((old.mask + 1) * K, g)
  <2> HIDE DEF Rec
  <2>1. Nat \subseteq S
    <3> HIDE DEF S
    <3> QED BY <1>1, <1>2, Induct
  <2> QED BY <2>1
<1> DEFINE built == CHOOSE g : Rec((old.mask + 1) * K, g)
<1>5. cmap_try_rehash(old, new) = built[(old.mask + 1) * K]
  BY Zenon DEF cmap_try_rehash
<1>6. Rec((old.mask + 1) * K, built)
  <2> HIDE DEF Rec
  <2> QED BY <1>4
<1> HIDE DEF built
<1> QED BY <1>5, <1>6

\* The position of a slot, counted through all buckets.
Pos(b, i) == b * K + i

\* The chains of old in the slots up to position k.
Moved(old, k, x) ==
  \E b \in 0 .. old.mask : \E i \in Slots : Pos(b, i) <= k /\ old.nodes[b][i] = x

\* What cmap_try_rehash() has built when it has come to position k.
Built(old, mask, basis, k, im) ==
  \/ im = NoImpl
  \/ /\ Fresh(im, mask, basis)
     /\ \A x \in Nodes : IsHead(im, x) <=> Moved(old, k, x)

\* Different slots have different positions.
LEMMA Positions ==
  ASSUME NEW m \in Nat
  PROVE  /\ (m + 1) * K \in Nat
         /\ \A b \in 0 .. m : \A i \in Slots : Pos(b, i) \in 1 .. (m + 1) * K
         /\ \A b, c \in 0 .. m : \A i, j \in Slots : Pos(b, i) = Pos(c, j) => b = c /\ i = j
<1>0. m + 1 \in Nat /\ K \in Nat
  BY CmapAssumption
<1>1. (m + 1) * K \in Nat
  BY <1>0
<1>2. ASSUME NEW b \in 0 .. m, NEW i \in Slots
      PROVE  /\ Pos(b, i) \in 1 .. (m + 1) * K
             /\ (Pos(b, i) - 1) \div K = b /\ ((Pos(b, i) - 1) % K) + 1 = i
  <2>1. b \in Nat /\ b < m + 1
    OBVIOUS
  <2> QED BY <2>1, <1>0, Position DEF Pos
<1> QED BY <1>1, <1>2

\* cmap_try_rehash() at one more slot.
LEMMA RehashStep ==
  ASSUME NEW old, IsImpl(old), GoodTable(old), NEW mask, NEW basis,
         NEW k \in 1 .. (old.mask + 1) * K, NEW im, Built(old, mask, basis, k - 1, im)
  PROVE  Built(old, mask, basis, k, RehashSlot(old, im, k))
<1>0. PICK m \in Nat : m = old.mask
  BY DEF IsImpl
<1>1. /\ (m + 1) * K \in Nat
      /\ \A b \in 0 .. m : \A i \in Slots : Pos(b, i) \in 1 .. (m + 1) * K
      /\ \A b, c \in 0 .. m : \A i, j \in Slots : Pos(b, i) = Pos(c, j) => b = c /\ i = j
  BY Positions
<1>2. PICK b \in 0 .. m, i \in Slots :
        b = (k - 1) \div K /\ i = ((k - 1) % K) + 1 /\ Pos(b, i) = k
  <2>1. m + 1 \in Nat /\ k \in 1 .. (m + 1) * K
    BY <1>0
  <2>2. /\ (k - 1) \div K \in 0 .. (m + 1) - 1 /\ ((k - 1) % K) + 1 \in Slots
        /\ k = ((k - 1) \div K) * K + (((k - 1) % K) + 1)
    BY <2>1, SlotAt
  <2>3. (m + 1) - 1 = m
    OBVIOUS
  <2> QED BY <2>2, <2>3 DEF Pos
<1>3. k \in Nat /\ \A p \in 1 .. (m + 1) * K : p <= k <=> p <= k - 1 \/ p = k
  BY <1>0, <1>1
<1> DEFINE node == old.nodes[b][i]
           plan == cmap_try_insert(im, node, old.hashes[b][i])
<1>4. RehashSlot(old, im, k) =
        IF im = NoImpl \/ node = Null THEN im
        ELSE IF plan = <<>> THEN NoImpl ELSE Stored(im, plan)
  BY <1>2 DEF RehashSlot
<1>5. \A x : Moved(old, k, x) <=> Moved(old, k - 1, x) \/ x = node
  <2> TAKE x
  <2>1. Moved(old, k - 1, x) \/ x = node => Moved(old, k, x)
    BY <1>0, <1>1, <1>2, <1>3 DEF Moved
  <2>2. Moved(old, k, x) => Moved(old, k - 1, x) \/ x = node
    BY <1>0, <1>1, <1>2, <1>3 DEF Moved
  <2> QED BY <2>1, <2>2
<1>6. node \in Nodes \cup {Null}
  BY <1>0, ImplFacts
<1> HIDE DEF plan
<1>7. CASE im = NoImpl
  BY <1>4, <1>7 DEF Built
<1>8. CASE im # NoImpl /\ node = Null
  <2>1. Null \notin Nodes
    BY CmapAssumption
  <2> QED BY <1>4, <1>5, <1>8, <2>1 DEF Built
<1>9. CASE im # NoImpl /\ node # Null
  <2>1. Fresh(im, mask, basis) /\ \A x \in Nodes : IsHead(im, x) <=> Moved(old, k - 1, x)
    BY <1>9 DEF Built
  <2>2. node \in Nodes
    BY <1>6, <1>9
  <2>3. old.hashes[b][i] = HashOf[node]
    BY <1>0, <1>9 DEF GoodTable, GoodSlot
  <2>4. CASE plan = <<>>
    BY <1>4, <1>9, <2>4 DEF Built
  <2>5. CASE plan # <<>>
    <3>1. ASSUME NEW c \in 0 .. im.mask, NEW j \in Slots, im.nodes[c][j] # Null
          PROVE  im.hashes[c][j] # HashOf[node]
      <4> DEFINE x == im.nodes[c][j]
      <4>1. x \in Nodes /\ im.hashes[c][j] = HashOf[x]
        BY <2>1, <3>1, ImplFacts DEF Fresh, GoodTable, GoodSlot
      <4>2. Moved(old, k - 1, x)
        BY <2>1, <4>1 DEF IsHead
      <4>3. PICK d \in 0 .. m, l \in Slots : Pos(d, l) <= k - 1 /\ old.nodes[d][l] = x
        BY <4>2, <1>0 DEF Moved
      <4>4. old.hashes[d][l] = HashOf[x] /\ x # Null
        BY <4>3, <1>0, <4>1, CmapAssumption DEF GoodTable, GoodSlot
      <4>5. SUFFICES ASSUME HashOf[x] = HashOf[node] PROVE FALSE
        BY <4>1
      <4>6. d = b /\ l = i
        BY <4>3, <4>4, <4>5, <2>3, <1>9, <1>0, OneUsed
      <4> QED BY <4>3, <4>6, <1>2, <1>3
    <3>2. plan = cmap_try_insert(im, node, HashOf[node])
      BY <2>3 DEF plan
    <3> HIDE DEF node
    <3>3. /\ Fresh(Stored(im, plan), mask, basis)
          /\ \A x \in Nodes : IsHead(Stored(im, plan), x) <=> IsHead(im, x) \/ x = node
      BY <2>1, <2>2, <3>1, <3>2, <2>5, ChainPut
    <3>4. RehashSlot(old, im, k) = Stored(im, plan)
      BY <1>4, <1>9, <2>5
    <3> QED BY <3>3, <3>4, <2>1, <1>5 DEF Built
  <2> QED BY <2>4, <2>5
<1> QED BY <1>7, <1>8, <1>9

\* The new cmap_impl holds the chains of the old one, and no others, each where a
\* search finds it.
LEMMA Rehash ==
  ASSUME NEW old, IsImpl(old), GoodTable(old), NEW mask \in Nat, NEW basis \in Bases,
         NEW im, im = cmap_try_rehash(old, cmap_impl_create(mask, basis)), im # NoImpl
  PROVE  /\ Fresh(im, mask, basis)
         /\ \A x \in Nodes : IsHead(im, x) <=> IsHead(old, x)
<1>0. PICK m \in Nat : m = old.mask
  BY DEF IsImpl
<1>1. PICK N \in Nat : N = (old.mask + 1) * K
  BY <1>0, Positions
<1> DEFINE new == cmap_impl_create(mask, basis)
<1>2. PICK g : /\ im = g[N]
               /\ g = [k \in 0 .. N |-> IF k = 0 THEN new ELSE RehashSlot(old, g[k - 1], k)]
  <2>1. (old.mask + 1) * K \in Nat
    BY <1>1
  <2> HIDE DEF new
  <2>2. \E g : /\ cmap_try_rehash(old, new) = g[(old.mask + 1) * K]
                /\ g = [k \in 0 .. (old.mask + 1) * K |->
                          IF k = 0 THEN new ELSE RehashSlot(old, g[k - 1], k)]
    BY <2>1, RehashRecursion
  <2> QED BY <2>2, <1>1 DEF new
<1>3. g[0] = new /\ \A k \in 1 .. N : g[k] = RehashSlot(old, g[k - 1], k)
  BY <1>2
<1> DEFINE S == {k \in Nat : k <= N => Built(old, mask, basis, k, g[k])}
<1>4. 0 \in S
  <2>1. Fresh(new, mask, basis) /\ \A x \in Nodes : ~IsHead(new, x)
    BY Created
  <2>2. \A x : ~Moved(old, 0, x)
    <3>1. \A b \in 0 .. m : \A i \in Slots : Pos(b, i) \in 1 .. N
      BY <1>0, <1>1, Positions
    <3> QED BY <3>1, <1>0 DEF Moved
  <2> QED BY <1>3, <2>1, <2>2 DEF Built
<1>5. \A k \in Nat : k \in S => k + 1 \in S
  <2> TAKE k \in Nat
  <2>1. HAVE k \in S
  <2>2. SUFFICES ASSUME k + 1 <= N PROVE Built(old, mask, basis, k + 1, g[k + 1])
    OBVIOUS
  <2>3. PICK j \in 1 .. N : j = k + 1 /\ j - 1 = k
    BY <2>2
  <2>4. Built(old, mask, basis, j - 1, g[k])
    BY <2>1, <2>2, <2>3
  <2>5. Built(old, mask, basis, j, RehashSlot(old, g[k], j))
    BY <2>4, <1>1, RehashStep
  <2> QED BY <2>3, <2>5, <1>3
<1>6. N \in S
  <2> HIDE DEF S
  <2> QED BY <1>4, <1>5, Induct
<1>7. Built(old, mask, basis, N, im)
  BY <1>6, <1>2
<1>8. \A x : Moved(old, N, x) <=> IsHead(old, x)
  BY <1>0, <1>1, Positions DEF Moved, IsHead
<1> QED BY <1>7, <1>8 DEF Built

-----------------------------------------------------------------------------
(* Chains and their next pointers. *)

\* The type of the next pointers.
NextT == [Nodes -> Nodes \cup {Null}]

\* The next pointers stay in S.
Closed(nx, S) == \A m \in S : nx[m] \in S \cup {Null}

\* The nodes that nx reaches from x, none from Null.
Reach(nx, x) ==
  {n \in Nodes : \A S \in SUBSET Nodes : x \in S \cup {Null} /\ Closed(nx, S) => n \in S}

\* No node reaches itself.
Acyclic(nx) == \A x \in Nodes : x \notin Reach(nx, nx[x])

\* Chain() is what next reaches.
LEMMA ChainReach ==
  ASSUME NEW x \in Nodes
  PROVE  Chain(x) = Reach(next, x)
<1>1. x # Null
  BY CmapAssumption
<1> QED BY <1>1 DEF Chain, Reach, Closed

\* A node reaches itself and nothing but nodes.
LEMMA ReachIn ==
  ASSUME NEW nx, NEW x \in Nodes \cup {Null}
  PROVE  Reach(nx, x) \subseteq Nodes /\ x \in Reach(nx, x) \cup {Null}
  BY DEF Reach

\* A set that holds x and is closed under nx holds what nx reaches from x.
LEMMA ReachLeast ==
  ASSUME NEW nx, NEW x, NEW S \in SUBSET Nodes, x \in S \cup {Null}, Closed(nx, S)
  PROVE  Reach(nx, x) \subseteq S
  BY DEF Reach

\* What nx reaches is closed under nx.
LEMMA ReachClosed ==
  ASSUME NEW nx \in NextT, NEW x
  PROVE  Closed(nx, Reach(nx, x))
<1> SUFFICES ASSUME NEW m \in Reach(nx, x), nx[m] # Null
             PROVE  nx[m] \in Reach(nx, x)
  BY DEF Closed
<1>1. m \in Nodes /\ nx[m] \in Nodes
  BY DEF Reach, NextT
<1>2. ASSUME NEW S \in SUBSET Nodes, x \in S \cup {Null}, Closed(nx, S)
      PROVE  nx[m] \in S
  <2>1. m \in S
    BY <1>2 DEF Reach
  <2> QED BY <2>1, <1>2 DEF Closed
<1> QED BY <1>1, <1>2 DEF Reach

\* Nothing is reached from Null.
LEMMA ReachNull ==
  ASSUME NEW nx
  PROVE  Reach(nx, Null) = {}
<1>1. Closed(nx, {}) /\ {} \in SUBSET Nodes
  BY DEF Closed
<1> QED BY <1>1, ReachLeast

\* What is reached from a reached node is reached.
LEMMA ReachTrans ==
  ASSUME NEW nx \in NextT, NEW x, NEW y \in Reach(nx, x)
  PROVE  Reach(nx, y) \subseteq Reach(nx, x)
<1>1. Reach(nx, x) \in SUBSET Nodes
  BY DEF Reach
<1> QED BY <1>1, ReachClosed, ReachLeast

\* A chain is its first node and the chain after it.
LEMMA ReachStep ==
  ASSUME NEW nx \in NextT, NEW x \in Nodes
  PROVE  Reach(nx, x) = {x} \cup Reach(nx, nx[x])
<1>1. nx[x] \in Nodes \cup {Null}
  BY DEF NextT
<1>2. x \in Reach(nx, x)
  BY ReachIn, CmapAssumption
<1>3. nx[x] \in Reach(nx, x) \cup {Null}
  BY <1>2, ReachClosed DEF Closed
<1>4. Reach(nx, nx[x]) \subseteq Reach(nx, x)
  BY <1>3, ReachTrans, ReachNull
<1> DEFINE S == {x} \cup Reach(nx, nx[x])
<1>5. S \in SUBSET Nodes
  BY <1>1, ReachIn
<1>6. Closed(nx, Reach(nx, nx[x])) /\ nx[x] \in Reach(nx, nx[x]) \cup {Null}
  BY <1>1, ReachClosed, ReachIn
<1>7. Closed(nx, S)
  BY <1>6 DEF Closed
<1>8. Reach(nx, x) \subseteq S
  BY <1>5, <1>7, ReachLeast
<1> QED BY <1>2, <1>4, <1>8

\* A store to the next of a node that x does not reach.
LEMMA ReachSame ==
  ASSUME NEW nx \in NextT, NEW mx \in NextT, NEW x \in Nodes \cup {Null},
         \A m \in Reach(nx, x) : mx[m] = nx[m]
  PROVE  Reach(mx, x) = Reach(nx, x)
<1>0. Reach(nx, x) \in SUBSET Nodes /\ Reach(mx, x) \in SUBSET Nodes
  BY DEF Reach
<1>1. Closed(mx, Reach(nx, x)) /\ x \in Reach(nx, x) \cup {Null}
  BY ReachClosed, ReachIn DEF Closed
<1>2. Reach(mx, x) \subseteq Reach(nx, x)
  BY <1>0, <1>1, ReachLeast
<1>3. Closed(nx, Reach(mx, x)) /\ x \in Reach(mx, x) \cup {Null}
  BY <1>2, ReachClosed, ReachIn DEF Closed
<1>4. Reach(nx, x) \subseteq Reach(mx, x)
  BY <1>0, <1>3, ReachLeast
<1> QED BY <1>2, <1>4

\* A store of v to the next pointer of n makes no cycle if v does not reach n.
LEMMA LinkAcyclic ==
  ASSUME NEW nx \in NextT, Acyclic(nx), NEW n \in Nodes, NEW v \in Nodes \cup {Null},
         n \notin Reach(nx, v), NEW mx \in NextT,
         mx[n] = v, \A m \in Nodes : m # n => mx[m] = nx[m]
  PROVE  Acyclic(mx)
<1> SUFFICES ASSUME NEW x \in Nodes, x \in Reach(mx, mx[x]) PROVE FALSE
  BY DEF Acyclic
<1>0. \A y : Reach(nx, y) \subseteq Nodes /\ Reach(mx, y) \subseteq Nodes
  BY DEF Reach
<1>1. Reach(mx, v) = Reach(nx, v)
  BY <1>0, ReachSame
<1>2. x # n
  BY <1>1
<1>3. mx[x] = nx[x] /\ nx[x] \in Nodes \cup {Null} /\ x \notin Reach(nx, nx[x])
  BY <1>2 DEF NextT, Acyclic
<1>4. CASE n \notin Reach(nx, nx[x])
  <2>1. Reach(mx, nx[x]) = Reach(nx, nx[x])
    BY <1>0, <1>3, <1>4, ReachSame
  <2> QED BY <2>1, <1>3
<1>5. CASE n \in Reach(nx, nx[x])
  <2> DEFINE S == Reach(nx, nx[x]) \cup Reach(nx, v)
  <2>1. S \in SUBSET Nodes
    BY <1>0
  <2>2. nx[x] \in S \cup {Null} /\ v \in S \cup {Null}
    BY <1>3, ReachIn
  <2>3. Closed(nx, Reach(nx, nx[x])) /\ Closed(nx, Reach(nx, v))
    BY ReachClosed
  <2>4. Closed(mx, S)
    BY <2>1, <2>2, <2>3 DEF Closed
  <2>5. Reach(mx, nx[x]) \subseteq S
    BY <2>1, <2>2, <2>4, ReachLeast
  <2>6. x \in Reach(nx, v)
    BY <2>5, <1>3
  <2>7. Reach(nx, nx[x]) \subseteq Reach(nx, v)
    BY <2>6, ReachStep, ReachTrans
  <2> QED BY <2>7, <1>5
<1> QED BY <1>4, <1>5

\* q is taken out between p and the node after q.
LEMMA ReachRemove ==
  ASSUME NEW nx \in NextT, Acyclic(nx), NEW p \in Nodes, NEW q \in Nodes, nx[p] = q,
         NEW mx \in NextT, mx[p] = nx[q], \A m \in Nodes : m # p => mx[m] = nx[m],
         NEW y \in Nodes \cup {Null}
  PROVE  /\ Reach(mx, y) \subseteq Reach(nx, y)
         /\ Reach(nx, y) \subseteq Reach(mx, y) \cup {q}
<1>0. Reach(nx, y) \in SUBSET Nodes /\ Reach(mx, y) \in SUBSET Nodes
  BY DEF Reach
<1>1. q # p
  BY ReachIn, CmapAssumption DEF Acyclic
<1>2. Closed(nx, Reach(nx, y)) /\ y \in Reach(nx, y) \cup {Null}
  BY ReachClosed, ReachIn
<1>3. Closed(mx, Reach(mx, y)) /\ y \in Reach(mx, y) \cup {Null}
  BY ReachClosed, ReachIn
<1>4. Closed(mx, Reach(nx, y))
  BY <1>0, <1>2, CmapAssumption DEF Closed
<1>5. Reach(mx, y) \subseteq Reach(nx, y)
  BY <1>0, <1>2, <1>4, ReachLeast
<1> DEFINE S == {n \in Nodes : n \in Reach(mx, y) \/ (n = q /\ p \in Reach(mx, y))}
<1>6. Closed(nx, S)
  BY <1>0, <1>1, <1>3 DEF Closed
<1>7. Reach(nx, y) \subseteq S
  BY <1>0, <1>3, <1>6, ReachLeast
<1> QED BY <1>5, <1>7

\* r takes the place of q after p.
LEMMA ReachReplace ==
  ASSUME NEW nx \in NextT, Acyclic(nx), NEW p \in Nodes, NEW q \in Nodes, nx[p] = q,
         NEW r \in Nodes, r # p,
         NEW mx \in NextT, mx[p] = r, mx[r] = nx[q],
         \A m \in Nodes : m # p /\ m # r => mx[m] = nx[m],
         NEW y \in Nodes \cup {Null}, r \notin Reach(nx, y)
  PROVE  /\ Reach(mx, y) \subseteq Reach(nx, y) \cup {r}
         /\ Reach(nx, y) \subseteq Reach(mx, y) \cup {q}
<1>0. Reach(nx, y) \in SUBSET Nodes /\ Reach(mx, y) \in SUBSET Nodes
  BY DEF Reach
<1>1. q # p
  BY ReachIn, CmapAssumption DEF Acyclic
<1>2. Closed(nx, Reach(nx, y)) /\ y \in Reach(nx, y) \cup {Null}
  BY ReachClosed, ReachIn
<1>3. Closed(mx, Reach(mx, y)) /\ y \in Reach(mx, y) \cup {Null}
  BY ReachClosed, ReachIn
<1> DEFINE T == {n \in Nodes : n \in Reach(nx, y) \/ (n = r /\ p \in Reach(nx, y))}
<1>4. Closed(mx, T)
  BY <1>0, <1>2, CmapAssumption DEF Closed
<1>5. Reach(mx, y) \subseteq T
  BY <1>0, <1>2, <1>4, ReachLeast
<1> DEFINE S == {n \in Reach(nx, y) : n \in Reach(mx, y) \/ (n = q /\ p \in Reach(mx, y))}
<1>6. Closed(nx, S)
  <2> SUFFICES ASSUME NEW m \in S, nx[m] # Null PROVE nx[m] \in S
    BY DEF Closed
  <2>1. m \in Nodes /\ m \in Reach(nx, y) /\ nx[m] \in Reach(nx, y) /\ m # r
    BY <1>0, <1>2 DEF Closed
  <2>2. CASE m = p
    BY <2>1, <2>2, <1>1
  <2>3. CASE m # p /\ m # q
    <3>1. m \in Reach(mx, y) /\ mx[m] = nx[m]
      BY <2>3, <2>1
    <3>2. mx[m] \in Reach(mx, y)
      BY <3>1, <1>3 DEF Closed
    <3> QED BY <3>1, <3>2, <2>1
  <2>4. CASE m = q /\ p \in Reach(mx, y)
    <3>1. r \in Reach(mx, y)
      BY <2>4, <1>3, CmapAssumption DEF Closed
    <3>2. nx[q] \in Reach(mx, y)
      BY <3>1, <2>4, <1>3 DEF Closed
    <3> QED BY <3>2, <2>4, <2>1
  <2>5. CASE m = q /\ m \in Reach(mx, y)
    <3>1. mx[m] = nx[m]
      BY <2>1, <2>5, <1>1
    <3>2. mx[m] \in Reach(mx, y)
      BY <3>1, <2>5, <1>3 DEF Closed
    <3> QED BY <3>1, <3>2, <2>1
  <2> QED BY <2>2, <2>3, <2>4, <2>5
<1>7. Reach(nx, y) \subseteq S
  <2>1. y \in S \cup {Null}
    BY <1>2, <1>3
  <2> QED BY <1>0, <2>1, <1>6, ReachLeast
<1> QED BY <1>5, <1>7

\* The chains of the nodes in L: no cycle, one hash in each, and each node is after
\* at most one other.
ChainsOK(nx, L) ==
  /\ nx \in NextT /\ L \subseteq Nodes /\ Acyclic(nx) /\ Closed(nx, L)
  /\ \A x \in L : nx[x] # Null => HashOf[nx[x]] = HashOf[x]
  /\ \A x, y \in L : nx[x] = nx[y] /\ nx[x] # Null => x = y

\* The chains of L start at the nodes in H.
HeadsOK(H, nx, L) ==
  /\ H \subseteq L
  /\ \A x \in H : \A y \in L : nx[y] # x
  /\ \A x \in L : \E y \in H : x \in Reach(nx, y)

\* The first nodes of the chains of im.
HeadSet(im) == {x \in Nodes : IsHead(im, x)}

\* A chain stays among the linked nodes and has a single hash.
LEMMA ChainHash ==
  ASSUME NEW nx, NEW L, ChainsOK(nx, L), NEW x \in L
  PROVE  Reach(nx, x) \subseteq L /\ \A y \in Reach(nx, x) : HashOf[y] = HashOf[x]
<1> DEFINE S == {y \in L : HashOf[y] = HashOf[x]}
<1>1. S \in SUBSET Nodes /\ Closed(nx, S) /\ x \in S
  BY DEF ChainsOK, Closed
<1> HIDE DEF S
<1>2. Reach(nx, x) \subseteq S
  BY <1>1, ReachLeast
<1> QED BY <1>2 DEF S

\* A new chain of one node.
LEMMA AddChain ==
  ASSUME NEW nx, NEW L, NEW H, ChainsOK(nx, L), HeadsOK(H, nx, L),
         NEW n \in Nodes, n \notin L, nx[n] = Null
  PROVE  ChainsOK(nx, L \cup {n}) /\ HeadsOK(H \cup {n}, nx, L \cup {n})
<1>1. n \in Reach(nx, n)
  BY ReachIn, CmapAssumption
<1>2. ChainsOK(nx, L \cup {n})
  BY DEF ChainsOK, Closed
<1>3. HeadsOK(H \cup {n}, nx, L \cup {n})
  BY <1>1, CmapAssumption DEF ChainsOK, HeadsOK, Closed
<1> QED BY <1>2, <1>3

\* A node that is put before the chain that starts at o, or on its own.
LEMMA AddHead ==
  ASSUME NEW nx, NEW L, NEW H, ChainsOK(nx, L), HeadsOK(H, nx, L),
         NEW n \in Nodes, n \notin L, NEW o \in H \cup {Null},
         o # Null => HashOf[o] = HashOf[n],
         NEW mx \in NextT, mx[n] = o, \A m \in Nodes : m # n => mx[m] = nx[m]
  PROVE  /\ ChainsOK(mx, L \cup {n})
         /\ HeadsOK((H \ {o}) \cup {n}, mx, L \cup {n})
<1>0. /\ nx \in NextT /\ L \subseteq Nodes /\ Acyclic(nx) /\ Closed(nx, L)
      /\ H \subseteq L /\ o \in L \cup {Null}
  BY DEF ChainsOK, HeadsOK
<1>1. \A x \in L : Reach(nx, x) \subseteq L /\ Reach(mx, x) = Reach(nx, x)
  <2> TAKE x \in L
  <2>1. Reach(nx, x) \subseteq L
    BY ChainHash
  <2> QED BY <2>1, <1>0, ReachSame
<1>2. n \notin Reach(nx, o)
  BY <1>0, <1>1, ReachNull
<1>3. Acyclic(mx)
  BY <1>0, <1>2, LinkAcyclic
<1>4. ChainsOK(mx, L \cup {n})
  <2>1. Closed(mx, L \cup {n})
    BY <1>0 DEF Closed
  <2>2. \A x \in L \cup {n} : mx[x] # Null => HashOf[mx[x]] = HashOf[x]
    BY <1>0 DEF ChainsOK
  <2>3. \A x, y \in L \cup {n} : mx[x] = mx[y] /\ mx[x] # Null => x = y
    BY <1>0 DEF ChainsOK, HeadsOK
  <2> QED BY <1>0, <1>3, <2>1, <2>2, <2>3 DEF ChainsOK
<1>5. n \in Reach(mx, n) /\ (o # Null => Reach(mx, o) \subseteq Reach(mx, n))
  BY <1>0, ReachStep, CmapAssumption
<1>6. \A x \in (H \ {o}) \cup {n} : \A y \in L \cup {n} : mx[y] # x
  BY <1>0, CmapAssumption DEF HeadsOK, Closed
<1>7. \A x \in L \cup {n} : \E y \in (H \ {o}) \cup {n} : x \in Reach(mx, y)
  <2> TAKE x \in L \cup {n}
  <2>1. CASE x = n
    BY <2>1, <1>5
  <2>2. CASE x \in L
    <3>1. PICK y \in H : x \in Reach(nx, y)
      BY <2>2 DEF HeadsOK
    <3>2. x \in Reach(mx, y)
      BY <3>1, <1>0, <1>1
    <3>3. CASE y = o
      BY <3>2, <3>3, <1>0, <1>5, CmapAssumption
    <3>4. CASE y # o
      BY <3>1, <3>2, <3>4
    <3> QED BY <3>3, <3>4
  <2> QED BY <2>1, <2>2
<1> QED BY <1>0, <1>4, <1>6, <1>7 DEF HeadsOK

\* The first node of a chain is removed.
LEMMA RemoveHead ==
  ASSUME NEW nx, NEW L, NEW H, ChainsOK(nx, L), HeadsOK(H, nx, L), NEW q \in H
  PROVE  /\ ChainsOK(nx, L \ {q})
         /\ HeadsOK((H \ {q}) \cup ({nx[q]} \ {Null}), nx, L \ {q})
<1>0. /\ nx \in NextT /\ L \subseteq Nodes /\ Acyclic(nx) /\ Closed(nx, L)
      /\ H \subseteq L /\ q \in L /\ q \in Nodes
  BY DEF ChainsOK, HeadsOK
<1>1. ChainsOK(nx, L \ {q})
  BY <1>0 DEF ChainsOK, HeadsOK, Closed
<1>2. nx[q] # q
  BY <1>0 DEF HeadsOK
<1>3. (H \ {q}) \cup ({nx[q]} \ {Null}) \subseteq L \ {q}
  BY <1>0, <1>2 DEF Closed
<1>4. \A x \in (H \ {q}) \cup ({nx[q]} \ {Null}) : \A y \in L \ {q} : nx[y] # x
  BY <1>0 DEF HeadsOK, ChainsOK
<1>5. Reach(nx, q) = {q} \cup Reach(nx, nx[q])
  BY <1>0, ReachStep
<1>6. \A x \in L \ {q} : \E y \in (H \ {q}) \cup ({nx[q]} \ {Null}) : x \in Reach(nx, y)
  <2> TAKE x \in L \ {q}
  <2>1. PICK y \in H : x \in Reach(nx, y)
    BY DEF HeadsOK
  <2>2. CASE y # q
    BY <2>1, <2>2
  <2>3. CASE y = q
    BY <2>1, <2>3, <1>5, ReachNull
  <2> QED BY <2>2, <2>3
<1> QED BY <1>1, <1>3, <1>4, <1>6 DEF HeadsOK

\* The first node of a chain is replaced.
LEMMA ReplaceHead ==
  ASSUME NEW nx, NEW L, NEW H, ChainsOK(nx, L), HeadsOK(H, nx, L), NEW q \in H,
         NEW r \in Nodes, r \notin L, HashOf[r] = HashOf[q],
         NEW mx \in NextT, mx[r] = nx[q], \A m \in Nodes : m # r => mx[m] = nx[m]
  PROVE  /\ ChainsOK(mx, (L \ {q}) \cup {r})
         /\ HeadsOK((H \ {q}) \cup {r}, mx, (L \ {q}) \cup {r})
<1>1. ChainsOK(nx, L \ {q}) /\ HeadsOK((H \ {q}) \cup ({nx[q]} \ {Null}), nx, L \ {q})
  BY RemoveHead
<1>2. nx \in NextT /\ q \in L /\ q \in Nodes /\ nx[q] \in L \cup {Null}
  BY DEF ChainsOK, HeadsOK, Closed
<1> DEFINE G == (H \ {q}) \cup ({nx[q]} \ {Null})
<1>3. nx[q] # Null => HashOf[nx[q]] = HashOf[r]
  BY <1>2 DEF ChainsOK
<1>4. nx[q] \in G \cup {Null} /\ (G \ {nx[q]}) \cup {r} = (H \ {q}) \cup {r}
  BY <1>2, CmapAssumption DEF HeadsOK, ChainsOK
<1> HIDE DEF G
<1>5. /\ ChainsOK(mx, (L \ {q}) \cup {r})
      /\ HeadsOK((G \ {nx[q]}) \cup {r}, mx, (L \ {q}) \cup {r})
  BY <1>1, <1>3, <1>4, AddHead DEF G
<1> QED BY <1>4, <1>5

\* A node after p is removed.
LEMMA RemoveInner ==
  ASSUME NEW nx, NEW L, NEW H, ChainsOK(nx, L), HeadsOK(H, nx, L), NEW p \in L, NEW q \in L,
         nx[p] = q, NEW mx \in NextT, mx[p] = nx[q], \A m \in Nodes : m # p => mx[m] = nx[m]
  PROVE  ChainsOK(mx, L \ {q}) /\ HeadsOK(H, mx, L \ {q})
<1>0. /\ nx \in NextT /\ L \subseteq Nodes /\ Acyclic(nx) /\ Closed(nx, L)
      /\ H \subseteq L /\ q \in Nodes /\ p \in Nodes
  BY DEF ChainsOK, HeadsOK
<1>1. Reach(nx, q) = {q} \cup Reach(nx, nx[q]) /\ q \notin Reach(nx, nx[q])
  BY <1>0, ReachStep DEF Acyclic
<1>2. p \notin Reach(nx, nx[q])
  BY <1>0, <1>1, ReachClosed, CmapAssumption DEF Closed
<1>3. nx[q] \in Nodes \cup {Null} /\ nx[q] # q
  BY <1>0, <1>1, ReachIn, CmapAssumption DEF NextT
<1>4. Acyclic(mx)
  BY <1>0, <1>2, <1>3, LinkAcyclic
<1>5. \A x \in L : x # p => nx[x] # q
  BY <1>0, CmapAssumption DEF ChainsOK
<1>6. ChainsOK(mx, L \ {q})
  <2>1. Closed(mx, L \ {q})
    BY <1>0, <1>3, <1>5 DEF Closed
  <2>2. \A x \in L \ {q} : mx[x] # Null => HashOf[mx[x]] = HashOf[x]
    <3> TAKE x \in L \ {q}
    <3>1. CASE x = p
      <4>1. HashOf[q] = HashOf[p] /\ (nx[q] # Null => HashOf[nx[q]] = HashOf[q])
        BY <1>0, CmapAssumption DEF ChainsOK
      <4> QED BY <4>1, <3>1
    <3>2. CASE x # p
      BY <3>2, <1>0 DEF ChainsOK
    <3> QED BY <3>1, <3>2
  <2>3. \A x, y \in L \ {q} : mx[x] = mx[y] /\ mx[x] # Null => x = y
    BY <1>0 DEF ChainsOK
  <2> QED BY <1>0, <1>4, <2>1, <2>2, <2>3 DEF ChainsOK
<1>7. q \notin H
  BY DEF HeadsOK
<1>8. \A x \in H : \A y \in L \ {q} : mx[y] # x
  BY <1>0 DEF HeadsOK
<1>9. \A x \in L \ {q} : \E y \in H : x \in Reach(mx, y)
  <2> TAKE x \in L \ {q}
  <2>1. PICK y \in H : x \in Reach(nx, y)
    BY DEF HeadsOK
  <2>2. Reach(nx, y) \subseteq Reach(mx, y) \cup {q}
    BY <1>0, ReachRemove
  <2> QED BY <2>1, <2>2
<1> QED BY <1>0, <1>6, <1>7, <1>8, <1>9 DEF HeadsOK

\* A node after p is replaced.
LEMMA ReplaceInner ==
  ASSUME NEW nx, NEW L, NEW H, ChainsOK(nx, L), HeadsOK(H, nx, L), NEW p \in L, NEW q \in L,
         nx[p] = q, NEW r \in Nodes, r \notin L, HashOf[r] = HashOf[q],
         NEW mx \in NextT, mx[p] = r, mx[r] = nx[q],
         \A m \in Nodes : m # p /\ m # r => mx[m] = nx[m]
  PROVE  ChainsOK(mx, (L \ {q}) \cup {r}) /\ HeadsOK(H, mx, (L \ {q}) \cup {r})
<1>0. /\ nx \in NextT /\ L \subseteq Nodes /\ Acyclic(nx) /\ Closed(nx, L)
      /\ H \subseteq L /\ q \in Nodes /\ p \in Nodes /\ r # p /\ r # q /\ r # Null
  BY CmapAssumption DEF ChainsOK, HeadsOK
<1>1. Reach(nx, q) = {q} \cup Reach(nx, nx[q]) /\ q \notin Reach(nx, nx[q])
  BY <1>0, ReachStep DEF Acyclic
<1>2. p \notin Reach(nx, nx[q]) /\ p # q
  BY <1>0, <1>1, ReachClosed, ReachIn, CmapAssumption DEF Closed
<1>3. nx[q] \in L \cup {Null} /\ nx[q] # q
  BY <1>0, <1>1, ReachIn, CmapAssumption DEF Closed
<1> DEFINE lx == [nx EXCEPT ![r] = nx[q]]
<1>4. lx \in NextT /\ lx[r] = nx[q] /\ \A m \in Nodes : m # r => lx[m] = nx[m]
  BY <1>0, <1>3 DEF NextT
<1>5. r \notin Reach(nx, nx[q])
  BY <1>3, ChainHash, ReachNull
<1> HIDE DEF lx
<1>6. Acyclic(lx) /\ Reach(lx, nx[q]) = Reach(nx, nx[q])
  <2>1. nx[q] \in Nodes \cup {Null}
    BY <1>0, <1>3
  <2>2. Acyclic(lx)
    BY <1>0, <1>4, <1>5, <2>1, LinkAcyclic
  <2>3. Reach(nx, nx[q]) \subseteq Nodes
    BY DEF Reach
  <2> QED BY <1>0, <1>4, <1>5, <2>1, <2>2, <2>3, ReachSame
<1>7. p \notin Reach(lx, r)
  BY <1>0, <1>2, <1>4, <1>6, ReachStep
<1>8. Acyclic(mx)
  <2>1. \A m \in Nodes : m # p => mx[m] = lx[m]
    BY <1>4
  <2> QED BY <1>0, <1>4, <1>6, <1>7, <2>1, LinkAcyclic
<1>9. \A x \in L : x # p => nx[x] # q
  BY <1>0, CmapAssumption DEF ChainsOK
<1> DEFINE M == (L \ {q}) \cup {r}
<1>10. ChainsOK(mx, M)
  <2>1. Closed(mx, M)
    BY <1>0, <1>3, <1>9 DEF Closed
  <2>2. \A x \in M : mx[x] # Null => HashOf[mx[x]] = HashOf[x]
    <3> TAKE x \in M
    <3>0. HashOf[q] = HashOf[p] /\ (nx[q] # Null => HashOf[nx[q]] = HashOf[q])
      BY <1>0, CmapAssumption DEF ChainsOK
    <3>1. CASE x = p \/ x = r
      BY <3>0, <3>1
    <3>2. CASE x # p /\ x # r
      BY <3>2, <1>0 DEF ChainsOK
    <3> QED BY <3>1, <3>2
  <2>3. \A x, y \in M : mx[x] = mx[y] /\ mx[x] # Null => x = y
    <3> TAKE x, y \in M
    <3>1. HAVE mx[x] = mx[y] /\ mx[x] # Null
    <3>2. \A z \in L : nx[z] # r
      BY <1>0 DEF Closed
    <3>3. CASE x = p \/ y = p
      BY <3>1, <3>2, <3>3, <1>0, <1>3, <1>5
    <3>4. CASE x # p /\ y # p /\ x # r /\ y # r
      BY <3>1, <3>4, <1>0 DEF ChainsOK
    <3>5. CASE x # p /\ y # p /\ (x = r \/ y = r)
      BY <3>1, <3>5, <1>0 DEF ChainsOK
    <3> QED BY <3>3, <3>4, <3>5
  <2> QED BY <1>0, <1>8, <2>1, <2>2, <2>3 DEF ChainsOK
<1>11. q \notin H
  BY DEF HeadsOK
<1>12. \A x \in H : \A y \in M : mx[y] # x
  BY <1>0 DEF HeadsOK
<1>13. \A x \in M : \E y \in H : x \in Reach(mx, y)
  <2>0. ASSUME NEW y \in H PROVE Reach(nx, y) \subseteq Reach(mx, y) \cup {q}
    <3>1. y \in Nodes /\ r \notin Reach(nx, y)
      BY <1>0, ChainHash
    <3> QED BY <1>0, <3>1, ReachReplace
  <2>1. ASSUME NEW x \in L, x # q PROVE \E y \in H : x \in Reach(mx, y)
    <3>1. PICK y \in H : x \in Reach(nx, y)
      BY DEF HeadsOK
    <3> QED BY <3>1, <2>0, <2>1
  <2>2. PICK y \in H : p \in Reach(mx, y)
    BY <2>1, <1>2
  <2>3. r \in Reach(mx, y)
    BY <2>2, <1>0, ReachClosed DEF Closed
  <2> QED BY <2>1, <2>3
<1> QED BY <1>0, <1>10, <1>11, <1>12, <1>13 DEF HeadsOK

-----------------------------------------------------------------------------
(* The writer's invariant, and the tables it speaks of. *)

\* The cmap_impls of any mask.
ImplSet == UNION {Table(m) : m \in Nat}

\* The type of a store that cmap_set_bucket() is still to make.
PlannedT == [b : Nat, i : Slots, node : Nodes, hash : Hashes, dup : {FALSE}]

\* The writer is inside cmap_set_bucket().
Storing == {"odd", "node", "hash", "even"}

\* The writer is inside cmap_insert().
Inserting == {"expand", "try"} \cup Storing

\* The writer is between two changes of the published table.
Resting == {"idle", "shrink", "replace", "expand", "try"}

\* The type of the writer's locals.
WriterT == [pc : Storing \cup Resting, node : Nodes \cup {Null}, new : Nodes \cup {Null},
            todo : Seq(PlannedT)]

\* ImplSet is the set of the well-typed cmap_impls.
LEMMA ImplSetIs ==
  ASSUME NEW im
  PROVE  im \in ImplSet <=> IsImpl(im)
<1>1. ASSUME NEW m \in Nat, im \in Table(m) PROVE IsImpl(im)
  <2>1. im.mask = m
    BY <1>1 DEF Table
  <2> QED BY <1>1, <2>1 DEF IsImpl
<1>2. IsImpl(im) => im \in ImplSet
  BY DEF IsImpl, ImplSet
<1> QED BY <1>1, <1>2 DEF ImplSet

\* A sequence with one member changed.
LEMMA SeqSet ==
  ASSUME NEW S, NEW s \in Seq(S), NEW k \in 1 .. Len(s), NEW v \in S
  PROVE  /\ [s EXCEPT ![k] = v] \in Seq(S) /\ Len([s EXCEPT ![k] = v]) = Len(s)
         /\ [s EXCEPT ![k] = v][k] = v
         /\ \A j \in 1 .. Len(s) : j # k => [s EXCEPT ![k] = v][j] = s[j]
  OBVIOUS

\* im with a node stored.
PutNode(im, b, i, x) == [im EXCEPT !.nodes = [im.nodes EXCEPT ![b] = [im.nodes[b] EXCEPT ![i] = x]]]

\* The table after the store of a node.
LEMMA WithNode ==
  ASSUME NEW im, IsImpl(im), NEW b \in 0 .. im.mask, NEW i \in Slots, NEW x \in Nodes \cup {Null},
         NEW cur, cur = PutNode(im, b, i, x)
  PROVE  /\ IsImpl(cur) /\ cur.mask = im.mask /\ cur.basis = im.basis /\ cur.n = im.n
         /\ cur.counter = im.counter /\ cur.hashes = im.hashes
         /\ cur.nodes[b][i] = x
         /\ \A c \in 0 .. im.mask : \A j \in Slots :
              c # b \/ j # i => cur.nodes[c][j] = im.nodes[c][j]
<1> DEFINE B == [im.nodes[b] EXCEPT ![i] = x]
           N == [im.nodes EXCEPT ![b] = B]
<1>0. im.mask \in Nat /\ im \in Table(im.mask)
  BY DEF IsImpl
<1>1. im.nodes \in [0 .. im.mask -> [Slots -> Nodes \cup {Null}]]
  BY ImplFacts
<1>2. im.nodes[b] \in [Slots -> Nodes \cup {Null}]
  BY <1>1
<1>3. /\ B \in [Slots -> Nodes \cup {Null}] /\ B[i] = x
      /\ \A j \in Slots : j # i => B[j] = im.nodes[b][j]
  BY <1>2, ExceptIn
<1> HIDE DEF B
<1>4. /\ N \in [0 .. im.mask -> [Slots -> Nodes \cup {Null}]] /\ N[b] = B
      /\ \A c \in 0 .. im.mask : c # b => N[c] = im.nodes[c]
  BY <1>1, <1>3, ExceptIn
<1>5. cur = [im EXCEPT !.nodes = N]
  BY DEF B, PutNode
<1> HIDE DEF N
<1>6. /\ cur \in Table(im.mask) /\ cur.mask = im.mask /\ cur.basis = im.basis /\ cur.n = im.n
      /\ cur.counter = im.counter /\ cur.hashes = im.hashes /\ cur.nodes = N
  BY <1>0, <1>4, <1>5 DEF Table
<1>7. IsImpl(cur)
  BY <1>0, <1>6 DEF IsImpl
<1> QED BY <1>3, <1>4, <1>6, <1>7

\* im with a hash stored.
PutHash(im, b, i, x) == [im EXCEPT !.hashes = [im.hashes EXCEPT ![b] = [im.hashes[b] EXCEPT ![i] = x]]]

\* The table after the store of a hash.
LEMMA WithHash ==
  ASSUME NEW im, IsImpl(im), NEW b \in 0 .. im.mask, NEW i \in Slots, NEW x \in Hashes \cup {0},
         NEW cur, cur = PutHash(im, b, i, x)
  PROVE  /\ IsImpl(cur) /\ cur.mask = im.mask /\ cur.basis = im.basis /\ cur.n = im.n
         /\ cur.counter = im.counter /\ cur.nodes = im.nodes
         /\ cur.hashes[b][i] = x
         /\ \A c \in 0 .. im.mask : \A j \in Slots :
              c # b \/ j # i => cur.hashes[c][j] = im.hashes[c][j]
<1> DEFINE B == [im.hashes[b] EXCEPT ![i] = x]
           N == [im.hashes EXCEPT ![b] = B]
<1>0. im.mask \in Nat /\ im \in Table(im.mask)
  BY DEF IsImpl
<1>1. im.hashes \in [0 .. im.mask -> [Slots -> Hashes \cup {0}]]
  BY ImplFacts
<1>2. im.hashes[b] \in [Slots -> Hashes \cup {0}]
  BY <1>1
<1>3. /\ B \in [Slots -> Hashes \cup {0}] /\ B[i] = x
      /\ \A j \in Slots : j # i => B[j] = im.hashes[b][j]
  BY <1>2, ExceptIn
<1> HIDE DEF B
<1>4. /\ N \in [0 .. im.mask -> [Slots -> Hashes \cup {0}]] /\ N[b] = B
      /\ \A c \in 0 .. im.mask : c # b => N[c] = im.hashes[c]
  BY <1>1, <1>3, ExceptIn
<1>5. cur = [im EXCEPT !.hashes = N]
  BY DEF B, PutHash
<1> HIDE DEF N
<1>6. /\ cur \in Table(im.mask) /\ cur.mask = im.mask /\ cur.basis = im.basis /\ cur.n = im.n
      /\ cur.counter = im.counter /\ cur.nodes = im.nodes /\ cur.hashes = N
  BY <1>0, <1>4, <1>5 DEF Table
<1>7. IsImpl(cur)
  BY <1>0, <1>6 DEF IsImpl
<1> QED BY <1>3, <1>4, <1>6, <1>7

\* im with a counter incremented.
PutCounter(im, b) == [im EXCEPT !.counter = [im.counter EXCEPT ![b] = im.counter[b] + 1]]

\* The table after the increment of a counter.
LEMMA WithCounter ==
  ASSUME NEW im, IsImpl(im), NEW b \in 0 .. im.mask,
         NEW cur, cur = PutCounter(im, b)
  PROVE  /\ IsImpl(cur) /\ cur.mask = im.mask /\ cur.basis = im.basis /\ cur.n = im.n
         /\ cur.nodes = im.nodes /\ cur.hashes = im.hashes
         /\ cur.counter[b] = im.counter[b] + 1
         /\ \A c \in 0 .. im.mask : c # b => cur.counter[c] = im.counter[c]
<1> DEFINE N == [im.counter EXCEPT ![b] = im.counter[b] + 1]
<1>0. im.mask \in Nat /\ im \in Table(im.mask)
  BY DEF IsImpl
<1>1. im.counter \in [0 .. im.mask -> Nat]
  BY ImplFacts
<1>2. im.counter[b] + 1 \in Nat
  <2>1. im.counter[b] \in Nat
    BY <1>1, Zenon
  <2> QED BY <2>1
<1>4. /\ N \in [0 .. im.mask -> Nat] /\ N[b] = im.counter[b] + 1
      /\ \A c \in 0 .. im.mask : c # b => N[c] = im.counter[c]
  BY <1>1, <1>2, ExceptIn
<1>5. cur = [im EXCEPT !.counter = N]
  BY DEF PutCounter
<1> HIDE DEF N
<1>6. /\ cur \in Table(im.mask) /\ cur.mask = im.mask /\ cur.basis = im.basis /\ cur.n = im.n
      /\ cur.nodes = im.nodes /\ cur.hashes = im.hashes /\ cur.counter = N
  BY <1>0, <1>4, <1>5 DEF Table
<1>7. IsImpl(cur)
  BY <1>0, <1>6 DEF IsImpl
<1> QED BY <1>4, <1>6, <1>7

\* The table after a change of the count of nodes.
LEMMA WithN ==
  ASSUME NEW im, IsImpl(im), NEW n \in Int, NEW cur, cur = [im EXCEPT !.n = n]
  PROVE  /\ IsImpl(cur) /\ cur.mask = im.mask /\ cur.basis = im.basis /\ cur.n = n
         /\ cur.nodes = im.nodes /\ cur.hashes = im.hashes /\ cur.counter = im.counter
<1>0. im.mask \in Nat /\ im \in Table(im.mask)
  BY DEF IsImpl
<1>1. /\ cur \in Table(im.mask) /\ cur.mask = im.mask /\ cur.basis = im.basis /\ cur.n = n
      /\ cur.nodes = im.nodes /\ cur.hashes = im.hashes /\ cur.counter = im.counter
  BY <1>0 DEF Table
<1> QED BY <1>0, <1>1 DEF IsImpl

\* The count of nodes is no part of what the table is.
LEMMA SameTable ==
  ASSUME NEW im, NEW cur, cur.mask = im.mask, cur.basis = im.basis,
         cur.nodes = im.nodes, cur.hashes = im.hashes
  PROVE  /\ GoodTable(im) => GoodTable(cur)
         /\ HeadSet(cur) = HeadSet(im)
         /\ \A old, plan, a, c : MidOK(old, plan, a, c, im) /\ IsImpl(cur) => MidOK(old, plan, a, c, cur)
<1>1. \A h : Bucket1(cur, h) = Bucket1(im, h) /\ Bucket2(cur, h) = Bucket2(im, h)
  BY DEF Bucket1, Bucket2
<1>2. GoodTable(im) => GoodTable(cur)
  BY <1>1 DEF GoodTable, GoodSlot
<1>3. HeadSet(cur) = HeadSet(im)
  BY DEF HeadSet, IsHead
<1>4. \A old, plan, a, c : MidOK(old, plan, a, c, im) /\ IsImpl(cur) => MidOK(old, plan, a, c, cur)
  BY DEF MidOK
<1> QED BY <1>2, <1>3, <1>4

\* The nodes that the table links: the contents, and one that is being removed.
Linked == contents \cup ({w.node} \ {Null})

\* The cmap_impls are well typed, and the newest is the published one.
ImplsOK == impls \in Seq(ImplSet) /\ cmap = Len(impls) /\ cmap \in Nat \ {0}

\* The nodes the writer is working on: one that it inserts is neither in the map
\* nor retired and ends its chain; one that it removes is still linked.
WriterOK ==
  /\ w \in WriterT
  /\ w.pc \in {"idle", "shrink"} => w.node = Null /\ w.new = Null
  /\ w.pc \in Inserting =>
       w.node = Null /\ w.new \in Nodes \ (contents \cup retired) /\ next[w.new] = Null
  /\ w.pc = "replace" =>
       /\ w.node \in Nodes \ (contents \cup retired)
       /\ w.new # Null => /\ w.new \in Nodes \ (contents \cup retired)
                          /\ w.new # w.node /\ HashOf[w.new] = HashOf[w.node]

\* impl->n counts the nodes, and is within the limits that each phase of a call has
\* checked.
CountOK ==
  /\ IsFiniteSet(contents)
  /\ Impl.n = Cardinality(contents) + (IF w.pc = "replace" THEN 1 ELSE 0)
  /\ Impl.n <= calc_max_n(Impl.mask)
  /\ w.pc \in {"try"} \cup Storing => Impl.n < calc_max_n(Impl.mask)
  /\ w.pc = "shrink" => Impl.n < calc_min_n(Impl.mask)

\* Between two changes every linked node is in a chain that a search finds.
RestOK == GoodTable(Impl) /\ Even(Impl) /\ HeadsOK(HeadSet(Impl), next, Linked)

\* The first j stores of the plan are done, the next one has come as far as w.pc says.
NodesDone(j) == IF w.pc \in {"hash", "even"} THEN j + 1 ELSE j

\* The hashes that are stored.
HashesDone(j) == IF w.pc = "even" THEN j + 1 ELSE j

\* The published table is in the middle of the plan: old before it, its first j
\* stores made, a single counter odd.
MidAt(old, plan, j) ==
  /\ IsImpl(old) /\ GoodTable(old) /\ HeadsOK(HeadSet(old), next, Linked)
  /\ PlanOK(old, plan, w.new, HashOf[w.new])
  /\ j \in Nat /\ j + 1 \in 1 .. Len(plan) /\ w.todo = SubSeq(plan, j + 1, Len(plan))
  /\ MidOK(old, plan, NodesDone(j), HashesDone(j), Impl)
  /\ \A b \in 0 .. Impl.mask :
       (Impl.counter[b] % 2 = 1) <=> (w.pc \in {"node", "hash", "even"} /\ plan[j + 1].b = b)

\* The inductive invariant of the writer.
MapOK ==
  /\ ImplsOK /\ WriterOK /\ CountOK
  /\ retired \subseteq Nodes /\ contents \subseteq Nodes \ retired /\ ops \in 0 .. MaxOps
  /\ ChainsOK(next, Linked)
  /\ w.pc \in Resting => RestOK
  /\ w.pc \in Storing => \E old, plan, j : MidAt(old, plan, j)

-----------------------------------------------------------------------------
(* Every step of the writer keeps the invariant. *)

\* Products of natural numbers grow with their factors.
LEMMA Times ==
  \A x, y, z \in Nat : x <= y => x * z \in Nat /\ y * z \in Nat /\ x * z <= y * z /\ z * x <= z * y
<1> TAKE x, y, z \in Nat
<1>1. HAVE x <= y
<1>2. PICK d \in Nat : y = x + d
  BY <1>1
<1>3. (x + d) * z = x * z + d * z /\ x * z \in Nat /\ d * z \in Nat
  OBVIOUS
<1>4. z * x = x * z /\ z * y = y * z
  OBVIOUS
<1> QED BY <1>2, <1>3, <1>4

\* The limits of the load, and what they are for twice and half as many buckets.
LEMMA Limits ==
  ASSUME NEW mask \in Nat
  PROVE  /\ calc_max_n(mask) \in Nat /\ calc_min_n(mask) \in Nat
         /\ calc_max_n(mask) < calc_max_n(2 * mask + 1)
         /\ calc_min_n(mask) <= calc_max_n(mask \div 2)
         /\ 2 * mask + 1 \in Nat /\ mask \div 2 \in Nat
<1>0. K \in Nat /\ K >= 1 /\ MaxLoad \in Nat /\ MinLoad \in Nat /\ MinLoad >= 1
      /\ 2 * MinLoad < MaxLoad /\ K * MaxLoad >= 100
  BY CmapAssumption
<1>1. PICK half \in Nat : half = mask \div 2 /\ mask + 1 <= 2 * (half + 1)
  OBVIOUS
<1>2. PICK a \in Nat : a = K * MaxLoad /\ a >= 100
  BY <1>0
<1>3. PICK c \in Nat : c = K * MinLoad /\ c >= 1
  <2>1. 1 <= K * MinLoad
    BY <1>0, Times
  <2> QED BY <2>1, <1>0
<1>4. 2 * c <= a
  <2>1. K * (2 * MinLoad) <= K * MaxLoad
    BY <1>0, Times
  <2>2. K * (2 * MinLoad) = 2 * (K * MinLoad)
    BY <1>0
  <2> QED BY <2>1, <2>2, <1>2, <1>3
<1>5. \A m \in Nat : (m + 1) * K * MaxLoad = (m + 1) * a /\ (m + 1) * K * MinLoad = (m + 1) * c
  BY <1>0, <1>2, <1>3
<1>6. PICK A \in Nat : A = (mask + 1) * a /\ A >= a
  <2>1. 1 * a <= (mask + 1) * a
    BY Times
  <2> QED BY <2>1
<1>7. (2 * mask + 1 + 1) * a = 2 * A
  BY <1>6
<1>8. PICK C \in Nat : C = (mask + 1) * c /\ C >= 1
  <2>1. 1 * c <= (mask + 1) * c
    BY Times
  <2> QED BY <2>1, <1>3
<1>9. PICK B \in Nat : B = (half + 1) * a /\ B >= C
  <2>1. (mask + 1) * c <= (2 * (half + 1)) * c
    BY <1>1, Times
  <2>2. (half + 1) * (2 * c) <= (half + 1) * a
    BY <1>4, Times
  <2>3. (2 * (half + 1)) * c = (half + 1) * (2 * c)
    OBVIOUS
  <2> QED BY <2>1, <2>2, <2>3, <1>8
<1>10. /\ calc_max_n(mask) = (A - 1) \div 100 /\ calc_min_n(mask) = (C - 1) \div 100
       /\ calc_max_n(2 * mask + 1) = (2 * A - 1) \div 100
       /\ calc_max_n(mask \div 2) = (B - 1) \div 100
  BY <1>1, <1>5, <1>6, <1>7, <1>8, <1>9 DEF calc_max_n, calc_min_n
<1>11. \A x, y \in Nat : x >= 1 /\ x <= y => (x - 1) \div 100 \in Nat /\ (x - 1) \div 100 <= (y - 1) \div 100
  OBVIOUS
<1>12. \A x \in Nat : x >= 100 => (x - 1) \div 100 < (2 * x - 1) \div 100
  OBVIOUS
<1>13. A >= 100 /\ A >= 1
  BY <1>2, <1>6
<1>14. (A - 1) \div 100 \in Nat /\ (C - 1) \div 100 \in Nat
  BY <1>8, <1>11, <1>13
<1> QED BY <1>1, <1>8, <1>9, <1>10, <1>11, <1>12, <1>13, <1>14

\* The map at the start.
LEMMA InitOK ==
  Init => MapOK
<1> SUFFICES ASSUME Init PROVE MapOK
  OBVIOUS
<1>1. PICK basis \in Bases : impls = <<cmap_impl_create(0, basis)>>
  BY DEF Init
<1> DEFINE im == cmap_impl_create(0, basis)
<1>2. Fresh(im, 0, basis) /\ \A x \in Nodes : ~IsHead(im, x)
  BY Created
<1> HIDE DEF im
<1>3. impls = <<im>> /\ cmap = 1
  BY <1>1 DEF im, Init
<1>4. im \in ImplSet /\ im.n = 0 /\ im.mask = 0 /\ GoodTable(im) /\ Even(im)
  BY <1>2, ImplSetIs DEF Fresh
<1>5. Impl = im /\ ImplsOK
  BY <1>3, <1>4 DEF Impl, ImplsOK
<1>6. /\ contents = {} /\ retired = {} /\ ops = 0 /\ next = [n \in Nodes |-> Null]
      /\ w = [pc |-> "idle", node |-> Null, new |-> Null, todo |-> <<>>]
  BY DEF Init, IdleWriter
<1>7. WriterOK
  BY <1>6 DEF WriterOK, WriterT, Storing, Resting, Inserting
<1>8. CountOK
  <2>1. IsFiniteSet({}) /\ Cardinality({}) = 0
    BY FS_EmptySet
  <2>2. calc_max_n(0) \in Nat
    BY Limits
  <2>3. w.pc = "idle"
    BY <1>6
  <2> QED BY <1>4, <1>5, <1>6, <2>1, <2>2, <2>3 DEF CountOK, Storing
<1>9. Linked = {}
  BY <1>6 DEF Linked
<1>10. ChainsOK(next, Linked)
  <2>1. next \in NextT
    BY <1>6 DEF NextT
  <2>2. Acyclic(next)
    BY <1>6, ReachNull DEF Acyclic
  <2> QED BY <1>9, <2>1, <2>2 DEF ChainsOK, Closed
<1>11. RestOK
  <2>1. HeadSet(Impl) = {}
    BY <1>2, <1>5 DEF HeadSet
  <2> QED BY <1>4, <1>5, <1>9, <2>1 DEF RestOK, HeadsOK
<1>12. ops \in 0 .. MaxOps
  BY <1>6, CmapAssumption
<1> QED BY <1>5, <1>6, <1>7, <1>8, <1>10, <1>11, <1>12 DEF MapOK, Storing

\* Facts of the writer's state that every step starts from.
LEMMA ImplIs ==
  ASSUME ImplsOK
  PROVE  /\ cmap \in 1 .. Len(impls) /\ Len(impls) \in Nat /\ Impl \in ImplSet /\ IsImpl(Impl)
         /\ Impl.mask \in Nat /\ Impl.n \in Int
<1>1. cmap \in 1 .. Len(impls) /\ Len(impls) \in Nat
  BY DEF ImplsOK
<1>2. Impl \in ImplSet
  BY <1>1, SeqElem DEF ImplsOK, Impl
<1> QED BY <1>1, <1>2, ImplSetIs, ImplFacts

\* cmap_rehash() publishes a cmap_impl with the same chains.
LEMMA Rehashed ==
  ASSUME ImplsOK, GoodTable(Impl), NEW mask \in Nat, cmap_rehash(mask)
  PROVE  /\ ImplsOK' /\ IsImpl(Impl') /\ GoodTable(Impl') /\ Even(Impl')
         /\ HeadSet(Impl') = HeadSet(Impl) /\ Impl'.n = Impl.n /\ Impl'.mask = mask
<1>0. IsImpl(Impl) /\ Impl.n \in Int
  BY ImplIs
<1>1. PICK basis \in Bases :
        LET im == cmap_try_rehash(Impl, cmap_impl_create(mask, basis)) IN
        /\ im # NoImpl
        /\ impls' = Append(IF Quiet THEN <<>> ELSE impls, [im EXCEPT !.n = Impl.n])
        /\ cmap' = Len(impls')
  BY DEF cmap_rehash
<1> DEFINE im == cmap_try_rehash(Impl, cmap_impl_create(mask, basis))
           cur == [im EXCEPT !.n = Impl.n]
           before == IF Quiet THEN <<>> ELSE impls
<1>2. Fresh(im, mask, basis) /\ \A x \in Nodes : IsHead(im, x) <=> IsHead(Impl, x)
  BY <1>0, <1>1, Rehash
<1>3. impls' = Append(before, cur) /\ cmap' = Len(impls')
  BY <1>1
<1> HIDE DEF im, cur, before
<1>4. /\ IsImpl(cur) /\ cur.mask = im.mask /\ cur.basis = im.basis /\ cur.n = Impl.n
      /\ cur.nodes = im.nodes /\ cur.hashes = im.hashes /\ cur.counter = im.counter
  BY <1>0, <1>2, WithN DEF cur, Fresh
<1>5. GoodTable(cur) /\ HeadSet(cur) = HeadSet(im)
  BY <1>4, <1>2, SameTable DEF Fresh
<1>6. Even(cur)
  BY <1>4, <1>2 DEF Fresh, Even
<1>7. before \in Seq(ImplSet) /\ cur \in ImplSet
  BY <1>4, ImplSetIs DEF before, ImplsOK
<1>8. /\ impls' \in Seq(ImplSet) /\ Len(impls') = Len(before) + 1 /\ impls'[Len(impls')] = cur
      /\ Len(before) \in Nat
  BY <1>3, <1>7
<1>9. ImplsOK' /\ Impl' = cur
  BY <1>3, <1>8 DEF ImplsOK, Impl
<1>10. HeadSet(im) = HeadSet(Impl)
  BY <1>2 DEF HeadSet
<1> QED BY <1>2, <1>4, <1>5, <1>6, <1>9, <1>10 DEF Fresh

\* A call is made between two calls, and counted.
LEMMA NextCallOps ==
  ASSUME NEW c, ops \in 0 .. MaxOps, NextCall(c)
  PROVE  w.pc = "idle" /\ ops' \in 0 .. MaxOps
  BY CmapAssumption DEF NextCall

\* cmap_insert() is called: the node is not in the map, and the table has room, or
\* is going to be enlarged.
LEMMA InsertCallOK ==
  ASSUME MapOK, NEW n \in Nodes, InsertCall(n)
  PROVE  MapOK'
<1>1. /\ w.pc = "idle" /\ ops' \in 0 .. MaxOps
      /\ n \notin contents \cup retired
      /\ next' = [next EXCEPT ![n] = Null]
      /\ impls' = impls /\ cmap' = cmap /\ retired' = retired /\ contents' = contents
  BY NextCallOps DEF InsertCall, MapOK, Unused
<1> DEFINE pc == IF Impl.n >= calc_max_n(Impl.mask) THEN "expand" ELSE "try"
<1>2. w' = [pc |-> pc, node |-> Null, new |-> n, todo |-> <<>>]
  BY DEF InsertCall, IdleWriter
<1> HIDE DEF pc
<1>3. w'.pc = pc /\ w'.node = Null /\ w'.new = n /\ w'.todo = <<>> /\ pc \in {"expand", "try"}
  BY <1>2 DEF pc
<1>4. w' \in WriterT
  BY <1>2, <1>3 DEF WriterT, Resting
<1>5. ImplsOK' /\ Impl' = Impl
  BY <1>1 DEF MapOK, ImplsOK, Impl
<1>6. w.node = Null /\ Linked = contents /\ Linked' = contents
  BY <1>1, <1>3 DEF MapOK, WriterOK, Linked
<1>7. next \in NextT /\ next' \in NextT /\ next'[n] = Null /\ \A m \in Nodes : m # n => next'[m] = next[m]
  BY <1>1 DEF MapOK, ChainsOK, NextT
<1>8. Acyclic(next')
  BY <1>7, ReachNull, LinkAcyclic DEF MapOK, ChainsOK
<1>9. \A x \in contents : next'[x] = next[x]
  BY <1>1, <1>7 DEF MapOK
<1>10. ChainsOK(next', contents)
  BY <1>6, <1>7, <1>8, <1>9 DEF MapOK, ChainsOK, Closed
<1>11. RestOK'
  <2>1. GoodTable(Impl) /\ Even(Impl) /\ HeadsOK(HeadSet(Impl), next, contents)
    BY <1>1, <1>6 DEF MapOK, RestOK, Resting
  <2>2. \A x \in contents : Reach(next', x) = Reach(next, x)
    <3> TAKE x \in contents
    <3>1. Reach(next, x) \subseteq contents /\ x \in Nodes
      BY <1>6, ChainHash DEF MapOK
    <3> QED BY <3>1, <1>7, <1>9, ReachSame
  <2>3. HeadsOK(HeadSet(Impl), next', contents)
    BY <2>1, <2>2, <1>9 DEF HeadsOK
  <2> QED BY <2>1, <2>3, <1>5, <1>6 DEF RestOK
<1>12. WriterOK'
  BY <1>1, <1>3, <1>4, <1>7 DEF WriterOK, Inserting
<1>13. CountOK'
  <2>1. IsFiniteSet(contents) /\ Impl.n = Cardinality(contents) /\ Impl.n <= calc_max_n(Impl.mask)
    <3>1. Impl.n \in Int /\ IsFiniteSet(contents) /\ Impl.n = Cardinality(contents) + 0 /\ Impl.n <= calc_max_n(Impl.mask)
      BY <1>1, ImplIs DEF MapOK, CountOK
    <3>2. Cardinality(contents) \in Nat
      BY <3>1, FS_CardinalityType
    <3> QED BY <3>1, <3>2
  <2>2. pc = "try" => Impl.n < calc_max_n(Impl.mask)
    <3>1. Impl.n \in Int /\ calc_max_n(Impl.mask) \in Nat
      BY ImplIs, Limits DEF MapOK
    <3> QED BY <3>1 DEF pc
  <2>3. Cardinality(contents) = Cardinality(contents) + 0
    BY <2>1, FS_CardinalityType
  <2>4. w'.pc # "replace" /\ w'.pc # "shrink" /\ w'.pc \notin Storing
    BY <1>3 DEF Storing
  <2> QED BY <1>1, <1>3, <1>5, <2>1, <2>2, <2>3, <2>4 DEF CountOK
<1>14. w'.pc \notin Storing
  BY <1>3 DEF Storing
<1> QED BY <1>1, <1>5, <1>6, <1>10, <1>11, <1>12, <1>13, <1>14 DEF MapOK

\* What CountOK says where no removal is under way.
LEMMA Counted ==
  ASSUME MapOK, w.pc # "replace"
  PROVE  IsFiniteSet(contents) /\ Impl.n = Cardinality(contents) /\ Impl.n \in Nat
<1>1. IsFiniteSet(contents) /\ Impl.n = Cardinality(contents) + 0
  BY DEF MapOK, CountOK
<1>2. Cardinality(contents) \in Nat
  BY <1>1, FS_CardinalityType
<1> QED BY <1>1, <1>2

\* cmap_expand() keeps the invariant: the larger table holds the same chains and
\* has room for one more node.
LEMMA ExpandOK ==
  ASSUME MapOK, Expand
  PROVE  MapOK'
<1>1. /\ w.pc = "expand" /\ cmap_rehash(2 * Impl.mask + 1) /\ w' = [w EXCEPT !.pc = "try"]
      /\ next' = next /\ retired' = retired /\ ops' = ops /\ contents' = contents
  BY DEF Expand
<1>2. /\ w'.pc = "try" /\ w'.node = w.node /\ w'.new = w.new /\ w' \in WriterT
  BY <1>1 DEF MapOK, WriterOK, WriterT, Resting
<1>3. Impl.mask \in Nat /\ GoodTable(Impl) /\ HeadsOK(HeadSet(Impl), next, Linked)
  BY <1>1, ImplIs DEF MapOK, RestOK, Resting
<1>4. PICK m \in Nat : m = 2 * Impl.mask + 1 /\ calc_max_n(Impl.mask) < calc_max_n(m)
                       /\ calc_max_n(m) \in Nat /\ calc_max_n(Impl.mask) \in Nat
  BY <1>3, Limits
<1>5. /\ ImplsOK' /\ IsImpl(Impl') /\ GoodTable(Impl') /\ Even(Impl')
      /\ HeadSet(Impl') = HeadSet(Impl) /\ Impl'.n = Impl.n /\ Impl'.mask = m
  BY <1>1, <1>3, <1>4, Rehashed DEF MapOK
<1>6. Linked' = Linked
  BY <1>1, <1>2 DEF Linked
<1>7. RestOK'
  BY <1>1, <1>3, <1>5, <1>6 DEF RestOK
<1>8. WriterOK'
  BY <1>1, <1>2 DEF MapOK, WriterOK, Inserting
<1>9. CountOK'
  <2>1. Impl.n \in Nat /\ Impl.n < calc_max_n(m) /\ Impl.n <= calc_max_n(m)
    BY <1>1, <1>4, Counted DEF MapOK, CountOK
  <2>2. IsFiniteSet(contents) /\ Impl.n = Cardinality(contents) + 0
    BY <1>1, Counted DEF MapOK, CountOK
  <2>3. IsFiniteSet(contents') /\ Impl'.n = Cardinality(contents') + 0
    BY <1>1, <1>5, <2>2
  <2> QED BY <1>2, <1>5, <2>1, <2>3 DEF CountOK
<1>10. w'.pc \notin Storing
  BY <1>2 DEF Storing
<1> QED BY <1>1, <1>5, <1>6, <1>7, <1>8, <1>9, <1>10 DEF MapOK

\* cmap_shrink() keeps the invariant: the smaller table holds the same chains.
LEMMA ShrinkOK ==
  ASSUME MapOK, Shrink
  PROVE  MapOK'
<1>1. /\ w.pc = "shrink" /\ cmap_rehash(Impl.mask \div 2)
      /\ w' = [pc |-> "idle", node |-> Null, new |-> Null, todo |-> <<>>]
      /\ next' = next /\ retired' = retired /\ ops' = ops /\ contents' = contents
  BY DEF Shrink, IdleWriter
<1>2. w'.pc = "idle" /\ w'.node = Null /\ w'.new = Null /\ w' \in WriterT /\ w.node = Null
  BY <1>1 DEF MapOK, WriterOK, WriterT, Resting
<1>3. Impl.mask \in Nat /\ GoodTable(Impl) /\ HeadsOK(HeadSet(Impl), next, Linked)
  BY <1>1, ImplIs DEF MapOK, RestOK, Resting
<1>4. PICK m \in Nat : m = Impl.mask \div 2 /\ calc_min_n(Impl.mask) <= calc_max_n(m)
                       /\ calc_min_n(Impl.mask) \in Nat /\ calc_max_n(m) \in Nat
  BY <1>3, Limits
<1>5. /\ ImplsOK' /\ IsImpl(Impl') /\ GoodTable(Impl') /\ Even(Impl')
      /\ HeadSet(Impl') = HeadSet(Impl) /\ Impl'.n = Impl.n /\ Impl'.mask = m
  BY <1>1, <1>3, <1>4, Rehashed DEF MapOK
<1>6. Linked' = Linked
  BY <1>1, <1>2 DEF Linked
<1>7. RestOK'
  BY <1>1, <1>3, <1>5, <1>6 DEF RestOK
<1>8. WriterOK'
  BY <1>2 DEF WriterOK, Inserting, Storing
<1>9. CountOK'
  <2>1. Impl.n \in Nat /\ Impl.n <= calc_max_n(m)
    BY <1>1, <1>4, Counted DEF MapOK, CountOK
  <2>2. IsFiniteSet(contents) /\ Impl.n = Cardinality(contents) + 0
    BY <1>1, Counted DEF MapOK, CountOK
  <2>3. IsFiniteSet(contents') /\ Impl'.n = Cardinality(contents') + 0
    BY <1>1, <1>5, <2>2
  <2> QED BY <1>2, <1>5, <2>1, <2>3 DEF CountOK, Storing
<1>10. w'.pc \notin Storing
  BY <1>2 DEF Storing
<1> QED BY <1>1, <1>5, <1>6, <1>7, <1>8, <1>9, <1>10 DEF MapOK

\* cmap_remove() or cmap_replace() is called: the old node is linked still, and no
\* more in the contents.
LEMMA ReplaceCallOK ==
  ASSUME MapOK, NEW old \in Nodes, NEW new \in Nodes \cup {Null}, ReplaceCall(old, new)
  PROVE  MapOK'
<1>1. /\ w.pc = "idle" /\ ops' \in 0 .. MaxOps /\ old \in contents
      /\ new # Null => new \in Nodes \ (contents \cup retired) /\ HashOf[new] = HashOf[old]
      /\ contents' = contents \ {old}
      /\ w' = [pc |-> "replace", node |-> old, new |-> new, todo |-> <<>>]
      /\ impls' = impls /\ cmap' = cmap /\ retired' = retired /\ next' = next
  BY NextCallOps DEF ReplaceCall, MapOK, Unused, IdleWriter
<1>2. w'.pc = "replace" /\ w'.node = old /\ w'.new = new /\ w' \in WriterT
  BY <1>1 DEF WriterT, Resting
<1>3. Linked' = Linked
  BY <1>1, <1>2, CmapAssumption DEF MapOK, WriterOK, Linked
<1>4. ImplsOK' /\ Impl' = Impl
  BY <1>1 DEF MapOK, ImplsOK, Impl
<1>5. RestOK'
  BY <1>1, <1>3, <1>4 DEF MapOK, RestOK, Resting
<1>6. WriterOK'
  BY <1>1, <1>2 DEF MapOK, WriterOK, Inserting, Storing
<1>7. CountOK'
  <2>1. IsFiniteSet(contents) /\ Impl.n = Cardinality(contents) /\ Impl.n \in Nat
    BY <1>1, Counted
  <2>2. IsFiniteSet(contents') /\ Cardinality(contents') = Cardinality(contents) - 1
    BY <1>1, <2>1, FS_RemoveElement
  <2>3. Impl'.n = Cardinality(contents') + 1
    BY <1>4, <2>1, <2>2
  <2>4. Impl'.n <= calc_max_n(Impl'.mask)
    BY <1>4 DEF MapOK, CountOK
  <2> QED BY <1>2, <2>2, <2>3, <2>4 DEF CountOK, Storing
<1>8. w'.pc \notin Storing
  BY <1>2 DEF Storing
<1> QED BY <1>1, <1>3, <1>4, <1>5, <1>6, <1>7, <1>8 DEF MapOK

\* Other hash functions for the same number of buckets.
LEMMA TryAgainOK ==
  ASSUME MapOK, w.pc = "try", cmap_rehash(Impl.mask),
         UNCHANGED <<next, contents, w, retired, ops>>
  PROVE  MapOK'
<1>3. Impl.mask \in Nat /\ GoodTable(Impl) /\ HeadsOK(HeadSet(Impl), next, Linked)
  BY ImplIs DEF MapOK, RestOK, Resting
<1>4. PICK m \in Nat : m = Impl.mask
  BY <1>3
<1>5. /\ ImplsOK' /\ IsImpl(Impl') /\ GoodTable(Impl') /\ Even(Impl')
      /\ HeadSet(Impl') = HeadSet(Impl) /\ Impl'.n = Impl.n /\ Impl'.mask = m
  BY <1>3, <1>4, Rehashed DEF MapOK
<1>6. Linked' = Linked
  BY DEF Linked
<1>7. RestOK'
  BY <1>3, <1>5, <1>6 DEF RestOK
<1>8. WriterOK' /\ CountOK'
  BY <1>4, <1>5 DEF MapOK, WriterOK, CountOK
<1>10. w'.pc \notin Storing
  BY DEF Storing
<1> QED BY <1>5, <1>6, <1>7, <1>8, <1>10 DEF MapOK

\* The heads after a store into a slot.
LEMMA SetHeads ==
  ASSUME NEW im, IsImpl(im), GoodTable(im), NEW b \in 0 .. im.mask, NEW i \in Slots,
         NEW x \in Nodes \cup {Null}, NEW cur, SetOK(im, b, i, x, cur),
         im.nodes[b][i] # Null \/ x # Null
  PROVE  /\ im.nodes[b][i] \in HeadSet(im) \cup {Null}
         /\ HeadSet(cur) = (HeadSet(im) \ {im.nodes[b][i]}) \cup ({x} \ {Null})
<1> DEFINE o == im.nodes[b][i]
<1>1. o \in Nodes \cup {Null} /\ Null \notin Nodes
  BY ImplFacts, CmapAssumption
<1>2. o \in HeadSet(im) \cup {Null}
  BY <1>1 DEF HeadSet, IsHead
<1>3. ASSUME NEW c \in 0 .. im.mask, NEW j \in Slots, im.nodes[c][j] = o, o # Null
      PROVE  c = b /\ j = i
  <2>1. GoodSlot(im, c, j) /\ GoodSlot(im, b, i)
    BY <1>3 DEF GoodTable
  <2>2. im.hashes[c][j] = im.hashes[b][i]
    BY <2>1, <1>3 DEF GoodSlot
  <2> QED BY <2>2, <1>3, OneUsed
<1>4. /\ cur.mask = im.mask /\ cur.nodes[b][i] = x
      /\ \A c \in 0 .. im.mask : \A j \in Slots : c # b \/ j # i => cur.nodes[c][j] = im.nodes[c][j]
  BY DEF SetOK
<1> HIDE DEF o
<1>5. ASSUME NEW y \in Nodes, IsHead(cur, y) PROVE y = x \/ (IsHead(im, y) /\ y # o)
  <2>1. PICK c \in 0 .. im.mask, j \in Slots : cur.nodes[c][j] = y
    BY <1>4, <1>5 DEF IsHead
  <2>2. CASE c = b /\ j = i
    BY <2>1, <2>2, <1>4
  <2>3. CASE c # b \/ j # i
    <3>1. im.nodes[c][j] = y
      BY <2>1, <2>3, <1>4
    <3>2. y # Null
      BY <1>1
    <3> QED BY <3>1, <3>2, <2>3, <1>3 DEF IsHead
  <2> QED BY <2>2, <2>3
<1>6. ASSUME NEW y \in Nodes, IsHead(im, y), y # o PROVE IsHead(cur, y)
  <2>1. PICK c \in 0 .. im.mask, j \in Slots : im.nodes[c][j] = y
    BY <1>6 DEF IsHead
  <2>2. c # b \/ j # i
    BY <2>1, <1>6 DEF o
  <2> QED BY <2>1, <2>2, <1>4 DEF IsHead
<1>7. x # Null => IsHead(cur, x)
  BY <1>4 DEF IsHead
<1>8. HeadSet(cur) = (HeadSet(im) \ {o}) \cup ({x} \ {Null})
  BY <1>1, <1>5, <1>6, <1>7 DEF HeadSet
<1> QED BY <1>2, <1>8 DEF o

\* A node is counted.
LEMMA CountOne ==
  ASSUME MapOK, w.pc \in {"try"} \cup Storing, contents' = contents \cup {w.new},
         w'.pc = "idle", Impl'.n = Impl.n + 1, Impl'.mask = Impl.mask
  PROVE  CountOK'
<1>1. IsFiniteSet(contents) /\ Impl.n = Cardinality(contents) /\ Impl.n \in Nat
  BY Counted DEF Storing
<1>2. w.new \notin contents /\ Impl.n < calc_max_n(Impl.mask) /\ calc_max_n(Impl.mask) \in Nat
  BY ImplIs, Limits DEF MapOK, WriterOK, CountOK, Inserting
<1>3. IsFiniteSet(contents') /\ Cardinality(contents') = Cardinality(contents) + 1
  BY <1>1, <1>2, FS_AddElement
<1>4. Impl'.n = Cardinality(contents') + 0 /\ Impl'.n <= calc_max_n(Impl'.mask)
  BY <1>1, <1>2, <1>3
<1> QED BY <1>3, <1>4 DEF CountOK, Storing

\* One store of cmap_insert_dup().
TryDup(st) ==
  /\ w.pc = "try" /\ DupOK(Impl, st, w.new, HashOf[w.new])
  /\ next' = [next EXCEPT ![w.new] = Impl.nodes[st.b][st.i]]
  /\ impls' = [impls EXCEPT ![cmap].nodes[st.b][st.i] = w.new, ![cmap].n = @ + 1]
  /\ InsertReturns
  /\ UNCHANGED <<cmap, retired, ops>>

\* cmap_insert_dup() keeps the invariant: the node becomes the first of its chain.
LEMMA TryDupOK ==
  ASSUME MapOK, NEW st, TryDup(st)
  PROVE  MapOK'
<1> DEFINE im == Impl
           o == im.nodes[st.b][st.i]
           n == w.new
           mid == PutNode(im, st.b, st.i, n)
           cur == [mid EXCEPT !.n = mid.n + 1]
<1>0. /\ IsImpl(im) /\ im.n \in Int /\ cmap \in 1 .. Len(impls) /\ impls \in Seq(ImplSet)
      /\ cmap = Len(impls) /\ cmap \in Nat \ {0} /\ im = impls[cmap]
  BY ImplIs DEF MapOK, ImplsOK, Impl
<1>1. GoodTable(im) /\ Even(im) /\ HeadsOK(HeadSet(im), next, Linked)
  BY DEF TryDup, MapOK, RestOK, Resting
<1>2. st.b \in 0 .. im.mask /\ st.i \in Slots /\ im.hashes[st.b][st.i] = HashOf[n]
  BY DEF TryDup, DupOK
<1>3. n \in Nodes \ (contents \cup retired) /\ w.node = Null
  BY DEF TryDup, MapOK, WriterOK, Inserting
<1>4. impls' = [impls EXCEPT ![cmap] = cur]
  BY <1>0 DEF TryDup, PutNode
<1>5. /\ IsImpl(mid) /\ mid.mask = im.mask /\ mid.basis = im.basis /\ mid.n = im.n
      /\ mid.counter = im.counter /\ mid.hashes = im.hashes /\ mid.nodes[st.b][st.i] = n
      /\ \A c \in 0 .. im.mask : \A j \in Slots :
           c # st.b \/ j # st.i => mid.nodes[c][j] = im.nodes[c][j]
  <2> DEFINE b == st.b
             i == st.i
  <2>1. b \in 0 .. im.mask /\ i \in Slots /\ n \in Nodes \cup {Null}
    BY <1>2, <1>3
  <2>2. mid = PutNode(im, b, i, n)
    OBVIOUS
  <2> HIDE DEF mid, im, b, i, n
  <2>3. /\ IsImpl(mid) /\ mid.mask = im.mask /\ mid.basis = im.basis /\ mid.n = im.n
        /\ mid.counter = im.counter /\ mid.hashes = im.hashes /\ mid.nodes[b][i] = n
        /\ \A c \in 0 .. im.mask : \A j \in Slots :
             c # b \/ j # i => mid.nodes[c][j] = im.nodes[c][j]
    <3>1. IsImpl(im)
      BY <1>0
    <3> QED BY <2>1, <2>2, <3>1, WithNode
  <2> QED BY <2>3 DEF b, i
<1> HIDE DEF mid
<1>6. /\ IsImpl(cur) /\ cur.mask = im.mask /\ cur.basis = im.basis /\ cur.n = im.n + 1
      /\ cur.nodes = mid.nodes /\ cur.hashes = im.hashes /\ cur.counter = im.counter
  <2>1. mid.n + 1 \in Int
    BY <1>0, <1>5
  <2> QED BY <1>5, <2>1, WithN
<1> HIDE DEF cur
<1>7. impls' \in Seq(ImplSet) /\ Len(impls') = Len(impls) /\ impls'[cmap] = cur
  <2>1. cur \in ImplSet
    BY <1>6, ImplSetIs
  <2> QED BY <1>0, <1>4, <2>1, SeqSet
<1>8. ImplsOK' /\ Impl' = cur
  BY <1>0, <1>7 DEF ImplsOK, Impl, TryDup
<1>9. SetOK(im, st.b, st.i, n, cur)
  BY <1>5, <1>6 DEF SetOK
<1> HIDE DEF im, n
<1>10. GoodTable(cur)
  <2>1. Placed(im, st.b, st.i)
    BY DupPlaced DEF im, TryDup
  <2> QED BY <1>0, <1>1, <1>2, <1>9, <2>1, SetGood
<1>11. n # Null
  BY <1>3, CmapAssumption
<1>12. o \in HeadSet(im) \cup {Null} /\ HeadSet(cur) = (HeadSet(im) \ {o}) \cup {n}
  BY <1>0, <1>1, <1>2, <1>3, <1>9, <1>11, SetHeads
<1>13. o # Null => HashOf[o] = HashOf[n]
  BY <1>1, <1>2 DEF GoodTable, GoodSlot
<1> HIDE DEF o
<1>14. Linked = contents /\ ChainsOK(next, contents) /\ n \notin contents
  BY <1>3 DEF Linked, MapOK
<1>15. next \in NextT /\ next' = [next EXCEPT ![n] = o] /\ o \in Nodes \cup {Null}
  BY <1>12, <1>14 DEF ChainsOK, n, o, im, HeadSet, TryDup
<1>16. next' \in NextT /\ next'[n] = o /\ \A m \in Nodes : m # n => next'[m] = next[m]
  BY <1>3, <1>15 DEF NextT
<1>17. ChainsOK(next', contents \cup {n}) /\ HeadsOK((HeadSet(im) \ {o}) \cup {n}, next', contents \cup {n})
  <2>1. HeadsOK(HeadSet(im), next, contents) /\ n \in Nodes /\ o \in HeadSet(im) \cup {Null}
    BY <1>1, <1>3, <1>12, <1>14
  <2> QED BY <1>13, <1>14, <1>16, <2>1, AddHead
<1>18. /\ contents' = contents \cup {n} /\ w' \in WriterT
       /\ w'.pc = "idle" /\ w'.node = Null /\ w'.new = Null
  BY DEF TryDup, InsertReturns, IdleWriter, n, WriterT, Resting
<1>19. Linked' = contents \cup {n}
  BY <1>18 DEF Linked
<1>20. RestOK'
  <2>1. Even(cur)
    BY <1>1, <1>6 DEF Even
  <2> QED BY <1>8, <1>10, <1>12, <1>17, <1>19, <2>1 DEF RestOK
<1>21. WriterOK'
  BY <1>18 DEF WriterOK, Inserting, Storing
<1>22. CountOK'
  BY <1>6, <1>8, <1>18, CountOne DEF n, im, TryDup
<1>23. contents' \subseteq Nodes \ retired'
  BY <1>3, <1>18 DEF MapOK, TryDup
<1> QED BY <1>8, <1>17, <1>18, <1>19, <1>20, <1>21, <1>22, <1>23 DEF MapOK, Storing, TryDup

\* Before the first store of a plan the table is as it was.
LEMMA PlanBegins ==
  ASSUME NEW im, IsImpl(im), NEW plan, NEW node, NEW h, PlanOK(im, plan, node, h)
  PROVE  /\ plan \in Seq(PlannedT) /\ SubSeq(plan, 1, Len(plan)) = plan
         /\ MidOK(im, plan, 0, 0, im) /\ 1 \in 1 .. Len(plan)
<1>0. PICK n \in Nat \ {0} : n = Len(plan) /\ plan \in Seq(StoreT(im))
  BY DEF PlanOK
<1>1. StoreT(im) \subseteq PlannedT
  <2>1. 0 .. im.mask \subseteq Nat
    BY ImplFacts
  <2> QED BY <2>1 DEF StoreT, PlannedT
<1>2. plan \in Seq(PlannedT)
  <2>1. \A k \in 1 .. n : plan[k] \in PlannedT
    BY <1>0, <1>1, SeqElem
  <2>2. plan = [k \in 1 .. n |-> plan[k]]
    BY <1>0
  <2> QED BY <2>1, <2>2
<1>3. SubSeq(plan, 1, Len(plan)) = plan
  BY <1>0
<1>4. MidOK(im, plan, 0, 0, im)
  BY DEF MidOK
<1> QED BY <1>0, <1>2, <1>3, <1>4

\* cmap_try_insert() has found a place: the invariant at the start of the stores.
LEMMA TryPlanOK ==
  ASSUME MapOK, w.pc = "try", NEW plan, PlanOK(Impl, plan, w.new, HashOf[w.new]),
         w' = [w EXCEPT !.pc = "odd", !.todo = plan],
         UNCHANGED <<impls, cmap, next, contents, retired, ops>>
  PROVE  MapOK'
<1>0. IsImpl(Impl) /\ Impl' = Impl /\ ImplsOK'
  BY ImplIs DEF MapOK, ImplsOK, Impl
<1>1. GoodTable(Impl) /\ Even(Impl) /\ HeadsOK(HeadSet(Impl), next, Linked)
  BY DEF MapOK, RestOK, Resting
<1>2. /\ plan \in Seq(PlannedT) /\ SubSeq(plan, 1, Len(plan)) = plan
      /\ MidOK(Impl, plan, 0, 0, Impl) /\ 1 \in 1 .. Len(plan)
  BY <1>0, PlanBegins
<1>3. w'.pc = "odd" /\ w'.node = w.node /\ w'.new = w.new /\ w'.todo = plan /\ w' \in WriterT
  BY <1>2 DEF MapOK, WriterOK, WriterT, Storing
<1>4. Linked' = Linked
  BY <1>3 DEF Linked
<1>5. PICK old : old = Impl
  OBVIOUS
<1>6. MidAt(old, plan, 0)'
  <2>1. NodesDone(0)' = 0 /\ HashesDone(0)' = 0
    BY <1>3 DEF NodesDone, HashesDone
  <2>2. 0 \in Nat /\ 0 + 1 = 1
    OBVIOUS
  <2>3. \A b \in 0 .. Impl.mask : Impl.counter[b] % 2 # 1
    BY <1>1 DEF Even
  <2>4. w'.pc \notin {"node", "hash", "even"}
    BY <1>3
  <2> QED BY <1>0, <1>1, <1>2, <1>3, <1>4, <1>5, <2>1, <2>2, <2>3, <2>4 DEF MidAt
<1>7. \E o, p, j : MidAt(o, p, j)'
  BY <1>6
<1>8. WriterOK'
  BY <1>3 DEF MapOK, WriterOK, Inserting, Storing
<1>9. CountOK'
  BY <1>0, <1>3 DEF MapOK, CountOK, Storing
<1>10. w'.pc \notin Resting
  BY <1>3 DEF Resting
<1> QED BY <1>0, <1>4, <1>7, <1>8, <1>9, <1>10 DEF MapOK

\* cmap_try_insert() keeps the invariant, whichever of its ways it takes.
LEMMA TryInsertOK ==
  ASSUME MapOK, TryInsert
  PROVE  MapOK'
<1> DEFINE plan == cmap_try_insert(Impl, w.new, HashOf[w.new])
           st == plan[1]
<1>1. w.pc = "try" /\ UNCHANGED <<retired, ops>>
  BY Zenon DEF TryInsert
<1>2. \/ plan = <<>> /\ cmap_rehash(Impl.mask) /\ UNCHANGED <<next, contents, w>>
      \/ /\ plan # <<>> /\ st.dup
         /\ next' = [next EXCEPT ![w.new] = Impl.nodes[st.b][st.i]]
         /\ impls' = [impls EXCEPT ![cmap].nodes[st.b][st.i] = w.new, ![cmap].n = @ + 1]
         /\ InsertReturns
         /\ UNCHANGED cmap
      \/ /\ plan # <<>> /\ ~st.dup
         /\ w' = [w EXCEPT !.pc = "odd", !.todo = plan]
         /\ UNCHANGED <<impls, cmap, next, contents>>
  BY Zenon DEF TryInsert
<1>3. IsImpl(Impl) /\ GoodTable(Impl) /\ w.new \in Nodes
  BY <1>1, ImplIs DEF MapOK, RestOK, Resting, WriterOK, Inserting
<1> HIDE DEF plan
<1>4. plan # <<>> => \/ /\ plan[1].dup = TRUE /\ plan = <<plan[1]>>
                        /\ DupOK(Impl, plan[1], w.new, HashOf[w.new])
                     \/ plan[1].dup = FALSE /\ PlanOK(Impl, plan, w.new, HashOf[w.new])
  BY <1>3, InsertPlan DEF plan
<1>5. CASE plan = <<>> /\ cmap_rehash(Impl.mask) /\ UNCHANGED <<next, contents, w>>
  BY <1>1, <1>5, TryAgainOK
<1>6. CASE /\ plan # <<>> /\ st.dup
           /\ next' = [next EXCEPT ![w.new] = Impl.nodes[st.b][st.i]]
           /\ impls' = [impls EXCEPT ![cmap].nodes[st.b][st.i] = w.new, ![cmap].n = @ + 1]
           /\ InsertReturns
           /\ UNCHANGED cmap
  <2>1. DupOK(Impl, st, w.new, HashOf[w.new])
    BY <1>4, <1>6
  <2>2. TryDup(st)
    BY <1>1, <1>6, <2>1 DEF TryDup
  <2> HIDE DEF st
  <2> QED BY <2>2, TryDupOK
<1>7. CASE /\ plan # <<>> /\ ~st.dup
           /\ w' = [w EXCEPT !.pc = "odd", !.todo = plan]
           /\ UNCHANGED <<impls, cmap, next, contents>>
  <2>1. PlanOK(Impl, plan, w.new, HashOf[w.new])
    BY <1>4, <1>7
  <2> QED BY <1>1, <1>7, <2>1, TryPlanOK, Zenon
<1> QED BY <1>2, <1>5, <1>6, <1>7

\* Head() and Tail() of a sequence.
LEMMA TailFacts ==
  ASSUME NEW S, NEW s \in Seq(S), NEW m \in Nat, Len(s) = m + 1
  PROVE  /\ Tail(s) \in Seq(S) /\ Len(Tail(s)) = m /\ Head(s) = s[1]
         /\ \A k \in 1 .. m : Tail(s)[k] = s[k + 1]
<1>1. s # <<>>
  OBVIOUS
<1>2. Tail(s) \in Seq(S)
  BY <1>1
<1>3. Len(Tail(s)) = m
  BY <1>1
<1>4. Head(s) = s[1]
  OBVIOUS
<1>5. \A k \in 1 .. m : Tail(s)[k] = s[k + 1]
  OBVIOUS
<1> QED BY <1>2, <1>3, <1>4, <1>5

\* The empty sequence is the one of length zero.
LEMMA EmptyLen ==
  ASSUME NEW S, NEW s \in Seq(S)
  PROVE s = <<>> <=> Len(s) = 0
  OBVIOUS

\* Sequences with the same members are the same.
LEMMA SeqSame ==
  ASSUME NEW S, NEW s \in Seq(S), NEW t \in Seq(S), Len(s) = Len(t), \A k \in 1 .. Len(s) : s[k] = t[k]
  PROVE s = t
  OBVIOUS

\* The end of a sequence.
LEMMA SubFacts ==
  ASSUME NEW S, NEW s \in Seq(S), NEW j \in Nat, NEW m \in Nat, Len(s) = j + m
  PROVE  /\ SubSeq(s, j + 1, j + m) \in Seq(S) /\ Len(SubSeq(s, j + 1, j + m)) = m
         /\ \A k \in 1 .. m : SubSeq(s, j + 1, j + m)[k] = s[j + k]
<1>0. PICK a \in Int, n \in Int : a = j + 1 /\ n = j + m
  OBVIOUS
<1>1. \A i \in a .. n : s[i] \in S
  BY <1>0
<1>2. /\ SubSeq(s, a, n) \in Seq(S) /\ Len(SubSeq(s, a, n)) = (IF a <= n THEN n-a+1 ELSE 0)
      /\ \A i \in 1 .. n-a+1 : SubSeq(s, a, n)[i] = s[a+i-1]
  BY <1>1, SubSeqProperties
<1>3. n - a + 1 = m /\ (IF a <= n THEN n-a+1 ELSE 0) = m /\ \A k \in 1 .. m : a + k - 1 = j + k
  BY <1>0
<1>4. \A i \in 1 .. m : SubSeq(s, a, n)[i] = s[a+i-1]
  BY <1>2, <1>3
<1>5. \A i \in 1 .. m : SubSeq(s, a, n)[i] = s[j + i]
  BY <1>3, <1>4
<1> QED BY <1>0, <1>2, <1>3, <1>5

\* The stores that are left.
LEMMA TodoIs ==
  ASSUME NEW S, NEW plan \in Seq(S), NEW j \in Nat, j + 1 \in 1 .. Len(plan),
         NEW todo, todo = SubSeq(plan, j + 1, Len(plan))
  PROVE  /\ Head(todo) = plan[j + 1] /\ todo \in Seq(S)
         /\ Tail(todo) = <<>> <=> j + 1 = Len(plan)
         /\ j + 1 # Len(plan) => /\ Tail(todo) = SubSeq(plan, j + 2, Len(plan))
                                 /\ j + 2 \in 1 .. Len(plan)
<1>0. PICK n \in Nat, m \in Nat : n = Len(plan) /\ n = j + 1 + m
  <2>1. Len(plan) \in Nat /\ Len(plan) - j - 1 \in Nat /\ Len(plan) = j + 1 + (Len(plan) - j - 1)
    OBVIOUS
  <2> QED BY <2>1
<1>1. todo \in Seq(S) /\ Len(todo) = m + 1 /\ \A k \in 1 .. m + 1 : todo[k] = plan[j + k]
  <2>1. PICK l \in Nat : l = m + 1 /\ Len(plan) = j + l
    BY <1>0
  <2>2. /\ SubSeq(plan, j + 1, j + l) \in Seq(S) /\ Len(SubSeq(plan, j + 1, j + l)) = l
        /\ \A k \in 1 .. l : SubSeq(plan, j + 1, j + l)[k] = plan[j + k]
    BY <2>1, SubFacts
  <2> QED BY <2>1, <2>2
<1>2. /\ Tail(todo) \in Seq(S) /\ Len(Tail(todo)) = m /\ Head(todo) = todo[1]
      /\ \A k \in 1 .. m : Tail(todo)[k] = todo[k + 1]
  BY <1>1, TailFacts
<1>3. Head(todo) = plan[j + 1]
  BY <1>1, <1>2
<1>4. Tail(todo) = <<>> <=> j + 1 = Len(plan)
  <2>1. Tail(todo) = <<>> <=> Len(Tail(todo)) = 0
    BY <1>2, EmptyLen
  <2>2. m = 0 <=> j + 1 = Len(plan)
    BY <1>0
  <2> QED BY <2>1, <2>2, <1>2
<1>5. ASSUME j + 1 # Len(plan)
      PROVE  Tail(todo) = SubSeq(plan, j + 2, Len(plan)) /\ j + 2 \in 1 .. Len(plan)
  <2> DEFINE t == SubSeq(plan, j + 2, n)
  <2>1. j + 2 \in 1 .. n
    BY <1>0, <1>5
  <2>2. t \in Seq(S) /\ Len(t) = m /\ \A k \in 1 .. m : t[k] = plan[j + 1 + k]
    <3>1. PICK l \in Nat : l = j + 1 /\ Len(plan) = l + m /\ l + 1 = j + 2
      BY <1>0
    <3>2. /\ SubSeq(plan, l + 1, l + m) \in Seq(S) /\ Len(SubSeq(plan, l + 1, l + m)) = m
          /\ \A k \in 1 .. m : SubSeq(plan, l + 1, l + m)[k] = plan[l + k]
      BY <3>1, SubFacts
    <3> QED BY <3>1, <3>2, <1>0
  <2>3. \A k \in 1 .. m : Tail(todo)[k] = plan[j + 1 + k]
    <3>1. \A k \in 1 .. m : k + 1 \in 1 .. m + 1 /\ j + (k + 1) = j + 1 + k
      OBVIOUS
    <3> QED BY <3>1, <1>1, <1>2
  <2> HIDE DEF t
  <2>4. t = Tail(todo)
    BY <1>2, <2>2, <2>3, SeqSame
  <2> QED BY <2>1, <2>4, <1>0 DEF t
<1> QED BY <1>1, <1>3, <1>4, <1>5

\* The store that is being made.
LEMMA Now ==
  ASSUME MapOK, NEW old, NEW plan, NEW j, MidAt(old, plan, j)
  PROVE  /\ Head(w.todo) = plan[j + 1] /\ w.todo \in Seq(PlannedT) /\ Tail(w.todo) \in Seq(PlannedT)
         /\ Tail(w.todo) = <<>> <=> j + 1 = Len(plan)
         /\ j + 1 # Len(plan) => /\ Tail(w.todo) = SubSeq(plan, j + 2, Len(plan))
                                 /\ j + 2 \in 1 .. Len(plan)
         /\ plan[j + 1].b \in 0 .. Impl.mask /\ plan[j + 1].i \in Slots
         /\ plan[j + 1].node \in Nodes /\ plan[j + 1].hash \in Hashes
         /\ Impl.mask = old.mask /\ IsImpl(Impl) /\ IsImpl(old) /\ j \in Nat /\ j + 1 \in 1 .. Len(plan)
         /\ PlanOK(old, plan, w.new, HashOf[w.new])
<1>1. /\ PlanOK(old, plan, w.new, HashOf[w.new]) /\ j \in Nat /\ j + 1 \in 1 .. Len(plan)
      /\ w.todo = SubSeq(plan, j + 1, Len(plan)) /\ MidOK(old, plan, NodesDone(j), HashesDone(j), Impl)
      /\ IsImpl(old)
  BY DEF MidAt
<1>2. plan \in Seq(PlannedT)
  BY <1>1, PlanBegins
<1>3. /\ Head(w.todo) = plan[j + 1] /\ w.todo \in Seq(PlannedT)
      /\ Tail(w.todo) = <<>> <=> j + 1 = Len(plan)
      /\ j + 1 # Len(plan) => /\ Tail(w.todo) = SubSeq(plan, j + 2, Len(plan))
                              /\ j + 2 \in 1 .. Len(plan)
  BY <1>1, <1>2, TodoIs
<1>4. PlanTyped(old, plan)
  BY <1>1, PlanTypes, Zenon
<1>5. Impl.mask = old.mask /\ IsImpl(Impl)
  BY <1>1 DEF MidOK
<1>6. /\ plan[j + 1].b \in 0 .. Impl.mask /\ plan[j + 1].i \in Slots
      /\ plan[j + 1].node \in Nodes /\ plan[j + 1].hash \in Hashes
  BY <1>1, <1>4, <1>5 DEF PlanTyped
<1>7. Tail(w.todo) \in Seq(PlannedT)
  <2>1. CASE j + 1 = Len(plan)
    <3>1. Tail(w.todo) = <<>>
      BY <1>3, <2>1
    <3>2. <<>> \in Seq(PlannedT)
      OBVIOUS
    <3> QED BY <3>1, <3>2
  <2>2. CASE j + 1 # Len(plan)
    BY <1>2, <1>3, <2>2
  <2> QED BY <2>1, <2>2
<1> QED BY <1>1, <1>3, <1>5, <1>6, <1>7

\* One more node, one more hash.
LEMMA MidNode ==
  ASSUME NEW old, NEW plan, NEW node, NEW h, PlanOK(old, plan, node, h),
         NEW j \in Nat, j + 1 \in 1 .. Len(plan),
         NEW im, MidOK(old, plan, j, j, im), NEW cur, IsImpl(cur),
         cur.mask = im.mask, cur.basis = im.basis, cur.hashes = im.hashes,
         cur.nodes[plan[j + 1].b][plan[j + 1].i] = plan[j + 1].node,
         \A c \in 0 .. im.mask : \A i \in Slots :
           c # plan[j + 1].b \/ i # plan[j + 1].i => cur.nodes[c][i] = im.nodes[c][i]
  PROVE  MidOK(old, plan, j + 1, j, cur)
<1>1. \A k \in 1 .. j : plan[k].b # plan[j + 1].b
  BY DEF PlanOK
<1>2. \A k : k \in 1 .. j + 1 <=> k \in 1 .. j \/ k = j + 1
  OBVIOUS
<1>3. im.mask = old.mask /\ im.basis = old.basis
  BY DEF MidOK
<1>4. ASSUME NEW b \in 0 .. old.mask, NEW i \in Slots
      PROVE  /\ \A k \in 1 .. j + 1 : At(plan, k, b, i) => cur.nodes[b][i] = plan[k].node
             /\ (\A k \in 1 .. j + 1 : ~At(plan, k, b, i)) => cur.nodes[b][i] = old.nodes[b][i]
  <2>1. CASE At(plan, j + 1, b, i)
    <3>1. cur.nodes[b][i] = plan[j + 1].node /\ \A k \in 1 .. j : ~At(plan, k, b, i)
      BY <2>1, <1>1 DEF At
    <3> QED BY <2>1, <3>1, <1>2
  <2>2. CASE ~At(plan, j + 1, b, i)
    <3>1. cur.nodes[b][i] = im.nodes[b][i]
      BY <2>2, <1>3 DEF At
    <3>2. /\ \A k \in 1 .. j : At(plan, k, b, i) => im.nodes[b][i] = plan[k].node
          /\ (\A k \in 1 .. j : ~At(plan, k, b, i)) => im.nodes[b][i] = old.nodes[b][i]
      BY DEF MidOK
    <3> QED BY <2>2, <3>1, <3>2, <1>2
  <2> QED BY <2>1, <2>2
<1>5. ASSUME NEW b \in 0 .. old.mask, NEW i \in Slots
      PROVE  /\ \A k \in 1 .. j : At(plan, k, b, i) => cur.hashes[b][i] = plan[k].hash
             /\ (\A k \in 1 .. j : ~At(plan, k, b, i)) => cur.hashes[b][i] = old.hashes[b][i]
  BY DEF MidOK
<1> QED BY <1>3, <1>4, <1>5 DEF MidOK

\* The store of a hash, after that of its node.
LEMMA MidHash ==
  ASSUME NEW old, NEW plan, NEW node, NEW h, PlanOK(old, plan, node, h),
         NEW j \in Nat, NEW l, l = j + 1, j + 1 \in 1 .. Len(plan),
         NEW im, MidOK(old, plan, l, j, im), NEW cur, IsImpl(cur),
         cur.mask = im.mask, cur.basis = im.basis, cur.nodes = im.nodes,
         cur.hashes[plan[j + 1].b][plan[j + 1].i] = plan[j + 1].hash,
         \A c \in 0 .. im.mask : \A i \in Slots :
           c # plan[j + 1].b \/ i # plan[j + 1].i => cur.hashes[c][i] = im.hashes[c][i]
  PROVE  MidOK(old, plan, l, l, cur)
<1>1. \A k \in 1 .. j : plan[k].b # plan[j + 1].b
  BY DEF PlanOK
<1>2. \A k : k \in 1 .. j + 1 <=> k \in 1 .. j \/ k = j + 1
  OBVIOUS
<1>3. im.mask = old.mask /\ im.basis = old.basis
  BY DEF MidOK
<1>4. ASSUME NEW b \in 0 .. old.mask, NEW i \in Slots
      PROVE  /\ \A k \in 1 .. j + 1 : At(plan, k, b, i) => cur.hashes[b][i] = plan[k].hash
             /\ (\A k \in 1 .. j + 1 : ~At(plan, k, b, i)) => cur.hashes[b][i] = old.hashes[b][i]
  <2>1. CASE At(plan, j + 1, b, i)
    <3>1. cur.hashes[b][i] = plan[j + 1].hash /\ \A k \in 1 .. j : ~At(plan, k, b, i)
      BY <2>1, <1>1 DEF At
    <3> QED BY <2>1, <3>1, <1>2
  <2>2. CASE ~At(plan, j + 1, b, i)
    <3>1. cur.hashes[b][i] = im.hashes[b][i]
      BY <2>2, <1>3 DEF At
    <3>2. /\ \A k \in 1 .. j : At(plan, k, b, i) => im.hashes[b][i] = plan[k].hash
          /\ (\A k \in 1 .. j : ~At(plan, k, b, i)) => im.hashes[b][i] = old.hashes[b][i]
      BY DEF MidOK
    <3> QED BY <2>2, <3>1, <3>2, <1>2
  <2> QED BY <2>1, <2>2
<1>5. ASSUME NEW b \in 0 .. old.mask, NEW i \in Slots
      PROVE  /\ \A k \in 1 .. j + 1 : At(plan, k, b, i) => cur.nodes[b][i] = plan[k].node
             /\ (\A k \in 1 .. j + 1 : ~At(plan, k, b, i)) => cur.nodes[b][i] = old.nodes[b][i]
  BY DEF MidOK
<1> QED BY <1>3, <1>4, <1>5 DEF MidOK

\* What is common to the steps of cmap_set_bucket() that stay in it.
StoreStep(pc) ==
  /\ w' = [w EXCEPT !.pc = pc]
  /\ UNCHANGED <<cmap, next, retired, ops, contents>>

\* A step of cmap_set_bucket() keeps what is not about the table.
LEMMA StoreStepOK ==
  ASSUME MapOK, w.pc \in Storing, NEW pc \in Storing, StoreStep(pc),
         NEW cur, IsImpl(cur), impls' = [impls EXCEPT ![cmap] = cur],
         cur.mask = Impl.mask, cur.n = Impl.n,
         NEW old, NEW plan, NEW j, MidAt(old, plan, j)'
  PROVE  MapOK'
<1>0. /\ impls \in Seq(ImplSet) /\ cmap \in 1 .. Len(impls) /\ cmap = Len(impls) /\ cur \in ImplSet
      /\ cmap \in Nat \ {0}
  BY ImplIs, ImplSetIs DEF MapOK, ImplsOK
<1>1. impls' \in Seq(ImplSet) /\ Len(impls') = Len(impls) /\ impls'[cmap] = cur
  BY <1>0, SeqSet
<1>2. ImplsOK' /\ Impl' = cur
  BY <1>0, <1>1 DEF ImplsOK, Impl, StoreStep
<1>3. w'.pc = pc /\ w'.node = w.node /\ w'.new = w.new /\ w' \in WriterT
  BY DEF StoreStep, MapOK, WriterOK, WriterT
<1>4. Linked' = Linked
  BY <1>3 DEF Linked, StoreStep
<1>5. WriterOK'
  BY <1>3 DEF MapOK, WriterOK, StoreStep, Inserting, Storing
<1>6. CountOK'
  BY <1>2, <1>3 DEF MapOK, CountOK, StoreStep, Storing
<1>7. \E o, p, k : MidAt(o, p, k)'
  OBVIOUS
<1>8. w'.pc \notin Resting
  BY <1>3 DEF Resting, Storing
<1> QED BY <1>2, <1>4, <1>5, <1>6, <1>7, <1>8 DEF MapOK, StoreStep

\* The counter becomes odd.
LEMMA SetOddOK ==
  ASSUME MapOK, SetOdd
  PROVE  MapOK'
<1>1. /\ w.pc = "odd" /\ StoreStep("node")
      /\ impls' = [impls EXCEPT ![cmap] = PutCounter(Impl, Head(w.todo).b)]
  BY DEF SetOdd, StoreStep, PutCounter, Impl
<1>2. PICK old, plan, j : MidAt(old, plan, j)
  BY <1>1 DEF MapOK, Storing
<1>3. PICK b \in 0 .. Impl.mask : b = plan[j + 1].b /\ b = Head(w.todo).b
  BY <1>2, Now
<1>4. IsImpl(Impl) /\ Impl.counter \in [0 .. Impl.mask -> Nat]
  BY ImplIs, ImplFacts DEF MapOK
<1> DEFINE cur == PutCounter(Impl, b)
<1>5. /\ IsImpl(cur) /\ cur.mask = Impl.mask /\ cur.basis = Impl.basis /\ cur.n = Impl.n
      /\ cur.nodes = Impl.nodes /\ cur.hashes = Impl.hashes
      /\ cur.counter[b] = Impl.counter[b] + 1
      /\ \A c \in 0 .. Impl.mask : c # b => cur.counter[c] = Impl.counter[c]
  BY <1>3, <1>4, WithCounter
<1>6. impls' = [impls EXCEPT ![cmap] = cur]
  BY <1>1, <1>3
<1> HIDE DEF cur
<1>7. Impl' = cur
  BY <1>6, ImplIs, SeqSet, ImplSetIs, <1>5, <1>1 DEF MapOK, ImplsOK, Impl, StoreStep
<1>8. /\ w'.pc = "node" /\ w'.new = w.new /\ w'.todo = w.todo /\ w'.node = w.node
      /\ next' = next /\ contents' = contents
  BY <1>1 DEF StoreStep, MapOK, WriterOK, WriterT
<1>9. Linked' = Linked
  BY <1>8 DEF Linked
<1>10. MidAt(old, plan, j)'
  <2>1. /\ IsImpl(old) /\ GoodTable(old) /\ HeadsOK(HeadSet(old), next, Linked)
        /\ PlanOK(old, plan, w.new, HashOf[w.new])
        /\ j \in Nat /\ j + 1 \in 1 .. Len(plan) /\ w.todo = SubSeq(plan, j + 1, Len(plan))
        /\ MidOK(old, plan, j, j, Impl)
        /\ \A c \in 0 .. Impl.mask : Impl.counter[c] % 2 # 1
    BY <1>1, <1>2 DEF MidAt, NodesDone, HashesDone
  <2>2. NodesDone(j)' = j /\ HashesDone(j)' = j
    BY <1>8 DEF NodesDone, HashesDone
  <2>3. MidOK(old, plan, j, j, cur)
    BY <2>1, <1>5, SameTable
  <2>4. \A c \in 0 .. cur.mask : (cur.counter[c] % 2 = 1) <=> plan[j + 1].b = c
    <3>1. Impl.counter[b] \in Nat /\ Impl.counter[b] % 2 # 1
      BY <2>1, <1>3, <1>4
    <3>2. cur.counter[b] % 2 = 1
      BY <3>1, <1>5, Parity
    <3> QED BY <1>3, <1>5, <2>1, <3>2
  <2> QED BY <1>7, <1>8, <1>9, <2>1, <2>2, <2>3, <2>4 DEF MidAt
<1> QED BY <1>1, <1>5, <1>6, <1>10, StoreStepOK DEF Storing

\* The node is stored.
LEMMA SetNodeOK ==
  ASSUME MapOK, SetNode
  PROVE  MapOK'
<1>1. /\ w.pc = "node" /\ StoreStep("hash")
      /\ impls' = [impls EXCEPT ![cmap] = PutNode(Impl, Head(w.todo).b, Head(w.todo).i, Head(w.todo).node)]
  BY DEF SetNode, StoreStep, PutNode, Impl
<1>2. PICK old, plan, j : MidAt(old, plan, j)
  BY <1>1 DEF MapOK, Storing
<1>3. PICK b \in 0 .. Impl.mask, i \in Slots, x \in Nodes \cup {Null} :
        /\ b = plan[j + 1].b /\ i = plan[j + 1].i /\ x = plan[j + 1].node
        /\ b = Head(w.todo).b /\ i = Head(w.todo).i /\ x = Head(w.todo).node
  BY <1>2, Now
<1>4. IsImpl(Impl)
  BY ImplIs DEF MapOK
<1> DEFINE cur == PutNode(Impl, b, i, x)
<1>5. /\ IsImpl(cur) /\ cur.mask = Impl.mask /\ cur.basis = Impl.basis /\ cur.n = Impl.n
      /\ cur.counter = Impl.counter /\ cur.hashes = Impl.hashes /\ cur.nodes[b][i] = x
      /\ \A c \in 0 .. Impl.mask : \A k \in Slots :
           c # b \/ k # i => cur.nodes[c][k] = Impl.nodes[c][k]
  BY <1>3, <1>4, WithNode
<1>6. impls' = [impls EXCEPT ![cmap] = cur]
  BY <1>1, <1>3
<1> HIDE DEF cur
<1>7. Impl' = cur
  BY <1>6, ImplIs, SeqSet, ImplSetIs, <1>5, <1>1 DEF MapOK, ImplsOK, Impl, StoreStep
<1>8. /\ w'.pc = "hash" /\ w'.new = w.new /\ w'.todo = w.todo /\ w'.node = w.node
      /\ next' = next /\ contents' = contents
  BY <1>1 DEF StoreStep, MapOK, WriterOK, WriterT
<1>9. Linked' = Linked
  BY <1>8 DEF Linked
<1>10. MidAt(old, plan, j)'
  <2>1. /\ IsImpl(old) /\ GoodTable(old) /\ HeadsOK(HeadSet(old), next, Linked)
        /\ PlanOK(old, plan, w.new, HashOf[w.new])
        /\ j \in Nat /\ j + 1 \in 1 .. Len(plan) /\ w.todo = SubSeq(plan, j + 1, Len(plan))
        /\ MidOK(old, plan, j, j, Impl)
        /\ \A c \in 0 .. Impl.mask : (Impl.counter[c] % 2 = 1) <=> plan[j + 1].b = c
    BY <1>1, <1>2 DEF MidAt, NodesDone, HashesDone
  <2>2. NodesDone(j)' = j + 1 /\ HashesDone(j)' = j
    BY <1>8 DEF NodesDone, HashesDone
  <2>3. MidOK(old, plan, j + 1, j, cur)
    BY <2>1, <1>3, <1>5, MidNode
  <2> QED BY <1>5, <1>7, <1>8, <1>9, <2>1, <2>2, <2>3 DEF MidAt
<1> QED BY <1>1, <1>5, <1>6, <1>10, StoreStepOK DEF Storing

\* The hash is stored.
LEMMA SetHashOK ==
  ASSUME MapOK, SetHash
  PROVE  MapOK'
<1>1. /\ w.pc = "hash" /\ StoreStep("even")
      /\ impls' = [impls EXCEPT ![cmap] = PutHash(Impl, Head(w.todo).b, Head(w.todo).i, Head(w.todo).hash)]
  BY DEF SetHash, StoreStep, PutHash, Impl
<1>2. PICK old, plan, j : MidAt(old, plan, j)
  BY <1>1 DEF MapOK, Storing
<1>3. PICK b \in 0 .. Impl.mask, i \in Slots, x \in Hashes \cup {0} :
        /\ b = plan[j + 1].b /\ i = plan[j + 1].i /\ x = plan[j + 1].hash
        /\ b = Head(w.todo).b /\ i = Head(w.todo).i /\ x = Head(w.todo).hash
  BY <1>2, Now
<1>4. IsImpl(Impl)
  BY ImplIs DEF MapOK
<1> DEFINE cur == PutHash(Impl, b, i, x)
<1>5. /\ IsImpl(cur) /\ cur.mask = Impl.mask /\ cur.basis = Impl.basis /\ cur.n = Impl.n
      /\ cur.counter = Impl.counter /\ cur.nodes = Impl.nodes /\ cur.hashes[b][i] = x
      /\ \A c \in 0 .. Impl.mask : \A k \in Slots :
           c # b \/ k # i => cur.hashes[c][k] = Impl.hashes[c][k]
  BY <1>3, <1>4, WithHash
<1>6. impls' = [impls EXCEPT ![cmap] = cur]
  BY <1>1, <1>3
<1> HIDE DEF cur
<1>7. Impl' = cur
  BY <1>6, ImplIs, SeqSet, ImplSetIs, <1>5, <1>1 DEF MapOK, ImplsOK, Impl, StoreStep
<1>8. /\ w'.pc = "even" /\ w'.new = w.new /\ w'.todo = w.todo /\ w'.node = w.node
      /\ next' = next /\ contents' = contents
  BY <1>1 DEF StoreStep, MapOK, WriterOK, WriterT
<1>9. Linked' = Linked
  BY <1>8 DEF Linked
<1>10. MidAt(old, plan, j)'
  <2>1. /\ IsImpl(old) /\ GoodTable(old) /\ HeadsOK(HeadSet(old), next, Linked)
        /\ PlanOK(old, plan, w.new, HashOf[w.new])
        /\ j \in Nat /\ j + 1 \in 1 .. Len(plan) /\ w.todo = SubSeq(plan, j + 1, Len(plan))
        /\ MidOK(old, plan, j + 1, j, Impl)
        /\ \A c \in 0 .. Impl.mask : (Impl.counter[c] % 2 = 1) <=> plan[j + 1].b = c
    BY <1>1, <1>2 DEF MidAt, NodesDone, HashesDone
  <2>2. NodesDone(j)' = j + 1 /\ HashesDone(j)' = j + 1
    BY <1>8 DEF NodesDone, HashesDone
  <2>3. MidOK(old, plan, j + 1, j + 1, cur)
    <3>1. PICK l : l = j + 1
      OBVIOUS
    <3>2. /\ MidOK(old, plan, l, j, Impl)
          /\ cur.hashes[plan[j + 1].b][plan[j + 1].i] = plan[j + 1].hash
          /\ \A c \in 0 .. Impl.mask : \A k \in Slots :
               c # plan[j + 1].b \/ k # plan[j + 1].i => cur.hashes[c][k] = Impl.hashes[c][k]
      BY <2>1, <1>3, <1>5, <3>1
    <3>3. MidOK(old, plan, l, l, cur)
      BY <2>1, <3>1, <3>2, <1>5, MidHash
    <3> QED BY <3>1, <3>3
  <2> QED BY <1>5, <1>7, <1>8, <1>9, <2>1, <2>2, <2>3 DEF MidAt
<1> QED BY <1>1, <1>5, <1>6, <1>10, StoreStepOK DEF Storing

\* The counter becomes even: the next store begins, or the insertion returns with
\* the node in the map.
LEMMA SetEvenOK ==
  ASSUME MapOK, SetEven
  PROVE  MapOK'
<1> DEFINE last == Tail(w.todo) = <<>>
<1>1. w.pc = "even" /\ UNCHANGED <<cmap, next, retired, ops>>
  BY DEF SetEven
<1>2. PICK old, plan, j : MidAt(old, plan, j)
  BY <1>1 DEF MapOK, Storing
<1>3. PICK b \in 0 .. Impl.mask : b = plan[j + 1].b /\ b = Head(w.todo).b
  BY <1>2, Now
<1>4. /\ IsImpl(Impl) /\ Impl.counter \in [0 .. Impl.mask -> Nat] /\ Impl.n \in Int
      /\ impls \in Seq(ImplSet) /\ cmap \in 1 .. Len(impls) /\ cmap = Len(impls) /\ cmap \in Nat \ {0}
  BY ImplIs, ImplFacts DEF MapOK, ImplsOK
<1> DEFINE mid == PutCounter(Impl, b)
           m == IF last THEN mid.n + 1 ELSE mid.n
           cur == [mid EXCEPT !.n = m]
<1>5. /\ IsImpl(mid) /\ mid.mask = Impl.mask /\ mid.basis = Impl.basis /\ mid.n = Impl.n
      /\ mid.nodes = Impl.nodes /\ mid.hashes = Impl.hashes
      /\ mid.counter[b] = Impl.counter[b] + 1
      /\ \A c \in 0 .. Impl.mask : c # b => mid.counter[c] = Impl.counter[c]
  BY <1>3, <1>4, WithCounter
<1>6. impls' = [impls EXCEPT ![cmap] = cur]
  <2>1. impls' = [impls EXCEPT ![cmap].counter[b] = @ + 1, ![cmap].n = IF last THEN @ + 1 ELSE @]
    BY <1>3 DEF SetEven
  <2> HIDE DEF last
  <2> QED BY <2>1, <1>4 DEF PutCounter, Impl
<1> HIDE DEF mid
<1>7. /\ IsImpl(cur) /\ cur.mask = Impl.mask /\ cur.basis = Impl.basis /\ cur.n = m
      /\ cur.nodes = Impl.nodes /\ cur.hashes = Impl.hashes /\ cur.counter = mid.counter
  <2>1. m \in Int
    BY <1>4, <1>5
  <2> HIDE DEF m
  <2> QED BY <1>5, <2>1, WithN
<1>8. m = IF last THEN Impl.n + 1 ELSE Impl.n
  BY <1>5
<1> HIDE DEF cur, m
<1>9. impls' \in Seq(ImplSet) /\ Len(impls') = Len(impls) /\ impls'[cmap] = cur
  <2>1. cur \in ImplSet
    BY <1>7, ImplSetIs
  <2> QED BY <1>4, <1>6, <2>1, SeqSet
<1>10. ImplsOK' /\ Impl' = cur
  BY <1>1, <1>4, <1>9 DEF ImplsOK, Impl
<1>11. /\ IsImpl(old) /\ GoodTable(old) /\ HeadsOK(HeadSet(old), next, Linked)
       /\ PlanOK(old, plan, w.new, HashOf[w.new])
       /\ j \in Nat /\ j + 1 \in 1 .. Len(plan) /\ w.todo = SubSeq(plan, j + 1, Len(plan))
       /\ MidOK(old, plan, j + 1, j + 1, Impl)
       /\ \A c \in 0 .. Impl.mask : (Impl.counter[c] % 2 = 1) <=> plan[j + 1].b = c
  BY <1>1, <1>2 DEF MidAt, NodesDone, HashesDone
<1>12. PICK l \in Nat : l = j + 1 /\ MidOK(old, plan, l, l, cur)
  BY <1>7, <1>11, SameTable
<1>13. Even(cur)
  <2> SUFFICES ASSUME NEW c \in 0 .. Impl.mask PROVE cur.counter[c] % 2 = 0
    BY <1>7 DEF Even
  <2>1. Impl.counter[c] \in Nat
    BY <1>4
  <2>2. CASE c = b
    <3>1. PICK v \in Nat : v = Impl.counter[c] /\ v % 2 = 1 /\ cur.counter[c] = v + 1
      BY <2>1, <2>2, <1>3, <1>5, <1>7, <1>11
    <3> QED BY <3>1, Parity
  <2>3. CASE c # b
    BY <2>1, <2>3, <1>3, <1>5, <1>7, <1>11, Parity
  <2> QED BY <2>2, <2>3
<1>14. /\ last <=> l = Len(plan)
       /\ ~last => Tail(w.todo) = SubSeq(plan, l + 1, Len(plan)) /\ l + 1 \in 1 .. Len(plan)
       /\ Tail(w.todo) \in Seq(PlannedT)
  <2>1. l + 1 = j + 2
    BY <1>11, <1>12
  <2> QED BY <1>2, <1>12, <2>1, Now
<1>15. w.node = Null /\ w.new \in Nodes \ (contents \cup retired) /\ next[w.new] = Null /\ Linked = contents
  BY <1>1 DEF MapOK, WriterOK, Inserting, Storing, Linked
<1>16. CASE last
  <2>1. /\ contents' = contents \cup {w.new} /\ w' \in WriterT
        /\ w'.pc = "idle" /\ w'.node = Null /\ w'.new = Null
    <3>1. InsertReturns
      BY <1>16 DEF SetEven
    <3> QED BY <3>1 DEF InsertReturns, IdleWriter, WriterT, Resting
  <2>2. MidOK(old, plan, Len(plan), Len(plan), cur)
    BY <1>12, <1>14, <1>16
  <2>3. GoodTable(cur) /\ \A x \in Nodes : IsHead(cur, x) <=> IsHead(old, x) \/ x = w.new
    BY <2>2, <1>11, <1>15, PlanGood
  <2>4. HeadSet(cur) = HeadSet(old) \cup {w.new}
    BY <2>3, <1>15 DEF HeadSet
  <2>5. ChainsOK(next, contents \cup {w.new}) /\ HeadsOK(HeadSet(old) \cup {w.new}, next, contents \cup {w.new})
    BY <1>11, <1>15, AddChain DEF MapOK
  <2>6. Linked' = contents \cup {w.new}
    BY <2>1 DEF Linked
  <2>7. RestOK'
    BY <1>1, <1>10, <1>13, <2>3, <2>4, <2>5, <2>6 DEF RestOK
  <2>8. WriterOK'
    BY <2>1 DEF WriterOK, Inserting, Storing
  <2>9. CountOK'
    BY <1>1, <1>7, <1>8, <1>10, <1>16, <2>1, CountOne DEF Storing
  <2>10. contents' \subseteq Nodes \ retired'
    BY <1>1, <1>15, <2>1 DEF MapOK
  <2>11. ChainsOK(next', Linked')
    BY <1>1, <2>5, <2>6
  <2> QED BY <1>1, <1>10, <2>1, <2>7, <2>8, <2>9, <2>10, <2>11 DEF MapOK, Storing
<1>17. CASE ~last
  <2>1. w' = [w EXCEPT !.todo = Tail(w.todo), !.pc = "odd"] /\ contents' = contents
    BY <1>17 DEF SetEven
  <2>2. w'.pc = "odd" /\ w'.node = w.node /\ w'.new = w.new /\ w'.todo = Tail(w.todo) /\ w' \in WriterT
    BY <2>1, <1>14 DEF MapOK, WriterOK, WriterT, Storing
  <2>3. Linked' = Linked
    BY <2>1, <2>2 DEF Linked
  <2>4. MidAt(old, plan, l)'
    <3>1. NodesDone(l)' = l /\ HashesDone(l)' = l
      BY <2>2 DEF NodesDone, HashesDone
    <3>2. \A c \in 0 .. cur.mask : cur.counter[c] % 2 # 1
      BY <1>13 DEF Even
    <3>3. w'.pc \notin {"node", "hash", "even"}
      BY <2>2
    <3> QED BY <1>1, <1>10, <1>11, <1>12, <1>14, <1>17, <2>2, <2>3, <3>1, <3>2, <3>3 DEF MidAt
  <2>5. \E o, p, k : MidAt(o, p, k)'
    BY <2>4
  <2>6. WriterOK'
    BY <1>1, <2>1, <2>2 DEF MapOK, WriterOK, Inserting, Storing
  <2>7. CountOK'
    BY <1>1, <1>7, <1>8, <1>10, <1>17, <2>1, <2>2 DEF MapOK, CountOK, Storing
  <2>8. w'.pc \notin Resting
    BY <2>2 DEF Resting
  <2> QED BY <1>1, <1>10, <2>1, <2>3, <2>5, <2>6, <2>7, <2>8 DEF MapOK
<1> QED BY <1>16, <1>17

\* cmap_find_slot_protected() finds the chain of a hash.
LEMMA SlotOfIs ==
  ASSUME NEW im, IsImpl(im), GoodTable(im), NEW b \in 0 .. im.mask, NEW i \in Slots,
         im.nodes[b][i] # Null, NEW h, h = im.hashes[b][i]
  PROVE  SlotOf(im, h) = <<b, i>>
<1> DEFINE ks == {k \in 1 .. 2 : UsedSlots(im, Bucket(im, h, k), h) # {}}
<1>1. GoodSlot(im, b, i)
  BY DEF GoodTable
<1>2. UsedSlots(im, b, h) = {i}
  <2>1. i \in UsedSlots(im, b, h)
    BY DEF UsedSlots, SlotsWith, EmptySlots
  <2>2. ASSUME NEW k \in UsedSlots(im, b, h) PROVE k = i
    <3>1. k \in Slots /\ im.hashes[b][k] = h /\ im.nodes[b][k] # Null
      BY DEF UsedSlots, SlotsWith, EmptySlots
    <3> QED BY <3>1, OneUsed
  <2> QED BY <2>1, <2>2
<1>3. \A k \in 1 .. 2 : k = 1 \/ k = 2
  OBVIOUS
<1>4. ks \in SUBSET Nat
  OBVIOUS
<1>5. ks # {} /\ Bucket(im, h, Min(ks)) = b
  <2>1. CASE b = Bucket1(im, h)
    <3>1. Bucket(im, h, 1) = b
      BY <2>1 DEF Bucket
    <3>2. 1 \in ks
      BY <3>1, <1>2
    <3>3. Min(ks) \in ks /\ Min(ks) <= 1
      BY <3>2, <1>4, NatMin
    <3>4. Min(ks) = 1
      BY <3>3
    <3> QED BY <3>1, <3>2, <3>4
  <2>2. CASE b # Bucket1(im, h)
    <3>1. Bucket(im, h, 2) = b /\ Bucket(im, h, 1) = Bucket1(im, h)
      BY <2>2, <1>1 DEF Bucket, GoodSlot
    <3>2. UsedSlots(im, Bucket1(im, h), h) = {}
      BY <2>2, <1>1 DEF GoodSlot, UsedSlots, SlotsWith
    <3>3. 2 \in ks /\ 1 \notin ks
      BY <3>1, <3>2, <1>2
    <3>4. Min(ks) \in ks
      BY <3>3, <1>4, NatMin
    <3>5. Min(ks) = 2
      BY <3>3, <3>4
    <3> QED BY <3>1, <3>3, <3>5
  <2> QED BY <2>1, <2>2
<1>6. Min({i}) = i
  <2>1. {i} \in SUBSET Slots /\ {i} # {}
    OBVIOUS
  <2>2. Min({i}) \in {i}
    BY <2>1, MinSlot
  <2> QED BY <2>2
<1> HIDE DEF ks
<1>7. SlotOf(im, h) = IF ks = {} THEN <<>> ELSE <<Bucket(im, h, Min(ks)), Min(UsedSlots(im, Bucket(im, h, Min(ks)), h))>>
  BY DEF SlotOf, ks
<1> QED BY <1>2, <1>5, <1>6, <1>7

\* The slot and the head of the chain that a node of the map is in.
LEMMA ChainOf ==
  ASSUME NEW im, IsImpl(im), GoodTable(im), NEW nx, NEW L, ChainsOK(nx, L),
         HeadsOK(HeadSet(im), nx, L), NEW q \in L
  PROVE  \E b \in 0 .. im.mask : \E i \in Slots :
           /\ im.nodes[b][i] \in HeadSet(im) /\ q \in Reach(nx, im.nodes[b][i])
           /\ im.hashes[b][i] = HashOf[q] /\ SlotOf(im, HashOf[q]) = <<b, i>>
<1>1. PICK y \in HeadSet(im) : q \in Reach(nx, y)
  BY DEF HeadsOK
<1>2. PICK b \in 0 .. im.mask, i \in Slots : im.nodes[b][i] = y
  BY <1>1 DEF HeadSet, IsHead
<1>3. y \in L /\ y \in Nodes /\ y # Null
  BY <1>1, CmapAssumption DEF HeadsOK, HeadSet
<1>4. HashOf[q] = HashOf[y]
  BY <1>1, <1>3, ChainHash
<1>5. im.hashes[b][i] = HashOf[y]
  BY <1>2, <1>3 DEF GoodTable, GoodSlot
<1>6. SlotOf(im, HashOf[q]) = <<b, i>>
  BY <1>2, <1>3, <1>4, <1>5, SlotOfIs
<1> QED BY <1>1, <1>2, <1>4, <1>5, <1>6

\* The new next pointers and heads when r, or nothing, takes the place of q.
Relinked(nx, q, r) == IF r = Null THEN nx ELSE [nx EXCEPT ![r] = nx[q]]

\* What is linked in the place of q.
Successor(nx, q, r) == IF r = Null THEN nx[q] ELSE r

\* The next pointers when p is the node before q.
LinkedPast(nx, p, q, r) == [Relinked(nx, q, r) EXCEPT ![p] = Successor(nx, q, r)]

\* The first node of a chain is replaced, or removed.
LEMMA HeadRelinked ==
  ASSUME NEW nx, NEW L, NEW H, ChainsOK(nx, L), HeadsOK(H, nx, L), NEW q \in H,
         NEW r \in Nodes \cup {Null}, r # Null => r \notin L /\ HashOf[r] = HashOf[q]
  PROVE  /\ ChainsOK(Relinked(nx, q, r), (L \ {q}) \cup ({r} \ {Null}))
         /\ HeadsOK((H \ {q}) \cup ({Successor(nx, q, r)} \ {Null}), Relinked(nx, q, r),
                    (L \ {q}) \cup ({r} \ {Null}))
         /\ Successor(nx, q, r) \in Nodes \cup {Null}
         /\ Successor(nx, q, r) # Null => HashOf[Successor(nx, q, r)] = HashOf[q]
<1>0. q \in L /\ q \in Nodes /\ nx \in NextT /\ nx[q] \in Nodes \cup {Null}
  BY DEF ChainsOK, HeadsOK, NextT
<1>1. CASE r = Null
  <2>1. (L \ {q}) \cup ({r} \ {Null}) = L \ {q} /\ Relinked(nx, q, r) = nx /\ Successor(nx, q, r) = nx[q]
    BY <1>1 DEF Relinked, Successor
  <2>2. ChainsOK(nx, L \ {q}) /\ HeadsOK((H \ {q}) \cup ({nx[q]} \ {Null}), nx, L \ {q})
    BY RemoveHead
  <2>3. nx[q] # Null => HashOf[nx[q]] = HashOf[q]
    BY <1>0 DEF ChainsOK
  <2> QED BY <1>0, <2>1, <2>2, <2>3
<1>2. CASE r # Null
  <2> DEFINE mx == [nx EXCEPT ![r] = nx[q]]
  <2>1. /\ (L \ {q}) \cup ({r} \ {Null}) = (L \ {q}) \cup {r} /\ {r} \ {Null} = {r}
        /\ Relinked(nx, q, r) = mx /\ Successor(nx, q, r) = r
    BY <1>2 DEF Relinked, Successor
  <2>2. r \in Nodes /\ r \notin L /\ HashOf[r] = HashOf[q]
    BY <1>2
  <2>3. mx \in NextT /\ mx[r] = nx[q] /\ \A m \in Nodes : m # r => mx[m] = nx[m]
    BY <1>0, <2>2 DEF NextT
  <2> HIDE DEF mx
  <2>4. ChainsOK(mx, (L \ {q}) \cup {r}) /\ HeadsOK((H \ {q}) \cup {r}, mx, (L \ {q}) \cup {r})
    BY <2>2, <2>3, ReplaceHead
  <2> QED BY <2>1, <2>2, <2>4
<1> QED BY <1>1, <1>2

\* A node after p is replaced, or removed.
LEMMA InnerRelinked ==
  ASSUME NEW nx, NEW L, NEW H, ChainsOK(nx, L), HeadsOK(H, nx, L), NEW p \in L, NEW q \in L,
         nx[p] = q, NEW r \in Nodes \cup {Null}, r # Null => r \notin L /\ HashOf[r] = HashOf[q],
         NEW mx, mx = LinkedPast(nx, p, q, r)
  PROVE  /\ ChainsOK(mx, (L \ {q}) \cup ({r} \ {Null}))
         /\ HeadsOK(H, mx, (L \ {q}) \cup ({r} \ {Null}))
<1>0. q \in Nodes /\ p \in Nodes /\ nx \in NextT /\ nx[q] \in Nodes \cup {Null}
  BY DEF ChainsOK, HeadsOK, NextT
<1>1. CASE r = Null
  <2>1. (L \ {q}) \cup ({r} \ {Null}) = L \ {q} /\ mx = [nx EXCEPT ![p] = nx[q]]
    BY <1>1 DEF Relinked, Successor, LinkedPast
  <2>2. mx \in NextT /\ mx[p] = nx[q] /\ \A m \in Nodes : m # p => mx[m] = nx[m]
    BY <1>0, <2>1 DEF NextT
  <2>3. ChainsOK(mx, L \ {q}) /\ HeadsOK(H, mx, L \ {q})
    BY <2>2, RemoveInner
  <2> QED BY <2>1, <2>3
<1>2. CASE r # Null
  <2> DEFINE lx == [nx EXCEPT ![r] = nx[q]]
  <2>1. (L \ {q}) \cup ({r} \ {Null}) = (L \ {q}) \cup {r} /\ mx = [lx EXCEPT ![p] = r]
    BY <1>2 DEF Relinked, Successor, LinkedPast
  <2>2. r \in Nodes /\ r \notin L /\ HashOf[r] = HashOf[q] /\ r # p
    BY <1>2
  <2>3. lx \in NextT /\ lx[r] = nx[q] /\ \A m \in Nodes : m # r => lx[m] = nx[m]
    BY <1>0, <2>2 DEF NextT
  <2> HIDE DEF lx
  <2>4. mx \in NextT /\ mx[p] = r /\ \A m \in Nodes : m # p => mx[m] = lx[m]
    BY <1>0, <2>1, <2>2, <2>3 DEF NextT
  <2>5. mx[r] = nx[q] /\ \A m \in Nodes : m # p /\ m # r => mx[m] = nx[m]
    BY <2>2, <2>3, <2>4
  <2>6. ChainsOK(mx, (L \ {q}) \cup {r}) /\ HeadsOK(H, mx, (L \ {q}) \cup {r})
    BY <2>2, <2>4, <2>5, ReplaceInner
  <2> QED BY <2>1, <2>6
<1> QED BY <1>1, <1>2

\* Replace, with the slot and the head named.
ReplaceIn(q, r, b, i, y, n) ==
  /\ impls' = [impls EXCEPT ![cmap].n = n,
                 ![cmap].nodes[b][i] = IF y = q THEN Successor(next, q, r) ELSE y]
  /\ IF y = q THEN next' = Relinked(next, q, r)
     ELSE \E p \in Reach(next, y) :
            next[p] = q /\ next' = LinkedPast(next, p, q, r)
  /\ contents' = contents \cup ({r} \ {Null})
  /\ w' = [IdleWriter EXCEPT !.pc = IF r = Null /\ n < calc_min_n(Impl.mask) THEN "shrink" ELSE "idle"]
  /\ n = (IF r = Null THEN Impl.n - 1 ELSE Impl.n)
  /\ cmap' = cmap /\ ops' = ops

\* The slot and chain that cmap_replace__() changes.
ReplaceFrom(q, r, b, i, y, n) ==
  /\ w.pc = "replace" /\ q = w.node /\ r = w.new
  /\ b \in 0 .. Impl.mask /\ i \in Slots /\ y = Impl.nodes[b][i] /\ y \in HeadSet(Impl)
  /\ q \in Reach(next, y) /\ Impl.hashes[b][i] = HashOf[q]
  /\ ReplaceIn(q, r, b, i, y, n)
  /\ retired' = IF Quiet THEN {} ELSE retired \cup {q}

\* cmap_replace__() finds the slot and the node: its walk ends, and ovs_assert(ok)
\* holds.
LEMMA ReplaceIs ==
  ASSUME MapOK, Replace
  PROVE  \E q, r, b, i, y, n : ReplaceFrom(q, r, b, i, y, n)
<1>1. w.pc = "replace"
  BY Zenon DEF Replace
<1>2. PICK q, r : q = w.node /\ r = w.new
  OBVIOUS
<1>3. IsImpl(Impl) /\ GoodTable(Impl) /\ HeadsOK(HeadSet(Impl), next, Linked) /\ ChainsOK(next, Linked)
  BY <1>1, ImplIs DEF MapOK, RestOK, Resting
<1>4. q \in Linked
  BY <1>1, <1>2, CmapAssumption DEF MapOK, WriterOK, Linked
<1>5. PICK b \in 0 .. Impl.mask, i \in Slots :
        /\ Impl.nodes[b][i] \in HeadSet(Impl) /\ q \in Reach(next, Impl.nodes[b][i])
        /\ Impl.hashes[b][i] = HashOf[q] /\ SlotOf(Impl, HashOf[q]) = <<b, i>>
  BY <1>3, <1>4, ChainOf
<1>6. PICK y : y = Impl.nodes[b][i]
  OBVIOUS
<1>7. PICK s : s = SlotOf(Impl, HashOf[q]) /\ s[1] = b /\ s[2] = i
  BY <1>5
<1>8. y \in Nodes /\ Chain(y) = Reach(next, y)
  BY <1>5, <1>6, ChainReach DEF HeadSet
<1>9. PICK n : n = (IF r = Null THEN Impl.n - 1 ELSE Impl.n)
  OBVIOUS
<1>10. /\ impls' = [impls EXCEPT ![cmap].n = n,
                     ![cmap].nodes[b][i] = IF y = q THEN Successor(next, q, r) ELSE y]
       /\ contents' = contents \cup ({r} \ {Null})
       /\ w' = [IdleWriter EXCEPT !.pc = IF r = Null /\ n < calc_min_n(Impl.mask) THEN "shrink" ELSE "idle"]
       /\ cmap' = cmap /\ ops' = ops
       /\ retired' = IF Quiet THEN {} ELSE retired \cup {q}
  BY <1>2, <1>6, <1>7, <1>9 DEF Replace, Successor
<1>11. IF y = q THEN next' = Relinked(next, q, r)
       ELSE \E p \in Reach(next, y) :
              next[p] = q /\ next' = LinkedPast(next, p, q, r)
  BY <1>2, <1>6, <1>7, <1>8 DEF Replace, Successor, Relinked, LinkedPast
<1>12. ReplaceIn(q, r, b, i, y, n)
  BY <1>9, <1>10, <1>11 DEF ReplaceIn
<1>13. ReplaceFrom(q, r, b, i, y, n)
  BY <1>1, <1>2, <1>5, <1>6, <1>10, <1>12 DEF ReplaceFrom
<1> QED BY <1>13

\* cmap_replace__() keeps the invariant.
LEMMA ReplaceOK ==
  ASSUME MapOK, Replace
  PROVE  MapOK'
<1>1. PICK q, r, b, i, y, n : ReplaceFrom(q, r, b, i, y, n)
  BY ReplaceIs
<1>2. /\ w.pc = "replace" /\ q = w.node /\ r = w.new
      /\ b \in 0 .. Impl.mask /\ i \in Slots /\ y = Impl.nodes[b][i] /\ y \in HeadSet(Impl)
      /\ q \in Reach(next, y) /\ Impl.hashes[b][i] = HashOf[q]
      /\ retired' = IF Quiet THEN {} ELSE retired \cup {q}
  BY <1>1 DEF ReplaceFrom
<1>3. ReplaceIn(q, r, b, i, y, n)
  BY <1>1 DEF ReplaceFrom
<1>4. /\ IsImpl(Impl) /\ Impl.n \in Int /\ Impl \in ImplSet /\ GoodTable(Impl) /\ Even(Impl)
      /\ HeadsOK(HeadSet(Impl), next, Linked) /\ ChainsOK(next, Linked)
      /\ impls \in Seq(ImplSet) /\ cmap \in 1 .. Len(impls) /\ cmap = Len(impls) /\ cmap \in Nat \ {0}
  BY <1>2, ImplIs DEF MapOK, RestOK, Resting, ImplsOK
<1>5. /\ q \in Nodes \ (contents \cup retired) /\ q \in Linked /\ Linked \ {q} = contents
      /\ r \in Nodes \cup {Null}
      /\ r # Null => r \in Nodes \ (contents \cup retired) /\ r # q /\ HashOf[r] = HashOf[q] /\ r \notin Linked
  BY <1>2, CmapAssumption DEF MapOK, WriterOK, WriterT, Linked
<1>6. y \in Nodes /\ y \in Linked /\ y # Null
  BY <1>2, <1>4, CmapAssumption DEF HeadSet, HeadsOK
<1> DEFINE L == contents \cup ({r} \ {Null})
           v == IF y = q THEN Successor(next, q, r) ELSE y
           G == (HeadSet(Impl) \ {y}) \cup ({v} \ {Null})
           mid == [Impl EXCEPT !.n = n]
           cur == PutNode(mid, b, i, v)
<1>7. v \in Nodes \cup {Null} /\ (v # Null => HashOf[v] = HashOf[q]) /\ ChainsOK(next', L) /\ HeadsOK(G, next', L)
  <2>1. CASE y = q
    <3>1. v = Successor(next, q, r) /\ next' = Relinked(next, q, r)
      BY <2>1, <1>3 DEF ReplaceIn
    <3>2. q \in HeadSet(Impl)
      BY <1>2, <2>1
    <3>3. /\ ChainsOK(Relinked(next, q, r), (Linked \ {q}) \cup ({r} \ {Null}))
          /\ HeadsOK((HeadSet(Impl) \ {q}) \cup ({Successor(next, q, r)} \ {Null}), Relinked(next, q, r),
                    (Linked \ {q}) \cup ({r} \ {Null}))
          /\ Successor(next, q, r) \in Nodes \cup {Null}
          /\ Successor(next, q, r) # Null => HashOf[Successor(next, q, r)] = HashOf[q]
      <4>1. ChainsOK(next, Linked) /\ HeadsOK(HeadSet(Impl), next, Linked)
        BY <1>4
      <4>2. r \in Nodes \cup {Null} /\ (r # Null => r \notin Linked /\ HashOf[r] = HashOf[q])
        BY <1>5
      <4> HIDE DEF v
      <4>3. PICK nx, M, H : nx = next /\ M = Linked /\ H = HeadSet(Impl)
        OBVIOUS
      <4>4. q \in H /\ ChainsOK(nx, M) /\ HeadsOK(H, nx, M) /\ (r # Null => r \notin M /\ HashOf[r] = HashOf[q])
        BY <3>2, <4>1, <4>2, <4>3
      <4>5. /\ ChainsOK(Relinked(nx, q, r), (M \ {q}) \cup ({r} \ {Null}))
            /\ HeadsOK((H \ {q}) \cup ({Successor(nx, q, r)} \ {Null}), Relinked(nx, q, r),
                      (M \ {q}) \cup ({r} \ {Null}))
            /\ Successor(nx, q, r) \in Nodes \cup {Null}
            /\ Successor(nx, q, r) # Null => HashOf[Successor(nx, q, r)] = HashOf[q]
        BY <4>2, <4>4, HeadRelinked
      <4> QED BY <4>3, <4>5, Zenon
    <3> QED BY <1>5, <2>1, <3>1, <3>3
  <2>2. CASE y # q
    <3>1. v = y /\ G = HeadSet(Impl)
      BY <2>2, <1>2, <1>6
    <3>2. PICK p \in Reach(next, y) : next[p] = q /\ next' = LinkedPast(next, p, q, r)
      BY <2>2, <1>3 DEF ReplaceIn
    <3>3. p \in Linked
      BY <3>2, <1>4, <1>6, ChainHash
    <3>4. PICK mx : mx = LinkedPast(next, p, q, r) /\ mx = next'
      BY <3>2
    <3>5. ChainsOK(mx, (Linked \ {q}) \cup ({r} \ {Null})) /\ HeadsOK(HeadSet(Impl), mx, (Linked \ {q}) \cup ({r} \ {Null}))
      BY <1>4, <1>5, <3>2, <3>3, <3>4, InnerRelinked
    <3>6. HashOf[y] = HashOf[q]
      BY <1>2, <1>4, <1>6, ChainHash
    <3> QED BY <1>5, <1>6, <3>1, <3>4, <3>5, <3>6
  <2> QED BY <2>1, <2>2
<1>8. impls' = [impls EXCEPT ![cmap] = cur] /\ n = (IF r = Null THEN Impl.n - 1 ELSE Impl.n) /\ n \in Int
  <2>1. impls' = [impls EXCEPT ![cmap].n = n, ![cmap].nodes[b][i] = v] /\ n = (IF r = Null THEN Impl.n - 1 ELSE Impl.n)
    BY <1>3 DEF ReplaceIn
  <2> HIDE DEF v
  <2>2. impls' = [impls EXCEPT ![cmap] = cur]
    BY <2>1, <1>4 DEF PutNode, Impl
  <2>3. n \in Int
    BY <2>1, <1>4
  <2> QED BY <2>1, <2>2, <2>3, Zenon
<1> HIDE DEF v, G, L
<1>9. /\ IsImpl(mid) /\ mid.mask = Impl.mask /\ mid.basis = Impl.basis /\ mid.n = n
      /\ mid.nodes = Impl.nodes /\ mid.hashes = Impl.hashes /\ mid.counter = Impl.counter
  BY <1>4, <1>8, WithN
<1> HIDE DEF mid
<1>10. b \in 0 .. mid.mask /\ i \in Slots
  BY <1>2, <1>9
<1>11. /\ IsImpl(cur) /\ cur.mask = mid.mask /\ cur.basis = mid.basis /\ cur.n = mid.n
       /\ cur.counter = mid.counter /\ cur.hashes = mid.hashes /\ cur.nodes[b][i] = v
       /\ \A c \in 0 .. mid.mask : \A j \in Slots :
            c # b \/ j # i => cur.nodes[c][j] = mid.nodes[c][j]
  BY <1>7, <1>9, <1>10, WithNode
<1> HIDE DEF cur
<1>12. SetOK(Impl, b, i, v, cur)
  BY <1>9, <1>11 DEF SetOK
<1>13. GoodTable(cur)
  <2>1. Placed(Impl, b, i)
    BY <1>2, <1>4, <1>6, UsedPlaced DEF GoodTable
  <2> QED BY <1>2, <1>4, <1>7, <1>12, <2>1, SetGood
<1>14. HeadSet(cur) = G
  <2>1. Impl.nodes[b][i] # Null \/ v # Null
    BY <1>2, <1>6
  <2>2. HeadSet(cur) = (HeadSet(Impl) \ {Impl.nodes[b][i]}) \cup ({v} \ {Null})
    <3>1. PICK im : im = Impl
      OBVIOUS
    <3>2. /\ IsImpl(im) /\ GoodTable(im) /\ b \in 0 .. im.mask /\ i \in Slots
          /\ v \in Nodes \cup {Null} /\ SetOK(im, b, i, v, cur) /\ (im.nodes[b][i] # Null \/ v # Null)
      BY <1>2, <1>4, <1>7, <1>12, <2>1, <3>1
    <3>3. HeadSet(cur) = (HeadSet(im) \ {im.nodes[b][i]}) \cup ({v} \ {Null})
      BY <3>2, SetHeads
    <3> QED BY <3>1, <3>3
  <2> QED BY <2>2, <1>2 DEF G
<1>15. impls' \in Seq(ImplSet) /\ Len(impls') = Len(impls) /\ impls'[cmap] = cur
  <2>1. cur \in ImplSet
    BY <1>11, ImplSetIs
  <2> QED BY <1>4, <1>8, <2>1, SeqSet
<1>16. cmap' = cmap /\ ops' = ops /\ contents' = L
  BY <1>3 DEF ReplaceIn, L
<1>17. ImplsOK' /\ Impl' = cur
  BY <1>4, <1>15, <1>16 DEF ImplsOK, Impl
<1> DEFINE pc == IF r = Null /\ n < calc_min_n(Impl.mask) THEN "shrink" ELSE "idle"
<1>18. w' = [pc |-> pc, node |-> Null, new |-> Null, todo |-> <<>>]
  BY <1>3 DEF ReplaceIn, IdleWriter
<1>19. w'.pc = pc /\ w'.node = Null /\ w'.new = Null /\ pc \in {"idle", "shrink"} /\ w' \in WriterT
  BY <1>18 DEF WriterT, Resting
<1>20. Linked' = L
  BY <1>16, <1>19 DEF Linked
<1>21. RestOK'
  <2>1. Even(cur)
    BY <1>4, <1>9, <1>11 DEF Even
  <2> QED BY <1>7, <1>13, <1>14, <1>17, <1>20, <2>1 DEF RestOK
<1>22. WriterOK'
  BY <1>19 DEF WriterOK, Inserting, Storing
<1>23. CountOK'
  <2>1. IsFiniteSet(contents) /\ Impl.n = Cardinality(contents) + 1 /\ Cardinality(contents) \in Nat
    BY <1>2, FS_CardinalityType DEF MapOK, CountOK
  <2>2. Impl.n <= calc_max_n(Impl.mask) /\ calc_max_n(Impl.mask) \in Nat
    BY ImplIs, Limits DEF MapOK, CountOK
  <2>3. IsFiniteSet(L) /\ Cardinality(L) = n
    <3>1. CASE r = Null
      <4>1. L = contents
        BY <3>1 DEF L
      <4> QED BY <4>1, <3>1, <2>1, <1>8
    <3>2. CASE r # Null
      <4>1. L = contents \cup {r} /\ r \notin contents
        BY <3>2, <1>5 DEF L
      <4>2. IsFiniteSet(contents \cup {r}) /\ Cardinality(contents \cup {r}) = Cardinality(contents) + 1
        BY <4>1, <2>1, FS_AddElement
      <4> QED BY <4>1, <4>2, <3>2, <2>1, <1>8
    <3> QED BY <3>1, <3>2
  <2>4. n <= calc_max_n(Impl.mask) /\ n = n + 0
    BY <2>1, <2>2, <1>8
  <2>5. pc = "shrink" => n < calc_min_n(Impl.mask)
    OBVIOUS
  <2>6. w'.pc # "replace" /\ w'.pc \notin {"try"} \cup Storing
    BY <1>19 DEF Storing
  <2>7. Impl'.n = n /\ Impl'.mask = Impl.mask
    BY <1>9, <1>11, <1>17
  <2> HIDE DEF pc
  <2> QED BY <1>16, <1>19, <2>3, <2>4, <2>5, <2>6, <2>7 DEF CountOK
<1>24. retired' \subseteq Nodes /\ contents' \subseteq Nodes \ retired'
  BY <1>2, <1>5, <1>16 DEF MapOK, L
<1>25. ChainsOK(next', Linked')
  BY <1>7, <1>20
<1>26. w'.pc \notin Storing
  BY <1>19 DEF Storing
<1> QED BY <1>16, <1>17, <1>21, <1>22, <1>23, <1>24, <1>25, <1>26 DEF MapOK

-----------------------------------------------------------------------------
(* What follows from the invariant. *)

\* The invariant speaks of nothing that a reader's loads change.
LEMMA SameMapOK ==
  ASSUME MapOK, UNCHANGED <<impls, cmap, next, retired, ops, contents, w>>
  PROVE  MapOK'
<1>1. Impl' = Impl /\ ImplsOK'
  BY DEF MapOK, ImplsOK, Impl
<1>2. Linked' = Linked
  BY DEF Linked
<1>3. WriterOK' /\ CountOK'
  BY <1>1 DEF MapOK, WriterOK, CountOK
<1>4. w.pc \in Resting => RestOK'
  BY <1>1, <1>2 DEF MapOK, RestOK
<1>5. ASSUME w.pc \in Storing PROVE \E old, plan, j : MidAt(old, plan, j)'
  <2>1. PICK old, plan, j : MidAt(old, plan, j)
    BY <1>5 DEF MapOK
  <2>2. MidAt(old, plan, j)'
    BY <1>1, <1>2, <2>1 DEF MidAt, NodesDone, HashesDone
  <2> QED BY <2>2
<1> QED BY <1>1, <1>2, <1>3, <1>4, <1>5 DEF MapOK

\* The end of a grace period keeps the invariant: the published table stays.
LEMMA DoneOK ==
  ASSUME MapOK, NEW r \in Readers, Done(r)
  PROVE  MapOK'
<1>1. UNCHANGED <<next, ops, contents, w>>
  BY DEF Done
<1>2. CASE UNCHANGED <<retired, impls, cmap>>
  BY <1>1, <1>2, SameMapOK
<1>3. CASE retired' = {} /\ impls' = <<Impl>> /\ cmap' = 1
  <2>0. Impl \in ImplSet
    BY ImplIs DEF MapOK
  <2>1. Impl' = Impl /\ ImplsOK'
    BY <1>3, <2>0 DEF ImplsOK, Impl
  <2>2. Linked' = Linked
    BY <1>1 DEF Linked
  <2>3. WriterOK' /\ CountOK'
    BY <1>1, <1>3, <2>1 DEF MapOK, WriterOK, CountOK
  <2>4. w.pc \in Resting => RestOK'
    BY <1>1, <2>1, <2>2 DEF MapOK, RestOK
  <2>5. ASSUME w.pc \in Storing PROVE \E old, plan, j : MidAt(old, plan, j)'
    <3>1. PICK old, plan, j : MidAt(old, plan, j)
      BY <2>5 DEF MapOK
    <3>2. MidAt(old, plan, j)'
      BY <1>1, <2>1, <2>2, <3>1 DEF MidAt, NodesDone, HashesDone
    <3> QED BY <3>2
  <2> QED BY <1>1, <1>3, <2>1, <2>2, <2>3, <2>4, <2>5 DEF MapOK
<1> QED BY <1>2, <1>3 DEF Done

\* A reader changes nothing but its locals until it is done.
LEMMA ReaderSteps ==
  ASSUME NEW r \in Readers, Reader(r)
  PROVE  ReaderOnly \/ Done(r)
  BY DEF Reader, FindStart, ReadEvenCounter, ReadHash, ReadNode, CounterCheck, Recheck, Walk,
         CursorStart, CursorSlot, CursorNode, CursorEnd

\* The writer of lib/cmap.c keeps MapOK, for any nodes, hash functions, load limits
\* and search depth: in each state the published table holds every linked node in a
\* single chain where a search finds it, or is in the middle of the stores of a plan
\* that ends in such a table.
THEOREM MapInvariant == Spec => []MapOK
<1>1. Init => MapOK
  BY InitOK
<1>2. MapOK /\ [Next]_vars => MapOK'
  <2> SUFFICES ASSUME MapOK, [Next]_vars PROVE MapOK'
    OBVIOUS
  <2>1. ASSUME NEW n \in Nodes, InsertCall(n) PROVE MapOK'
    BY <2>1, InsertCallOK
  <2>2. ASSUME NEW old \in Nodes, NEW new \in Nodes \cup {Null}, ReplaceCall(old, new) PROVE MapOK'
    BY <2>2, ReplaceCallOK
  <2>3. CASE Expand
    BY <2>3, ExpandOK
  <2>4. CASE TryInsert
    BY <2>4, TryInsertOK
  <2>5. CASE SetOdd
    BY <2>5, SetOddOK
  <2>6. CASE SetNode
    BY <2>6, SetNodeOK
  <2>7. CASE SetHash
    BY <2>7, SetHashOK
  <2>8. CASE SetEven
    BY <2>8, SetEvenOK
  <2>9. CASE Replace
    BY <2>9, ReplaceOK
  <2>10. CASE Shrink
    BY <2>10, ShrinkOK
  <2>11. ASSUME NEW r \in Readers, Reader(r) PROVE MapOK'
    <3>1. CASE ReaderOnly
      BY <3>1, SameMapOK DEF ReaderOnly
    <3>2. CASE Done(r)
      BY <3>2, DoneOK
    <3> QED BY <3>1, <3>2, <2>11, ReaderSteps
  <2>12. CASE UNCHANGED vars
    BY <2>12, SameMapOK DEF vars
  <2> QED BY <2>1, <2>2, <2>3, <2>4, <2>5, <2>6, <2>7, <2>8, <2>9, <2>10, <2>11, <2>12 DEF Next, Writer
<1> QED BY <1>1, <1>2, PTL DEF Spec

\* What TypeOK says of the published table and of the writer's locals.
LEMMA WriterTyped ==
  ASSUME MapOK
  PROVE  /\ cmap \in DOMAIN impls /\ next \in [Nodes -> Nodes \cup {Null}]
         /\ InFlight \subseteq Nodes
         /\ w.pc \in {"odd", "node", "hash", "even"} =>
              /\ Head(w.todo).b \in 0 .. Impl.mask /\ Head(w.todo).i \in Slots
              /\ Head(w.todo).node \in Nodes
         /\ \A b \in 0 .. Impl.mask :
              (Impl.counter[b] % 2 = 1)
                <=> (w.pc \in {"node", "hash", "even"} /\ Head(w.todo).b = b)
<1>1. cmap \in DOMAIN impls
  BY DEF MapOK, ImplsOK
<1>2. next \in [Nodes -> Nodes \cup {Null}]
  BY DEF MapOK, ChainsOK, NextT
<1>3. w.pc \in Storing \cup Resting /\ InFlight \subseteq Nodes
  BY DEF MapOK, WriterOK, WriterT, InFlight
<1>4. ASSUME NEW b \in 0 .. Impl.mask
      PROVE  (Impl.counter[b] % 2 = 1) <=> (w.pc \in {"node", "hash", "even"} /\ Head(w.todo).b = b)
  <2>1. CASE w.pc \in Resting
    <3>1. Even(Impl)
      BY <2>1 DEF MapOK, RestOK
    <3> QED BY <2>1, <3>1 DEF Even, Resting
  <2>2. CASE w.pc \in Storing
    <3>1. PICK old, plan, j : MidAt(old, plan, j)
      BY <2>2 DEF MapOK
    <3>2. Head(w.todo) = plan[j + 1]
      BY <3>1, Now
    <3> QED BY <3>1, <3>2 DEF MidAt
  <2> QED BY <1>3, <2>1, <2>2
<1>5. ASSUME w.pc \in Storing
      PROVE  /\ Head(w.todo).b \in 0 .. Impl.mask /\ Head(w.todo).i \in Slots
             /\ Head(w.todo).node \in Nodes
  <2>1. PICK old, plan, j : MidAt(old, plan, j)
    BY <1>5 DEF MapOK
  <2> QED BY <2>1, Now
<1> QED BY <1>1, <1>2, <1>3, <1>4, <1>5 DEF Storing

\* The room in a new table follows from the writer's invariant.
LEMMA FitsFromMap ==
  ASSUME MapOK
  PROVE  RehashFits
<1>1. Impl.mask \in Nat /\ Impl.n \in Int /\ Impl.n <= calc_max_n(Impl.mask)
      /\ (w.pc = "try" => Impl.n < calc_max_n(Impl.mask))
      /\ (w.pc = "shrink" => Impl.n < calc_min_n(Impl.mask))
  BY ImplIs DEF MapOK, CountOK
<1>2. PICK m \in Nat : m = Impl.mask
  BY <1>1
<1>3. /\ calc_max_n(m) \in Nat /\ calc_min_n(m) \in Nat
      /\ calc_max_n(m) < calc_max_n(2 * m + 1) /\ calc_min_n(m) <= calc_max_n(m \div 2)
      /\ calc_max_n(2 * m + 1) \in Nat /\ calc_max_n(m \div 2) \in Nat
  BY Limits
<1> QED BY <1>1, <1>2, <1>3 DEF RehashFits

\* RehashFits: ovs_assert(old->n < new->max_n) of cmap_rehash() never fails, whether
\* the map grows, shrinks or takes other hash functions.
THEOREM AlwaysFits == Spec => []RehashFits
  BY MapInvariant, FitsFromMap, PTL

\* The single chains follow from the writer's invariant.
LEMMA ChainFromMap ==
  ASSUME MapOK
  PROVE  OneChain
<1> SUFFICES ASSUME w.pc = "idle" PROVE OneChain
  BY DEF OneChain
<1> DEFINE used == {s \in (0 .. Impl.mask) \X Slots : Impl.nodes[s[1]][s[2]] # Null}
           chain == [s \in used |-> Chain(Impl.nodes[s[1]][s[2]])]
<1>1. /\ IsImpl(Impl) /\ GoodTable(Impl) /\ HeadsOK(HeadSet(Impl), next, contents)
      /\ ChainsOK(next, contents)
  BY ImplIs DEF MapOK, RestOK, Resting, WriterOK, Linked
<1>2. ASSUME NEW s \in used
      PROVE  /\ s[1] \in 0 .. Impl.mask /\ s[2] \in Slots /\ s = <<s[1], s[2]>>
             /\ Impl.nodes[s[1]][s[2]] \in contents /\ Impl.nodes[s[1]][s[2]] # Null
             /\ chain[s] = Reach(next, Impl.nodes[s[1]][s[2]])
             /\ GoodSlot(Impl, s[1], s[2])
  <2>1. PICK b \in 0 .. Impl.mask, i \in Slots : s = <<b, i>> /\ Impl.nodes[b][i] # Null /\ s[1] = b /\ s[2] = i
    OBVIOUS
  <2>2. PICK x : x = Impl.nodes[b][i] /\ x \in Nodes
    BY <1>1, <2>1, ImplFacts
  <2>3. x \in contents
    BY <1>1, <2>2 DEF HeadsOK, HeadSet, IsHead
  <2>4. Chain(x) = Reach(next, x)
    BY <2>2, ChainReach
  <2>5. chain[s] = Chain(x)
    BY <2>1, <2>2
  <2>6. GoodSlot(Impl, b, i)
    BY <2>1, <1>1 DEF GoodTable
  <2> QED BY <2>1, <2>2, <2>3, <2>4, <2>5, <2>6
<1>3. ASSUME NEW b \in 0 .. Impl.mask, NEW i \in Slots, Impl.nodes[b][i] # Null
      PROVE  <<b, i>> \in used /\ chain[<<b, i>>] = Reach(next, Impl.nodes[b][i])
  <2>1. <<b, i>> \in used
    BY <1>3
  <2> QED BY <2>1, <1>2
<1> HIDE DEF used, chain
<1>4. UNION {chain[s] : s \in used} = contents
  <2>1. ASSUME NEW s \in used PROVE chain[s] \subseteq contents
    BY <1>1, <1>2, ChainHash
  <2>2. ASSUME NEW x \in contents PROVE \E s \in used : x \in chain[s]
    <3>1. PICK y \in HeadSet(Impl) : x \in Reach(next, y)
      BY <1>1 DEF HeadsOK
    <3>2. PICK b \in 0 .. Impl.mask, i \in Slots : Impl.nodes[b][i] = y /\ y # Null
      BY <3>1, CmapAssumption DEF HeadSet, IsHead
    <3> QED BY <3>1, <3>2, <1>3
  <2> QED BY <2>1, <2>2
<1>5. Cardinality(contents) = Impl.n
  BY Counted
<1>6. ASSUME NEW s \in used
      PROVE  /\ \A n \in chain[s] : HashOf[n] = Impl.hashes[s[1]][s[2]]
             /\ s = SlotOf(Impl, Impl.hashes[s[1]][s[2]])
             /\ s[2] = Min(SlotsWith(Impl, s[1], Impl.hashes[s[1]][s[2]]))
  <2>1. PICK b \in 0 .. Impl.mask, i \in Slots, x \in contents :
          /\ s = <<b, i>> /\ s[1] = b /\ s[2] = i /\ x = Impl.nodes[b][i] /\ x # Null
          /\ chain[s] = Reach(next, x) /\ GoodSlot(Impl, b, i)
    BY <1>2
  <2>2. PICK h : h = Impl.hashes[b][i] /\ HashOf[x] = h
    BY <2>1 DEF GoodSlot
  <2>3. \A n \in chain[s] : HashOf[n] = h
    BY <1>1, <2>1, <2>2, ChainHash
  <2>4. SlotOf(Impl, h) = <<b, i>>
    BY <1>1, <2>1, <2>2, SlotOfIs
  <2>5. i = Min(SlotsWith(Impl, b, h))
    <3> DEFINE S == SlotsWith(Impl, b, h)
    <3>1. S \in SUBSET Slots /\ i \in S /\ S # {} /\ \A j \in Slots : j < i => j \notin S
      BY <2>1, <2>2 DEF SlotsWith, GoodSlot
    <3> HIDE DEF S
    <3>2. Min(S) \in S /\ Min(S) \in Slots /\ \A j \in Slots : j < Min(S) => j \notin S
      BY <3>1, MinSlot
    <3>3. ~(i < Min(S)) /\ ~(Min(S) < i) /\ i \in Nat /\ Min(S) \in Nat
      BY <3>1, <3>2, CmapAssumption DEF Slots
    <3>4. i = Min(S)
      BY <3>3
    <3> QED BY <3>4 DEF S
  <2> QED BY <2>1, <2>2, <2>3, <2>4, <2>5
<1> QED BY <1>4, <1>5, <1>6 DEF OneChain, used, chain

\* OneChain: between two calls a hash is in a single chain in a single bucket, where
\* cmap_find() and cmap_replace() look first, the chains hold exactly the contents of
\* the map, and impl->n counts them.
THEOREM ChainsStand == Spec => []OneChain
  BY MapInvariant, ChainFromMap, PTL

-----------------------------------------------------------------------------
(* The readers' invariant. *)

\* The nodes that a reader may hold: linked, removed lately, or about to be linked.
Live == Linked \cup retired \cup (IF w.pc \in Storing THEN {w.new} ELSE {})

\* The chains that a reader may be in stay there and have one hash.
LiveOK(nx, L) ==
  /\ L \subseteq Nodes /\ Closed(nx, L)
  /\ \A n \in L : nx[n] # Null => HashOf[nx[n]] = HashOf[n]

\* The program counters of a search before it has found a chain.
Finding == {"even", "hash", "node", "check", "recheck"}

\* The type of a reader's locals.
ReaderT ==
  [pc : {"idle", "walk", "slot", "cursor", "done"} \cup Finding,
   hash : SUBSET Hashes, im : Nat, k : Nat, c : [1 .. 2 -> Nat], i : Slots,
   node : Nodes \cup {Null}, must : SUBSET Nodes, may : SUBSET Nodes,
   seen : SUBSET Nodes, twice : BOOLEAN, inserts : BOOLEAN]

\* The history of a reader: what it must visit is in the map, what it may visit
\* includes all that is in the map or on its way, and the chains and slots that it
\* can meet stay in that.  C and F are the contents and the nodes in flight.
HistoryOK(x, im, nx, L, C, F) ==
  /\ x.must \subseteq C /\ \A n \in x.must : HashOf[n] \in x.hash
  /\ \A n \in C \cup F : HashOf[n] \in x.hash => n \in x.may
  /\ \A n \in x.may : HashOf[n] \in x.hash
  /\ \A n \in x.may \cap L : nx[n] \in x.may \cup {Null}
  /\ x.seen \subseteq x.may \cap L
  /\ x.pc \in {"walk", "cursor"} => x.node \in x.may \cap L
  /\ \A b \in 0 .. im.mask : \A i \in Slots : im.nodes[b][i] # Null =>
       /\ im.nodes[b][i] \in L
       /\ HashOf[im.nodes[b][i]] \in x.hash => im.nodes[b][i] \in x.may

\* No chain with hash h is in bucket b.
NoneIn(im, b, h) == \A i \in Slots : im.nodes[b][i] # Null => im.hashes[b][i] # h

\* What a table shows to a search for h that has to find the nodes in S: their chain is
\* in one of the two buckets, and a bucket that is not being changed and has a
\* chain with the hash has that chain, before any other slot with the hash.
ViewOK(im, h, nx, S, M) ==
  /\ S # {} => ~NoneIn(im, Bucket1(im, h), h) \/ ~NoneIn(im, Bucket2(im, h), h)
  /\ \A b \in 0 .. im.mask : \A i \in Slots :
       im.counter[b] % 2 = 0 /\ im.nodes[b][i] # Null /\ im.hashes[b][i] = h =>
         /\ S \subseteq Reach(nx, im.nodes[b][i]) /\ im.nodes[b][i] \in M
         /\ \A j \in Slots : j < i => im.hashes[b][j] # h

\* The counter of bucket k is the one that was read.
SameCounter(x, im, h, k) == im.counter[Bucket(im, h, k)] = x.c[k]

\* A search: what it knows of a bucket holds as long as the counter is the same.
SearchOK(x, im, h, nx, L) ==
  /\ x.hash = {h} /\ h \in Hashes /\ x.k \in 1 .. 2 /\ x.seen = {} /\ x.twice = FALSE
  /\ \A k \in 1 .. 2 : x.c[k] % 2 = 0 /\ x.c[k] <= im.counter[Bucket(im, h, k)]
  /\ ViewOK(im, h, nx, x.must, x.may \cap L)
  /\ x.pc \in {"hash", "node"} /\ SameCounter(x, im, h, x.k) =>
       \A j \in Slots : j < x.i => im.hashes[Bucket(im, h, x.k)][j] # h
  /\ x.pc = "node" /\ SameCounter(x, im, h, x.k) =>
       im.hashes[Bucket(im, h, x.k)][x.i] = h
  /\ x.pc = "check" /\ SameCounter(x, im, h, x.k) /\ x.node # Null =>
       x.must \subseteq Reach(nx, x.node) /\ x.node \in x.may \cap L
  /\ x.pc = "check" /\ SameCounter(x, im, h, x.k) /\ x.node = Null =>
       x.must = {} \/ NoneIn(im, Bucket(im, h, x.k), h)
  /\ x.k = 2 /\ SameCounter(x, im, h, 1) =>
       x.must = {} \/ NoneIn(im, Bucket(im, h, 1), h)
  /\ x.pc = "recheck" => x.must = {} \/ ~SameCounter(x, im, h, 1)

\* A search in its chain: what it has still to visit is ahead, what it has visited
\* is not.
WalkOK(x, nx) ==
  /\ x.must \ x.seen \subseteq Reach(nx, x.node)
  /\ x.seen \cap Reach(nx, x.node) = {} /\ x.twice = FALSE

\* The cursor has not come to slot i of bucket b yet.
Ahead(x, b, i) == b > x.k \/ (b = x.k /\ i >= x.i)

\* An iteration into which nobody inserts.
OnceOK(x, im, nx) ==
  /\ GoodTable(im) /\ x.twice = FALSE
  /\ x.seen \cap Reach(nx, x.node) = {}
  /\ \A b \in 0 .. im.mask : \A i \in Slots : Ahead(x, b, i) /\ im.nodes[b][i] # Null =>
       /\ \A n \in x.seen : HashOf[n] # HashOf[im.nodes[b][i]]
       /\ x.node # Null => HashOf[x.node] # HashOf[im.nodes[b][i]]
  /\ \A n \in x.must : n \in x.seen \cup Reach(nx, x.node)
       \/ \E b \in 0 .. im.mask : \E i \in Slots :
            Ahead(x, b, i) /\ n \in Reach(nx, im.nodes[b][i])

\* An iteration.
IterationOK(x, im, nx) ==
  /\ x.hash = Hashes /\ (x.pc = "slot" => x.node = Null)
  /\ x.inserts = FALSE => OnceOK(x, im, nx)

\* The end of a search or of an iteration.
EndOK(x) ==
  \/ x.must \subseteq x.seen /\ x.twice = FALSE
  \/ x.hash = Hashes /\ x.inserts = TRUE

\* A reader at work.
ActiveOK(x, im, nx, L, C, F) ==
  /\ x \in ReaderT /\ x.pc # "idle"
  /\ HistoryOK(x, im, nx, L, C, F)
  /\ x.pc \in Finding => \E h : SearchOK(x, im, h, nx, L)
  /\ x.pc = "walk" => WalkOK(x, nx)
  /\ x.pc \in {"slot", "cursor"} => IterationOK(x, im, nx)
  /\ x.pc = "done" => EndOK(x)

\* A reader: idle, or at work in the table it has loaded.
ReaderOK(x) ==
  \/ x = IdleReader
  \/ /\ x.im \in 1 .. cmap /\ (x.inserts = FALSE => w.new = Null)
     /\ ActiveOK(x, impls[x.im], next, Live, contents, InFlight)

\* The inductive invariant of the readers.
ReadersOK ==
  /\ DOMAIN rd = Readers /\ rd = [r \in Readers |-> rd[r]]
  /\ LiveOK(next, Live)
  /\ \A r \in Readers : ReaderOK(rd[r])

-----------------------------------------------------------------------------
(* What the published table shows to a search. *)

\* The nodes of L with a hash.
WithHashIn(L, h) == {n \in L : HashOf[n] = h}

\* A chain of a table at rest has all nodes with its hash.
LEMMA RestChain ==
  ASSUME NEW im, IsImpl(im), GoodTable(im), NEW nx, NEW L, ChainsOK(nx, L),
         HeadsOK(HeadSet(im), nx, L), NEW h, NEW S \in SUBSET WithHashIn(L, h),
         NEW b \in 0 .. im.mask, NEW i \in Slots, im.nodes[b][i] # Null, im.hashes[b][i] = h
  PROVE  S \subseteq Reach(nx, im.nodes[b][i]) /\ im.nodes[b][i] \in WithHashIn(L, h)
<1>1. ASSUME NEW m \in S PROVE m \in Reach(nx, im.nodes[b][i])
  <2>1. m \in L /\ HashOf[m] = h
    BY <1>1 DEF WithHashIn
  <2>2. PICK c \in 0 .. im.mask, j \in Slots :
          /\ im.nodes[c][j] \in HeadSet(im) /\ m \in Reach(nx, im.nodes[c][j])
          /\ im.hashes[c][j] = HashOf[m]
    BY <2>1, ChainOf
  <2>3. im.nodes[c][j] # Null
    BY <2>2, CmapAssumption DEF HeadSet
  <2>4. c = b /\ j = i
    BY <2>1, <2>2, <2>3, OneUsed
  <2> QED BY <2>2, <2>4
<1>2. im.nodes[b][i] \in HeadSet(im)
  BY ImplFacts DEF HeadSet, IsHead
<1>3. HashOf[im.nodes[b][i]] = h
  BY DEF GoodTable, GoodSlot
<1> QED BY <1>1, <1>2, <1>3 DEF HeadsOK, WithHashIn

\* A hash that a node of the table has is in a slot.
LEMMA RestFound ==
  ASSUME NEW im, IsImpl(im), GoodTable(im), NEW nx, NEW L, ChainsOK(nx, L),
         HeadsOK(HeadSet(im), nx, L), NEW h, NEW S \in SUBSET WithHashIn(L, h), S # {}
  PROVE  \E b \in 0 .. im.mask : \E i \in Slots :
           /\ im.nodes[b][i] # Null /\ im.hashes[b][i] = h
           /\ b = Bucket1(im, h) \/ b = Bucket2(im, h)
<1>1. PICK m : m \in S
  OBVIOUS
<1>2. m \in L /\ HashOf[m] = h
  BY <1>1 DEF WithHashIn
<1>3. PICK c \in 0 .. im.mask, j \in Slots :
        im.nodes[c][j] \in HeadSet(im) /\ im.hashes[c][j] = HashOf[m]
  BY <1>2, ChainOf
<1>4. im.nodes[c][j] # Null
  BY <1>3, CmapAssumption DEF HeadSet
<1>5. GoodSlot(im, c, j)
  BY <1>4 DEF GoodTable
<1> QED BY <1>2, <1>3, <1>4, <1>5 DEF GoodSlot

\* What a search sees of a table at rest.
LEMMA RestView ==
  ASSUME NEW im, IsImpl(im), GoodTable(im), NEW nx, NEW L, ChainsOK(nx, L),
         HeadsOK(HeadSet(im), nx, L), NEW h, NEW S \in SUBSET WithHashIn(L, h)
  PROVE  ViewOK(im, h, nx, S, WithHashIn(L, h))
<1>1. ASSUME S # {}
      PROVE  ~NoneIn(im, Bucket1(im, h), h) \/ ~NoneIn(im, Bucket2(im, h), h)
  <2>1. PICK b \in 0 .. im.mask, i \in Slots :
           /\ im.nodes[b][i] # Null /\ im.hashes[b][i] = h
           /\ b = Bucket1(im, h) \/ b = Bucket2(im, h)
    BY <1>1, RestFound
  <2> QED BY <2>1 DEF NoneIn
<1>2. ASSUME NEW b \in 0 .. im.mask, NEW i \in Slots, im.nodes[b][i] # Null, im.hashes[b][i] = h
      PROVE  /\ S \subseteq Reach(nx, im.nodes[b][i]) /\ im.nodes[b][i] \in WithHashIn(L, h)
             /\ \A j \in Slots : j < i => im.hashes[b][j] # h
  <2>1. S \subseteq Reach(nx, im.nodes[b][i]) /\ im.nodes[b][i] \in WithHashIn(L, h)
    BY <1>2, RestChain
  <2>2. GoodSlot(im, b, i)
    BY <1>2 DEF GoodTable
  <2> QED BY <2>1, <2>2, <1>2 DEF GoodSlot
<1> QED BY <1>1, <1>2 DEF ViewOK

\* The progress of the writer in the middle of a plan, as far as readers tell: a
\* nodes and c hashes are stored, and a bucket whose counter is even is not the one
\* that is being changed.
Partly(im, plan, j, a, c, cur) ==
  /\ j \in Nat /\ j + 1 \in 1 .. Len(plan)
  /\ a \in {j, j + 1} /\ c \in {j, a}
  /\ MidOK(im, plan, a, c, cur)
  /\ \A b \in 0 .. im.mask : cur.counter[b] % 2 = 0 => a = j \/ plan[j + 1].b # b

\* A slot of an even bucket is as it was, or has a chain that was moved there.
LEMMA MidSlot ==
  ASSUME NEW im, IsImpl(im), GoodTable(im), NEW plan, NEW node \in Nodes,
         PlanOK(im, plan, node, HashOf[node]), NEW j, NEW a, NEW c, NEW cur,
         Partly(im, plan, j, a, c, cur),
         NEW b \in 0 .. im.mask, NEW i \in Slots, cur.counter[b] % 2 = 0
  PROVE  \/ /\ cur.nodes[b][i] = im.nodes[b][i] /\ cur.hashes[b][i] = im.hashes[b][i]
         \/ \E k \in 1 .. Len(plan) :
              /\ k # Len(plan) /\ At(plan, k, b, i)
              /\ cur.nodes[b][i] = plan[k].node /\ cur.hashes[b][i] = plan[k].hash
<1>1. /\ j \in Nat /\ j + 1 \in 1 .. Len(plan) /\ a \in {j, j + 1} /\ c \in {j, a}
      /\ MidOK(im, plan, a, c, cur) /\ (a = j \/ plan[j + 1].b # b)
  BY DEF Partly
<1>2. Len(plan) \in Nat
  BY DEF PlanOK
<1>3. CASE \E k \in 1 .. j : At(plan, k, b, i)
  <2>1. PICK k \in 1 .. j : At(plan, k, b, i)
    BY <1>3
  <2>2. k \in 1 .. a /\ k \in 1 .. c /\ k \in 1 .. Len(plan) /\ k # Len(plan)
    BY <1>1, <1>2
  <2> QED BY <1>1, <2>1, <2>2 DEF MidOK
<1>4. CASE \A k \in 1 .. j : ~At(plan, k, b, i)
  <2>1. \A k \in 1 .. a : ~At(plan, k, b, i)
    BY <1>1, <1>4 DEF At
  <2>2. \A k \in 1 .. c : ~At(plan, k, b, i)
    BY <1>1, <1>4 DEF At
  <2> QED BY <1>1, <2>1, <2>2 DEF MidOK
<1> QED BY <1>3, <1>4

\* The facts of a plan that say where its chains are.
LEMMA PlanFacts ==
  ASSUME NEW im, IsImpl(im), GoodTable(im), NEW plan, NEW node \in Nodes,
         PlanOK(im, plan, node, HashOf[node])
  PROVE  /\ PlanSources(im, plan) /\ PlanUnique(im, plan) /\ PlanHashes(im, plan)
         /\ PlanFirst(im, plan) /\ PlanTyped(im, plan)
  BY Sources, Unique, StoreHash, StoreFirst, PlanTypes

\* While chains are moved each is in one of its buckets.
LEMMA MidFound ==
  ASSUME NEW im, IsImpl(im), GoodTable(im), NEW nx, NEW L, ChainsOK(nx, L),
         HeadsOK(HeadSet(im), nx, L), NEW h, NEW S \in SUBSET WithHashIn(L, h), S # {},
         NEW plan, NEW node \in Nodes, PlanOK(im, plan, node, HashOf[node]),
         NEW j, NEW a, NEW c, NEW cur, Partly(im, plan, j, a, c, cur)
  PROVE  ~NoneIn(cur, Bucket1(cur, h), h) \/ ~NoneIn(cur, Bucket2(cur, h), h)
<1>1. /\ j \in Nat /\ j + 1 \in 1 .. Len(plan) /\ a \in {j, j + 1} /\ c \in {j, a}
      /\ MidOK(im, plan, a, c, cur) /\ cur.mask = im.mask /\ cur.basis = im.basis
  BY DEF Partly, MidOK
<1>2. Bucket1(cur, h) = Bucket1(im, h) /\ Bucket2(cur, h) = Bucket2(im, h)
  BY <1>1 DEF Bucket1, Bucket2
<1>3. PICK b \in 0 .. im.mask, i \in Slots :
           /\ im.nodes[b][i] # Null /\ im.hashes[b][i] = h
           /\ b = Bucket1(im, h) \/ b = Bucket2(im, h)
  BY RestFound
<1>4. CASE \A k \in 1 .. a : ~At(plan, k, b, i)
  <2>1. \A k \in 1 .. c : ~At(plan, k, b, i)
    BY <1>1, <1>4
  <2>2. cur.nodes[b][i] = im.nodes[b][i] /\ cur.hashes[b][i] = im.hashes[b][i]
    BY <1>1, <1>4, <2>1 DEF MidOK
  <2> QED BY <1>2, <1>3, <2>2 DEF NoneIn
<1>5. ASSUME NEW k \in 1 .. a, At(plan, k, b, i)
      PROVE ~NoneIn(cur, Bucket1(cur, h), h) \/ ~NoneIn(cur, Bucket2(cur, h), h)
  <2>1. k # 1
    BY <1>3, <1>5 DEF PlanOK, At
  <2>2. PICK l \in 1 .. Len(plan) : l + 1 = k /\ l \in 1 .. a /\ l \in 1 .. c /\ l # Len(plan)
    <3>1. Len(plan) \in Nat
      BY DEF PlanOK
    <3>2. k - 1 \in 1 .. Len(plan) /\ (k - 1) + 1 = k /\ k - 1 \in 1 .. a /\ k - 1 \in 1 .. c
          /\ k - 1 # Len(plan)
      BY <1>1, <2>1, <3>1
    <3> QED BY <3>2
  <2>3. /\ plan[l].node = im.nodes[b][i] /\ plan[l].hash = h
        /\ plan[l].b \in 0 .. im.mask /\ plan[l].i \in Slots
        /\ plan[l].b = Bucket1(im, h) \/ plan[l].b = Bucket2(im, h)
    <3>1. /\ PlanSources(im, plan) /\ PlanHashes(im, plan) /\ PlanTyped(im, plan)
      BY PlanFacts
    <3>2. plan[l + 1].b = b /\ plan[l + 1].i = i
      BY <1>5, <2>2 DEF At
    <3>3. /\ plan[l].node = im.nodes[plan[l + 1].b][plan[l + 1].i]
          /\ plan[l].hash = im.hashes[plan[l + 1].b][plan[l + 1].i]
      BY <2>2, <3>1 DEF PlanSources
    <3>4. plan[l].node = im.nodes[b][i] /\ plan[l].hash = h
      BY <1>3, <3>2, <3>3
    <3>5. plan[l].b \in 0 .. im.mask /\ plan[l].i \in Slots
      BY <2>2, <3>1 DEF PlanTyped
    <3>6. plan[l].b = Bucket1(im, plan[l].hash) \/ plan[l].b = Bucket2(im, plan[l].hash)
      BY <2>2, <3>1 DEF PlanHashes
    <3> QED BY <3>4, <3>5, <3>6
  <2>4. At(plan, l, plan[l].b, plan[l].i)
    BY DEF At
  <2>5. cur.nodes[plan[l].b][plan[l].i] = plan[l].node /\ cur.hashes[plan[l].b][plan[l].i] = h
    BY <1>1, <2>2, <2>3, <2>4 DEF MidOK
  <2> QED BY <1>2, <1>3, <2>3, <2>5 DEF NoneIn
<1> QED BY <1>4, <1>5

\* A chain in a bucket that is not being changed is the one with the hash, and in
\* the first slot with the hash.
LEMMA MidChain ==
  ASSUME NEW im, IsImpl(im), GoodTable(im), NEW nx, NEW L, ChainsOK(nx, L),
         HeadsOK(HeadSet(im), nx, L), NEW h, NEW S \in SUBSET WithHashIn(L, h),
         NEW plan, NEW node \in Nodes, PlanOK(im, plan, node, HashOf[node]),
         NEW j, NEW a, NEW c, NEW cur, Partly(im, plan, j, a, c, cur),
         NEW b \in 0 .. im.mask, NEW i \in Slots, cur.counter[b] % 2 = 0,
         cur.nodes[b][i] # Null, cur.hashes[b][i] = h
  PROVE  /\ S \subseteq Reach(nx, cur.nodes[b][i]) /\ cur.nodes[b][i] \in WithHashIn(L, h)
         /\ \A s \in Slots : s < i => cur.hashes[b][s] # h
<1>0. /\ PlanSources(im, plan) /\ PlanUnique(im, plan) /\ PlanHashes(im, plan)
      /\ PlanFirst(im, plan) /\ PlanTyped(im, plan)
  BY PlanFacts
<1>1. ASSUME NEW s \in Slots
      PROVE  \/ cur.nodes[b][s] = im.nodes[b][s] /\ cur.hashes[b][s] = im.hashes[b][s]
             \/ \E k \in 1 .. Len(plan) :
                  /\ k # Len(plan) /\ At(plan, k, b, s)
                  /\ cur.nodes[b][s] = plan[k].node /\ cur.hashes[b][s] = plan[k].hash
  BY MidSlot
<1>2. CASE cur.nodes[b][i] = im.nodes[b][i] /\ cur.hashes[b][i] = im.hashes[b][i]
  <2>1. S \subseteq Reach(nx, cur.nodes[b][i]) /\ cur.nodes[b][i] \in WithHashIn(L, h)
    BY <1>2, RestChain
  <2>2. GoodSlot(im, b, i)
    BY <1>2 DEF GoodTable
  <2>3. ASSUME NEW s \in Slots, s < i, cur.hashes[b][s] = h PROVE FALSE
    <3>1. im.hashes[b][s] # h
      BY <1>2, <2>2, <2>3 DEF GoodSlot
    <3>2. PICK k \in 1 .. Len(plan) :
            k # Len(plan) /\ At(plan, k, b, s) /\ cur.hashes[b][s] = plan[k].hash
      BY <1>1, <2>3, <3>1
    <3>3. At(plan, k + 1, b, i)
      BY <1>0, <1>2, <2>3, <3>2 DEF PlanUnique
    <3>4. plan[k].b # plan[k + 1].b
      BY <1>0, <3>2 DEF PlanSources
    <3> QED BY <3>2, <3>3, <3>4 DEF At
  <2> QED BY <2>1, <2>3
<1>3. ASSUME NEW k \in 1 .. Len(plan), k # Len(plan), At(plan, k, b, i),
             cur.nodes[b][i] = plan[k].node, cur.hashes[b][i] = plan[k].hash
      PROVE  /\ S \subseteq Reach(nx, cur.nodes[b][i]) /\ cur.nodes[b][i] \in WithHashIn(L, h)
             /\ \A s \in Slots : s < i => cur.hashes[b][s] # h
  <2>1. /\ plan[k + 1].b \in 0 .. im.mask /\ plan[k + 1].i \in Slots
        /\ im.nodes[plan[k + 1].b][plan[k + 1].i] = plan[k].node /\ plan[k].node # Null
        /\ im.hashes[plan[k + 1].b][plan[k + 1].i] = h
    BY <1>0, <1>3 DEF PlanSources
  <2>2. S \subseteq Reach(nx, cur.nodes[b][i]) /\ cur.nodes[b][i] \in WithHashIn(L, h)
    <3>1. PICK bb \in 0 .. im.mask, ii \in Slots : bb = plan[k + 1].b /\ ii = plan[k + 1].i
      BY <2>1
    <3>2. /\ S \subseteq Reach(nx, im.nodes[bb][ii]) /\ im.nodes[bb][ii] \in WithHashIn(L, h)
      BY <2>1, <3>1, RestChain
    <3> QED BY <1>3, <2>1, <3>1, <3>2
  <2>3. ASSUME NEW s \in Slots, s < i, cur.hashes[b][s] = h PROVE FALSE
    <3>1. im.hashes[b][s] # h
      BY <1>0, <1>3, <2>3 DEF PlanFirst, At
    <3>2. PICK l \in 1 .. Len(plan) : At(plan, l, b, s)
      BY <1>1, <2>3, <3>1
    <3>3. l = k
      BY <1>3, <3>2 DEF PlanOK, At
    <3>4. s = i
      BY <1>3, <3>2, <3>3 DEF At
    <3> QED BY <2>3, <3>4 DEF Slots
  <2> QED BY <2>2, <2>3
<1> QED BY <1>1, <1>2, <1>3

\* What a search sees of a table that is being changed.
LEMMA MidView ==
  ASSUME NEW im, IsImpl(im), GoodTable(im), NEW nx, NEW L, ChainsOK(nx, L),
         HeadsOK(HeadSet(im), nx, L), NEW h, NEW S \in SUBSET WithHashIn(L, h),
         NEW plan, NEW node \in Nodes, PlanOK(im, plan, node, HashOf[node]),
         NEW j, NEW a, NEW c, NEW cur, Partly(im, plan, j, a, c, cur)
  PROVE  ViewOK(cur, h, nx, S, WithHashIn(L, h))
<1>1. cur.mask = im.mask
  BY DEF Partly, MidOK
<1>2. S # {} => ~NoneIn(cur, Bucket1(cur, h), h) \/ ~NoneIn(cur, Bucket2(cur, h), h)
  BY MidFound
<1>3. ASSUME NEW b \in 0 .. im.mask, NEW i \in Slots, cur.counter[b] % 2 = 0,
             cur.nodes[b][i] # Null, cur.hashes[b][i] = h
      PROVE  /\ S \subseteq Reach(nx, cur.nodes[b][i]) /\ cur.nodes[b][i] \in WithHashIn(L, h)
             /\ \A s \in Slots : s < i => cur.hashes[b][s] # h
  BY <1>3, MidChain
<1> QED BY <1>1, <1>2, <1>3 DEF ViewOK

\* The published table shows a search for any hash what it has to find.
ViewNow ==
  \A h : \A S \in SUBSET WithHashIn(contents, h) :
    ViewOK(Impl, h, next, S, WithHashIn(Linked, h))

\* The published table has nodes that are in the map or on their way.
SlotsNow ==
  \A b \in 0 .. Impl.mask : \A i \in Slots : Impl.nodes[b][i] # Null =>
    Impl.nodes[b][i] \in Live /\ Impl.nodes[b][i] \in contents \cup InFlight

\* In the middle of a plan the table is partly changed.
LEMMA PartlyNow ==
  ASSUME MapOK, w.pc \in Storing, NEW old, NEW plan, NEW j, MidAt(old, plan, j)
  PROVE  /\ Partly(old, plan, j, NodesDone(j), HashesDone(j), Impl)
         /\ IsImpl(old) /\ GoodTable(old) /\ HeadsOK(HeadSet(old), next, Linked)
         /\ PlanOK(old, plan, w.new, HashOf[w.new]) /\ w.new \in Nodes /\ ChainsOK(next, Linked)
<1>1. /\ IsImpl(old) /\ GoodTable(old) /\ HeadsOK(HeadSet(old), next, Linked)
      /\ PlanOK(old, plan, w.new, HashOf[w.new])
      /\ j \in Nat /\ j + 1 \in 1 .. Len(plan)
      /\ MidOK(old, plan, NodesDone(j), HashesDone(j), Impl)
      /\ \A b \in 0 .. Impl.mask :
           (Impl.counter[b] % 2 = 1) <=> (w.pc \in {"node", "hash", "even"} /\ plan[j + 1].b = b)
  BY DEF MidAt
<1>2. w.new \in Nodes /\ ChainsOK(next, Linked)
  BY DEF MapOK, WriterOK, Inserting
<1>3. NodesDone(j) \in {j, j + 1} /\ HashesDone(j) \in {j, NodesDone(j)}
  BY DEF NodesDone, HashesDone
<1>4. NodesDone(j) # j => w.pc \in {"node", "hash", "even"}
  BY DEF NodesDone
<1>5. Impl.mask = old.mask
  BY <1>1 DEF MidOK
<1>6. ASSUME NEW b \in 0 .. old.mask, Impl.counter[b] % 2 = 0, NodesDone(j) # j
      PROVE  plan[j + 1].b # b
  BY <1>1, <1>4, <1>5, <1>6
<1> QED BY <1>1, <1>2, <1>3, <1>6 DEF Partly

\* The published table shows a search what it has to find, also inside cmap_set_bucket().
LEMMA CurrentView == MapOK => ViewNow
<1> SUFFICES ASSUME MapOK, NEW h, NEW S \in SUBSET WithHashIn(contents, h)
             PROVE  ViewOK(Impl, h, next, S, WithHashIn(Linked, h))
  BY DEF ViewNow
<1>1. S \in SUBSET WithHashIn(Linked, h) /\ ChainsOK(next, Linked) /\ IsImpl(Impl)
  BY ImplIs DEF WithHashIn, Linked, MapOK
<1>2. CASE w.pc \in Resting
  BY <1>1, <1>2, RestView DEF MapOK, RestOK
<1>3. CASE w.pc \in Storing
  <2>1. PICK old, plan, j : MidAt(old, plan, j)
    BY <1>3 DEF MapOK
  <2>2. /\ Partly(old, plan, j, NodesDone(j), HashesDone(j), Impl)
        /\ IsImpl(old) /\ GoodTable(old) /\ HeadsOK(HeadSet(old), next, Linked)
        /\ PlanOK(old, plan, w.new, HashOf[w.new]) /\ w.new \in Nodes
    BY <1>3, <2>1, PartlyNow
  <2> QED BY <1>1, <2>2, MidView
<1> QED BY <1>2, <1>3 DEF MapOK, WriterOK, WriterT

\* The heads of the published table are linked, or on their way.
LEMMA CurrentSlots == MapOK => SlotsNow
<1> SUFFICES ASSUME MapOK, NEW b \in 0 .. Impl.mask, NEW i \in Slots, Impl.nodes[b][i] # Null
             PROVE  Impl.nodes[b][i] \in Live /\ Impl.nodes[b][i] \in contents \cup InFlight
  BY DEF SlotsNow
<1>1. IsImpl(Impl) /\ Linked \subseteq Live /\ Linked \subseteq contents \cup InFlight
  BY ImplIs DEF MapOK, Live, Linked, InFlight
<1>2. CASE w.pc \in Resting
  <2>1. Impl.nodes[b][i] \in HeadSet(Impl)
    BY <1>1, ImplFacts DEF HeadSet, IsHead
  <2> QED BY <1>1, <1>2, <2>1 DEF MapOK, RestOK, HeadsOK
<1>3. CASE w.pc \in Storing
  <2>1. PICK old, plan, j : MidAt(old, plan, j)
    BY <1>3 DEF MapOK
  <2>2. /\ Partly(old, plan, j, NodesDone(j), HashesDone(j), Impl)
        /\ IsImpl(old) /\ GoodTable(old) /\ HeadsOK(HeadSet(old), next, Linked)
        /\ PlanOK(old, plan, w.new, HashOf[w.new]) /\ w.new \in Nodes
    BY <1>3, <2>1, PartlyNow
  <2>3. ASSUME NEW c \in 0 .. old.mask, NEW k \in Slots, old.nodes[c][k] # Null
        PROVE  old.nodes[c][k] \in Linked
    BY <2>2, <2>3, ImplFacts DEF HeadsOK, HeadSet, IsHead
  <2>4. ASSUME NEW k \in 1 .. Len(plan), plan[k].node # Null
        PROVE  plan[k].node \in Linked \cup {w.new}
    <3>1. CASE k = Len(plan)
      BY <2>2, <3>1 DEF PlanOK
    <3>2. CASE k # Len(plan)
      <4>1. PlanSources(old, plan)
        BY <2>2, Sources
      <4> QED BY <3>2, <4>1, <2>3 DEF PlanSources
    <3> QED BY <3>1, <3>2
  <2>5. Impl.nodes[b][i] \in Linked \cup {w.new}
    <3> DEFINE a == NodesDone(j)
    <3>1. MidOK(old, plan, a, HashesDone(j), Impl) /\ Impl.mask = old.mask
      BY <2>2 DEF Partly, MidOK
    <3>2. 1 .. a \subseteq 1 .. Len(plan)
      BY <2>2 DEF Partly, PlanOK
    <3> HIDE DEF a
    <3>3. CASE \E k \in 1 .. a : At(plan, k, b, i)
      BY <3>1, <3>2, <3>3, <2>4 DEF MidOK
    <3>4. CASE \A k \in 1 .. a : ~At(plan, k, b, i)
      BY <3>1, <3>4, <2>3 DEF MidOK
    <3> QED BY <3>3, <3>4
  <2>6. w.new \in Live /\ w.new \in InFlight
    BY <1>3, <2>2, CmapAssumption DEF Live, InFlight
  <2> QED BY <1>1, <2>5, <2>6
<1> QED BY <1>2, <1>3 DEF MapOK, WriterOK, WriterT

-----------------------------------------------------------------------------
(* Chains that a reader may be in, and what the writer does to them. *)

\* The chains that start in L lose at most q, and gain nothing that is in L.
LinksKept(nx, mx, L, q) ==
  \A z \in L : /\ Reach(nx, z) \subseteq Reach(mx, z) \cup {q}
               /\ Reach(mx, z) \subseteq Reach(nx, z) \cup (Nodes \ L)

\* A new next pointer is to a node in D.
LinksNew(nx, mx, L, M, D) ==
  \A n \in M : mx[n] = Null \/ mx[n] \in D \/ (n \in L /\ mx[n] = nx[n])

\* A chain that starts in L stays in L.
LEMMA ReachLive ==
  ASSUME NEW nx, NEW L, LiveOK(nx, L), NEW z \in L
  PROVE  Reach(nx, z) \subseteq L
  BY ReachLeast DEF LiveOK

\* The chains when the next pointer of a node is set that no reader can hold.
LEMMA LinkFresh ==
  ASSUME NEW nx \in NextT, NEW L, LiveOK(nx, L), NEW n \in Nodes, n \notin L,
         NEW mx \in NextT, \A m \in Nodes : m # n => mx[m] = nx[m]
  PROVE  \A z \in L : Reach(mx, z) = Reach(nx, z) /\ mx[z] = nx[z]
<1>1. mx \in NextT /\ \A z \in Nodes : z # n => mx[z] = nx[z]
  OBVIOUS
<1>2. ASSUME NEW z \in L PROVE Reach(mx, z) = Reach(nx, z) /\ mx[z] = nx[z]
  <2>1. Reach(nx, z) \subseteq L /\ L \subseteq Nodes
    BY ReachLive DEF LiveOK
  <2>2. \A m \in Reach(nx, z) : mx[m] = nx[m]
    BY <1>1, <2>1
  <2>3. Reach(mx, z) = Reach(nx, z)
    BY <1>1, <2>1, <2>2, ReachSame
  <2> QED BY <1>1, <2>1, <2>3
<1> QED BY <1>1, <1>2

\* Chains that stay as they are.
LEMMA LinksSame ==
  ASSUME NEW nx, NEW mx, NEW L, NEW q, NEW M, NEW D, L \subseteq Nodes,
         \A z \in L : Reach(mx, z) = Reach(nx, z) /\ mx[z] = nx[z],
         \A n \in M : n \notin L => mx[n] \in D \cup {Null}
  PROVE  LinksKept(nx, mx, L, q) /\ LinksNew(nx, mx, L, M, D)
  BY DEF LinksKept, LinksNew

\* The chains when q, which comes after p, is replaced or removed.
LEMMA LinksPast ==
  ASSUME NEW nx \in NextT, NEW L, LiveOK(nx, L), Acyclic(nx), NEW p \in L, NEW q \in L,
         nx[p] = q, NEW r \in Nodes \cup {Null}, r \notin L,
         NEW mx, mx = LinkedPast(nx, p, q, r)
  PROVE  /\ LinksKept(nx, mx, L, q) /\ mx \in NextT
         /\ mx[p] = Successor(nx, q, r) /\ (r # Null => mx[r] = nx[q])
         /\ \A n \in Nodes : n # p /\ n # r => mx[n] = nx[n]
<1>1. p \in Nodes /\ q \in Nodes /\ L \subseteq Nodes /\ p # r /\ nx[q] \in Nodes \cup {Null}
  BY DEF LiveOK, NextT
<1>2. CASE r = Null
  <2>1. mx = [nx EXCEPT ![p] = nx[q]]
    BY <1>2 DEF LinkedPast, Relinked, Successor
  <2>2. mx \in NextT /\ mx[p] = nx[q] /\ \A n \in Nodes : n # p => mx[n] = nx[n]
    BY <1>1, <2>1 DEF NextT
  <2>3. ASSUME NEW z \in L
        PROVE  Reach(mx, z) \subseteq Reach(nx, z) /\ Reach(nx, z) \subseteq Reach(mx, z) \cup {q}
    BY <1>1, <2>2, ReachRemove
  <2> QED BY <1>2, <2>2, <2>3 DEF LinksKept, Successor
<1>3. CASE r # Null
  <2>1. mx = [[nx EXCEPT ![r] = nx[q]] EXCEPT ![p] = r] /\ r \in Nodes
    BY <1>3 DEF LinkedPast, Relinked, Successor
  <2>2. /\ mx \in NextT /\ mx[p] = r /\ mx[r] = nx[q]
        /\ \A n \in Nodes : n # p /\ n # r => mx[n] = nx[n]
    BY <1>1, <2>1 DEF NextT
  <2>3. ASSUME NEW z \in L
        PROVE  /\ Reach(mx, z) \subseteq Reach(nx, z) \cup {r}
               /\ Reach(nx, z) \subseteq Reach(mx, z) \cup {q}
    <3>1. r \notin Reach(nx, z) /\ r # p /\ r \in Nodes /\ z \in Nodes \cup {Null}
      BY <1>1, <2>1, ReachLive
    <3>2. /\ p \in Nodes /\ q \in Nodes /\ nx[p] = q /\ mx \in NextT /\ mx[p] = r /\ mx[r] = nx[q]
          /\ \A m \in Nodes : m # p /\ m # r => mx[m] = nx[m]
      BY <1>1, <2>2
    <3> HIDE <2>1, <2>2
    <3> QED BY <3>1, <3>2, ReachReplace
  <2>4. r \in Nodes \ L
    BY <2>1
  <2>5. LinksKept(nx, mx, L, q)
    BY <2>3, <2>4 DEF LinksKept
  <2> QED BY <1>3, <2>2, <2>5 DEF Successor
<1> QED BY <1>2, <1>3

\* Nodes that are linked or about to be are where they should be, if those removed
\* lately are.
RetiredOK == \A n \in retired : next[n] # Null => next[n] \in Live /\ HashOf[next[n]] = HashOf[n]

\* The chains that a reader may hold, from those of the removed nodes.
LEMMA LiveFromRetired == MapOK /\ RetiredOK => LiveOK(next, Live)
<1> SUFFICES ASSUME MapOK, RetiredOK PROVE LiveOK(next, Live)
  OBVIOUS
<1>1. /\ next \in NextT /\ Linked \subseteq Nodes /\ Closed(next, Linked) /\ retired \subseteq Nodes
      /\ \A n \in Linked : next[n] # Null => HashOf[next[n]] = HashOf[n]
  BY DEF MapOK, ChainsOK
<1>2. w.pc \in Storing => w.new \in Nodes /\ next[w.new] = Null
  BY DEF MapOK, WriterOK, Inserting
<1>3. Linked \subseteq Live /\ Live \subseteq Nodes
  BY <1>1, <1>2 DEF Live
<1>4. ASSUME NEW n \in Live, next[n] # Null
      PROVE  next[n] \in Live /\ HashOf[next[n]] = HashOf[n]
  <2>1. CASE n \in Linked
    BY <1>1, <1>3, <1>4, <2>1 DEF Closed
  <2>2. CASE n \in retired
    BY <1>4, <2>2 DEF RetiredOK
  <2>3. CASE w.pc \in Storing /\ n = w.new
    BY <1>2, <1>4, <2>3
  <2> QED BY <1>4, <2>1, <2>2, <2>3 DEF Live
<1> QED BY <1>3, <1>4 DEF LiveOK, Closed

\* What a step of the writer does to the chains that readers may be in.
Relink ==
  /\ \A n \in retired' : n \in Live /\ next'[n] = next[n]
  /\ w.node \notin contents'
  /\ retired' = {} \/ Live \subseteq Live'
  /\ ~Quiet => /\ Live \subseteq Live' /\ LinksKept(next, next', Live, w.node)
               /\ LinksNew(next, next', Live, Live', contents')

\* Steps that store no next pointer.
LEMMA SameRelink ==
  ASSUME MapOK, LiveOK(next, Live), next' = next, retired' = retired, Live \subseteq Live',
         \A n \in Live' : n \notin Live => next[n] = Null, w.node \notin contents'
  PROVE  Relink
<1>1. retired \subseteq Live /\ Live \subseteq Nodes
  BY DEF Live, LiveOK
<1>2. LinksKept(next, next', Live, w.node) /\ LinksNew(next, next', Live, Live', contents')
  BY <1>1, LinksSame
<1> QED BY <1>1, <1>2 DEF Relink

\* Steps that store the next pointer of a node that no reader can hold.
LEMMA FreshRelink ==
  ASSUME MapOK, LiveOK(next, Live), NEW n \in Nodes, n \notin Live, NEW v \in contents \cup {Null},
         next' = [next EXCEPT ![n] = v], retired' = retired, Live \subseteq Live',
         Live' \subseteq Live \cup {n}, contents \subseteq contents', w.node \notin contents'
  PROVE  Relink
<1>1. retired \subseteq Live /\ Live \subseteq Nodes /\ next \in NextT /\ v \in Nodes \cup {Null}
  BY DEF Live, LiveOK, MapOK, ChainsOK
<1>2. /\ \A z \in Live : Reach(next', z) = Reach(next, z) /\ next'[z] = next[z]
      /\ next'[n] = v
  <2>1. next' \in NextT /\ next'[n] = v /\ \A m \in Nodes : m # n => next'[m] = next[m]
    BY <1>1 DEF NextT
  <2>2. PICK nx, mx, L : nx = next /\ mx = next' /\ L = Live
    OBVIOUS
  <2>3. /\ nx \in NextT /\ LiveOK(nx, L) /\ n \notin L /\ mx \in NextT
        /\ \A m \in Nodes : m # n => mx[m] = nx[m]
    BY <1>1, <2>1, <2>2
  <2>4. \A z \in L : Reach(mx, z) = Reach(nx, z) /\ mx[z] = nx[z]
    BY <2>3, LinkFresh
  <2> QED BY <2>1, <2>2, <2>4
<1>3. LinksKept(next, next', Live, w.node) /\ LinksNew(next, next', Live, Live', contents')
  <2>1. \A m \in Live' : m \notin Live => next'[m] \in contents' \cup {Null}
    BY <1>2
  <2> QED BY <1>1, <1>2, <2>1, LinksSame
<1> QED BY <1>1, <1>2, <1>3 DEF Relink

\* cmap_insert() is called.
LEMMA InsertCallRelink ==
  ASSUME MapOK, LiveOK(next, Live), NEW n \in Nodes, InsertCall(n)
  PROVE  Relink
<1>1. /\ w.pc = "idle" /\ n \notin contents \cup retired /\ next' = [next EXCEPT ![n] = Null]
      /\ w' = [IdleWriter EXCEPT !.new = n,
                 !.pc = IF Impl.n >= calc_max_n(Impl.mask) THEN "expand" ELSE "try"]
      /\ contents' = contents /\ retired' = retired
  BY DEF InsertCall, NextCall, Unused
<1>2. w.node = Null /\ w'.node = Null /\ w'.pc \in {"expand", "try"}
  BY <1>1 DEF MapOK, WriterOK, IdleWriter
<1>3. Live' = Live /\ n \notin Live /\ w.node \notin contents'
  BY <1>1, <1>2, CmapAssumption DEF Live, Linked, Storing, MapOK
<1> QED BY <1>1, <1>3, FreshRelink

\* cmap_remove() or cmap_replace() is called.
LEMMA ReplaceCallRelink ==
  ASSUME MapOK, LiveOK(next, Live), NEW old \in Nodes, NEW new \in Nodes \cup {Null},
         ReplaceCall(old, new)
  PROVE  Relink
<1>1. /\ w.pc = "idle" /\ next' = next /\ old \in contents
      /\ w' = [IdleWriter EXCEPT !.pc = "replace", !.node = old, !.new = new]
      /\ contents' = contents \ {old} /\ retired' = retired
  BY DEF ReplaceCall, NextCall
<1>2. w.node = Null /\ w'.node = old /\ w'.pc = "replace"
  BY <1>1 DEF MapOK, WriterOK, IdleWriter
<1>3. Live' = Live /\ w.node \notin contents'
  BY <1>1, <1>2, CmapAssumption DEF Live, Linked, Storing, MapOK
<1> QED BY <1>1, <1>3, SameRelink

\* A node that is being removed is not in the contents.
LEMMA NodeOut ==
  ASSUME MapOK
  PROVE  w.node \notin contents
<1>1. contents \subseteq Nodes /\ Null \notin Nodes /\ w.pc \in Storing \cup Resting
  BY CmapAssumption DEF MapOK, WriterOK, WriterT
<1>2. CASE w.pc \in {"idle", "shrink"}
  BY <1>1, <1>2 DEF MapOK, WriterOK
<1>3. CASE w.pc \in Inserting
  BY <1>1, <1>3 DEF MapOK, WriterOK
<1>4. CASE w.pc = "replace"
  BY <1>4 DEF MapOK, WriterOK
<1> QED BY <1>1, <1>2, <1>3, <1>4 DEF Inserting, Resting

\* The steps of the writer that leave the nodes alone.
LEMMA StillRelink ==
  ASSUME MapOK, LiveOK(next, Live), UNCHANGED <<next, retired, contents>>,
         w'.node = w.node, w.pc \notin Storing, w'.pc \notin Storing
  PROVE  Relink
<1>1. Live' = Live
  BY DEF Live, Linked
<1>2. w.node \notin contents'
  BY NodeOut
<1> QED BY <1>1, <1>2, SameRelink

\* The steps of cmap_set_bucket().
LEMMA StoreRelink ==
  ASSUME MapOK, LiveOK(next, Live), UNCHANGED <<next, retired>>,
         w.pc \in {"try"} \cup Storing, w'.node = Null,
         \/ w'.pc \in Storing /\ w'.new = w.new /\ contents' = contents
         \/ w.pc \in Storing /\ w'.pc \notin Storing /\ contents' = contents \cup {w.new}
  PROVE  Relink
<1>1. w.node = Null /\ w.new \in Nodes /\ next[w.new] = Null /\ contents \subseteq Nodes
  BY DEF MapOK, WriterOK, Inserting
<1>2. Live \subseteq Live' /\ Live' \subseteq Live \cup {w.new}
  BY <1>1 DEF Live, Linked
<1>3. w.node \notin contents'
  BY <1>1, CmapAssumption
<1> QED BY <1>1, <1>2, <1>3, SameRelink

\* What a store to the published table leaves alone, as far as the counters tell:
\* C is the contents.
Evolves(im, cur, C) ==
  /\ IsImpl(cur) /\ cur.mask = im.mask /\ cur.basis = im.basis
  /\ \A b \in 0 .. im.mask : im.counter[b] <= cur.counter[b]
  /\ \A b \in 0 .. im.mask : \A i \in Slots :
       im.counter[b] % 2 = 0 /\ cur.counter[b] = im.counter[b] =>
         /\ cur.hashes[b][i] = im.hashes[b][i]
         /\ cur.nodes[b][i] # Null /\ im.nodes[b][i] = Null =>
              \A m \in C : HashOf[m] # im.hashes[b][i]

\* A removal of q changes a slot only if q is in it.
SlotsPast(im, cur, q, mx) ==
  \A b \in 0 .. im.mask : \A i \in Slots :
    cur.nodes[b][i] # im.nodes[b][i] =>
      im.nodes[b][i] = q /\ q # Null /\ cur.nodes[b][i] = mx[q]

\* What a step of the writer does to the tables that readers may use.
Turn ==
  \/ ~Quiet => cmap <= cmap' /\ cmap' \in Nat /\ \A k \in 1 .. cmap : impls'[k] = impls[k]
  \/ /\ cmap' = cmap /\ \A k \in 1 .. cmap : k # cmap => impls'[k] = impls[k]
     /\ Evolves(Impl, Impl', contents)
     /\ w.new = Null => SlotsPast(Impl, Impl', w.node, next')

\* A store to the published table.
LEMMA TableSet ==
  ASSUME ImplsOK, NEW cur, IsImpl(cur), impls' = [impls EXCEPT ![cmap] = cur], cmap' = cmap
  PROVE  Impl' = cur /\ \A k \in 1 .. cmap : k # cmap => impls'[k] = impls[k]
<1>1. cmap \in 1 .. Len(impls) /\ impls \in Seq(ImplSet) /\ cur \in ImplSet /\ Len(impls) = cmap
  BY ImplIs, ImplSetIs DEF ImplsOK
<1> QED BY <1>1, SeqSet DEF Impl

\* Steps that leave the tables alone.
LEMMA SameTurn ==
  ASSUME MapOK, UNCHANGED <<impls, cmap>>
  PROVE  Turn
  BY DEF Turn, MapOK, ImplsOK

\* A rehash publishes another table.
LEMMA RehashTurn ==
  ASSUME MapOK, NEW mask, cmap_rehash(mask)
  PROVE  Turn
<1> SUFFICES ASSUME ~Quiet
             PROVE  cmap <= cmap' /\ cmap' \in Nat /\ \A k \in 1 .. cmap : impls'[k] = impls[k]
  BY DEF Turn
<1>1. impls \in Seq(ImplSet) /\ cmap = Len(impls) /\ Len(impls) \in Nat
  BY DEF MapOK, ImplsOK
<1>2. PICK im : impls' = Append(impls, im)
  BY DEF cmap_rehash
<1>3. cmap' = Len(impls')
  BY DEF cmap_rehash
<1> QED BY <1>1, <1>2, <1>3

\* The counter becomes odd, or even: nothing else changes.
LEMMA CounterTurn ==
  ASSUME MapOK, NEW b \in 0 .. Impl.mask, NEW n \in Int, w.pc \in Storing,
         impls' = [impls EXCEPT ![cmap].counter[b] = @ + 1, ![cmap].n = n], cmap' = cmap
  PROVE  Turn
<1>1. IsImpl(Impl) /\ ImplsOK /\ impls \in Seq(ImplSet) /\ cmap \in 1 .. Len(impls)
  BY ImplIs DEF MapOK, ImplsOK
<1> DEFINE mid == PutCounter(Impl, b)
           cur == [mid EXCEPT !.n = n]
<1>2. /\ IsImpl(mid) /\ mid.mask = Impl.mask /\ mid.basis = Impl.basis
      /\ mid.nodes = Impl.nodes /\ mid.hashes = Impl.hashes
      /\ mid.counter[b] = Impl.counter[b] + 1
      /\ \A c \in 0 .. Impl.mask : c # b => mid.counter[c] = Impl.counter[c]
  BY <1>1, WithCounter
<1>3. impls' = [impls EXCEPT ![cmap] = cur]
  BY <1>1 DEF PutCounter, Impl
<1> HIDE DEF mid
<1>4. /\ IsImpl(cur) /\ cur.mask = Impl.mask /\ cur.basis = Impl.basis
      /\ cur.nodes = Impl.nodes /\ cur.hashes = Impl.hashes /\ cur.counter = mid.counter
  BY <1>2, WithN
<1> HIDE DEF cur
<1>5. Impl' = cur /\ \A k \in 1 .. cmap : k # cmap => impls'[k] = impls[k]
  BY <1>1, <1>3, <1>4, TableSet
<1>6. \A c \in 0 .. Impl.mask : Impl.counter[c] \in Nat
  BY <1>1, ImplFacts
<1>7. Evolves(Impl, cur, contents)
  BY <1>2, <1>4, <1>6 DEF Evolves
<1>8. w.new # Null
  BY CmapAssumption DEF MapOK, WriterOK, Inserting
<1> QED BY <1>5, <1>7, <1>8 DEF Turn

\* A node or a hash is stored while the counter is odd.
LEMMA StoreTurn ==
  ASSUME MapOK, w.pc \in Storing, NEW b \in 0 .. Impl.mask, NEW i \in Slots,
         Impl.counter[b] % 2 = 1, NEW cur, IsImpl(cur), impls' = [impls EXCEPT ![cmap] = cur],
         cmap' = cmap, cur.mask = Impl.mask, cur.basis = Impl.basis, cur.counter = Impl.counter,
         \A c \in 0 .. Impl.mask : \A k \in Slots : c # b \/ k # i =>
           cur.nodes[c][k] = Impl.nodes[c][k] /\ cur.hashes[c][k] = Impl.hashes[c][k]
  PROVE  Turn
<1>1. IsImpl(Impl) /\ ImplsOK
  BY ImplIs DEF MapOK
<1>2. Impl' = cur /\ \A k \in 1 .. cmap : k # cmap => impls'[k] = impls[k]
  BY <1>1, TableSet
<1>3. \A c \in 0 .. Impl.mask : Impl.counter[c] \in Nat /\ Impl.counter[c] <= Impl.counter[c]
  BY <1>1, ImplFacts
<1>4. Evolves(Impl, cur, contents)
  BY <1>3 DEF Evolves
<1>5. w.new # Null
  BY CmapAssumption DEF MapOK, WriterOK, Inserting
<1> QED BY <1>2, <1>4, <1>5 DEF Turn

\* The slot of cmap_insert_dup() is that of the chain with the hash, if there is one.
LEMMA DupSlot ==
  ASSUME NEW im, IsImpl(im), GoodTable(im), NEW nx, NEW L, ChainsOK(nx, L),
         HeadsOK(HeadSet(im), nx, L), NEW st, NEW node, NEW h, DupOK(im, st, node, h),
         NEW m \in L, HashOf[m] = h
  PROVE  im.nodes[st.b][st.i] # Null
<1>1. PICK b \in 0 .. im.mask, i \in Slots :
        im.nodes[b][i] \in HeadSet(im) /\ im.hashes[b][i] = h
  BY ChainOf
<1>2. im.nodes[b][i] # Null
  BY <1>1, CmapAssumption DEF HeadSet
<1>3. GoodSlot(im, b, i)
  BY <1>2 DEF GoodTable
<1>4. b = st.b
  BY <1>1, <1>3 DEF GoodSlot, DupOK
<1>5. st.i \in Slots /\ i = st.i
  <2>1. st.i \in Nat /\ i \in Nat
    BY DEF DupOK, Slots
  <2> QED BY <1>1, <1>3, <1>4, <2>1 DEF GoodSlot, DupOK
<1> QED BY <1>2, <1>4, <1>5

-----------------------------------------------------------------------------
(* Every step of the writer, as the readers see it. *)

\* What a step of the writer does to the histories of the readers and to the sets
\* they speak of.
Told(into, out) ==
  /\ \/ into = {} /\ out = {} /\ rd' = rd
     \/ Observe(into, out)
  /\ into \subseteq Nodes /\ into \cap Live' = {}
  /\ contents \ out \subseteq contents'
  /\ contents' \cup InFlight' \subseteq contents \cup InFlight \cup into
  /\ into = {} /\ w.new = Null => w'.new = Null

\* What a reader has to know of a step of the writer: what it does to the chains, to
\* the published tables and to the histories.
Passes == Relink /\ Turn /\ \E into, out : Told(into, out)

\* Steps within a call.
LEMMA StillTold ==
  ASSUME rd' = rd, contents \subseteq contents',
         contents' \cup InFlight' \subseteq contents \cup InFlight, w'.new \in {w.new, Null}
  PROVE  \E into, out : Told(into, out)
<1>1. Told({}, {})
  BY DEF Told
<1> QED BY <1>1

\* cmap_insert() is called.
LEMMA InsertCallPasses ==
  ASSUME MapOK, LiveOK(next, Live), NEW n \in Nodes, InsertCall(n)
  PROVE  Passes
<1>1. /\ w.pc = "idle" /\ n \notin contents \cup retired /\ UNCHANGED <<impls, cmap>>
      /\ w' = [IdleWriter EXCEPT !.new = n,
                 !.pc = IF Impl.n >= calc_max_n(Impl.mask) THEN "expand" ELSE "try"]
      /\ contents' = contents /\ retired' = retired /\ Observe({n}, {})
  BY DEF InsertCall, NextCall, Unused
<1>2. w'.node = Null /\ w'.new = n /\ w'.pc \notin Storing
  BY <1>1 DEF IdleWriter, Storing
<1>3. n \notin Live'
  BY <1>1, <1>2 DEF Live, Linked
<1>4. InFlight' \subseteq {n}
  BY <1>2 DEF InFlight
<1>5. Told({n}, {})
  BY <1>1, <1>3, <1>4 DEF Told
<1>6. Relink /\ Turn
  BY <1>1, InsertCallRelink, SameTurn
<1> QED BY <1>5, <1>6 DEF Passes

\* cmap_remove() or cmap_replace() is called.
LEMMA ReplaceCallPasses ==
  ASSUME MapOK, LiveOK(next, Live), NEW old \in Nodes, NEW new \in Nodes \cup {Null},
         ReplaceCall(old, new)
  PROVE  Passes
<1>1. /\ w.pc = "idle" /\ UNCHANGED <<impls, cmap>> /\ old \in contents
      /\ new # Null => new \notin contents \cup retired
      /\ w' = [IdleWriter EXCEPT !.pc = "replace", !.node = old, !.new = new]
      /\ contents' = contents \ {old} /\ retired' = retired /\ Observe({new} \ {Null}, {old})
  BY DEF ReplaceCall, NextCall, Unused
<1>2. w'.node = old /\ w'.new = new /\ w'.pc \notin Storing
  BY <1>1 DEF IdleWriter, Storing
<1>3. ({new} \ {Null}) \cap Live' = {}
  BY <1>1, <1>2 DEF Live, Linked
<1>4. InFlight' \subseteq {old} \cup ({new} \ {Null})
  BY <1>2 DEF InFlight
<1>5. ({new} \ {Null} = {}) => new = Null
  OBVIOUS
<1>6. Told({new} \ {Null}, {old})
  BY <1>1, <1>2, <1>3, <1>4, <1>5 DEF Told
<1>7. Relink /\ Turn
  BY <1>1, ReplaceCallRelink, SameTurn
<1> QED BY <1>6, <1>7 DEF Passes

\* The rehashes.
LEMMA RehashPasses ==
  ASSUME MapOK, LiveOK(next, Live), NEW mask, cmap_rehash(mask),
         UNCHANGED <<next, retired, contents, rd>>,
         w.pc \notin Storing, w'.pc \notin Storing, w'.node = w.node, w'.new = w.new
  PROVE  Passes
<1>1. Relink /\ Turn
  BY StillRelink, RehashTurn
<1>2. InFlight' = InFlight
  BY DEF InFlight
<1>3. \E into, out : Told(into, out)
  BY <1>2, StillTold
<1> QED BY <1>1, <1>3 DEF Passes

\* A larger table is published.
LEMMA ExpandPasses ==
  ASSUME MapOK, LiveOK(next, Live), Expand
  PROVE  Passes
<1>1. /\ w.pc = "expand" /\ cmap_rehash(2 * Impl.mask + 1) /\ w' = [w EXCEPT !.pc = "try"]
      /\ UNCHANGED <<next, retired, contents, rd>>
  BY DEF Expand
<1>2. w.pc \notin Storing /\ w'.pc \notin Storing /\ w'.node = w.node /\ w'.new = w.new
  BY <1>1 DEF Storing, MapOK, WriterOK, WriterT
<1> QED BY <1>1, <1>2, RehashPasses

\* A smaller table is published.
LEMMA ShrinkPasses ==
  ASSUME MapOK, LiveOK(next, Live), Shrink
  PROVE  Passes
<1>1. /\ w.pc = "shrink" /\ cmap_rehash(Impl.mask \div 2) /\ w' = IdleWriter
      /\ UNCHANGED <<next, retired, contents, rd>>
  BY DEF Shrink
<1>2. w.pc \notin Storing /\ w'.pc \notin Storing /\ w'.node = w.node /\ w'.new = w.new
  BY <1>1 DEF Storing, MapOK, WriterOK, IdleWriter
<1> QED BY <1>1, <1>2, RehashPasses

\* The node is put before its chain.
LEMMA TryDupPasses ==
  ASSUME MapOK, LiveOK(next, Live), NEW st, TryDup(st), rd' = rd
  PROVE  Passes
<1>1. /\ w.pc = "try" /\ DupOK(Impl, st, w.new, HashOf[w.new])
      /\ next' = [next EXCEPT ![w.new] = Impl.nodes[st.b][st.i]]
      /\ impls' = [impls EXCEPT ![cmap].nodes[st.b][st.i] = w.new, ![cmap].n = @ + 1]
      /\ contents' = contents \cup {w.new} /\ w' = IdleWriter
      /\ UNCHANGED <<cmap, retired>>
  BY DEF TryDup, InsertReturns
<1>2. /\ w.node = Null /\ w.new \in Nodes \ (contents \cup retired) /\ w.new # Null
      /\ contents \subseteq Nodes
  BY <1>1, CmapAssumption DEF MapOK, WriterOK, Inserting
<1>3. /\ IsImpl(Impl) /\ ImplsOK /\ GoodTable(Impl) /\ HeadsOK(HeadSet(Impl), next, Linked)
      /\ ChainsOK(next, Linked) /\ impls \in Seq(ImplSet) /\ cmap \in 1 .. Len(impls)
      /\ Impl.n \in Int /\ Linked = contents
  BY <1>1, <1>2, ImplIs DEF MapOK, RestOK, Resting, ImplsOK, Linked
<1>4. PICK b \in 0 .. Impl.mask, i \in Slots : b = st.b /\ i = st.i
  BY <1>1 DEF DupOK
<1>5. w.new \notin Live
  BY <1>1, <1>2 DEF Live, Linked, Storing
<1>6. Impl.nodes[b][i] \in contents \cup {Null}
  <2>1. Impl.nodes[b][i] \in HeadSet(Impl) \cup {Null}
    BY <1>3, ImplFacts DEF HeadSet, IsHead
  <2> QED BY <1>3, <2>1 DEF HeadsOK
<1>7. Relink
  <2>1. Live' = Live \cup {w.new}
    BY <1>1, <1>2 DEF Live, Linked, IdleWriter, Storing
  <2>2. w.node \notin contents'
    BY <1>1, <1>2, CmapAssumption
  <2>3. PICK n \in Nodes, v \in contents \cup {Null} : n = w.new /\ v = Impl.nodes[b][i]
    BY <1>2, <1>6
  <2>4. /\ n \notin Live /\ next' = [next EXCEPT ![n] = v] /\ retired' = retired
        /\ Live \subseteq Live' /\ Live' \subseteq Live \cup {n} /\ contents \subseteq contents'
    BY <1>1, <1>4, <1>5, <2>1, <2>3
  <2> QED BY <2>2, <2>4, FreshRelink
<1>8. Turn
  <2>0. PICK n \in Int : n = Impl.n + 1
    BY <1>3
  <2> DEFINE mid == [Impl EXCEPT !.n = n]
             cur == PutNode(mid, b, i, w.new)
  <2>1. impls' = [impls EXCEPT ![cmap] = cur]
    BY <1>1, <1>3, <1>4, <2>0 DEF PutNode, Impl
  <2>2. /\ IsImpl(mid) /\ mid.mask = Impl.mask /\ mid.basis = Impl.basis
        /\ mid.nodes = Impl.nodes /\ mid.hashes = Impl.hashes /\ mid.counter = Impl.counter
    BY <1>3, WithN
  <2> HIDE DEF mid
  <2>3. /\ IsImpl(cur) /\ cur.mask = Impl.mask /\ cur.basis = Impl.basis
        /\ cur.counter = Impl.counter /\ cur.hashes = Impl.hashes
        /\ \A c \in 0 .. Impl.mask : \A j \in Slots :
             c # b \/ j # i => cur.nodes[c][j] = Impl.nodes[c][j]
    <3>1. b \in 0 .. mid.mask /\ w.new \in Nodes \cup {Null}
      BY <1>2, <2>2
    <3> QED BY <2>2, <3>1, WithNode
  <2> HIDE DEF cur
  <2>4. Impl' = cur /\ \A k \in 1 .. cmap : k # cmap => impls'[k] = impls[k]
    BY <1>1, <1>3, <2>1, <2>3, TableSet
  <2>5. ASSUME NEW m \in contents, Impl.nodes[b][i] = Null PROVE HashOf[m] # Impl.hashes[b][i]
    <3>1. Impl.hashes[b][i] = HashOf[w.new]
      BY <1>1, <1>4 DEF DupOK
    <3> SUFFICES ASSUME HashOf[m] = HashOf[w.new] PROVE FALSE
      BY <3>1
    <3>2. m \in Linked
      BY <1>3
    <3>3. Impl.nodes[st.b][st.i] # Null
      BY <1>1, <1>3, <3>2, DupSlot
    <3> QED BY <1>4, <2>5, <3>3
  <2>6. \A c \in 0 .. Impl.mask : Impl.counter[c] \in Nat
    BY <1>3, ImplFacts
  <2>7. Evolves(Impl, cur, contents)
    BY <2>3, <2>5, <2>6 DEF Evolves
  <2> QED BY <1>1, <1>2, <2>4, <2>7 DEF Turn
<1>9. \E into, out : Told(into, out)
  <2>1. InFlight' = {} /\ w.new \in InFlight /\ w'.new = Null
    BY <1>1, <1>2 DEF InFlight, IdleWriter
  <2> QED BY <1>1, <2>1, StillTold
<1> QED BY <1>7, <1>8, <1>9 DEF Passes

\* The steps of the stores of a plan.
LEMMA StorePasses ==
  ASSUME MapOK, LiveOK(next, Live), Turn, UNCHANGED <<next, retired, rd>>,
         w.pc \in {"try"} \cup Storing, w'.node = Null,
         \/ w'.pc \in Storing /\ w'.new = w.new /\ contents' = contents
         \/ w.pc \in Storing /\ w'.pc \notin Storing /\ w'.new = Null /\ contents' = contents \cup {w.new}
  PROVE  Passes
<1>1. Relink
  BY StoreRelink
<1>2. w.node = Null /\ w.new \in Nodes /\ w.new # Null
  BY CmapAssumption DEF MapOK, WriterOK, Inserting
<1>3. /\ contents \subseteq contents' /\ w'.new \in {w.new, Null}
      /\ contents' \cup InFlight' \subseteq contents \cup InFlight
  BY <1>2 DEF InFlight
<1>4. \E into, out : Told(into, out)
  BY <1>3, StillTold
<1> QED BY <1>1, <1>4 DEF Passes

\* cmap_try_insert(): another table, the one store of cmap_insert_dup(), or a plan.
LEMMA TryInsertPasses ==
  ASSUME MapOK, LiveOK(next, Live), TryInsert
  PROVE  Passes
<1> DEFINE plan == cmap_try_insert(Impl, w.new, HashOf[w.new])
           st == plan[1]
<1>1. w.pc = "try" /\ UNCHANGED <<retired, ops, rd>>
  BY Zenon DEF TryInsert
<1>2. \/ plan = <<>> /\ cmap_rehash(Impl.mask) /\ UNCHANGED <<next, contents, w>>
      \/ /\ plan # <<>> /\ st.dup
         /\ next' = [next EXCEPT ![w.new] = Impl.nodes[st.b][st.i]]
         /\ impls' = [impls EXCEPT ![cmap].nodes[st.b][st.i] = w.new, ![cmap].n = @ + 1]
         /\ InsertReturns
         /\ UNCHANGED cmap
      \/ /\ plan # <<>> /\ ~st.dup
         /\ w' = [w EXCEPT !.pc = "odd", !.todo = plan]
         /\ UNCHANGED <<impls, cmap, next, contents>>
  BY Zenon DEF TryInsert
<1>3. IsImpl(Impl) /\ GoodTable(Impl) /\ w.new \in Nodes /\ w.node = Null
  BY <1>1, ImplIs DEF MapOK, RestOK, Resting, WriterOK, Inserting
<1> HIDE DEF plan
<1>4. plan # <<>> => \/ /\ plan[1].dup = TRUE /\ plan = <<plan[1]>>
                        /\ DupOK(Impl, plan[1], w.new, HashOf[w.new])
                     \/ plan[1].dup = FALSE /\ PlanOK(Impl, plan, w.new, HashOf[w.new])
  BY <1>3, InsertPlan DEF plan
<1>5. CASE plan = <<>> /\ cmap_rehash(Impl.mask) /\ UNCHANGED <<next, contents, w>>
  <2>1. w.pc \notin Storing
    BY <1>1 DEF Storing
  <2> QED BY <1>1, <1>5, <2>1, RehashPasses
<1>6. CASE /\ plan # <<>> /\ st.dup
           /\ next' = [next EXCEPT ![w.new] = Impl.nodes[st.b][st.i]]
           /\ impls' = [impls EXCEPT ![cmap].nodes[st.b][st.i] = w.new, ![cmap].n = @ + 1]
           /\ InsertReturns
           /\ UNCHANGED cmap
  <2>1. DupOK(Impl, st, w.new, HashOf[w.new])
    BY <1>4, <1>6
  <2>2. TryDup(st)
    BY <1>1, <1>6, <2>1 DEF TryDup
  <2> HIDE DEF st
  <2> QED BY <1>1, <2>2, TryDupPasses
<1>7. CASE /\ plan # <<>> /\ ~st.dup
           /\ w' = [w EXCEPT !.pc = "odd", !.todo = plan]
           /\ UNCHANGED <<impls, cmap, next, contents>>
  <2>1. Turn
    BY <1>7, SameTurn
  <2>2. w'.pc \in Storing /\ w'.new = w.new /\ w'.node = Null
    BY <1>3, <1>7 DEF MapOK, WriterOK, WriterT, Storing
  <2> QED BY <1>1, <1>7, <2>1, <2>2, StorePasses
<1> QED BY <1>2, <1>5, <1>6, <1>7

\* cmap_set_bucket() makes the counter odd.
LEMMA SetOddPasses ==
  ASSUME MapOK, LiveOK(next, Live), SetOdd
  PROVE  Passes
<1>1. /\ w.pc = "odd" /\ w' = [w EXCEPT !.pc = "node"]
      /\ impls' = [impls EXCEPT ![cmap].counter[Head(w.todo).b] = @ + 1]
      /\ UNCHANGED <<cmap, next, retired, contents, rd>>
  BY DEF SetOdd
<1>2. w.pc \in Storing /\ w'.pc \in Storing /\ w'.new = w.new /\ w'.node = Null
  BY <1>1 DEF MapOK, WriterOK, WriterT, Storing, Inserting
<1>3. PICK old, plan, j : MidAt(old, plan, j)
  BY <1>2 DEF MapOK
<1>4. PICK b \in 0 .. Impl.mask : b = Head(w.todo).b
  BY <1>3, Now
<1>5. PICK n \in Int : n = Impl.n
  BY ImplIs DEF MapOK
<1>6. impls' = [impls EXCEPT ![cmap].counter[b] = @ + 1, ![cmap].n = n]
  <2>1. impls \in Seq(ImplSet) /\ cmap \in 1 .. Len(impls) /\ IsImpl(Impl) /\ Impl \in Table(Impl.mask)
    BY ImplIs DEF MapOK, ImplsOK, IsImpl
  <2> QED BY <1>1, <1>4, <1>5, <2>1 DEF Impl, Table
<1>7. Turn
  BY <1>1, <1>2, <1>6, CounterTurn
<1> QED BY <1>1, <1>2, <1>7, StorePasses

\* cmap_set_bucket() makes the counter even.
LEMMA SetEvenPasses ==
  ASSUME MapOK, LiveOK(next, Live), SetEven
  PROVE  Passes
<1> DEFINE last == Tail(w.todo) = <<>>
<1>1. /\ w.pc = "even" /\ UNCHANGED <<cmap, next, retired, rd>>
      /\ impls' = [impls EXCEPT ![cmap].counter[Head(w.todo).b] = @ + 1,
                                ![cmap].n = IF last THEN @ + 1 ELSE @]
      /\ IF last THEN InsertReturns
                 ELSE w' = [w EXCEPT !.todo = Tail(@), !.pc = "odd"] /\ UNCHANGED contents
  BY DEF SetEven
<1>2. w.pc \in Storing
  BY <1>1 DEF Storing
<1>3. PICK old, plan, j : MidAt(old, plan, j)
  BY <1>2 DEF MapOK
<1>4. PICK b \in 0 .. Impl.mask : b = Head(w.todo).b
  BY <1>3, Now
<1> HIDE DEF last
<1>5. PICK n \in Int : n = IF last THEN Impl.n + 1 ELSE Impl.n
  BY ImplIs DEF MapOK
<1>6. impls' = [impls EXCEPT ![cmap].counter[b] = @ + 1, ![cmap].n = n]
  <2>1. impls \in Seq(ImplSet) /\ cmap \in 1 .. Len(impls) /\ IsImpl(Impl) /\ Impl \in Table(Impl.mask)
    BY ImplIs DEF MapOK, ImplsOK, IsImpl
  <2> QED BY <1>1, <1>4, <1>5, <2>1 DEF Impl, Table
<1>7. Turn
  BY <1>1, <1>2, <1>6, CounterTurn
<1>8. w.node = Null /\ w \in WriterT
  BY <1>2 DEF MapOK, WriterOK, Inserting
<1>9. /\ w'.node = Null
      /\ \/ w'.pc \in Storing /\ w'.new = w.new /\ contents' = contents
         \/ w.pc \in Storing /\ w'.pc \notin Storing /\ w'.new = Null /\ contents' = contents \cup {w.new}
  <2>1. CASE last
    BY <1>1, <1>2, <2>1 DEF InsertReturns, IdleWriter, Storing
  <2>2. CASE ~last
    <3>1. w' = [w EXCEPT !.todo = Tail(w.todo), !.pc = "odd"] /\ contents' = contents
      BY <1>1, <2>2
    <3> QED BY <1>8, <3>1 DEF WriterT, Storing
  <2> QED BY <2>1, <2>2
<1> QED BY <1>1, <1>2, <1>7, <1>9, StorePasses

\* The bucket that cmap_set_bucket() is changing has an odd counter.
LEMMA NowOdd ==
  ASSUME MapOK, w.pc \in {"node", "hash", "even"}, NEW old, NEW plan, NEW j, MidAt(old, plan, j)
  PROVE  Impl.counter[plan[j + 1].b] % 2 = 1
  BY Now DEF MidAt

\* cmap_set_bucket() stores the node, under an odd counter.
LEMMA SetNodePasses ==
  ASSUME MapOK, LiveOK(next, Live), SetNode
  PROVE  Passes
<1>1. /\ w.pc = "node" /\ w' = [w EXCEPT !.pc = "hash"]
      /\ impls' = [impls EXCEPT ![cmap] = PutNode(Impl, Head(w.todo).b, Head(w.todo).i, Head(w.todo).node)]
      /\ UNCHANGED <<cmap, next, retired, contents, rd>>
  BY DEF SetNode, PutNode, Impl
<1>2. w.pc \in Storing /\ w'.pc \in Storing /\ w'.new = w.new /\ w'.node = Null
  BY <1>1 DEF MapOK, WriterOK, WriterT, Storing, Inserting
<1>3. PICK old, plan, j : MidAt(old, plan, j)
  BY <1>2 DEF MapOK
<1>4. PICK b \in 0 .. Impl.mask, i \in Slots, x \in Nodes \cup {Null} :
        /\ b = plan[j + 1].b
        /\ b = Head(w.todo).b /\ i = Head(w.todo).i /\ x = Head(w.todo).node
  BY <1>3, Now
<1> DEFINE cur == PutNode(Impl, b, i, x)
<1>5. /\ IsImpl(cur) /\ cur.mask = Impl.mask /\ cur.basis = Impl.basis
      /\ cur.counter = Impl.counter /\ cur.hashes = Impl.hashes
      /\ \A c \in 0 .. Impl.mask : \A k \in Slots :
           c # b \/ k # i => cur.nodes[c][k] = Impl.nodes[c][k]
  <2>1. IsImpl(Impl)
    BY ImplIs DEF MapOK
  <2> QED BY <1>4, <2>1, WithNode
<1>6. impls' = [impls EXCEPT ![cmap] = cur]
  BY <1>1, <1>4
<1> HIDE DEF cur
<1>7. Impl.counter[b] % 2 = 1
  BY <1>1, <1>3, <1>4, NowOdd
<1>8. Turn
  <2>1. \A c \in 0 .. Impl.mask : \A k \in Slots : c # b \/ k # i =>
          cur.nodes[c][k] = Impl.nodes[c][k] /\ cur.hashes[c][k] = Impl.hashes[c][k]
    BY <1>5
  <2>2. /\ IsImpl(cur) /\ cur.mask = Impl.mask /\ cur.basis = Impl.basis
        /\ cur.counter = Impl.counter /\ cmap' = cmap
    BY <1>1, <1>5
  <2>3. PICK e : e = cur
    OBVIOUS
  <2>4. \A c \in 0 .. Impl.mask : \A k \in Slots : c # b \/ k # i =>
          e.nodes[c][k] = Impl.nodes[c][k] /\ e.hashes[c][k] = Impl.hashes[c][k]
    BY <2>1, <2>3
  <2>5. /\ IsImpl(e) /\ e.mask = Impl.mask /\ e.basis = Impl.basis
        /\ e.counter = Impl.counter /\ cmap' = cmap /\ impls' = [impls EXCEPT ![cmap] = e]
    BY <1>6, <2>2, <2>3
  <2> HIDE <1>1, <2>1, <2>2, <2>3
  <2> QED BY <1>2, <1>7, <2>4, <2>5, StoreTurn
<1> QED BY <1>1, <1>2, <1>8, StorePasses

\* cmap_set_bucket() stores the hash, under an odd counter.
LEMMA SetHashPasses ==
  ASSUME MapOK, LiveOK(next, Live), SetHash
  PROVE  Passes
<1>1. /\ w.pc = "hash" /\ w' = [w EXCEPT !.pc = "even"]
      /\ impls' = [impls EXCEPT ![cmap] = PutHash(Impl, Head(w.todo).b, Head(w.todo).i, Head(w.todo).hash)]
      /\ UNCHANGED <<cmap, next, retired, contents, rd>>
  BY DEF SetHash, PutHash, Impl
<1>2. w.pc \in Storing /\ w'.pc \in Storing /\ w'.new = w.new /\ w'.node = Null
  BY <1>1 DEF MapOK, WriterOK, WriterT, Storing, Inserting
<1>3. PICK old, plan, j : MidAt(old, plan, j)
  BY <1>2 DEF MapOK
<1>4. PICK b \in 0 .. Impl.mask, i \in Slots, x \in Hashes \cup {0} :
        /\ b = plan[j + 1].b
        /\ b = Head(w.todo).b /\ i = Head(w.todo).i /\ x = Head(w.todo).hash
  BY <1>3, Now
<1> DEFINE cur == PutHash(Impl, b, i, x)
<1>5. /\ IsImpl(cur) /\ cur.mask = Impl.mask /\ cur.basis = Impl.basis
      /\ cur.counter = Impl.counter /\ cur.nodes = Impl.nodes
      /\ \A c \in 0 .. Impl.mask : \A k \in Slots :
           c # b \/ k # i => cur.hashes[c][k] = Impl.hashes[c][k]
  <2>1. IsImpl(Impl)
    BY ImplIs DEF MapOK
  <2> QED BY <1>4, <2>1, WithHash
<1>6. impls' = [impls EXCEPT ![cmap] = cur]
  BY <1>1, <1>4
<1> HIDE DEF cur
<1>7. Impl.counter[b] % 2 = 1
  BY <1>1, <1>3, <1>4, NowOdd
<1>8. Turn
  <2>1. \A c \in 0 .. Impl.mask : \A k \in Slots : c # b \/ k # i =>
          cur.nodes[c][k] = Impl.nodes[c][k] /\ cur.hashes[c][k] = Impl.hashes[c][k]
    BY <1>5
  <2>2. /\ IsImpl(cur) /\ cur.mask = Impl.mask /\ cur.basis = Impl.basis
        /\ cur.counter = Impl.counter /\ cmap' = cmap
    BY <1>1, <1>5
  <2>3. PICK e : e = cur
    OBVIOUS
  <2>4. \A c \in 0 .. Impl.mask : \A k \in Slots : c # b \/ k # i =>
          e.nodes[c][k] = Impl.nodes[c][k] /\ e.hashes[c][k] = Impl.hashes[c][k]
    BY <2>1, <2>3
  <2>5. /\ IsImpl(e) /\ e.mask = Impl.mask /\ e.basis = Impl.basis
        /\ e.counter = Impl.counter /\ cmap' = cmap /\ impls' = [impls EXCEPT ![cmap] = e]
    BY <1>6, <2>2, <2>3
  <2> HIDE <1>1, <2>1, <2>2, <2>3
  <2> QED BY <1>2, <1>7, <2>4, <2>5, StoreTurn
<1> QED BY <1>1, <1>2, <1>8, StorePasses

\* What Replace does to the chains: q is left out, or r takes its place.
LEMMA ReplaceRelink ==
  ASSUME MapOK, LiveOK(next, Live), NEW q, NEW r, NEW b, NEW i, NEW y, NEW n,
         ReplaceFrom(q, r, b, i, y, n)
  PROVE  Relink
<1>1. /\ w.pc = "replace" /\ q = w.node /\ r = w.new /\ y \in HeadSet(Impl)
      /\ retired' = IF Quiet THEN {} ELSE retired \cup {q}
      /\ ReplaceIn(q, r, b, i, y, n)
  BY DEF ReplaceFrom
<1>2. /\ HeadsOK(HeadSet(Impl), next, Linked) /\ ChainsOK(next, Linked) /\ contents \subseteq Nodes \ retired
      /\ next \in NextT /\ Acyclic(next) /\ Closed(next, Linked)
  BY <1>1 DEF MapOK, RestOK, Resting, ChainsOK
<1>3. /\ q \in Nodes \ (contents \cup retired) /\ Linked = contents \cup {q}
      /\ r \in Nodes \cup {Null} /\ (r # Null => r \in Nodes \ (contents \cup retired) /\ r # q)
  BY <1>1, CmapAssumption DEF MapOK, WriterOK, WriterT, Linked
<1>4. Live = contents \cup {q} \cup retired
  BY <1>1, <1>3 DEF Live, Storing
<1>5. contents' = contents \cup ({r} \ {Null}) /\ w'.pc \notin Storing /\ w'.node = Null
  BY <1>1 DEF ReplaceIn, IdleWriter, Storing
<1>6. Live' = contents \cup ({r} \ {Null}) \cup retired'
  BY <1>5 DEF Live, Linked
<1>7. next[q] \in contents \cup {Null} /\ r \notin Live
  <2>1. q \notin Reach(next, next[q]) /\ next[q] \in Linked \cup {Null}
    BY <1>2, <1>3 DEF Acyclic, Closed
  <2>2. next[q] # q
    BY <1>3, <2>1, ReachIn, CmapAssumption
  <2> QED BY <1>2, <1>3, <1>4, <2>1, <2>2, CmapAssumption DEF MapOK
<1>8. /\ \A m \in retired' : next'[m] = next[m]
      /\ LinksKept(next, next', Live, q) /\ LinksNew(next, next', Live, Live', contents')
  <2>0. PICK nx, mx, L : nx = next /\ mx = next' /\ L = Live
    OBVIOUS
  <2>1. CASE y = q
    <3>1. next' = Relinked(next, q, r)
      BY <1>1, <2>1 DEF ReplaceIn
    <3>2. \A z \in L : Reach(mx, z) = Reach(nx, z) /\ mx[z] = nx[z]
      <4>1. CASE r = Null
        BY <2>0, <3>1, <4>1 DEF Relinked
      <4>2. CASE r # Null
        <5>1. mx = [nx EXCEPT ![r] = nx[q]] /\ r \in Nodes /\ nx[q] \in Nodes \cup {Null}
          BY <1>2, <1>3, <2>0, <3>1, <4>2 DEF Relinked, NextT
        <5>2. mx \in NextT /\ \A m \in Nodes : m # r => mx[m] = nx[m]
          BY <1>2, <2>0, <5>1 DEF NextT
        <5>3. nx \in NextT /\ LiveOK(nx, L) /\ r \in Nodes /\ r \notin L
          BY <1>2, <1>7, <2>0, <5>1
        <5> HIDE <5>1
        <5> QED BY <5>2, <5>3, LinkFresh
      <4> QED BY <4>1, <4>2
    <3>3. r # Null => next'[r] = next[q]
      BY <1>2, <1>3, <3>1 DEF Relinked, NextT
    <3>4. \A m \in Live' : m \notin L => mx[m] \in contents' \cup {Null}
      BY <1>1, <1>4, <1>5, <1>6, <1>7, <2>0, <3>3
    <3>5. L \subseteq Nodes
      BY <2>0 DEF LiveOK
    <3>6. LinksKept(nx, mx, L, q) /\ LinksNew(nx, mx, L, Live', contents')
      BY <3>2, <3>4, <3>5, LinksSame
    <3>7. retired' \subseteq L
      BY <1>1, <1>4, <2>0
    <3> QED BY <2>0, <3>2, <3>6, <3>7
  <2>2. CASE y # q
    <3>1. PICK p \in Reach(next, y) : next[p] = q /\ next' = LinkedPast(next, p, q, r)
      BY <1>1, <2>2 DEF ReplaceIn
    <3>2. p \in Linked
      BY <1>1, <1>2, <3>1, ChainHash DEF HeadsOK
    <3>3. p # q
      BY <1>3, <1>7, <3>1, CmapAssumption
    <3>4. /\ nx \in NextT /\ LiveOK(nx, L) /\ Acyclic(nx) /\ p \in L /\ q \in L /\ nx[p] = q
          /\ r \in Nodes \cup {Null} /\ r \notin L /\ mx = LinkedPast(nx, p, q, r)
      BY <1>2, <1>3, <1>4, <1>7, <2>0, <3>1, <3>2
    <3>5. /\ LinksKept(nx, mx, L, q) /\ mx \in NextT
          /\ mx[p] = Successor(nx, q, r) /\ (r # Null => mx[r] = nx[q])
          /\ \A m \in Nodes : m # p /\ m # r => mx[m] = nx[m]
      BY <3>4, LinksPast
    <3>6. L \subseteq Nodes /\ p \notin retired'
      BY <1>1, <1>2, <1>3, <2>0, <3>2, <3>3 DEF LiveOK
    <3>7. \A m \in retired' : next'[m] = next[m]
      BY <1>1, <1>4, <1>7, <2>0, <3>5, <3>6
    <3>8. ASSUME NEW m \in Live'
          PROVE  mx[m] = Null \/ mx[m] \in contents' \/ (m \in L /\ mx[m] = nx[m])
      <4>1. CASE m = p
        BY <1>3, <1>5, <1>7, <2>0, <3>5, <4>1 DEF Successor
      <4>2. CASE m = r
        <5>1. r # Null
          BY <1>1, <1>2, <1>3, <1>6, <4>2, CmapAssumption DEF MapOK
        <5> QED BY <1>5, <1>7, <2>0, <3>5, <4>2, <5>1
      <4>3. CASE m # p /\ m # r
        <5>1. m \in L
          BY <1>1, <1>4, <1>6, <2>0, <4>3
        <5> QED BY <3>5, <3>6, <4>3, <5>1
      <4> QED BY <4>1, <4>2, <4>3
    <3> QED BY <2>0, <3>5, <3>7, <3>8 DEF LinksNew
  <2> QED BY <2>1, <2>2
<1>9. w.node \notin contents'
  BY <1>1, <1>3, <1>5
<1>10. /\ retired' \subseteq Live /\ (retired' = {} \/ Live \subseteq Live')
       /\ (~Quiet => Live \subseteq Live')
  BY <1>1, <1>4, <1>6
<1> QED BY <1>1, <1>8, <1>9, <1>10 DEF Relink

\* What Replace does to the table: the one store is to a slot in use.
LEMMA ReplaceTurn ==
  ASSUME MapOK, NEW q, NEW r, NEW b, NEW i, NEW y, NEW n,
         ReplaceFrom(q, r, b, i, y, n)
  PROVE  Turn
<1>1. /\ w.pc = "replace" /\ q = w.node /\ r = w.new /\ y \in HeadSet(Impl)
      /\ b \in 0 .. Impl.mask /\ i \in Slots /\ y = Impl.nodes[b][i]
      /\ ReplaceIn(q, r, b, i, y, n)
  BY DEF ReplaceFrom
<1>2. /\ IsImpl(Impl) /\ ImplsOK /\ impls \in Seq(ImplSet) /\ cmap \in 1 .. Len(impls)
      /\ Impl.n \in Int
  BY ImplIs DEF MapOK, ImplsOK
<1>3. /\ q \in Nodes /\ r \in Nodes \cup {Null} /\ next \in NextT /\ y \in Nodes /\ y # Null
  BY <1>1, CmapAssumption DEF MapOK, ChainsOK, WriterOK, WriterT, HeadSet
<1> DEFINE v == IF y = q THEN Successor(next, q, r) ELSE y
           mid == [Impl EXCEPT !.n = n]
           cur == PutNode(mid, b, i, v)
<1>4. v \in Nodes \cup {Null}
  BY <1>3 DEF Successor, NextT
<1>5. r = Null /\ v # y => y = q /\ v = next'[q]
  BY <1>1 DEF ReplaceIn, Successor, Relinked
<1>6. impls' = [impls EXCEPT ![cmap] = cur] /\ n \in Int /\ cmap' = cmap
  <2>1. /\ impls' = [impls EXCEPT ![cmap].n = n, ![cmap].nodes[b][i] = v] /\ cmap' = cmap
        /\ n = (IF r = Null THEN Impl.n - 1 ELSE Impl.n)
    BY <1>1 DEF ReplaceIn
  <2> HIDE DEF v
  <2>2. impls' = [impls EXCEPT ![cmap] = cur]
    BY <1>2, <2>1 DEF PutNode, Impl
  <2>3. n \in Int
    BY <1>2, <2>1
  <2> QED BY <2>1, <2>2, <2>3, Zenon
<1> HIDE DEF v
<1>7. /\ IsImpl(mid) /\ mid.mask = Impl.mask /\ mid.basis = Impl.basis
      /\ mid.nodes = Impl.nodes /\ mid.hashes = Impl.hashes /\ mid.counter = Impl.counter
  BY <1>2, <1>6, WithN
<1> HIDE DEF mid
<1>8. /\ IsImpl(cur) /\ cur.mask = Impl.mask /\ cur.basis = Impl.basis
      /\ cur.counter = Impl.counter /\ cur.hashes = Impl.hashes /\ cur.nodes[b][i] = v
      /\ \A c \in 0 .. Impl.mask : \A j \in Slots :
           c # b \/ j # i => cur.nodes[c][j] = Impl.nodes[c][j]
  <2>1. b \in 0 .. mid.mask
    BY <1>1, <1>7
  <2> QED BY <1>1, <1>4, <1>7, <2>1, WithNode
<1> HIDE DEF cur
<1>9. Impl' = cur /\ \A k \in 1 .. cmap : k # cmap => impls'[k] = impls[k]
  BY <1>2, <1>6, <1>8, TableSet
<1>10. \A c \in 0 .. Impl.mask : Impl.counter[c] \in Nat /\ Impl.counter[c] <= Impl.counter[c]
  BY <1>2, ImplFacts
<1>11. Evolves(Impl, cur, contents)
  BY <1>1, <1>3, <1>8, <1>10 DEF Evolves
<1>12. w.new = Null => SlotsPast(Impl, cur, w.node, next')
  BY <1>1, <1>3, <1>5, <1>8 DEF SlotsPast
<1> QED BY <1>6, <1>9, <1>11, <1>12 DEF Turn

\* cmap_replace__() makes its one store.
LEMMA ReplacePasses ==
  ASSUME MapOK, LiveOK(next, Live), Replace
  PROVE  Passes
<1>1. PICK q, r, b, i, y, n : ReplaceFrom(q, r, b, i, y, n)
  BY ReplaceIs
<1>2. Relink /\ Turn
  BY <1>1, ReplaceRelink, ReplaceTurn
<1>3. r = w.new /\ contents' = contents \cup ({r} \ {Null}) /\ w'.new = Null /\ w'.node = Null
  BY <1>1 DEF ReplaceFrom, ReplaceIn, IdleWriter
<1>4. rd' = rd
  BY Zenon DEF Replace
<1>5. contents' \cup InFlight' \subseteq contents \cup InFlight
  BY <1>3 DEF InFlight
<1>6. \E into, out : Told(into, out)
  BY <1>3, <1>4, <1>5, StillTold
<1> QED BY <1>2, <1>6 DEF Passes

\* Every step of the writer.
LEMMA WriterPasses ==
  ASSUME MapOK, LiveOK(next, Live), Writer
  PROVE  Passes
<1>1. CASE \E n \in Nodes : InsertCall(n)
  BY <1>1, InsertCallPasses
<1>2. CASE \E old \in Nodes, new \in Nodes \cup {Null} : ReplaceCall(old, new)
  BY <1>2, ReplaceCallPasses
<1>3. CASE Expand
  BY <1>3, ExpandPasses
<1>4. CASE TryInsert
  BY <1>4, TryInsertPasses
<1>5. CASE SetOdd
  BY <1>5, SetOddPasses
<1>6. CASE SetNode
  BY <1>6, SetNodePasses
<1>7. CASE SetHash
  BY <1>7, SetHashPasses
<1>8. CASE SetEven
  BY <1>8, SetEvenPasses
<1>9. CASE Replace
  BY <1>9, ReplacePasses
<1>10. CASE Shrink
  BY <1>10, ShrinkPasses
<1> QED BY <1>1, <1>2, <1>3, <1>4, <1>5, <1>6, <1>7, <1>8, <1>9, <1>10 DEF Writer

\* The chains that readers may be in stay in order.
LEMMA LiveKept ==
  ASSUME LiveOK(next, Live), Relink, MapOK'
  PROVE  LiveOK(next, Live)'
<1>1. RetiredOK'
  <2>1. ASSUME NEW n \in retired', next'[n] # Null
        PROVE  next'[n] \in Live' /\ HashOf[next'[n]] = HashOf[n]
    <3>1. n \in Live /\ next'[n] = next[n] /\ Live \subseteq Live'
      BY <2>1 DEF Relink
    <3> QED BY <2>1, <3>1 DEF LiveOK, Closed
  <2> QED BY <2>1 DEF RetiredOK
<1>2. MapOK' /\ RetiredOK' => LiveOK(next, Live)'
  BY LiveFromRetired, PTL
<1> QED BY <1>1, <1>2

-----------------------------------------------------------------------------
(* A step of the writer keeps the readers' invariant. *)

\* A reader that is told of a call, or of nothing: only its history changes.
After(x, y, into, out) ==
  /\ y \in ReaderT /\ y.pc = x.pc /\ y.hash = x.hash /\ y.im = x.im /\ y.k = x.k /\ y.c = x.c
  /\ y.i = x.i /\ y.node = x.node /\ y.seen = x.seen /\ y.twice = x.twice
  /\ y.must \subseteq x.must \ out /\ x.may \subseteq y.may
  /\ \A n \in y.may : n \in x.may \/ (n \in into /\ HashOf[n] \in x.hash)
  /\ \A n \in into : HashOf[n] \in x.hash => n \in y.may
  /\ y.inserts = FALSE => x.inserts = FALSE /\ into = {}
  /\ x.inserts = TRUE => y.inserts = TRUE

\* The nodes and the chains before a step of the writer and after it: nx and mx are
\* the next pointers, L and M the nodes that readers may hold, C and D the contents,
\* F and G the nodes in flight.
Passed(nx, mx, L, M, C, D, F, G, into, out, q) ==
  /\ nx \in NextT /\ mx \in NextT /\ LiveOK(nx, L) /\ LiveOK(mx, M) /\ L \subseteq M
  /\ LinksKept(nx, mx, L, q) /\ LinksNew(nx, mx, L, M, D) /\ q \notin D
  /\ into \cap M = {} /\ C \ out \subseteq D /\ D \cup G \subseteq C \cup F \cup into

\* The slots of a table have nodes that readers may hold and that are in the map or
\* on their way.
SlotsIn(im, L, S) ==
  \A b \in 0 .. im.mask : \A i \in Slots :
    im.nodes[b][i] # Null => im.nodes[b][i] \in L \cap S

\* The history of a reader while the writer makes a step.
LEMMA HistoryKept ==
  ASSUME NEW x, NEW y, NEW im, NEW cur, NEW nx, NEW mx, NEW L, NEW M, NEW C, NEW D, NEW F, NEW G,
         NEW into, NEW out, NEW q, After(x, y, into, out),
         Passed(nx, mx, L, M, C, D, F, G, into, out, q),
         HistoryOK(x, im, nx, L, C, F), cur = im \/ SlotsIn(cur, M, D \cup G)
  PROVE  HistoryOK(y, cur, mx, M, D, G)
<1>1. /\ L \subseteq M /\ LinksNew(nx, mx, L, M, D) /\ into \cap M = {} /\ C \ out \subseteq D
      /\ D \cup G \subseteq C \cup F \cup into /\ LiveOK(mx, M)
  BY DEF Passed
<1>2. /\ y.must \subseteq x.must \ out /\ x.may \subseteq y.may /\ y.hash = x.hash
      /\ \A n \in y.may : n \in x.may \/ (n \in into /\ HashOf[n] \in x.hash)
      /\ \A n \in into : HashOf[n] \in x.hash => n \in y.may
      /\ y.pc = x.pc /\ y.node = x.node /\ y.seen = x.seen
  BY DEF After
<1>3. /\ x.must \subseteq C /\ \A n \in x.must : HashOf[n] \in x.hash
      /\ \A n \in C \cup F : HashOf[n] \in x.hash => n \in x.may
      /\ \A n \in x.may : HashOf[n] \in x.hash
      /\ \A n \in x.may \cap L : nx[n] \in x.may \cup {Null}
      /\ x.seen \subseteq x.may \cap L
      /\ x.pc \in {"walk", "cursor"} => x.node \in x.may \cap L
  BY DEF HistoryOK
<1>4. /\ y.must \subseteq D /\ \A n \in y.must : HashOf[n] \in y.hash
      /\ \A n \in y.may : HashOf[n] \in y.hash
      /\ y.seen \subseteq y.may \cap M
      /\ y.pc \in {"walk", "cursor"} => y.node \in y.may \cap M
  BY <1>1, <1>2, <1>3
<1>5. \A n \in D \cup G : HashOf[n] \in y.hash => n \in y.may
  BY <1>1, <1>2, <1>3
<1>6. ASSUME NEW n \in y.may \cap M PROVE mx[n] \in y.may \cup {Null}
  <2>1. CASE mx[n] \in D /\ mx[n] # Null
    <3>1. HashOf[mx[n]] = HashOf[n]
      BY <1>1, <1>6, <2>1 DEF LiveOK
    <3> QED BY <1>4, <1>5, <1>6, <2>1, <3>1
  <2>2. CASE n \in L /\ mx[n] = nx[n]
    BY <1>1, <1>2, <1>3, <1>6, <2>2
  <2> QED BY <1>1, <2>1, <2>2 DEF LinksNew
<1>7. ASSUME NEW b \in 0 .. cur.mask, NEW i \in Slots, cur.nodes[b][i] # Null
      PROVE  /\ cur.nodes[b][i] \in M
             /\ HashOf[cur.nodes[b][i]] \in y.hash => cur.nodes[b][i] \in y.may
  <2>1. CASE cur = im
    BY <1>1, <1>2, <1>7, <2>1 DEF HistoryOK
  <2>2. CASE SlotsIn(cur, M, D \cup G)
    BY <1>5, <1>7, <2>2 DEF SlotsIn
  <2> QED BY <2>1, <2>2
<1> QED BY <1>4, <1>5, <1>6, <1>7 DEF HistoryOK

\* What a reader has to visit stays in its chain.
LEMMA ReachKept ==
  ASSUME NEW nx, NEW mx, NEW L, NEW q, LinksKept(nx, mx, L, q), NEW z \in L, NEW S, q \notin S,
         S \subseteq Reach(nx, z)
  PROVE  S \subseteq Reach(mx, z)
  BY DEF LinksKept

\* A search in its chain while the writer makes a step.
LEMMA WalkKept ==
  ASSUME NEW x, NEW y, NEW nx, NEW mx, NEW L, NEW q, NEW into, NEW out, After(x, y, into, out),
         LinksKept(nx, mx, L, q), WalkOK(x, nx), x.node \in L, q \notin y.must, x.seen \subseteq L
  PROVE  WalkOK(y, mx)
<1>1. /\ y.must \subseteq x.must /\ y.node = x.node /\ y.seen = x.seen /\ y.twice = x.twice
  BY DEF After
<1>2. /\ Reach(nx, x.node) \subseteq Reach(mx, x.node) \cup {q}
      /\ Reach(mx, x.node) \subseteq Reach(nx, x.node) \cup (Nodes \ L)
  BY DEF LinksKept
<1> QED BY <1>1, <1>2 DEF WalkOK

\* A reader that has come to its end while the writer makes a step.
LEMMA EndKept ==
  ASSUME NEW x, NEW y, NEW into, NEW out, After(x, y, into, out), EndOK(x)
  PROVE  EndOK(y)
  BY DEF After, EndOK

\* The buckets of a hash stay the same.
LEMMA BucketsKept ==
  ASSUME NEW im, NEW cur, NEW C, Evolves(im, cur, C), IsImpl(im), NEW h \in Hashes, NEW k \in 1 .. 2
  PROVE  Bucket(cur, h, k) = Bucket(im, h, k) /\ Bucket(im, h, k) \in 0 .. im.mask
<1>1. Bucket1(im, h) \in 0 .. im.mask /\ Bucket2(im, h) \in 0 .. im.mask
  BY BucketIn
<1>2. cur.mask = im.mask /\ cur.basis = im.basis
  BY DEF Evolves
<1> QED BY <1>1, <1>2 DEF Bucket, Bucket1, Bucket2

\* A bucket whose counter is as it was read is as it was when the counter was read.
LEMMA CounterKept ==
  ASSUME NEW im, NEW cur, NEW C, Evolves(im, cur, C), IsImpl(im), NEW h \in Hashes, NEW k \in 1 .. 2,
         NEW v \in Nat, v % 2 = 0, v <= im.counter[Bucket(im, h, k)],
         cur.counter[Bucket(cur, h, k)] = v
  PROVE  /\ im.counter[Bucket(im, h, k)] = v
         /\ \A i \in Slots : cur.hashes[Bucket(cur, h, k)][i] = im.hashes[Bucket(im, h, k)][i]
         /\ NoneIn(im, Bucket(im, h, k), h) =>
              NoneIn(cur, Bucket(cur, h, k), h) \/ \A m \in C : HashOf[m] # h
<1>1. PICK b \in 0 .. im.mask : b = Bucket(im, h, k) /\ b = Bucket(cur, h, k)
  BY BucketsKept
<1>2. im.counter[b] \in Nat /\ cur.counter[b] \in Nat /\ im.counter[b] <= cur.counter[b]
  BY ImplFacts DEF Evolves
<1>3. im.counter[b] = v /\ cur.counter[b] = v
  BY <1>1, <1>2
<1>4. \A i \in Slots :
        /\ cur.hashes[b][i] = im.hashes[b][i]
        /\ cur.nodes[b][i] # Null /\ im.nodes[b][i] = Null => \A m \in C : HashOf[m] # im.hashes[b][i]
  BY <1>3 DEF Evolves
<1>5. NoneIn(im, b, h) => NoneIn(cur, b, h) \/ \A m \in C : HashOf[m] # h
  BY <1>4 DEF NoneIn
<1> QED BY <1>1, <1>3, <1>4, <1>5

\* A search while the writer works: what it has to find is still to be found.
LEMMA SearchKept ==
  ASSUME NEW x \in ReaderT, NEW y, NEW im, NEW cur, NEW nx, NEW mx, NEW L, NEW M, NEW C, NEW q, NEW into,
         NEW out, NEW h, After(x, y, into, out), LinksKept(nx, mx, L, q), L \subseteq M,
         q \notin y.must, x.must \subseteq C, \A n \in x.must : HashOf[n] \in x.hash,
         IsImpl(im), Evolves(im, cur, C), SearchOK(x, im, h, nx, L),
         ViewOK(cur, h, mx, y.must, y.may \cap M)
  PROVE  SearchOK(y, cur, h, mx, M)
<1>1. /\ y.must \subseteq x.must /\ x.may \subseteq y.may /\ y.hash = x.hash
      /\ y.pc = x.pc /\ y.node = x.node /\ y.seen = x.seen /\ y.twice = x.twice
      /\ y.k = x.k /\ y.c = x.c /\ y.i = x.i
  BY DEF After
<1>2. /\ x.hash = {h} /\ h \in Hashes /\ x.k \in 1 .. 2 /\ x.seen = {} /\ x.twice = FALSE
      /\ \A k \in 1 .. 2 : x.c[k] % 2 = 0 /\ x.c[k] <= im.counter[Bucket(im, h, k)]
  BY DEF SearchOK
<1>3. \A k \in 1 .. 2 : x.c[k] \in Nat
  BY DEF ReaderT
<1>4. \A k \in 1 .. 2 : x.c[k] <= cur.counter[Bucket(cur, h, k)]
  <2> SUFFICES ASSUME NEW k \in 1 .. 2 PROVE x.c[k] <= cur.counter[Bucket(cur, h, k)]
    OBVIOUS
  <2>1. PICK b \in 0 .. im.mask : b = Bucket(im, h, k) /\ b = Bucket(cur, h, k)
    BY <1>2, BucketsKept
  <2>2. im.counter[b] \in Nat /\ cur.counter[b] \in Nat /\ im.counter[b] <= cur.counter[b]
    BY ImplFacts DEF Evolves
  <2>3. PICK v \in Nat : v = x.c[k] /\ v <= im.counter[b]
    BY <1>2, <1>3, <2>1
  <2> QED BY <2>1, <2>2, <2>3
<1>5. ASSUME NEW k \in 1 .. 2, SameCounter(y, cur, h, k)
      PROVE  /\ SameCounter(x, im, h, k)
             /\ \A i \in Slots : cur.hashes[Bucket(cur, h, k)][i] = im.hashes[Bucket(im, h, k)][i]
             /\ NoneIn(im, Bucket(im, h, k), h) => y.must = {} \/ NoneIn(cur, Bucket(cur, h, k), h)
  <2>1. PICK v \in Nat : v = x.c[k]
    BY <1>3
  <2>2. v % 2 = 0 /\ v <= im.counter[Bucket(im, h, k)] /\ cur.counter[Bucket(cur, h, k)] = v
    BY <1>1, <1>2, <1>5, <2>1 DEF SameCounter
  <2>3. /\ im.counter[Bucket(im, h, k)] = v
        /\ \A i \in Slots : cur.hashes[Bucket(cur, h, k)][i] = im.hashes[Bucket(im, h, k)][i]
        /\ NoneIn(im, Bucket(im, h, k), h) =>
             NoneIn(cur, Bucket(cur, h, k), h) \/ \A m \in C : HashOf[m] # h
    BY <1>2, <2>2, CounterKept
  <2>4. (\A m \in C : HashOf[m] # h) => y.must = {}
    BY <1>1, <1>2
  <2> QED BY <2>1, <2>3, <2>4 DEF SameCounter
<1>6. y.pc \in {"hash", "node"} /\ SameCounter(y, cur, h, y.k) =>
        \A j \in Slots : j < y.i => cur.hashes[Bucket(cur, h, y.k)][j] # h
  BY <1>1, <1>2, <1>5 DEF SearchOK
<1>7. y.pc = "node" /\ SameCounter(y, cur, h, y.k) => cur.hashes[Bucket(cur, h, y.k)][y.i] = h
  <2>1. x.i \in Slots
    BY DEF ReaderT
  <2> QED BY <1>1, <1>2, <1>5, <2>1 DEF SearchOK
<1>8. ASSUME y.pc = "check", SameCounter(y, cur, h, y.k), y.node # Null
      PROVE  y.must \subseteq Reach(mx, y.node) /\ y.node \in y.may \cap M
  <2>1. x.must \subseteq Reach(nx, x.node) /\ x.node \in x.may \cap L
    BY <1>1, <1>2, <1>5, <1>8 DEF SearchOK
  <2>2. y.must \subseteq Reach(nx, x.node)
    BY <1>1, <2>1
  <2>3. y.must \subseteq Reach(mx, x.node)
    BY <2>1, <2>2, ReachKept
  <2> QED BY <1>1, <2>1, <2>3
<1>9. y.pc = "check" /\ SameCounter(y, cur, h, y.k) /\ y.node = Null =>
        y.must = {} \/ NoneIn(cur, Bucket(cur, h, y.k), h)
  BY <1>1, <1>2, <1>5 DEF SearchOK
<1>10. y.k = 2 /\ SameCounter(y, cur, h, 1) => y.must = {} \/ NoneIn(cur, Bucket(cur, h, 1), h)
  BY <1>1, <1>2, <1>5 DEF SearchOK
<1>11. y.pc = "recheck" => y.must = {} \/ ~SameCounter(y, cur, h, 1)
  BY <1>1, <1>2, <1>5 DEF SearchOK
<1>12. /\ y.hash = {h} /\ h \in Hashes /\ y.k \in 1 .. 2 /\ y.seen = {} /\ y.twice = FALSE
       /\ \A k \in 1 .. 2 : y.c[k] % 2 = 0 /\ y.c[k] <= cur.counter[Bucket(cur, h, k)]
  BY <1>1, <1>2, <1>4
<1> QED BY <1>6, <1>7, <1>8, <1>9, <1>10, <1>11, <1>12 DEF SearchOK

\* A table that stays as it is shows what it showed.
LEMMA ViewKept ==
  ASSUME NEW x, NEW y, NEW im, NEW nx, NEW mx, NEW L, NEW M, NEW q, NEW into,
         NEW out, NEW h, After(x, y, into, out), LinksKept(nx, mx, L, q), L \subseteq M,
         q \notin y.must, ViewOK(im, h, nx, x.must, x.may \cap L)
  PROVE  ViewOK(im, h, mx, y.must, y.may \cap M)
<1>1. y.must \subseteq x.must /\ x.may \subseteq y.may
  BY DEF After
<1>2. ASSUME NEW b \in 0 .. im.mask, NEW i \in Slots,
             im.counter[b] % 2 = 0, im.nodes[b][i] # Null, im.hashes[b][i] = h
      PROVE  /\ y.must \subseteq Reach(mx, im.nodes[b][i]) /\ im.nodes[b][i] \in y.may \cap M
             /\ \A j \in Slots : j < i => im.hashes[b][j] # h
  <2>1. /\ x.must \subseteq Reach(nx, im.nodes[b][i]) /\ im.nodes[b][i] \in x.may \cap L
        /\ \A j \in Slots : j < i => im.hashes[b][j] # h
    BY <1>2 DEF ViewOK
  <2>2. y.must \subseteq Reach(nx, im.nodes[b][i])
    BY <1>1, <2>1
  <2>3. PICK z \in L : z = im.nodes[b][i]
    BY <2>1
  <2>4. y.must \subseteq Reach(mx, z)
    BY <2>2, <2>3, ReachKept
  <2> QED BY <1>1, <2>1, <2>3, <2>4
<1> QED BY <1>1, <1>2 DEF ViewOK

\* An iteration while nodes are removed.
LEMMA OnceKept ==
  ASSUME NEW x, NEW y, NEW im, NEW cur, NEW nx \in NextT, NEW mx \in NextT, NEW L, NEW M, NEW q,
         NEW into, NEW out, After(x, y, into, out), LinksKept(nx, mx, L, q), L \subseteq M,
         LiveOK(nx, L), LiveOK(mx, M),
         q \notin y.must, x.seen \subseteq L, x.node \in L \cup {Null},
         \A b \in 0 .. im.mask : \A i \in Slots : im.nodes[b][i] # Null => im.nodes[b][i] \in L,
         OnceOK(x, im, nx), GoodTable(cur), cur.mask = im.mask, SlotsPast(im, cur, q, mx)
  PROVE  OnceOK(y, cur, mx)
<1>1. /\ y.must \subseteq x.must /\ y.node = x.node /\ y.seen = x.seen /\ y.twice = x.twice
      /\ y.k = x.k /\ y.i = x.i
  BY DEF After
<1>2. /\ x.twice = FALSE /\ x.seen \cap Reach(nx, x.node) = {}
      /\ \A b \in 0 .. im.mask : \A i \in Slots : Ahead(x, b, i) /\ im.nodes[b][i] # Null =>
           /\ \A n \in x.seen : HashOf[n] # HashOf[im.nodes[b][i]]
           /\ x.node # Null => HashOf[x.node] # HashOf[im.nodes[b][i]]
  BY DEF OnceOK
<1>3. ASSUME NEW z \in L \cup {Null}
      PROVE  /\ Reach(nx, z) \subseteq Reach(mx, z) \cup {q}
             /\ Reach(mx, z) \subseteq Reach(nx, z) \cup (Nodes \ L)
  BY ReachNull DEF LinksKept
<1>4. y.seen \cap Reach(mx, y.node) = {}
  BY <1>1, <1>2, <1>3
<1>5. \A b, i : Ahead(y, b, i) <=> Ahead(x, b, i)
  BY <1>1 DEF Ahead
<1>6. ASSUME NEW b \in 0 .. cur.mask, NEW i \in Slots, Ahead(y, b, i), cur.nodes[b][i] # Null
      PROVE  /\ \A n \in y.seen : HashOf[n] # HashOf[cur.nodes[b][i]]
             /\ y.node # Null => HashOf[y.node] # HashOf[cur.nodes[b][i]]
  <2>1. im.nodes[b][i] # Null /\ HashOf[cur.nodes[b][i]] = HashOf[im.nodes[b][i]]
    <3>1. CASE cur.nodes[b][i] = im.nodes[b][i]
      BY <1>6, <3>1
    <3>2. CASE cur.nodes[b][i] # im.nodes[b][i]
      <4>1. im.nodes[b][i] = q /\ cur.nodes[b][i] = mx[q] /\ q # Null
        BY <1>6, <3>2 DEF SlotsPast
      <4>3. q \in M
        BY <1>6, <4>1
      <4> QED BY <1>6, <4>1, <4>3 DEF LiveOK
    <3> QED BY <3>1, <3>2
  <2> QED BY <1>1, <1>2, <1>5, <1>6, <2>1
<1>7. ASSUME NEW n \in y.must
      PROVE  \/ n \in y.seen \cup Reach(mx, y.node)
             \/ \E b \in 0 .. cur.mask : \E i \in Slots :
                  Ahead(y, b, i) /\ n \in Reach(mx, cur.nodes[b][i])
  <2>1. n \in x.must /\ n # q
    BY <1>1, <1>7
  <2>2. CASE n \in x.seen \cup Reach(nx, x.node)
    BY <1>1, <1>3, <2>1, <2>2
  <2>3. ASSUME NEW b \in 0 .. im.mask, NEW i \in Slots, Ahead(x, b, i), n \in Reach(nx, im.nodes[b][i])
        PROVE  \E c \in 0 .. cur.mask : \E j \in Slots :
                  Ahead(y, c, j) /\ n \in Reach(mx, cur.nodes[c][j])
    <3>1. im.nodes[b][i] # Null /\ im.nodes[b][i] \in L
      BY <2>3, ReachNull
    <3>2. n \in Reach(mx, im.nodes[b][i])
      BY <1>3, <2>1, <2>3, <3>1
    <3>3. n \in Reach(mx, cur.nodes[b][i])
      <4>1. CASE cur.nodes[b][i] = im.nodes[b][i]
        BY <3>2, <4>1
      <4>2. CASE cur.nodes[b][i] # im.nodes[b][i]
        <5>1. im.nodes[b][i] = q /\ cur.nodes[b][i] = mx[q]
          BY <4>2 DEF SlotsPast
        <5>2. q \in Nodes
          BY <3>1, <5>1 DEF LiveOK
        <5>3. Reach(mx, q) = {q} \cup Reach(mx, mx[q])
          BY <5>2, ReachStep
        <5> QED BY <2>1, <3>2, <5>1, <5>3
      <4> QED BY <4>1, <4>2
    <3> QED BY <1>5, <2>3, <3>3
  <2> QED BY <2>1, <2>2, <2>3 DEF OnceOK
<1> QED BY <1>1, <1>2, <1>4, <1>6, <1>7 DEF OnceOK

\* The table shows every search what it has to find: D is the contents, E the nodes
\* that are linked.
Shown(cur, mx, D, E) ==
  \A h : \A S \in SUBSET WithHashIn(D, h) : ViewOK(cur, h, mx, S, WithHashIn(E, h))

\* The table that a reader uses is as it was, or it is the published one.
TableKept(im, cur, y, mx, M, D, G, E, q) ==
  \/ cur = im
  \/ /\ SlotsIn(cur, M, D \cup G) /\ Shown(cur, mx, D, E) /\ E \subseteq M /\ E \subseteq D \cup G
     /\ y.inserts = FALSE => GoodTable(cur) /\ SlotsPast(im, cur, q, mx)

\* A search that has found no chain yet while the writer makes a step.
LEMMA SearchesKept ==
  ASSUME NEW x \in ReaderT, NEW y, NEW im, NEW cur, NEW nx, NEW mx, NEW L, NEW M, NEW C, NEW D,
         NEW F, NEW G, NEW E, NEW into, NEW out, NEW q, After(x, y, into, out),
         Passed(nx, mx, L, M, C, D, F, G, into, out, q),
         HistoryOK(x, im, nx, L, C, F), HistoryOK(y, cur, mx, M, D, G),
         IsImpl(im), Evolves(im, cur, C), TableKept(im, cur, y, mx, M, D, G, E, q),
         NEW h, SearchOK(x, im, h, nx, L)
  PROVE  SearchOK(y, cur, h, mx, M)
<1>1. LinksKept(nx, mx, L, q) /\ L \subseteq M /\ q \notin D
  BY DEF Passed
<1>2. /\ y.must \subseteq D /\ (\A n \in y.must : HashOf[n] \in y.hash)
      /\ \A n \in D \cup G : HashOf[n] \in y.hash => n \in y.may
  BY DEF HistoryOK
<1>3. x.must \subseteq C /\ \A n \in x.must : HashOf[n] \in x.hash
  BY DEF HistoryOK
<1>4. x.hash = {h} /\ y.hash = {h}
  BY DEF SearchOK, After
<1>5. ViewOK(cur, h, mx, y.must, y.may \cap M)
  <2>1. CASE cur = im
    <3>1. ViewOK(im, h, nx, x.must, x.may \cap L)
      BY DEF SearchOK
    <3>2. q \notin y.must
      BY <1>1, <1>2
    <3>3. ViewOK(im, h, mx, y.must, y.may \cap M)
      BY <1>1, <3>1, <3>2, ViewKept
    <3> QED BY <2>1, <3>3
  <2>2. CASE SlotsIn(cur, M, D \cup G) /\ Shown(cur, mx, D, E) /\ E \subseteq M /\ E \subseteq D \cup G
    <3>1. y.must \in SUBSET WithHashIn(D, h)
      BY <1>2, <1>4 DEF WithHashIn
    <3>2. WithHashIn(E, h) \subseteq y.may \cap M
      BY <1>2, <1>4, <2>2 DEF WithHashIn
    <3>3. ViewOK(cur, h, mx, y.must, WithHashIn(E, h))
      BY <2>2, <3>1 DEF Shown
    <3> QED BY <3>2, <3>3 DEF ViewOK
  <2> QED BY <2>1, <2>2 DEF TableKept
<1>6. q \notin y.must
  BY <1>1, <1>2
<1> QED BY <1>1, <1>3, <1>5, <1>6, SearchKept

\* An iteration while the writer makes a step.
LEMMA IterationsKept ==
  ASSUME NEW x \in ReaderT, NEW y, NEW im, NEW cur, NEW nx, NEW mx, NEW L, NEW M, NEW C, NEW D,
         NEW F, NEW G, NEW E, NEW into, NEW out, NEW q, After(x, y, into, out),
         Passed(nx, mx, L, M, C, D, F, G, into, out, q),
         HistoryOK(x, im, nx, L, C, F), HistoryOK(y, cur, mx, M, D, G),
         Evolves(im, cur, C), TableKept(im, cur, y, mx, M, D, G, E, q),
         x.pc \in {"slot", "cursor"}, IterationOK(x, im, nx)
  PROVE  IterationOK(y, cur, mx)
<1>1. /\ y.pc = x.pc /\ y.node = x.node /\ y.hash = x.hash
      /\ y.inserts = FALSE => x.inserts = FALSE /\ into = {}
  BY DEF After
<1>2. x.hash = Hashes /\ (x.pc = "slot" => x.node = Null) /\ (x.inserts = FALSE => OnceOK(x, im, nx))
  BY DEF IterationOK
<1>3. ASSUME y.inserts = FALSE PROVE OnceOK(y, cur, mx)
  <2>1. /\ LinksKept(nx, mx, L, q) /\ L \subseteq M /\ q \notin D /\ nx \in NextT /\ mx \in NextT
        /\ LiveOK(nx, L) /\ LiveOK(mx, M)
    BY DEF Passed
  <2>2. y.must \subseteq D
    BY DEF HistoryOK
  <2>3. /\ x.seen \subseteq L /\ (x.pc = "cursor" => x.node \in L)
        /\ \A b \in 0 .. im.mask : \A i \in Slots : im.nodes[b][i] # Null => im.nodes[b][i] \in L
    BY DEF HistoryOK
  <2>4. x.node \in L \cup {Null} /\ q \notin y.must /\ OnceOK(x, im, nx)
    BY <1>1, <1>2, <1>3, <2>1, <2>2, <2>3
  <2>5. cur.mask = im.mask /\ GoodTable(cur) /\ SlotsPast(im, cur, q, mx)
    <3>1. CASE cur = im
      BY <2>4, <3>1 DEF OnceOK, SlotsPast
    <3> QED BY <1>3, <3>1 DEF TableKept, Evolves
  <2> QED BY <2>1, <2>3, <2>4, <2>5, OnceKept
<1> QED BY <1>1, <1>2, <1>3 DEF IterationOK

\* A reader at work while the writer makes a step.
LEMMA ActiveKept ==
  ASSUME NEW x, NEW y, NEW im, NEW cur, NEW nx, NEW mx, NEW L, NEW M, NEW C, NEW D,
         NEW F, NEW G, NEW E, NEW into, NEW out, NEW q, After(x, y, into, out),
         Passed(nx, mx, L, M, C, D, F, G, into, out, q), ActiveOK(x, im, nx, L, C, F),
         IsImpl(im), Evolves(im, cur, C), TableKept(im, cur, y, mx, M, D, G, E, q)
  PROVE  ActiveOK(y, cur, mx, M, D, G)
<1>1. /\ x \in ReaderT /\ x.pc # "idle" /\ HistoryOK(x, im, nx, L, C, F)
      /\ x.pc \in Finding => \E h : SearchOK(x, im, h, nx, L)
      /\ x.pc = "walk" => WalkOK(x, nx)
      /\ x.pc \in {"slot", "cursor"} => IterationOK(x, im, nx)
      /\ x.pc = "done" => EndOK(x)
  BY DEF ActiveOK
<1>2. y \in ReaderT /\ y.pc = x.pc
  BY DEF After
<1>3. HistoryOK(y, cur, mx, M, D, G)
  BY <1>1, HistoryKept DEF TableKept
<1>4. ASSUME x.pc \in Finding PROVE \E h : SearchOK(y, cur, h, mx, M)
  <2>1. PICK h : SearchOK(x, im, h, nx, L)
    BY <1>1, <1>4
  <2>2. SearchOK(y, cur, h, mx, M)
    BY <1>1, <1>3, <2>1, SearchesKept
  <2> QED BY <2>2
<1>5. x.pc = "walk" => WalkOK(y, mx)
  <2>1. LinksKept(nx, mx, L, q) /\ q \notin y.must
    BY <1>3 DEF Passed, HistoryOK
  <2>2. x.seen \subseteq L /\ (x.pc = "walk" => x.node \in L)
    BY <1>1 DEF HistoryOK
  <2> QED BY <1>1, <2>1, <2>2, WalkKept
<1>6. x.pc \in {"slot", "cursor"} => IterationOK(y, cur, mx)
  BY <1>1, <1>3, IterationsKept
<1>7. x.pc = "done" => EndOK(y)
  BY <1>1, EndKept
<1> QED BY <1>1, <1>2, <1>3, <1>4, <1>5, <1>6, <1>7 DEF ActiveOK

\* Observe() changes the histories only.
LEMMA ObserveAfter ==
  ASSUME NEW x \in ReaderT, NEW into \in SUBSET Nodes, NEW out, NEW y,
         y = [x EXCEPT !.must = @ \ out,
                       !.may = @ \cup {n \in into : HashOf[n] \in x.hash},
                       !.inserts = @ \/ into # {}]
  PROVE  After(x, y, into, out)
<1>1. /\ y.pc = x.pc /\ y.hash = x.hash /\ y.im = x.im /\ y.k = x.k /\ y.c = x.c
      /\ y.i = x.i /\ y.node = x.node /\ y.seen = x.seen /\ y.twice = x.twice
      /\ y.must = x.must \ out /\ y.may = x.may \cup {n \in into : HashOf[n] \in x.hash}
      /\ y.inserts = (x.inserts \/ into # {})
  BY DEF ReaderT
<1>2. x.inserts \in BOOLEAN
  BY DEF ReaderT
<1>3. y \in ReaderT
  <2>1. x.must \ out \in SUBSET Nodes /\ x.may \cup {n \in into : HashOf[n] \in x.hash} \in SUBSET Nodes
    BY DEF ReaderT
  <2>2. PICK S \in SUBSET Nodes, T \in SUBSET Nodes, e \in BOOLEAN :
           y = [x EXCEPT !.must = S, !.may = T, !.inserts = e]
    BY <1>2, <2>1, Zenon
  <2> QED BY <2>2, Zenon DEF ReaderT
<1>4. (y.inserts = FALSE => x.inserts = FALSE /\ into = {}) /\ (x.inserts = TRUE => y.inserts = TRUE)
  BY <1>1, <1>2, Zenon
<1>5. /\ y.must \subseteq x.must \ out /\ x.may \subseteq y.may
      /\ \A n \in y.may : n \in x.may \/ (n \in into /\ HashOf[n] \in x.hash)
      /\ \A n \in into : HashOf[n] \in x.hash => n \in y.may
  BY <1>1
<1> QED BY <1>1, <1>3, <1>4, <1>5 DEF After

\* The histories stay as they are.
LEMMA SameAfter ==
  ASSUME NEW x \in ReaderT
  PROVE  After(x, x, {}, {})
  BY DEF After

\* The histories after a step of the writer.
LEMMA ToldAfter ==
  ASSUME NEW into, NEW out, Told(into, out), NEW r \in Readers, rd[r] \in ReaderT, rd[r].pc # "idle"
  PROVE  After(rd[r], rd'[r], into, out)
<1>1. CASE into = {} /\ out = {} /\ rd' = rd
  BY <1>1, SameAfter
<1>2. CASE Observe(into, out)
  <2>1. rd'[r] = [rd[r] EXCEPT !.must = @ \ out,
                               !.may = @ \cup {n \in into : HashOf[n] \in rd[r].hash},
                               !.inserts = @ \/ into # {}]
    BY <1>2, Zenon DEF Observe
  <2>2. into \in SUBSET Nodes
    BY DEF Told
  <2>3. PICK x, y : x = rd[r] /\ y = rd'[r]
    OBVIOUS
  <2>4. x \in ReaderT /\ y = [x EXCEPT !.must = @ \ out,
                                       !.may = @ \cup {n \in into : HashOf[n] \in x.hash},
                                       !.inserts = @ \/ into # {}]
    BY <2>1, <2>3
  <2>5. After(x, y, into, out)
    BY <2>2, <2>4, ObserveAfter, Zenon
  <2> QED BY <2>3, <2>5
<1> QED BY <1>1, <1>2 DEF Told

\* A table that is not the published one stays as it is.
LEMMA EvolvesSame ==
  ASSUME NEW im, IsImpl(im), NEW C
  PROVE  Evolves(im, im, C)
<1>1. \A b \in 0 .. im.mask : im.counter[b] \in Nat
  BY ImplFacts
<1> QED BY <1>1 DEF Evolves

\* Every table that a reader may use is a table.
LEMMA EachImpl ==
  ASSUME ImplsOK, NEW k \in 1 .. cmap
  PROVE  IsImpl(impls[k])
<1>1. impls[k] \in ImplSet
  BY DEF ImplsOK
<1> QED BY <1>1, ImplSetIs

\* Nobody inserts: the table is at rest.
LEMMA NoInsertRest == MapOK => (w.new = Null => RestOK)
<1> SUFFICES ASSUME MapOK, w.new = Null PROVE RestOK
  OBVIOUS
<1>1. w.pc \in Resting
  BY CmapAssumption DEF MapOK, WriterOK, WriterT, Inserting
<1> QED BY <1>1 DEF MapOK

\* The linked nodes can be held by a reader, and are in the map or on their way out.
LEMMA LinkedIn == Linked \subseteq Live /\ Linked \subseteq contents \cup InFlight
  BY DEF Live, Linked, InFlight

\* The published table after a store.
LEMMA PublishedKept ==
  ASSUME MapOK', NEW y, y.inserts = FALSE => w.new = Null /\ w'.new = Null,
         w.new = Null => SlotsPast(Impl, Impl', w.node, next')
  PROVE  TableKept(Impl, Impl', y, next', Live', contents', InFlight', Linked', w.node)
<1>1. SlotsNow' /\ ViewNow' /\ (w'.new = Null => RestOK')
  <2>1. MapOK' => SlotsNow'
    BY CurrentSlots, PTL
  <2>2. MapOK' => ViewNow'
    BY CurrentView, PTL
  <2>3. MapOK' => (w.new = Null => RestOK)'
    BY NoInsertRest, PTL
  <2> QED BY <2>1, <2>2, <2>3
<1>2. Linked' \subseteq Live' /\ Linked' \subseteq contents' \cup InFlight'
  BY DEF Live, Linked, InFlight
<1>3. SlotsIn(Impl', Live', contents' \cup InFlight')
  BY <1>1 DEF SlotsNow, SlotsIn
<1>4. Shown(Impl', next', contents', Linked')
  BY <1>1 DEF ViewNow, Shown
<1>5. y.inserts = FALSE => GoodTable(Impl') /\ SlotsPast(Impl, Impl', w.node, next')
  BY <1>1 DEF RestOK
<1> QED BY <1>2, <1>3, <1>4, <1>5 DEF TableKept

\* A reader at work while the writer makes a step.
LEMMA ReaderKept ==
  ASSUME MapOK, MapOK', LiveOK(next, Live), LiveOK(next, Live)', Passes,
         NEW r \in Readers, ReaderOK(rd[r]), rd[r] # IdleReader
  PROVE  ReaderOK(rd[r])'
<1>1. PICK x, y : x = rd[r] /\ y = rd'[r]
  OBVIOUS
<1>2. /\ x.im \in 1 .. cmap /\ (x.inserts = FALSE => w.new = Null)
      /\ ActiveOK(x, impls[x.im], next, Live, contents, InFlight)
  BY <1>1 DEF ReaderOK
<1>3. x \in ReaderT /\ x.pc # "idle" /\ ~Quiet
  BY <1>1, <1>2 DEF ActiveOK, Quiet
<1>4. PICK into, out : Told(into, out)
  BY DEF Passes
<1>5. After(x, y, into, out)
  BY <1>1, <1>3, <1>4, ToldAfter
<1>6. Passed(next, next', Live, Live', contents, contents', InFlight, InFlight', into, out, w.node)
  <2>1. next \in NextT /\ next' \in NextT
    BY DEF MapOK, ChainsOK
  <2>2. /\ w.node \notin contents' /\ Live \subseteq Live' /\ LinksKept(next, next', Live, w.node)
        /\ LinksNew(next, next', Live, Live', contents')
    BY <1>3 DEF Passes, Relink
  <2>3. /\ into \cap Live' = {} /\ contents \ out \subseteq contents'
        /\ contents' \cup InFlight' \subseteq contents \cup InFlight \cup into
    BY <1>4 DEF Told
  <2> QED BY <2>1, <2>2, <2>3 DEF Passed
<1>7. y.im = x.im /\ (y.inserts = FALSE => w.new = Null /\ w'.new = Null)
  <2>1. y.inserts = FALSE => x.inserts = FALSE /\ into = {}
    BY <1>5 DEF After
  <2> QED BY <1>2, <1>4, <1>5, <2>1 DEF Told, After
<1>8. IsImpl(impls[x.im])
  BY <1>2, EachImpl DEF MapOK
<1>9. /\ y.im \in 1 .. cmap' /\ Evolves(impls[x.im], impls'[y.im], contents)
      /\ TableKept(impls[x.im], impls'[y.im], y, next', Live', contents', InFlight', Linked', w.node)
  <2>1. CASE x.im \in 1 .. cmap' /\ impls'[x.im] = impls[x.im]
    BY <1>7, <1>8, <2>1, EvolvesSame DEF TableKept
  <2>2. CASE x.im = cmap /\ cmap' = cmap /\ Evolves(Impl, Impl', contents)
             /\ (w.new = Null => SlotsPast(Impl, Impl', w.node, next'))
    <3>1. TableKept(Impl, Impl', y, next', Live', contents', InFlight', Linked', w.node)
      BY <1>7, <2>2, PublishedKept
    <3>2. impls[x.im] = Impl /\ impls'[y.im] = Impl'
      BY <1>7, <2>2 DEF Impl
    <3> QED BY <1>2, <1>7, <2>2, <3>1, <3>2
  <2>3. cmap \in Nat
    BY DEF MapOK, ImplsOK
  <2> QED BY <1>2, <1>3, <2>1, <2>2, <2>3 DEF Passes, Turn
<1>10. ActiveOK(y, impls'[y.im], next', Live', contents', InFlight')
  <2>1. PICK im, cur, nx, mx, L, M, C, D, F, G, E, q :
          /\ im = impls[x.im] /\ cur = impls'[y.im] /\ nx = next /\ mx = next' /\ L = Live /\ M = Live'
          /\ C = contents /\ D = contents' /\ F = InFlight /\ G = InFlight' /\ E = Linked' /\ q = w.node
    OBVIOUS
  <2>2. /\ Passed(nx, mx, L, M, C, D, F, G, into, out, q) /\ ActiveOK(x, im, nx, L, C, F)
        /\ IsImpl(im) /\ Evolves(im, cur, C) /\ TableKept(im, cur, y, mx, M, D, G, E, q)
    BY <1>2, <1>6, <1>8, <1>9, <2>1
  <2>3. ActiveOK(y, cur, mx, M, D, G)
    BY <1>5, <2>2, ActiveKept
  <2> QED BY <2>1, <2>3
<1> QED BY <1>1, <1>7, <1>9, <1>10 DEF ReaderOK

-----------------------------------------------------------------------------
(* A step of a reader keeps the readers' invariant. *)

\* The readers while the writer makes a step.
LEMMA WriterReaders ==
  ASSUME MapOK, MapOK', ReadersOK, Writer
  PROVE  ReadersOK'
<1>1. /\ DOMAIN rd = Readers /\ rd = [r \in Readers |-> rd[r]] /\ LiveOK(next, Live)
      /\ \A r \in Readers : ReaderOK(rd[r])
  BY DEF ReadersOK
<1>2. Passes
  BY <1>1, WriterPasses
<1>3. LiveOK(next, Live)'
  BY <1>1, <1>2, LiveKept DEF Passes
<1>4. PICK into, out : Told(into, out)
  BY <1>2 DEF Passes
<1>5. DOMAIN rd' = Readers /\ rd' = [r \in Readers |-> rd'[r]]
  BY <1>1, <1>4, Zenon DEF Told, Observe
<1>6. ASSUME NEW r \in Readers PROVE ReaderOK(rd[r])'
  <2>1. CASE rd[r] = IdleReader
    <3>1. rd[r].pc = "idle"
      BY <2>1 DEF IdleReader
    <3>2. rd'[r] = rd[r]
      BY <1>4, <3>1, Zenon DEF Told, Observe
    <3> QED BY <2>1, <3>2 DEF ReaderOK
  <2>2. CASE rd[r] # IdleReader
    BY <1>1, <1>2, <1>3, <2>2, ReaderKept
  <2> QED BY <2>1, <2>2
<1> QED BY <1>3, <1>5, <1>6 DEF ReadersOK

\* A step of a reader is nothing to the others.
LEMMA OwnStep ==
  ASSUME ReadersOK, NEW r \in Readers, NEW y, ReaderOK(y), Become(r, y), ReaderOnly
  PROVE  ReadersOK'
<1>1. UNCHANGED <<impls, cmap, next, retired, contents, w>> /\ rd' = [rd EXCEPT ![r] = y]
  BY DEF ReaderOnly, Become
<1>2. Live' = Live /\ InFlight' = InFlight
  BY <1>1 DEF Live, Linked, InFlight
<1>3. /\ DOMAIN rd = Readers /\ rd = [q \in Readers |-> rd[q]] /\ LiveOK(next, Live)
      /\ \A q \in Readers : ReaderOK(rd[q])
  BY DEF ReadersOK
<1>4. DOMAIN rd' = Readers /\ rd' = [q \in Readers |-> rd'[q]] /\ rd'[r] = y
      /\ \A q \in Readers : q # r => rd'[q] = rd[q]
  BY <1>1, <1>3
<1>5. ASSUME NEW q \in Readers PROVE ReaderOK(rd[q])'
  <2>1. PICK x : x = rd'[q] /\ ReaderOK(x)
    BY <1>3, <1>4
  <2>2. CASE x = IdleReader
    BY <2>1, <2>2 DEF ReaderOK
  <2>3. CASE x # IdleReader
    <3>1. /\ x.im \in 1 .. cmap /\ (x.inserts = FALSE => w.new = Null)
          /\ ActiveOK(x, impls[x.im], next, Live, contents, InFlight)
      BY <2>1, <2>3 DEF ReaderOK
    <3>2. /\ x.im \in 1 .. cmap' /\ (x.inserts = FALSE => w'.new = Null)
          /\ ActiveOK(x, impls'[x.im], next', Live', contents', InFlight')
      BY <1>1, <1>2, <3>1
    <3> QED BY <2>1, <3>2 DEF ReaderOK
  <2> QED BY <2>2, <2>3
<1>6. LiveOK(next, Live)'
  BY <1>1, <1>2, <1>3
<1> QED BY <1>4, <1>5, <1>6 DEF ReadersOK

\* The history after a step of the reader.
LEMMA HistoryStep ==
  ASSUME NEW x, NEW y, NEW im, NEW nx, NEW L, NEW C, NEW F, HistoryOK(x, im, nx, L, C, F),
         y.hash = x.hash, y.must = x.must, y.may = x.may, y.seen \subseteq x.may \cap L,
         y.pc \in {"walk", "cursor"} => y.node \in x.may \cap L
  PROVE  HistoryOK(y, im, nx, L, C, F)
  BY DEF HistoryOK

\* A search that goes on.
LEMMA FindStep ==
  ASSUME NEW x, NEW y, NEW im, NEW nx, NEW L, NEW C, NEW F, ActiveOK(x, im, nx, L, C, F),
         y \in ReaderT, y.pc \in Finding, y.hash = x.hash, y.must = x.must, y.may = x.may,
         y.seen = x.seen, NEW h, SearchOK(y, im, h, nx, L)
  PROVE  ActiveOK(y, im, nx, L, C, F)
<1>1. y.pc \notin {"idle", "walk", "slot", "cursor", "done"}
  BY DEF Finding
<1>2. HistoryOK(x, im, nx, L, C, F) /\ x.seen \subseteq x.may \cap L
  BY DEF ActiveOK, HistoryOK
<1>3. HistoryOK(y, im, nx, L, C, F)
  BY <1>1, <1>2, HistoryStep
<1> QED BY <1>1, <1>3 DEF ActiveOK

\* The facts of a search.
LEMMA SearchFacts ==
  ASSUME NEW x \in ReaderT, NEW im, IsImpl(im), NEW h, NEW nx, NEW L, SearchOK(x, im, h, nx, L)
  PROVE  /\ h \in Hashes /\ x.hash = {h} /\ HashOfFind(x) = h /\ x.k \in 1 .. 2 /\ x.i \in Slots
         /\ x.i \in Nat /\ \A k \in 1 .. 2 : /\ Bucket(im, h, k) \in 0 .. im.mask
                                             /\ im.counter[Bucket(im, h, k)] \in Nat
                                             /\ x.c[k] \in Nat
<1>1. h \in Hashes /\ x.hash = {h} /\ x.k \in 1 .. 2 /\ x.i \in Slots /\ x.c \in [1 .. 2 -> Nat]
  BY DEF SearchOK, ReaderT
<1>2. HashOfFind(x) = h
  BY <1>1 DEF HashOfFind
<1>3. Bucket1(im, h) \in 0 .. im.mask /\ Bucket2(im, h) \in 0 .. im.mask
  BY <1>1, BucketIn
<1>4. \A b \in 0 .. im.mask : im.counter[b] \in Nat
  BY ImplFacts
<1>5. x.i \in Nat
  BY <1>1, CmapAssumption DEF Slots
<1> QED BY <1>1, <1>2, <1>3, <1>4, <1>5 DEF Bucket

\* read_even_counter().
LEMMA EvenStep ==
  ASSUME NEW x, NEW y, NEW im, NEW nx, NEW L, NEW C, NEW F, ActiveOK(x, im, nx, L, C, F), IsImpl(im),
         x.pc = "even", NEW h, SearchOK(x, im, h, nx, L),
         im.counter[Bucket(im, h, x.k)] % 2 = 0,
         y = [x EXCEPT !.pc = "hash", !.c[x.k] = im.counter[Bucket(im, h, x.k)], !.i = 1]
  PROVE  ActiveOK(y, im, nx, L, C, F)
<1>1. x \in ReaderT
  BY DEF ActiveOK
<1>2. /\ h \in Hashes /\ x.hash = {h} /\ x.k \in 1 .. 2
      /\ \A k \in 1 .. 2 : /\ Bucket(im, h, k) \in 0 .. im.mask
                           /\ im.counter[Bucket(im, h, k)] \in Nat /\ x.c[k] \in Nat
  BY <1>1, SearchFacts
<1>3. PICK v \in Nat : v = im.counter[Bucket(im, h, x.k)] /\ v % 2 = 0
  BY <1>2
<1>4. y \in ReaderT
  <2>1. "hash" \in {"idle", "walk", "slot", "cursor", "done"} \cup Finding /\ 1 \in Slots
    BY CmapAssumption DEF Finding, Slots
  <2> QED BY <1>1, <1>2, <1>3, <2>1 DEF ReaderT
<1>5. /\ y.pc = "hash" /\ y.i = 1 /\ y.c[x.k] = v /\ (\A k \in 1 .. 2 : k # x.k => y.c[k] = x.c[k])
      /\ y.hash = x.hash /\ y.must = x.must /\ y.may = x.may /\ y.seen = x.seen /\ y.k = x.k
      /\ y.twice = x.twice
  BY <1>1, <1>2, <1>3 DEF ReaderT
<1> HIDE <1>4
<1>6. \A k \in 1 .. 2 : y.c[k] % 2 = 0 /\ y.c[k] <= im.counter[Bucket(im, h, k)]
  <2> SUFFICES ASSUME NEW k \in 1 .. 2 PROVE y.c[k] % 2 = 0 /\ y.c[k] <= im.counter[Bucket(im, h, k)]
    OBVIOUS
  <2>1. CASE k = x.k
    BY <1>3, <1>5, <2>1
  <2>2. CASE k # x.k
    BY <1>5, <2>2 DEF SearchOK
  <2> QED BY <2>1, <2>2
<1>7. \A j \in Slots : ~(j < y.i)
  BY <1>5, CmapAssumption DEF Slots
<1>8. y.k = 2 /\ SameCounter(y, im, h, 1) => y.must = {} \/ NoneIn(im, Bucket(im, h, 1), h)
  BY <1>5 DEF SearchOK, SameCounter
<1>9. ViewOK(im, h, nx, y.must, y.may \cap L)
  BY <1>5 DEF SearchOK
<1>10. /\ y.hash = {h} /\ h \in Hashes /\ y.k \in 1 .. 2 /\ y.seen = {} /\ y.twice = FALSE
  BY <1>2, <1>5 DEF SearchOK
<1>11. SearchOK(y, im, h, nx, L)
  BY <1>5, <1>6, <1>7, <1>8, <1>9, <1>10 DEF SearchOK
<1>12. y.pc \in Finding
  BY <1>5 DEF Finding
<1> QED BY <1>4, <1>5, <1>11, <1>12, FindStep

\* A step of a search that leaves the counters read alone: what has to be shown.
LEMMA LookStep ==
  ASSUME NEW x, NEW y, NEW im, NEW nx, NEW L, NEW C, NEW F, ActiveOK(x, im, nx, L, C, F),
         NEW h, SearchOK(x, im, h, nx, L), y \in ReaderT, y.pc \in Finding, y.k \in 1 .. 2,
         y.hash = x.hash, y.must = x.must, y.may = x.may, y.seen = x.seen, y.twice = x.twice, y.c = x.c,
         y.pc \in {"hash", "node"} /\ SameCounter(x, im, h, y.k) =>
           \A j \in Slots : j < y.i => im.hashes[Bucket(im, h, y.k)][j] # h,
         y.pc = "node" /\ SameCounter(x, im, h, y.k) => im.hashes[Bucket(im, h, y.k)][y.i] = h,
         y.pc = "check" /\ SameCounter(x, im, h, y.k) /\ y.node # Null =>
           x.must \subseteq Reach(nx, y.node) /\ y.node \in x.may \cap L,
         y.pc = "check" /\ SameCounter(x, im, h, y.k) /\ y.node = Null =>
           x.must = {} \/ NoneIn(im, Bucket(im, h, y.k), h),
         y.k = 2 /\ SameCounter(x, im, h, 1) => x.must = {} \/ NoneIn(im, Bucket(im, h, 1), h),
         y.pc = "recheck" => x.must = {} \/ ~SameCounter(x, im, h, 1)
  PROVE  ActiveOK(y, im, nx, L, C, F)
<1>1. \A k : SameCounter(y, im, h, k) <=> SameCounter(x, im, h, k)
  BY DEF SameCounter
<1>2. SearchOK(y, im, h, nx, L)
  BY <1>1 DEF SearchOK
<1> QED BY <1>2, FindStep

\* cmap_find_in_bucket(): a hash.
LEMMA HashStep ==
  ASSUME NEW x, NEW y, NEW im, NEW nx, NEW L, NEW C, NEW F, ActiveOK(x, im, nx, L, C, F), IsImpl(im),
         x.pc = "hash", NEW h, SearchOK(x, im, h, nx, L),
         y = IF im.hashes[Bucket(im, h, x.k)][x.i] = h THEN [x EXCEPT !.pc = "node"]
             ELSE IF x.i < K THEN [x EXCEPT !.i = @ + 1]
             ELSE [x EXCEPT !.pc = "check", !.node = Null]
  PROVE  ActiveOK(y, im, nx, L, C, F)
<1>1. x \in ReaderT
  BY DEF ActiveOK
<1>2. /\ h \in Hashes /\ x.hash = {h} /\ x.k \in 1 .. 2 /\ x.i \in Slots /\ x.i \in Nat
  BY <1>1, SearchFacts
<1>3. /\ SameCounter(x, im, h, x.k) => \A j \in Slots : j < x.i => im.hashes[Bucket(im, h, x.k)][j] # h
      /\ x.k = 2 /\ SameCounter(x, im, h, 1) => x.must = {} \/ NoneIn(im, Bucket(im, h, 1), h)
  BY DEF SearchOK
<1>4. CASE im.hashes[Bucket(im, h, x.k)][x.i] = h
  <2>1. y = [x EXCEPT !.pc = "node"]
    BY <1>4
  <2>2. y \in ReaderT /\ y.pc = "node" /\ y.pc \in Finding
    BY <1>1, <2>1 DEF ReaderT, Finding
  <2>3. /\ y.hash = x.hash /\ y.must = x.must /\ y.may = x.may /\ y.seen = x.seen
        /\ y.twice = x.twice /\ y.c = x.c /\ y.k = x.k /\ y.i = x.i
    BY <1>1, <2>1 DEF ReaderT
  <2> HIDE <2>1
  <2> QED BY <1>2, <1>3, <1>4, <2>2, <2>3, LookStep
<1>5. CASE im.hashes[Bucket(im, h, x.k)][x.i] # h /\ x.i < K
  <2>1. y = [x EXCEPT !.i = x.i + 1]
    BY <1>5
  <2>2. y \in ReaderT /\ y.pc = "hash" /\ y.pc \in Finding
    BY <1>1, <1>2, <1>5, <2>1, CmapAssumption DEF ReaderT, Finding, Slots
  <2>3. /\ y.hash = x.hash /\ y.must = x.must /\ y.may = x.may /\ y.seen = x.seen
        /\ y.twice = x.twice /\ y.c = x.c /\ y.k = x.k /\ y.i = x.i + 1
    BY <1>1, <2>1 DEF ReaderT
  <2>4. \A j \in Slots : j < y.i => j < x.i \/ j = x.i
    BY <1>2, <2>3 DEF Slots
  <2> HIDE <2>1
  <2>5. SameCounter(x, im, h, x.k) => \A j \in Slots : j < y.i => im.hashes[Bucket(im, h, x.k)][j] # h
    BY <1>3, <1>5, <2>4
  <2> QED BY <1>2, <1>3, <2>2, <2>3, <2>5, LookStep, Zenon
<1>6. CASE im.hashes[Bucket(im, h, x.k)][x.i] # h /\ ~(x.i < K)
  <2>1. y = [x EXCEPT !.pc = "check", !.node = Null]
    BY <1>6
  <2>2. y \in ReaderT /\ y.pc = "check" /\ y.pc \in Finding
    BY <1>1, <2>1 DEF ReaderT, Finding
  <2>3. /\ y.hash = x.hash /\ y.must = x.must /\ y.may = x.may /\ y.seen = x.seen
        /\ y.twice = x.twice /\ y.c = x.c /\ y.k = x.k /\ y.i = x.i /\ y.node = Null
    BY <1>1, <2>1 DEF ReaderT
  <2>4. \A j \in Slots : j < x.i \/ j = x.i
    BY <1>2, <1>6, CmapAssumption DEF Slots
  <2> HIDE <2>1
  <2>5. SameCounter(x, im, h, x.k) => NoneIn(im, Bucket(im, h, x.k), h)
    BY <1>3, <1>6, <2>4 DEF NoneIn
  <2> QED BY <1>2, <1>3, <2>2, <2>3, <2>5, LookStep
<1> QED BY <1>4, <1>5, <1>6

\* cmap_find_in_bucket(): the node.
LEMMA NodeStep ==
  ASSUME NEW x, NEW y, NEW im, NEW nx, NEW L, NEW C, NEW F, ActiveOK(x, im, nx, L, C, F), IsImpl(im),
         x.pc = "node", NEW h, SearchOK(x, im, h, nx, L),
         y = [x EXCEPT !.pc = "check", !.node = im.nodes[Bucket(im, h, x.k)][x.i]]
  PROVE  ActiveOK(y, im, nx, L, C, F)
<1>1. x \in ReaderT
  BY DEF ActiveOK
<1>2. /\ h \in Hashes /\ x.hash = {h} /\ x.k \in 1 .. 2 /\ x.i \in Slots /\ x.i \in Nat
      /\ Bucket(im, h, x.k) \in 0 .. im.mask
  BY <1>1, SearchFacts
<1>3. PICK b \in 0 .. im.mask, i \in Slots : b = Bucket(im, h, x.k) /\ i = x.i
  BY <1>2
<1>4. im.nodes[b][i] \in Nodes \cup {Null}
  BY <1>3, ImplFacts
<1>5. y \in ReaderT /\ y.pc = "check" /\ y.pc \in Finding
  BY <1>1, <1>3, <1>4 DEF ReaderT, Finding
<1>6. /\ y.hash = x.hash /\ y.must = x.must /\ y.may = x.may /\ y.seen = x.seen
      /\ y.twice = x.twice /\ y.c = x.c /\ y.k = x.k /\ y.i = x.i /\ y.node = im.nodes[b][i]
  BY <1>1, <1>3 DEF ReaderT
<1>7. ASSUME SameCounter(x, im, h, x.k)
      PROVE  /\ im.hashes[b][i] = h /\ im.counter[b] % 2 = 0
             /\ \A j \in Slots : j < i => im.hashes[b][j] # h
  BY <1>2, <1>3, <1>7 DEF SearchOK, SameCounter
<1>8. ViewOK(im, h, nx, x.must, x.may \cap L)
  BY DEF SearchOK
<1>9. ASSUME SameCounter(x, im, h, x.k), im.nodes[b][i] # Null
      PROVE  x.must \subseteq Reach(nx, im.nodes[b][i]) /\ im.nodes[b][i] \in x.may \cap L
  BY <1>7, <1>8, <1>9 DEF ViewOK
<1>10. ASSUME SameCounter(x, im, h, x.k), im.nodes[b][i] = Null
       PROVE  NoneIn(im, b, h)
  <2> SUFFICES ASSUME NEW j \in Slots, im.nodes[b][j] # Null, im.hashes[b][j] = h PROVE FALSE
    BY DEF NoneIn
  <2>1. i \in Nat /\ j \in Nat
    BY DEF Slots
  <2>2. ~(j < i)
    BY <1>7, <1>10
  <2>3. \A s \in Slots : s < j => im.hashes[b][s] # h
    BY <1>7, <1>8, <1>10 DEF ViewOK
  <2>4. i # j
    BY <1>10
  <2> QED BY <1>7, <1>10, <2>1, <2>2, <2>3, <2>4
<1>11. x.k = 2 /\ SameCounter(x, im, h, 1) => x.must = {} \/ NoneIn(im, Bucket(im, h, 1), h)
  BY DEF SearchOK
<1>12. /\ SameCounter(x, im, h, y.k) /\ y.node # Null =>
            x.must \subseteq Reach(nx, y.node) /\ y.node \in x.may \cap L
       /\ SameCounter(x, im, h, y.k) /\ y.node = Null =>
            x.must = {} \/ NoneIn(im, Bucket(im, h, y.k), h)
  BY <1>3, <1>6, <1>9, <1>10
<1> QED BY <1>2, <1>5, <1>6, <1>11, <1>12, LookStep

\* A search that found its chain.
LEMMA WalkStart ==
  ASSUME NEW x, NEW y, NEW im, NEW nx, NEW L, NEW C, NEW F, ActiveOK(x, im, nx, L, C, F),
         NEW h, SearchOK(x, im, h, nx, L), x.must \subseteq Reach(nx, x.node), x.node \in x.may \cap L,
         y = [x EXCEPT !.pc = "walk"]
  PROVE  ActiveOK(y, im, nx, L, C, F)
<1>1. x \in ReaderT /\ HistoryOK(x, im, nx, L, C, F)
  BY DEF ActiveOK
<1>2. y \in ReaderT /\ y.pc = "walk"
  BY <1>1 DEF ReaderT
<1>3. /\ y.hash = x.hash /\ y.must = x.must /\ y.may = x.may /\ y.seen = x.seen
      /\ y.twice = x.twice /\ y.node = x.node
  BY <1>1 DEF ReaderT
<1>4. x.seen = {} /\ x.twice = FALSE
  BY DEF SearchOK
<1>5. HistoryOK(y, im, nx, L, C, F)
  BY <1>1, <1>3, <1>4, HistoryStep
<1>6. WalkOK(y, nx)
  BY <1>3, <1>4 DEF WalkOK
<1> QED BY <1>2, <1>5, <1>6 DEF ActiveOK, Finding

\* A reader that has finished.
LEMMA EndStep ==
  ASSUME NEW x, NEW y, NEW im, NEW nx, NEW L, NEW C, NEW F, ActiveOK(x, im, nx, L, C, F),
         y \in ReaderT, y.pc = "done", y.hash = x.hash, y.must = x.must, y.may = x.may,
         y.seen \subseteq x.may \cap L, EndOK(y)
  PROVE  ActiveOK(y, im, nx, L, C, F)
<1>1. HistoryOK(x, im, nx, L, C, F)
  BY DEF ActiveOK
<1>2. HistoryOK(y, im, nx, L, C, F)
  BY <1>1, HistoryStep
<1> QED BY <1>2 DEF ActiveOK, Finding

\* counter_changed().
LEMMA CheckStep ==
  ASSUME NEW x, NEW y, NEW im, NEW nx, NEW L, NEW C, NEW F, ActiveOK(x, im, nx, L, C, F), IsImpl(im),
         x.pc = "check", NEW h, SearchOK(x, im, h, nx, L),
         y = IF im.counter[Bucket(im, h, x.k)] # x.c[x.k] THEN [x EXCEPT !.pc = "even"]
             ELSE IF x.node # Null THEN [x EXCEPT !.pc = "walk"]
             ELSE IF x.k = 1 THEN [x EXCEPT !.pc = "even", !.k = 2]
             ELSE [x EXCEPT !.pc = "recheck"]
  PROVE  ActiveOK(y, im, nx, L, C, F)
<1>1. x \in ReaderT
  BY DEF ActiveOK
<1>2. /\ h \in Hashes /\ x.hash = {h} /\ x.k \in 1 .. 2
  BY <1>1, SearchFacts
<1>3. /\ SameCounter(x, im, h, x.k) /\ x.node # Null =>
           x.must \subseteq Reach(nx, x.node) /\ x.node \in x.may \cap L
      /\ SameCounter(x, im, h, x.k) /\ x.node = Null =>
           x.must = {} \/ NoneIn(im, Bucket(im, h, x.k), h)
      /\ x.k = 2 /\ SameCounter(x, im, h, 1) => x.must = {} \/ NoneIn(im, Bucket(im, h, 1), h)
  BY DEF SearchOK
<1>4. CASE ~SameCounter(x, im, h, x.k)
  <2>1. y = [x EXCEPT !.pc = "even"]
    BY <1>4 DEF SameCounter
  <2>2. y \in ReaderT /\ y.pc = "even" /\ y.pc \in Finding
    BY <1>1, <2>1 DEF ReaderT, Finding
  <2>3. /\ y.hash = x.hash /\ y.must = x.must /\ y.may = x.may /\ y.seen = x.seen
        /\ y.twice = x.twice /\ y.c = x.c /\ y.k = x.k
    BY <1>1, <2>1 DEF ReaderT
  <2> HIDE <2>1
  <2> QED BY <1>2, <1>3, <2>2, <2>3, LookStep
<1>5. CASE SameCounter(x, im, h, x.k) /\ x.node # Null
  <2>1. y = [x EXCEPT !.pc = "walk"]
    BY <1>5 DEF SameCounter
  <2> QED BY <1>3, <1>5, <2>1, WalkStart
<1>6. CASE SameCounter(x, im, h, x.k) /\ x.node = Null /\ x.k = 1
  <2>0. PICK k \in Nat : k = 2
    OBVIOUS
  <2>1. y = [x EXCEPT !.pc = "even", !.k = k]
    BY <1>6, <2>0 DEF SameCounter
  <2>2. y \in ReaderT /\ y.pc = "even" /\ y.pc \in Finding
    <3>1. x.k \in Nat /\ "even" \in Finding
      BY <1>1 DEF ReaderT, Finding
    <3> HIDE <2>0
    <3>2. y \in ReaderT /\ y.pc = "even"
      BY <1>1, <2>1, <3>1 DEF ReaderT
    <3> QED BY <3>1, <3>2
  <2>3. /\ y.hash = x.hash /\ y.must = x.must /\ y.may = x.may /\ y.seen = x.seen
        /\ y.twice = x.twice /\ y.c = x.c /\ y.k = k
    BY <1>1, <2>1 DEF ReaderT
  <2>4. y.k \in 1 .. 2 /\ y.k = 2
    BY <2>0, <2>3
  <2> HIDE <2>1
  <2> QED BY <1>3, <1>6, <2>2, <2>3, <2>4, LookStep
<1>7. CASE SameCounter(x, im, h, x.k) /\ x.node = Null /\ x.k # 1
  <2>1. y = [x EXCEPT !.pc = "recheck"]
    BY <1>7 DEF SameCounter
  <2>2. y \in ReaderT /\ y.pc = "recheck" /\ y.pc \in Finding
    BY <1>1, <2>1 DEF ReaderT, Finding
  <2>3. /\ y.hash = x.hash /\ y.must = x.must /\ y.may = x.may /\ y.seen = x.seen
        /\ y.twice = x.twice /\ y.c = x.c /\ y.k = x.k
    BY <1>1, <2>1 DEF ReaderT
  <2> HIDE <2>1
  <2>4. x.k = 2
    BY <1>2, <1>7
  <2>5. ASSUME SameCounter(x, im, h, 1) PROVE x.must = {}
    <3>1. NoneIn(im, Bucket(im, h, 1), h) /\ NoneIn(im, Bucket(im, h, 2), h) => x.must = {}
      BY DEF SearchOK, ViewOK, Bucket
    <3> QED BY <1>3, <1>7, <2>4, <2>5, <3>1
  <2> QED BY <1>2, <1>3, <2>2, <2>3, <2>5, LookStep
<1> QED BY <1>4, <1>5, <1>6, <1>7

\* The last check of a search.
LEMMA RecheckStep ==
  ASSUME NEW x, NEW y, NEW im, NEW nx, NEW L, NEW C, NEW F, ActiveOK(x, im, nx, L, C, F), IsImpl(im),
         x.pc = "recheck", NEW h, SearchOK(x, im, h, nx, L),
         y = IF im.counter[Bucket(im, h, 1)] # x.c[1] THEN [x EXCEPT !.pc = "even", !.k = 1]
             ELSE [x EXCEPT !.pc = "done"]
  PROVE  ActiveOK(y, im, nx, L, C, F)
<1>1. x \in ReaderT
  BY DEF ActiveOK
<1>2. CASE ~SameCounter(x, im, h, 1)
  <2>0. PICK k \in Nat : k = 1
    OBVIOUS
  <2>1. y = [x EXCEPT !.pc = "even", !.k = k]
    BY <1>2, <2>0 DEF SameCounter
  <2>2. y \in ReaderT /\ y.pc = "even" /\ y.pc \in Finding
    <3>1. x.k \in Nat /\ "even" \in Finding
      BY <1>1 DEF ReaderT, Finding
    <3> HIDE <2>0
    <3>2. y \in ReaderT /\ y.pc = "even"
      BY <1>1, <2>1, <3>1 DEF ReaderT
    <3> QED BY <3>1, <3>2
  <2>3. /\ y.hash = x.hash /\ y.must = x.must /\ y.may = x.may /\ y.seen = x.seen
        /\ y.twice = x.twice /\ y.c = x.c /\ y.k = k
    BY <1>1, <2>1 DEF ReaderT
  <2>4. y.k \in 1 .. 2 /\ y.k = 1
    BY <2>0, <2>3
  <2> HIDE <2>1
  <2>5. y.k # 2
    BY <2>4
  <2> QED BY <2>2, <2>3, <2>4, <2>5, LookStep
<1>3. CASE SameCounter(x, im, h, 1)
  <2>1. y = [x EXCEPT !.pc = "done"]
    BY <1>3 DEF SameCounter
  <2>2. y \in ReaderT /\ y.pc = "done"
    BY <1>1, <2>1 DEF ReaderT
  <2>3. /\ y.hash = x.hash /\ y.must = x.must /\ y.may = x.may /\ y.seen = x.seen
        /\ y.twice = x.twice
    BY <1>1, <2>1 DEF ReaderT
  <2> HIDE <2>1
  <2>4. x.must = {} /\ x.seen = {} /\ x.twice = FALSE
    BY <1>3 DEF SearchOK
  <2>5. EndOK(y) /\ y.seen \subseteq x.may \cap L
    BY <2>3, <2>4 DEF EndOK
  <2> QED BY <2>2, <2>3, <2>5, EndStep
<1> QED BY <1>2, <1>3

\* The chain of a node that a reader may hold.
LEMMA LiveStep ==
  ASSUME NEW nx \in NextT, Acyclic(nx), NEW L, LiveOK(nx, L), NEW n \in L
  PROVE  /\ n \in Nodes /\ nx[n] \in L \cup {Null} /\ n \in Reach(nx, n)
         /\ Reach(nx, n) = {n} \cup Reach(nx, nx[n]) /\ n \notin Reach(nx, nx[n])
         /\ nx[n] # Null => HashOf[nx[n]] = HashOf[n]
<1>1. n \in Nodes /\ nx[n] \in L \cup {Null} /\ (nx[n] # Null => HashOf[nx[n]] = HashOf[n])
  BY DEF LiveOK, Closed
<1>2. Reach(nx, n) = {n} \cup Reach(nx, nx[n])
  BY <1>1, ReachStep
<1>3. n \notin Reach(nx, nx[n])
  BY <1>1 DEF Acyclic
<1> QED BY <1>1, <1>2, <1>3

\* A chain has one hash.
LEMMA LiveHash ==
  ASSUME NEW nx, NEW L, LiveOK(nx, L), NEW n \in L
  PROVE  \A m \in Reach(nx, n) : HashOf[m] = HashOf[n]
<1> DEFINE S == {m \in L : HashOf[m] = HashOf[n]}
<1>1. S \in SUBSET Nodes /\ n \in S /\ Closed(nx, S)
  BY DEF LiveOK, Closed
<1>2. Reach(nx, n) \subseteq S
  BY <1>1, ReachLeast
<1> QED BY <1>2

\* A reader that goes on to the node v after a visit.
Visited(x, v, p) == [Visit(x) EXCEPT !.node = v, !.pc = p]

\* y is x after its visit to x.node, with v to come.
VisitsTo(x, y, v, p) ==
  /\ y \in ReaderT /\ y.pc = p /\ y.node = v /\ y.seen = x.seen \cup {x.node}
  /\ (x.twice = FALSE /\ x.node \notin x.seen => y.twice = FALSE)
  /\ y.hash = x.hash /\ y.must = x.must /\ y.may = x.may /\ y.im = x.im /\ y.k = x.k
  /\ y.i = x.i /\ y.inserts = x.inserts

\* The locals after a visit.
LEMMA VisitFields ==
  ASSUME NEW x \in ReaderT, NEW v \in Nodes \cup {Null}, NEW p, x.node \in Nodes,
         p \in {"walk", "done", "slot", "cursor"}, NEW y, y = Visited(x, v, p)
  PROVE  VisitsTo(x, y, v, p)
<1>1. PICK e \in BOOLEAN : e = (x.twice \/ x.node \in x.seen)
  BY DEF ReaderT
<1>2. x.twice = FALSE /\ x.node \notin x.seen => e = FALSE
  BY <1>1
<1>3. y = [x EXCEPT !.seen = x.seen \cup {x.node}, !.twice = e, !.node = v, !.pc = p]
  BY <1>1 DEF Visited, Visit, ReaderT
<1>4. p \in {"idle", "walk", "slot", "cursor", "done"} \cup Finding /\ x.seen \cup {x.node} \in SUBSET Nodes
  BY DEF ReaderT
<1> HIDE <1>1
<1> QED BY <1>2, <1>3, <1>4 DEF ReaderT, VisitsTo

\* One turn of the loop over the chain.
LEMMA WalkStep ==
  ASSUME NEW x, NEW y, NEW im, NEW nx \in NextT, Acyclic(nx), NEW L, NEW C, NEW F, LiveOK(nx, L),
         ActiveOK(x, im, nx, L, C, F), x.pc = "walk",
         y = Visited(x, nx[x.node], IF nx[x.node] = Null THEN "done" ELSE "walk")
  PROVE  ActiveOK(y, im, nx, L, C, F)
<1>1. x \in ReaderT /\ HistoryOK(x, im, nx, L, C, F) /\ WalkOK(x, nx)
  BY DEF ActiveOK
<1>2. /\ x.node \in x.may \cap L /\ x.seen \subseteq x.may \cap L
      /\ nx[x.node] \in x.may \cup {Null}
  BY <1>1 DEF HistoryOK
<1>3. PICK n \in L : n = x.node
  BY <1>2
<1>4. /\ n \in Nodes /\ nx[n] \in L \cup {Null} /\ n \in Reach(nx, n)
      /\ Reach(nx, n) = {n} \cup Reach(nx, nx[n]) /\ n \notin Reach(nx, nx[n])
  BY LiveStep
<1>5. PICK p : p = IF nx[n] = Null THEN "done" ELSE "walk"
  OBVIOUS
<1>6. p \in {"walk", "done", "slot", "cursor"} /\ nx[n] \in Nodes \cup {Null}
  BY <1>4, <1>5 DEF LiveOK
<1>7. /\ x.must \ x.seen \subseteq Reach(nx, n) /\ x.seen \cap Reach(nx, n) = {} /\ x.twice = FALSE
  BY <1>1, <1>3 DEF WalkOK
<1>8. /\ y \in ReaderT /\ y.pc = p /\ y.node = nx[n] /\ y.seen = x.seen \cup {n}
      /\ y.twice = FALSE
      /\ y.hash = x.hash /\ y.must = x.must /\ y.may = x.may
  <2>1. PICK v \in Nodes \cup {Null} : v = nx[n]
    BY <1>6
  <2>2. y = Visited(x, v, p) /\ x.node \in Nodes
    BY <1>3, <1>4, <1>5, <2>1
  <2>3. x.twice = FALSE /\ x.node \notin x.seen
    BY <1>3, <1>4, <1>7
  <2>4. /\ y \in ReaderT /\ y.pc = p /\ y.node = v /\ y.seen = x.seen \cup {x.node}
        /\ (x.twice = FALSE /\ x.node \notin x.seen => y.twice = FALSE)
        /\ y.hash = x.hash /\ y.must = x.must /\ y.may = x.may
    <3>1. /\ x \in ReaderT /\ v \in Nodes \cup {Null} /\ x.node \in Nodes /\ y = Visited(x, v, p)
          /\ p \in {"walk", "done", "slot", "cursor"}
      BY <1>1, <1>6, <2>2
    <3>2. VisitsTo(x, y, v, p)
      BY <3>1, VisitFields
    <3> QED BY <3>2 DEF VisitsTo
  <2> QED BY <1>3, <2>1, <2>3, <2>4
<1>9. y.seen \subseteq x.may \cap L
  BY <1>2, <1>3, <1>8
<1>10. CASE nx[n] = Null
  <2>1. Reach(nx, nx[n]) = {}
    BY <1>10, ReachNull
  <2>2. EndOK(y) /\ y.pc = "done"
    BY <1>4, <1>5, <1>7, <1>8, <1>10, <2>1 DEF EndOK
  <2> QED BY <1>8, <1>9, <2>2, EndStep
<1>11. CASE nx[n] # Null
  <2>1. y.pc = "walk" /\ y.node \in x.may \cap L
    BY <1>2, <1>3, <1>4, <1>5, <1>8, <1>11
  <2>2. WalkOK(y, nx)
    BY <1>4, <1>7, <1>8 DEF WalkOK
  <2>3. HistoryOK(y, im, nx, L, C, F)
    BY <1>1, <1>8, <1>9, <2>1, HistoryStep
  <2> QED BY <1>8, <2>1, <2>2, <2>3 DEF ActiveOK, Finding
<1> QED BY <1>10, <1>11

\* An iteration that goes on.
LEMMA CursorStep ==
  ASSUME NEW x, NEW y, NEW im, NEW nx, NEW L, NEW C, NEW F, ActiveOK(x, im, nx, L, C, F),
         y \in ReaderT, y.pc \in {"slot", "cursor"}, y.hash = x.hash, y.must = x.must, y.may = x.may,
         y.seen \subseteq x.may \cap L, y.pc = "cursor" => y.node \in x.may \cap L,
         IterationOK(y, im, nx)
  PROVE  ActiveOK(y, im, nx, L, C, F)
<1>1. HistoryOK(x, im, nx, L, C, F)
  BY DEF ActiveOK
<1>2. HistoryOK(y, im, nx, L, C, F)
  BY <1>1, HistoryStep
<1> QED BY <1>2 DEF ActiveOK, Finding

\* cmap_cursor_advance() at a node.
LEMMA VisitStep ==
  ASSUME NEW x, NEW y, NEW im, NEW nx \in NextT, Acyclic(nx), NEW L, NEW C, NEW F, LiveOK(nx, L),
         ActiveOK(x, im, nx, L, C, F), x.pc = "cursor",
         y = Visited(x, nx[x.node], IF nx[x.node] = Null THEN "slot" ELSE "cursor")
  PROVE  ActiveOK(y, im, nx, L, C, F)
<1>1. x \in ReaderT /\ HistoryOK(x, im, nx, L, C, F) /\ IterationOK(x, im, nx)
  BY DEF ActiveOK
<1>2. /\ x.node \in x.may \cap L /\ x.seen \subseteq x.may \cap L
      /\ nx[x.node] \in x.may \cup {Null}
  BY <1>1 DEF HistoryOK
<1>3. PICK n \in L : n = x.node
  BY <1>2
<1>4. /\ n \in Nodes /\ nx[n] \in L \cup {Null} /\ n \in Reach(nx, n)
      /\ Reach(nx, n) = {n} \cup Reach(nx, nx[n]) /\ n \notin Reach(nx, nx[n])
      /\ nx[n] # Null => HashOf[nx[n]] = HashOf[n]
  BY LiveStep
<1>5. PICK p : p = IF nx[n] = Null THEN "slot" ELSE "cursor"
  OBVIOUS
<1>6. p \in {"walk", "done", "slot", "cursor"} /\ nx[n] \in Nodes \cup {Null}
  BY <1>4, <1>5 DEF LiveOK
<1>7. /\ y \in ReaderT /\ y.pc = p /\ y.node = nx[n] /\ y.seen = x.seen \cup {n}
      /\ (x.twice = FALSE /\ n \notin x.seen => y.twice = FALSE)
      /\ y.hash = x.hash /\ y.must = x.must /\ y.may = x.may /\ y.k = x.k /\ y.i = x.i
      /\ y.inserts = x.inserts
  <2>1. PICK v \in Nodes \cup {Null} : v = nx[n]
    BY <1>6
  <2>2. y = Visited(x, v, p) /\ x.node \in Nodes
    BY <1>3, <1>4, <1>5, <2>1
  <2>3. /\ y \in ReaderT /\ y.pc = p /\ y.node = v /\ y.seen = x.seen \cup {x.node}
        /\ (x.twice = FALSE /\ x.node \notin x.seen => y.twice = FALSE)
        /\ y.hash = x.hash /\ y.must = x.must /\ y.may = x.may /\ y.k = x.k /\ y.i = x.i
        /\ y.inserts = x.inserts
    <3>1. /\ x \in ReaderT /\ v \in Nodes \cup {Null} /\ x.node \in Nodes /\ y = Visited(x, v, p)
          /\ p \in {"walk", "done", "slot", "cursor"}
      BY <1>1, <1>6, <2>2
    <3>2. VisitsTo(x, y, v, p)
      BY <3>1, VisitFields
    <3> QED BY <3>2 DEF VisitsTo
  <2> QED BY <1>3, <2>1, <2>3
<1>8. y.seen \subseteq x.may \cap L /\ (y.pc = "cursor" => y.node \in x.may \cap L)
  BY <1>2, <1>3, <1>4, <1>5, <1>7
<1>9. ASSUME x.inserts = FALSE PROVE OnceOK(y, im, nx)
  <2>1. OnceOK(x, im, nx)
    BY <1>1, <1>9 DEF IterationOK
  <2>2. /\ GoodTable(im) /\ x.twice = FALSE /\ x.seen \cap Reach(nx, n) = {}
        /\ \A b \in 0 .. im.mask : \A i \in Slots : Ahead(x, b, i) /\ im.nodes[b][i] # Null =>
             /\ \A m \in x.seen : HashOf[m] # HashOf[im.nodes[b][i]]
             /\ n # Null => HashOf[n] # HashOf[im.nodes[b][i]]
        /\ \A m \in x.must : m \in x.seen \cup Reach(nx, n)
             \/ \E b \in 0 .. im.mask : \E i \in Slots :
                  Ahead(x, b, i) /\ m \in Reach(nx, im.nodes[b][i])
    BY <1>3, <2>1 DEF OnceOK
  <2>3. \A b, i : Ahead(y, b, i) <=> Ahead(x, b, i)
    BY <1>7 DEF Ahead
  <2>4. y.twice = FALSE /\ y.seen \cap Reach(nx, y.node) = {}
    BY <1>4, <1>7, <2>2
  <2>5. \A b \in 0 .. im.mask : \A i \in Slots : Ahead(y, b, i) /\ im.nodes[b][i] # Null =>
          /\ \A m \in y.seen : HashOf[m] # HashOf[im.nodes[b][i]]
          /\ y.node # Null => HashOf[y.node] # HashOf[im.nodes[b][i]]
    BY <1>4, <1>7, <2>2, <2>3, CmapAssumption
  <2>6. \A m \in y.must : m \in y.seen \cup Reach(nx, y.node)
          \/ \E b \in 0 .. im.mask : \E i \in Slots :
               Ahead(y, b, i) /\ m \in Reach(nx, im.nodes[b][i])
    BY <1>4, <1>7, <2>2, <2>3
  <2> QED BY <2>2, <2>4, <2>5, <2>6 DEF OnceOK
<1>10. IterationOK(y, im, nx)
  BY <1>1, <1>5, <1>7, <1>9 DEF IterationOK
<1>11. y.pc \in {"slot", "cursor"}
  BY <1>5, <1>7
<1> QED BY <1>7, <1>8, <1>10, <1>11, CursorStep

\* A hash is in one slot in use.
LEMMA OneSlot ==
  ASSUME NEW im, IsImpl(im), GoodTable(im), NEW b \in 0 .. im.mask, NEW i \in Slots,
         NEW c \in 0 .. im.mask, NEW j \in Slots, im.nodes[b][i] # Null, im.nodes[c][j] # Null,
         HashOf[im.nodes[b][i]] = HashOf[im.nodes[c][j]]
  PROVE  b = c /\ i = j
<1>1. GoodSlot(im, b, i) /\ GoodSlot(im, c, j)
  BY DEF GoodTable
<1>2. PICK h : h = im.hashes[b][i] /\ h = im.hashes[c][j]
  BY <1>1 DEF GoodSlot
<1>3. /\ b = Bucket1(im, h) \/ b = Bucket2(im, h)
      /\ \A s \in Slots : s < i => im.hashes[b][s] # h
      /\ b # Bucket1(im, h) => \A s \in Slots : im.hashes[Bucket1(im, h)][s] # h
  BY <1>1, <1>2 DEF GoodSlot
<1>4. /\ c = Bucket1(im, h) \/ c = Bucket2(im, h)
      /\ \A s \in Slots : s < j => im.hashes[c][s] # h
      /\ c # Bucket1(im, h) => \A s \in Slots : im.hashes[Bucket1(im, h)][s] # h
  BY <1>1, <1>2 DEF GoodSlot
<1>5. b = c
  <2>1. im.hashes[b][i] = h /\ im.hashes[c][j] = h
    BY <1>2
  <2>2. CASE b = Bucket1(im, h) /\ c # Bucket1(im, h)
    BY <1>4, <2>1, <2>2, Zenon
  <2>3. CASE b # Bucket1(im, h) /\ c = Bucket1(im, h)
    BY <1>3, <2>1, <2>3, Zenon
  <2> QED BY <1>3, <1>4, <2>2, <2>3, Zenon
<1>6. i \in Nat /\ j \in Nat
  BY DEF Slots
<1>7. ~(i < j) /\ ~(j < i)
  <2>1. im.hashes[b][i] = h /\ im.hashes[b][j] = h
    BY <1>2, <1>5
  <2>2. ~(j < i)
    BY <1>3, <2>1, Zenon
  <2>3. ~(i < j)
    BY <1>4, <1>5, <2>1, Zenon
  <2> QED BY <2>2, <2>3
<1> QED BY <1>5, <1>6, <1>7

\* The position of the cursor after a slot.
LEMMA AheadNext ==
  ASSUME NEW x \in ReaderT, NEW y, NEW m \in Nat,
         \/ x.i < K /\ y.k = x.k /\ y.i = x.i + 1
         \/ x.i = K /\ y.k = x.k + 1 /\ y.i = 1
  PROVE  /\ y.k \in Nat /\ y.i \in Slots
         /\ \A b \in 0 .. m : \A i \in Slots :
              Ahead(y, b, i) <=> Ahead(x, b, i) /\ ~(b = x.k /\ i = x.i)
<1>1. x.k \in Nat /\ x.i \in 1 .. K /\ K \in Nat \ {0}
  BY CmapAssumption DEF ReaderT, Slots
<1>2. y.k \in Nat /\ y.i \in Slots
  BY <1>1 DEF Slots
<1>3. ASSUME NEW b \in 0 .. m, NEW i \in 1 .. K
      PROVE  (b > y.k \/ (b = y.k /\ i >= y.i))
               <=> (b > x.k \/ (b = x.k /\ i >= x.i)) /\ ~(b = x.k /\ i = x.i)
  BY <1>1
<1> QED BY <1>2, <1>3 DEF Ahead, Slots

\* The slot behind the cursor.
LEMMA OnceSlot ==
  ASSUME NEW x, NEW y, NEW im, IsImpl(im), NEW nx, NEW L, LiveOK(nx, L), OnceOK(x, im, nx),
         x.node = Null, x.k \in 0 .. im.mask, x.i \in Slots, NEW n, n = im.nodes[x.k][x.i],
         n \in L \cup {Null}, y.node = n, y.seen = x.seen, y.twice = x.twice, y.must = x.must,
         \A b \in 0 .. im.mask : \A i \in Slots :
            Ahead(y, b, i) <=> Ahead(x, b, i) /\ ~(b = x.k /\ i = x.i),
         Ahead(x, x.k, x.i)
  PROVE  OnceOK(y, im, nx)
<1>1. /\ GoodTable(im) /\ x.twice = FALSE
      /\ \A b \in 0 .. im.mask : \A i \in Slots : Ahead(x, b, i) /\ im.nodes[b][i] # Null =>
           \A m \in x.seen : HashOf[m] # HashOf[im.nodes[b][i]]
  BY DEF OnceOK
<1>2. y.seen \cap Reach(nx, y.node) = {}
  <2>1. CASE n = Null
    BY <2>1, ReachNull
  <2>2. CASE n # Null
    <3>1. \A m \in x.seen : HashOf[m] # HashOf[n]
      BY <1>1, <2>2
    <3>2. \A m \in Reach(nx, n) : HashOf[m] = HashOf[n]
      BY <2>2, LiveHash
    <3> QED BY <3>1, <3>2
  <2> QED BY <2>1, <2>2
<1>3. ASSUME NEW b \in 0 .. im.mask, NEW i \in Slots, Ahead(y, b, i), im.nodes[b][i] # Null
      PROVE  /\ \A m \in y.seen : HashOf[m] # HashOf[im.nodes[b][i]]
             /\ y.node # Null => HashOf[y.node] # HashOf[im.nodes[b][i]]
  <2>1. Ahead(x, b, i) /\ ~(b = x.k /\ i = x.i)
    BY <1>3
  <2>2. ASSUME n # Null PROVE HashOf[n] # HashOf[im.nodes[b][i]]
    BY <1>1, <1>3, <2>1, <2>2, OneSlot
  <2> QED BY <1>1, <1>3, <2>1, <2>2
<1>4. ASSUME NEW m \in y.must
      PROVE  \/ m \in y.seen \cup Reach(nx, y.node)
             \/ \E b \in 0 .. im.mask : \E i \in Slots :
                  Ahead(y, b, i) /\ m \in Reach(nx, im.nodes[b][i])
  <2>1. Reach(nx, x.node) = {}
    BY ReachNull
  <2>2. m \in x.seen \/ \E b \in 0 .. im.mask : \E i \in Slots :
                          Ahead(x, b, i) /\ m \in Reach(nx, im.nodes[b][i])
    BY <1>4, <2>1 DEF OnceOK
  <2>3. ASSUME NEW b \in 0 .. im.mask, NEW i \in Slots, Ahead(x, b, i), m \in Reach(nx, im.nodes[b][i])
        PROVE  m \in Reach(nx, n) \/ Ahead(y, b, i)
    BY <2>3
  <2> QED BY <2>2, <2>3
<1> QED BY <1>1, <1>2, <1>3, <1>4 DEF OnceOK

\* cmap_cursor_advance() at a slot.
LEMMA SlotStep ==
  ASSUME NEW x, NEW y, NEW im, IsImpl(im), NEW nx, NEW L, NEW C, NEW F, LiveOK(nx, L),
         ActiveOK(x, im, nx, L, C, F), x.pc = "slot", x.k <= im.mask, NEW n, n = im.nodes[x.k][x.i],
         y \in ReaderT, y.pc = (IF n = Null THEN "slot" ELSE "cursor"), y.node = n,
         \/ x.i < K /\ y.k = x.k /\ y.i = x.i + 1
         \/ x.i = K /\ y.k = x.k + 1 /\ y.i = 1,
         y.hash = x.hash, y.must = x.must, y.may = x.may, y.seen = x.seen, y.twice = x.twice,
         y.inserts = x.inserts
  PROVE  ActiveOK(y, im, nx, L, C, F)
<1>1. x \in ReaderT /\ HistoryOK(x, im, nx, L, C, F) /\ IterationOK(x, im, nx)
  BY DEF ActiveOK
<1>2. x.node = Null /\ x.hash = Hashes /\ (x.inserts = FALSE => OnceOK(x, im, nx))
  BY <1>1 DEF IterationOK
<1>3. im.mask \in Nat /\ x.k \in Nat /\ x.k \in 0 .. im.mask /\ x.i \in Slots /\ x.i \in Nat
  BY <1>1, ImplFacts, CmapAssumption DEF ReaderT, Slots
<1>4. /\ \A b \in 0 .. im.mask : \A i \in Slots :
            Ahead(y, b, i) <=> Ahead(x, b, i) /\ ~(b = x.k /\ i = x.i)
      /\ Ahead(x, x.k, x.i)
  <2>1. Ahead(x, x.k, x.i)
    BY <1>3 DEF Ahead
  <2>2. PICK m \in Nat : m = im.mask
    BY <1>3
  <2>3. \A b \in 0 .. m : \A i \in Slots : Ahead(y, b, i) <=> Ahead(x, b, i) /\ ~(b = x.k /\ i = x.i)
    BY <1>1, AheadNext
  <2> QED BY <2>1, <2>2, <2>3
<1>5. x.seen \subseteq x.may \cap L /\ (n # Null => n \in x.may \cap L)
  <2>1. x.seen \subseteq x.may \cap L
    BY <1>1 DEF HistoryOK
  <2>2. ASSUME n # Null PROVE n \in x.may \cap L
    <3>1. n \in L /\ (HashOf[n] \in x.hash => n \in x.may)
      BY <1>1, <1>3, <2>2 DEF HistoryOK
    <3>2. HashOf[n] \in Hashes
      BY <3>1 DEF LiveOK, Hashes
    <3> QED BY <1>2, <3>1, <3>2
  <2> QED BY <2>1, <2>2
<1>6. ASSUME x.inserts = FALSE PROVE OnceOK(y, im, nx)
  <2>1. n \in L \cup {Null}
    BY <1>5
  <2>2. OnceOK(x, im, nx)
    BY <1>2, <1>6
  <2> QED BY <1>2, <1>3, <1>4, <2>1, <2>2, OnceSlot
<1>7. IterationOK(y, im, nx) /\ y.pc \in {"slot", "cursor"} /\ (y.pc = "cursor" => y.node \in x.may \cap L)
  BY <1>2, <1>5, <1>6 DEF IterationOK
<1> QED BY <1>5, <1>7, CursorStep

\* The end of an iteration.
LEMMA CursorEndStep ==
  ASSUME NEW x, NEW y, NEW im, IsImpl(im), NEW nx, NEW L, NEW C, NEW F,
         ActiveOK(x, im, nx, L, C, F), x.pc = "slot", x.k > im.mask,
         y = [x EXCEPT !.pc = "done"]
  PROVE  ActiveOK(y, im, nx, L, C, F)
<1>1. x \in ReaderT /\ HistoryOK(x, im, nx, L, C, F) /\ IterationOK(x, im, nx)
  BY DEF ActiveOK
<1>2. x.node = Null /\ x.hash = Hashes /\ (x.inserts = FALSE => OnceOK(x, im, nx)) /\ x.inserts \in BOOLEAN
  BY <1>1 DEF IterationOK, ReaderT
<1>3. y \in ReaderT /\ y.pc = "done"
  BY <1>1 DEF ReaderT
<1>4. /\ y.hash = x.hash /\ y.must = x.must /\ y.may = x.may /\ y.seen = x.seen
      /\ y.twice = x.twice /\ y.inserts = x.inserts
  BY <1>1 DEF ReaderT
<1>5. ASSUME x.inserts = FALSE PROVE x.must \subseteq x.seen /\ x.twice = FALSE
  <2>1. im.mask \in Nat /\ x.k \in Nat
    BY <1>1, ImplFacts DEF ReaderT
  <2>2. \A b \in 0 .. im.mask : \A i \in Slots : ~Ahead(x, b, i)
    BY <2>1 DEF Ahead
  <2>3. Reach(nx, x.node) = {}
    BY <1>2, ReachNull
  <2>4. OnceOK(x, im, nx)
    BY <1>2, <1>5
  <2> QED BY <2>2, <2>3, <2>4 DEF OnceOK
<1>6. EndOK(y)
  BY <1>2, <1>4, <1>5 DEF EndOK
<1>7. y.seen \subseteq x.may \cap L
  BY <1>1, <1>4 DEF HistoryOK
<1> QED BY <1>3, <1>4, <1>6, <1>7, EndStep

\* A reader at work: x is its locals, im the table that it uses.
AtWork(r, x, im, nx, L, C, F) ==
  /\ x = rd[r] /\ im = impls[x.im] /\ nx = next /\ L = Live /\ C = contents /\ F = InFlight
  /\ IsImpl(im) /\ nx \in NextT /\ Acyclic(nx) /\ LiveOK(nx, L) /\ ActiveOK(x, im, nx, L, C, F)
  /\ x \in ReaderT /\ x.im \in 1 .. cmap /\ (x.inserts = FALSE => w.new = Null)

\* A reader that is not idle is at work.
LEMMA WorkFrom ==
  ASSUME MapOK, ReadersOK, NEW r \in Readers, rd[r].pc # "idle"
  PROVE  \E x, im, nx, L, C, F : AtWork(r, x, im, nx, L, C, F)
<1>1. PICK x : x = rd[r]
  OBVIOUS
<1>2. x # IdleReader
  BY <1>1 DEF IdleReader
<1>3. /\ x.im \in 1 .. cmap /\ (x.inserts = FALSE => w.new = Null)
      /\ ActiveOK(x, impls[x.im], next, Live, contents, InFlight)
  BY <1>1, <1>2 DEF ReadersOK, ReaderOK
<1>4. PICK im, nx, L, C, F : /\ im = impls[x.im] /\ nx = next /\ L = Live /\ C = contents
                             /\ F = InFlight
  OBVIOUS
<1>5. IsImpl(impls[x.im])
  BY <1>3, EachImpl DEF MapOK
<1>6. next \in NextT /\ Acyclic(next) /\ LiveOK(next, Live) /\ x \in ReaderT
  BY <1>3 DEF MapOK, ChainsOK, ReadersOK, ActiveOK
<1>7. AtWork(r, x, im, nx, L, C, F)
  BY <1>1, <1>3, <1>4, <1>5, <1>6 DEF AtWork
<1> QED BY <1>7

\* A step of a reader at work.
LEMMA WorkStep ==
  ASSUME ReadersOK, NEW r \in Readers, NEW x, NEW im, NEW nx, NEW L, NEW C, NEW F,
         AtWork(r, x, im, nx, L, C, F), NEW y, y.im = x.im, y.inserts = x.inserts,
         ActiveOK(y, im, nx, L, C, F), Become(r, y), ReaderOnly
  PROVE  ReadersOK'
<1>1. ReaderOK(y)
  BY DEF AtWork, ReaderOK
<1> QED BY <1>1, OwnStep

\* A search at work.
LEMMA SearchAt ==
  ASSUME NEW r, NEW x, NEW im, NEW nx, NEW L, NEW C, NEW F, AtWork(r, x, im, nx, L, C, F),
         x.pc \in Finding
  PROVE  \E h : /\ SearchOK(x, im, h, nx, L) /\ x.k \in 1 .. 2
                /\ \A k \in 1 .. 2 : BucketOf(x, k) = Bucket(im, h, k)
                                     /\ CounterOf(x, k) = im.counter[Bucket(im, h, k)]
                /\ HashOfFind(x) = h
<1>1. ActiveOK(x, im, nx, L, C, F) /\ x \in ReaderT /\ IsImpl(im) /\ im = impls[x.im]
  BY DEF AtWork
<1>2. PICK h : SearchOK(x, im, h, nx, L)
  BY <1>1 DEF ActiveOK
<1>3. HashOfFind(x) = h /\ x.k \in 1 .. 2
  BY <1>1, <1>2, SearchFacts
<1> QED BY <1>1, <1>2, <1>3 DEF BucketOf, CounterOf

\* read_even_counter() keeps the readers' invariant.
LEMMA ReadEvenCounterReaders ==
  ASSUME MapOK, ReadersOK, NEW r \in Readers, ReadEvenCounter(r)
  PROVE  ReadersOK'
<1>1. rd[r].pc = "even"
  BY DEF ReadEvenCounter
<1>2. PICK x, im, nx, L, C, F : AtWork(r, x, im, nx, L, C, F)
  BY <1>1, WorkFrom
<1>3. x = rd[r] /\ x.pc = "even" /\ x.pc \in Finding /\ x \in ReaderT /\ IsImpl(im) /\ ActiveOK(x, im, nx, L, C, F)
  BY <1>1, <1>2 DEF AtWork, Finding
<1>4. PICK h : /\ SearchOK(x, im, h, nx, L) /\ x.k \in 1 .. 2
               /\ \A k \in 1 .. 2 : CounterOf(x, k) = im.counter[Bucket(im, h, k)]
  BY <1>2, <1>3, SearchAt
<1>5. PICK y : y = [x EXCEPT !.pc = "hash", !.c[x.k] = CounterOf(x, x.k), !.i = 1]
  OBVIOUS
<1>6. Become(r, y) /\ ReaderOnly /\ CounterOf(x, x.k) % 2 = 0
  BY <1>3, <1>5 DEF ReadEvenCounter
<1>7. ActiveOK(y, im, nx, L, C, F)
  <2>1. /\ im.counter[Bucket(im, h, x.k)] % 2 = 0
        /\ y = [x EXCEPT !.pc = "hash", !.c[x.k] = im.counter[Bucket(im, h, x.k)], !.i = 1]
    BY <1>4, <1>5, <1>6
  <2> HIDE <1>5
  <2> QED BY <1>3, <1>4, <2>1, EvenStep, Zenon
<1>8. y.im = x.im /\ y.inserts = x.inserts
  BY <1>3, <1>5 DEF ReaderT
<1> QED BY <1>2, <1>6, <1>7, <1>8, WorkStep

\* The load of a hash keeps the readers' invariant.
LEMMA ReadHashReaders ==
  ASSUME MapOK, ReadersOK, NEW r \in Readers, ReadHash(r)
  PROVE  ReadersOK'
<1>1. rd[r].pc = "hash"
  BY DEF ReadHash
<1>2. PICK x, im, nx, L, C, F : AtWork(r, x, im, nx, L, C, F)
  BY <1>1, WorkFrom
<1>3. /\ x = rd[r] /\ x.pc = "hash" /\ x.pc \in Finding /\ x \in ReaderT /\ IsImpl(im)
      /\ ActiveOK(x, im, nx, L, C, F) /\ im = impls[x.im]
  BY <1>1, <1>2 DEF AtWork, Finding
<1>4. PICK h : /\ SearchOK(x, im, h, nx, L) /\ x.k \in 1 .. 2
               /\ \A k \in 1 .. 2 : BucketOf(x, k) = Bucket(im, h, k)
               /\ HashOfFind(x) = h
  BY <1>2, <1>3, SearchAt
<1>5. PICK y : y = IF im.hashes[Bucket(im, h, x.k)][x.i] = h THEN [x EXCEPT !.pc = "node"]
                   ELSE IF x.i < K THEN [x EXCEPT !.i = @ + 1]
                   ELSE [x EXCEPT !.pc = "check", !.node = Null]
  BY Zenon
<1>6. Become(r, y) /\ ReaderOnly
  BY <1>3, <1>4, <1>5, Zenon DEF ReadHash
<1>7. ActiveOK(y, im, nx, L, C, F)
  BY <1>3, <1>4, <1>5, HashStep, Zenon
<1>8. y.im = x.im /\ y.inserts = x.inserts
  BY <1>3, <1>5 DEF ReaderT
<1> QED BY <1>2, <1>6, <1>7, <1>8, WorkStep

\* The load of a node keeps the readers' invariant.
LEMMA ReadNodeReaders ==
  ASSUME MapOK, ReadersOK, NEW r \in Readers, ReadNode(r)
  PROVE  ReadersOK'
<1>1. rd[r].pc = "node"
  BY DEF ReadNode
<1>2. PICK x, im, nx, L, C, F : AtWork(r, x, im, nx, L, C, F)
  BY <1>1, WorkFrom
<1>3. /\ x = rd[r] /\ x.pc = "node" /\ x.pc \in Finding /\ x \in ReaderT /\ IsImpl(im)
      /\ ActiveOK(x, im, nx, L, C, F) /\ im = impls[x.im]
  BY <1>1, <1>2 DEF AtWork, Finding
<1>4. PICK h : /\ SearchOK(x, im, h, nx, L) /\ x.k \in 1 .. 2
               /\ \A k \in 1 .. 2 : BucketOf(x, k) = Bucket(im, h, k)
  BY <1>2, <1>3, SearchAt
<1>5. PICK y : y = [x EXCEPT !.pc = "check", !.node = im.nodes[Bucket(im, h, x.k)][x.i]]
  OBVIOUS
<1>6. Become(r, y) /\ ReaderOnly
  BY <1>3, <1>4, <1>5, Zenon DEF ReadNode
<1>7. ActiveOK(y, im, nx, L, C, F)
  BY <1>3, <1>4, <1>5, NodeStep, Zenon
<1>8. y.im = x.im /\ y.inserts = x.inserts
  BY <1>3, <1>5 DEF ReaderT
<1> QED BY <1>2, <1>6, <1>7, <1>8, WorkStep

\* counter_changed() keeps the readers' invariant.
LEMMA CounterCheckReaders ==
  ASSUME MapOK, ReadersOK, NEW r \in Readers, CounterCheck(r)
  PROVE  ReadersOK'
<1>1. rd[r].pc = "check"
  BY DEF CounterCheck
<1>2. PICK x, im, nx, L, C, F : AtWork(r, x, im, nx, L, C, F)
  BY <1>1, WorkFrom
<1>3. /\ x = rd[r] /\ x.pc = "check" /\ x.pc \in Finding /\ x \in ReaderT /\ IsImpl(im)
      /\ ActiveOK(x, im, nx, L, C, F) /\ im = impls[x.im]
  BY <1>1, <1>2 DEF AtWork, Finding
<1>4. PICK h : /\ SearchOK(x, im, h, nx, L) /\ x.k \in 1 .. 2
               /\ \A k \in 1 .. 2 : CounterOf(x, k) = im.counter[Bucket(im, h, k)]
  BY <1>2, <1>3, SearchAt
<1>5. PICK y : y = IF im.counter[Bucket(im, h, x.k)] # x.c[x.k] THEN [x EXCEPT !.pc = "even"]
                   ELSE IF x.node # Null THEN [x EXCEPT !.pc = "walk"]
                   ELSE IF x.k = 1 THEN [x EXCEPT !.pc = "even", !.k = 2]
                   ELSE [x EXCEPT !.pc = "recheck"]
  OBVIOUS
<1>6. Become(r, y) /\ ReaderOnly
  <2>1. CounterOf(x, x.k) = im.counter[Bucket(im, h, x.k)]
    BY <1>4
  <2> QED BY <1>3, <1>5, <2>1 DEF CounterCheck
<1>7. ActiveOK(y, im, nx, L, C, F)
  BY <1>3, <1>4, <1>5, CheckStep, Zenon
<1>8. y.im = x.im /\ y.inserts = x.inserts
  BY <1>3, <1>5 DEF ReaderT
<1> QED BY <1>2, <1>6, <1>7, <1>8, WorkStep

\* The last check of the first counter keeps the readers' invariant.
LEMMA RecheckReaders ==
  ASSUME MapOK, ReadersOK, NEW r \in Readers, Recheck(r)
  PROVE  ReadersOK'
<1>1. rd[r].pc = "recheck"
  BY DEF Recheck
<1>2. PICK x, im, nx, L, C, F : AtWork(r, x, im, nx, L, C, F)
  BY <1>1, WorkFrom
<1>3. /\ x = rd[r] /\ x.pc = "recheck" /\ x.pc \in Finding /\ x \in ReaderT /\ IsImpl(im)
      /\ ActiveOK(x, im, nx, L, C, F) /\ im = impls[x.im]
  BY <1>1, <1>2 DEF AtWork, Finding
<1>4. PICK h : /\ SearchOK(x, im, h, nx, L)
               /\ \A k \in 1 .. 2 : CounterOf(x, k) = im.counter[Bucket(im, h, k)]
  BY <1>2, <1>3, SearchAt
<1>5. PICK y : y = IF im.counter[Bucket(im, h, 1)] # x.c[1] THEN [x EXCEPT !.pc = "even", !.k = 1]
                   ELSE [x EXCEPT !.pc = "done"]
  OBVIOUS
<1>6. Become(r, y) /\ ReaderOnly
  <2>1. CounterOf(x, 1) = im.counter[Bucket(im, h, 1)]
    BY <1>4
  <2> QED BY <1>3, <1>5, <2>1 DEF Recheck
<1>7. ActiveOK(y, im, nx, L, C, F)
  BY <1>3, <1>4, <1>5, RecheckStep, Zenon
<1>8. y.im = x.im /\ y.inserts = x.inserts
  BY <1>3, <1>5 DEF ReaderT
<1> QED BY <1>2, <1>6, <1>7, <1>8, WorkStep

\* A turn of the loop over a chain keeps the readers' invariant.
LEMMA WalkReaders ==
  ASSUME MapOK, ReadersOK, NEW r \in Readers, Walk(r)
  PROVE  ReadersOK'
<1>1. rd[r].pc = "walk"
  BY DEF Walk
<1>2. PICK x, im, nx, L, C, F : AtWork(r, x, im, nx, L, C, F)
  BY <1>1, WorkFrom
<1>3. /\ x = rd[r] /\ x.pc = "walk" /\ x \in ReaderT /\ nx \in NextT /\ Acyclic(nx) /\ LiveOK(nx, L)
      /\ ActiveOK(x, im, nx, L, C, F) /\ nx = next
  BY <1>1, <1>2 DEF AtWork
<1>4. PICK y : y = Visited(x, nx[x.node], IF nx[x.node] = Null THEN "done" ELSE "walk")
  OBVIOUS
<1>5. Become(r, y) /\ ReaderOnly
  BY <1>3, <1>4 DEF Walk, Visited
<1>6. ActiveOK(y, im, nx, L, C, F)
  BY <1>3, <1>4, WalkStep
<1>7. y.im = x.im /\ y.inserts = x.inserts
  BY <1>3, <1>4 DEF ReaderT, Visited, Visit
<1> QED BY <1>2, <1>5, <1>6, <1>7, WorkStep

\* The cursor's visit to a node keeps the readers' invariant.
LEMMA CursorNodeReaders ==
  ASSUME MapOK, ReadersOK, NEW r \in Readers, CursorNode(r)
  PROVE  ReadersOK'
<1>1. rd[r].pc = "cursor"
  BY DEF CursorNode
<1>2. PICK x, im, nx, L, C, F : AtWork(r, x, im, nx, L, C, F)
  BY <1>1, WorkFrom
<1>3. /\ x = rd[r] /\ x.pc = "cursor" /\ x \in ReaderT /\ nx \in NextT /\ Acyclic(nx) /\ LiveOK(nx, L)
      /\ ActiveOK(x, im, nx, L, C, F) /\ nx = next
  BY <1>1, <1>2 DEF AtWork
<1>4. PICK y : y = Visited(x, nx[x.node], IF nx[x.node] = Null THEN "slot" ELSE "cursor")
  OBVIOUS
<1>5. Become(r, y) /\ ReaderOnly
  BY <1>3, <1>4 DEF CursorNode, Visited
<1>6. ActiveOK(y, im, nx, L, C, F)
  BY <1>3, <1>4, VisitStep
<1>7. y.im = x.im /\ y.inserts = x.inserts
  BY <1>3, <1>4 DEF ReaderT, Visited, Visit
<1> QED BY <1>2, <1>5, <1>6, <1>7, WorkStep

\* The end of the buckets keeps the readers' invariant.
LEMMA CursorEndReaders ==
  ASSUME MapOK, ReadersOK, NEW r \in Readers, CursorEnd(r)
  PROVE  ReadersOK'
<1>1. rd[r].pc = "slot"
  BY DEF CursorEnd
<1>2. PICK x, im, nx, L, C, F : AtWork(r, x, im, nx, L, C, F)
  BY <1>1, WorkFrom
<1>3. /\ x = rd[r] /\ x.pc = "slot" /\ x \in ReaderT /\ IsImpl(im)
      /\ ActiveOK(x, im, nx, L, C, F) /\ im = impls[x.im]
  BY <1>1, <1>2 DEF AtWork
<1>4. PICK y : y = [x EXCEPT !.pc = "done"]
  OBVIOUS
<1>5. Become(r, y) /\ ReaderOnly /\ x.k > im.mask
  BY <1>3, <1>4 DEF CursorEnd
<1>6. ActiveOK(y, im, nx, L, C, F)
  BY <1>3, <1>4, <1>5, CursorEndStep
<1>7. y.im = x.im /\ y.inserts = x.inserts
  BY <1>3, <1>4 DEF ReaderT
<1> QED BY <1>2, <1>5, <1>6, <1>7, WorkStep

\* A cursor that goes past a slot with the node n.
PastSlot(x, y, n) ==
  /\ y \in ReaderT /\ y.pc = (IF n = Null THEN "slot" ELSE "cursor") /\ y.node = n
  /\ \/ x.i < K /\ y.k = x.k /\ y.i = x.i + 1
     \/ x.i = K /\ y.k = x.k + 1 /\ y.i = 1
  /\ y.hash = x.hash /\ y.must = x.must /\ y.may = x.may /\ y.seen = x.seen /\ y.twice = x.twice
  /\ y.inserts = x.inserts /\ y.im = x.im

\* The locals after a slot.
LEMMA SlotFields ==
  ASSUME NEW x \in ReaderT, x.node = Null, x.pc = "slot", NEW n \in Nodes \cup {Null}, NEW y0, NEW y,
         y0 = IF x.i < K THEN [x EXCEPT !.i = @ + 1] ELSE [x EXCEPT !.k = @ + 1, !.i = 1],
         y = IF n = Null THEN y0 ELSE [y0 EXCEPT !.pc = "cursor", !.node = n]
  PROVE  PastSlot(x, y, n)
<1>1. x.i \in 1 .. K /\ x.k \in Nat /\ K \in Nat \ {0}
  BY CmapAssumption DEF ReaderT, Slots
<1>2. PICK k \in Nat, i \in Slots :
        /\ y0 = [x EXCEPT !.k = k, !.i = i]
        /\ \/ x.i < K /\ k = x.k /\ i = x.i + 1
           \/ x.i = K /\ k = x.k + 1 /\ i = 1
  <2>1. CASE x.i < K
    <3>1. y0 = [x EXCEPT !.k = x.k, !.i = x.i + 1]
      BY <2>1 DEF ReaderT
    <3>2. x.i + 1 \in Slots
      BY <1>1, <2>1 DEF Slots
    <3> QED BY <1>1, <2>1, <3>1, <3>2, Zenon
  <2>2. CASE ~(x.i < K)
    <3>1. y0 = [x EXCEPT !.k = x.k + 1, !.i = 1] /\ x.i = K
      BY <1>1, <2>2
    <3>2. 1 \in Slots /\ x.k + 1 \in Nat
      BY <1>1 DEF Slots
    <3> QED BY <3>1, <3>2, Zenon
  <2> QED BY <2>1, <2>2, Zenon
<1>3. PICK p : p = IF n = Null THEN "slot" ELSE "cursor"
  OBVIOUS
<1>4. y = [x EXCEPT !.k = k, !.i = i, !.pc = p, !.node = n]
  BY <1>2, <1>3 DEF ReaderT
<1>5. p \in {"idle", "walk", "slot", "cursor", "done"} \cup Finding
  BY <1>3
<1>6. y \in ReaderT
  BY <1>4, <1>5 DEF ReaderT
<1>7. /\ y.pc = p /\ y.node = n /\ y.k = k /\ y.i = i
      /\ y.hash = x.hash /\ y.must = x.must /\ y.may = x.may /\ y.seen = x.seen /\ y.twice = x.twice
      /\ y.inserts = x.inserts /\ y.im = x.im
  BY <1>4 DEF ReaderT
<1>8. y.pc = IF n = Null THEN "slot" ELSE "cursor"
  BY <1>3, <1>7
<1> QED BY <1>2, <1>6, <1>7, <1>8 DEF PastSlot

\* The cursor's load of a slot keeps the readers' invariant.
LEMMA CursorSlotReaders ==
  ASSUME MapOK, ReadersOK, NEW r \in Readers, CursorSlot(r)
  PROVE  ReadersOK'
<1>1. rd[r].pc = "slot"
  BY DEF CursorSlot
<1>2. PICK x, im, nx, L, C, F : AtWork(r, x, im, nx, L, C, F)
  BY <1>1, WorkFrom
<1>3. /\ x = rd[r] /\ x.pc = "slot" /\ x \in ReaderT /\ IsImpl(im) /\ LiveOK(nx, L)
      /\ ActiveOK(x, im, nx, L, C, F) /\ im = impls[x.im]
  BY <1>1, <1>2 DEF AtWork
<1>4. PICK n, y0, y :
        /\ n = im.nodes[x.k][x.i]
        /\ y0 = IF x.i < K THEN [x EXCEPT !.i = @ + 1] ELSE [x EXCEPT !.k = @ + 1, !.i = 1]
        /\ y = IF n = Null THEN y0 ELSE [y0 EXCEPT !.pc = "cursor", !.node = n]
  BY Zenon
<1>5. Become(r, y) /\ ReaderOnly /\ x.k <= im.mask
  BY <1>3, <1>4, Zenon DEF CursorSlot
<1>6. n \in Nodes \cup {Null}
  <2>1. x.k \in Nat /\ im.mask \in Nat /\ x.i \in Slots
    BY <1>3, ImplFacts DEF ReaderT
  <2>2. x.k \in 0 .. im.mask
    BY <1>5, <2>1
  <2> QED BY <1>3, <1>4, <2>1, <2>2, ImplFacts
<1>7. x.node = Null
  BY <1>3 DEF ActiveOK, IterationOK
<1>8. PastSlot(x, y, n)
  <2>1. /\ y0 = IF x.i < K THEN [x EXCEPT !.i = @ + 1] ELSE [x EXCEPT !.k = @ + 1, !.i = 1]
        /\ y = IF n = Null THEN y0 ELSE [y0 EXCEPT !.pc = "cursor", !.node = n]
    BY <1>4
  <2> HIDE <1>4
  <2> QED BY <1>3, <1>6, <1>7, <2>1, SlotFields, Zenon
<1>9. n = im.nodes[x.k][x.i]
  BY <1>4
<1> HIDE <1>4
<1>10. ActiveOK(y, im, nx, L, C, F)
  BY <1>3, <1>5, <1>8, <1>9, SlotStep DEF PastSlot
<1>11. y.im = x.im /\ y.inserts = x.inserts
  BY <1>8 DEF PastSlot
<1> QED BY <1>2, <1>5, <1>10, <1>11, WorkStep

\* A reader that has just started: H is what it looks for.
Starts(y, H) ==
  /\ y.hash = H /\ y.im = cmap /\ y.must = {n \in contents : HashOf[n] \in H}
  /\ y.may = {n \in contents \cup InFlight : HashOf[n] \in H}
  /\ y.c = <<0, 0>> /\ y.i = 1 /\ y.node = Null /\ y.seen = {} /\ y.twice = FALSE
  /\ (y.inserts = FALSE => w.new = Null) /\ y \in ReaderT

\* The locals of a reader that starts.
Starter(H, p, k) == [Started(H) EXCEPT !.pc = p, !.k = k]

\* The locals of a reader that starts, field by field.
LEMMA StarterIs ==
  ASSUME NEW H, NEW p, NEW k
  PROVE  /\ Starter(H, p, k) =
              [pc |-> p, hash |-> H, im |-> cmap, k |-> k, c |-> <<0, 0>>, i |-> 1, node |-> Null,
               must |-> {n \in contents : HashOf[n] \in H},
               may |-> {n \in contents : HashOf[n] \in H} \cup {n \in InFlight : HashOf[n] \in H},
               seen |-> {}, twice |-> FALSE, inserts |-> (w.new # Null)]
         /\ [Started(H) EXCEPT !.pc = p] = Starter(H, p, 1)
<1> DEFINE S == {n \in contents : HashOf[n] \in H}
           T == {n \in InFlight : HashOf[n] \in H}
           e == w.new # Null
<1>1. Started(H) = [IdleReader EXCEPT !.hash = H, !.im = cmap, !.must = S, !.may = S \cup T, !.inserts = e]
  BY DEF Started
<1> HIDE DEF S, T, e
<1>2. PICK a, b, c : a = S /\ b = S \cup T /\ c = e
  OBVIOUS
<1>3. Started(H) = [IdleReader EXCEPT !.hash = H, !.im = cmap, !.must = a, !.may = b, !.inserts = c]
  BY <1>1, <1>2
<1>4. Started(H) = [pc |-> "idle", hash |-> H, im |-> cmap, k |-> 1, c |-> <<0, 0>>, i |-> 1, node |-> Null,
                    must |-> a, may |-> b, seen |-> {}, twice |-> FALSE, inserts |-> c]
  BY <1>3 DEF IdleReader
<1>5. Starter(H, p, k) = [pc |-> p, hash |-> H, im |-> cmap, k |-> k, c |-> <<0, 0>>, i |-> 1, node |-> Null,
                          must |-> a, may |-> b, seen |-> {}, twice |-> FALSE, inserts |-> c]
  <2>1. Starter(H, p, k) = [[pc |-> "idle", hash |-> H, im |-> cmap, k |-> 1, c |-> <<0, 0>>, i |-> 1, node |-> Null,
                    must |-> a, may |-> b, seen |-> {}, twice |-> FALSE, inserts |-> c] EXCEPT !.pc = p, !.k = k]
    BY <1>4 DEF Starter
  <2> QED BY <2>1
<1>6. [Started(H) EXCEPT !.pc = p] =
        [pc |-> p, hash |-> H, im |-> cmap, k |-> 1, c |-> <<0, 0>>, i |-> 1, node |-> Null,
         must |-> a, may |-> b, seen |-> {}, twice |-> FALSE, inserts |-> c]
  <2>1. PICK y : y = [Started(H) EXCEPT !.pc = p]
    BY Zenon
  <2>2. y = [[pc |-> "idle", hash |-> H, im |-> cmap, k |-> 1, c |-> <<0, 0>>, i |-> 1, node |-> Null,
                    must |-> a, may |-> b, seen |-> {}, twice |-> FALSE, inserts |-> c] EXCEPT !.pc = p]
    BY <1>4, <2>1
  <2>3. y = [pc |-> p, hash |-> H, im |-> cmap, k |-> 1, c |-> <<0, 0>>, i |-> 1, node |-> Null,
             must |-> a, may |-> b, seen |-> {}, twice |-> FALSE, inserts |-> c]
    BY <2>2
  <2> QED BY <2>1, <2>3
<1>7. Starter(H, p, 1) =
        [pc |-> p, hash |-> H, im |-> cmap, k |-> 1, c |-> <<0, 0>>, i |-> 1, node |-> Null,
         must |-> a, may |-> b, seen |-> {}, twice |-> FALSE, inserts |-> c]
  <2>1. Starter(H, p, 1) = [[pc |-> "idle", hash |-> H, im |-> cmap, k |-> 1, c |-> <<0, 0>>, i |-> 1, node |-> Null,
                    must |-> a, may |-> b, seen |-> {}, twice |-> FALSE, inserts |-> c] EXCEPT !.pc = p, !.k = 1]
    BY <1>4 DEF Starter
  <2> QED BY <2>1
<1>8. [Started(H) EXCEPT !.pc = p] = Starter(H, p, 1)
  BY <1>6, <1>7
<1>9. Starter(H, p, k) =
              [pc |-> p, hash |-> H, im |-> cmap, k |-> k, c |-> <<0, 0>>, i |-> 1, node |-> Null,
               must |-> S, may |-> S \cup T, seen |-> {}, twice |-> FALSE, inserts |-> e]
  BY <1>2, <1>5
<1> QED BY <1>8, <1>9 DEF S, T, e

\* A reader that starts has the history of a start.
LEMMA StartedIs ==
  ASSUME MapOK, NEW H \in SUBSET Hashes, NEW p, p \in {"even", "slot"}, NEW k \in Nat, NEW y,
         y = Starter(H, p, k)
  PROVE  Starts(y, H) /\ y.pc = p /\ y.k = k
<1>1. PICK e \in BOOLEAN : e = (w.new # Null)
  OBVIOUS
<1>2. PICK S, T : S = {n \in contents : HashOf[n] \in H} /\ T = {n \in contents \cup InFlight : HashOf[n] \in H}
  OBVIOUS
<1>3. T = S \cup {n \in InFlight : HashOf[n] \in H} /\ (e = FALSE => w.new = Null)
  BY <1>1, <1>2
<1>4. y = [pc |-> p, hash |-> H, im |-> cmap, k |-> k, c |-> <<0, 0>>, i |-> 1,
           node |-> Null, must |-> S, may |-> T, seen |-> {}, twice |-> FALSE, inserts |-> e]
  <2>1. y = [pc |-> p, hash |-> H, im |-> cmap, k |-> k, c |-> <<0, 0>>, i |-> 1, node |-> Null,
               must |-> {n \in contents : HashOf[n] \in H},
               may |-> {n \in contents : HashOf[n] \in H} \cup {n \in InFlight : HashOf[n] \in H},
               seen |-> {}, twice |-> FALSE, inserts |-> (w.new # Null)]
    BY StarterIs
  <2> QED BY <1>1, <1>2, <1>3, <2>1
<1>5. contents \subseteq Nodes /\ cmap \in Nat /\ InFlight \subseteq Nodes
  BY DEF MapOK, ImplsOK, WriterOK, WriterT, InFlight
<1>6. S \in SUBSET Nodes /\ T \in SUBSET Nodes
  BY <1>2, <1>5
<1>7. <<0, 0>> \in [1 .. 2 -> Nat] /\ 1 \in Slots
  BY CmapAssumption DEF Slots
<1>8. p \in {"idle", "walk", "slot", "cursor", "done"} \cup Finding
  BY DEF Finding
<1>9. y \in ReaderT
  BY <1>3, <1>4, <1>5, <1>6, <1>7, <1>8 DEF ReaderT
<1>10. y.inserts = FALSE => w.new = Null
  <2>1. y.inserts = e
    BY <1>4
  <2> QED BY <1>3, <2>1
<1>11. /\ y.hash = H /\ y.im = cmap /\ y.must = S /\ y.may = T
       /\ y.c = <<0, 0>> /\ y.i = 1 /\ y.node = Null /\ y.seen = {} /\ y.twice = FALSE /\ y.pc = p /\ y.k = k
  BY <1>4
<1> QED BY <1>2, <1>9, <1>10, <1>11 DEF Starts

\* The history of a reader that has just started.
LEMMA StartHistory ==
  ASSUME MapOK, LiveOK(next, Live), NEW H, NEW y, Starts(y, H), y.pc \notin {"walk", "cursor"}
  PROVE  HistoryOK(y, Impl, next, Live, contents, InFlight)
<1>1. /\ y.hash = H /\ y.must = {n \in contents : HashOf[n] \in H}
      /\ y.may = {n \in contents \cup InFlight : HashOf[n] \in H} /\ y.seen = {}
  BY DEF Starts
<1>2. SlotsNow
  BY CurrentSlots
<1>3. ASSUME NEW n \in y.may \cap Live, next[n] # Null PROVE next[n] \in y.may
  <2>1. next[n] \in Linked
    <3>1. Closed(next, Linked)
      BY DEF MapOK, ChainsOK
    <3>2. CASE n \in Linked
      BY <1>3, <3>1, <3>2 DEF Closed
    <3>3. CASE n \notin Linked
      <4>1. n = w.new /\ n # Null
        BY <1>1, <1>3, <3>3 DEF Linked, InFlight
      <4>2. n \notin retired
        <5>1. w.pc \notin {"idle", "shrink"}
          BY <4>1 DEF MapOK, WriterOK
        <5> QED BY <4>1, <5>1 DEF MapOK, WriterOK, WriterT, Inserting, Resting
      <4>3. w.pc \in Storing
        BY <1>3, <3>3, <4>2 DEF Live
      <4> QED BY <1>3, <4>1, <4>3 DEF MapOK, WriterOK, Inserting
    <3> QED BY <3>2, <3>3
  <2>2. HashOf[next[n]] = HashOf[n]
    BY <1>3 DEF LiveOK
  <2>3. next[n] \in contents \cup InFlight
    BY <2>1, LinkedIn
  <2> QED BY <1>1, <1>3, <2>2, <2>3
<1>4. \A b \in 0 .. Impl.mask : \A i \in Slots : Impl.nodes[b][i] # Null =>
        /\ Impl.nodes[b][i] \in Live
        /\ HashOf[Impl.nodes[b][i]] \in y.hash => Impl.nodes[b][i] \in y.may
  BY <1>1, <1>2 DEF SlotsNow
<1> QED BY <1>1, <1>3, <1>4 DEF HistoryOK

\* cmap_find() is called.
LEMMA FindStartReaders ==
  ASSUME MapOK, ReadersOK, NEW r \in Readers, NEW h \in Hashes, FindStart(r, h)
  PROVE  ReadersOK'
<1>1. PICK y : y = Starter({h}, "even", 1)
  OBVIOUS
<1>2. Become(r, y) /\ ReaderOnly
  <2>1. [Started({h}) EXCEPT !.pc = "even"] = y
    BY <1>1, StarterIs
  <2> QED BY <2>1 DEF FindStart
<1>3. Starts(y, {h}) /\ y.pc = "even" /\ y.k = 1
  BY <1>1, StartedIs
<1> HIDE <1>1
<1>4. LiveOK(next, Live) /\ IsImpl(Impl) /\ cmap \in Nat \ {0}
  BY ImplIs DEF MapOK, ImplsOK, ReadersOK
<1>5. HistoryOK(y, Impl, next, Live, contents, InFlight)
  BY <1>3, <1>4, StartHistory
<1>6. /\ y.hash = {h} /\ y.im = cmap /\ y.must = {n \in contents : HashOf[n] \in {h}}
      /\ y.may = {n \in contents \cup InFlight : HashOf[n] \in {h}}
      /\ y.c = <<0, 0>> /\ y.i = 1 /\ y.seen = {} /\ y.twice = FALSE
      /\ (y.inserts = FALSE => w.new = Null) /\ y \in ReaderT
  BY <1>3 DEF Starts
<1>7. ViewOK(Impl, h, next, y.must, y.may \cap Live)
  <2>1. y.must \in SUBSET WithHashIn(contents, h)
    BY <1>6 DEF WithHashIn
  <2>2. ViewOK(Impl, h, next, y.must, WithHashIn(Linked, h))
    BY <2>1, CurrentView DEF ViewNow
  <2>3. WithHashIn(Linked, h) \subseteq y.may \cap Live
    BY <1>6, LinkedIn DEF WithHashIn
  <2> QED BY <2>2, <2>3 DEF ViewOK
<1>8. \A k \in 1 .. 2 : y.c[k] % 2 = 0 /\ y.c[k] <= Impl.counter[Bucket(Impl, h, k)]
  <2> SUFFICES ASSUME NEW k \in 1 .. 2
               PROVE  y.c[k] % 2 = 0 /\ y.c[k] <= Impl.counter[Bucket(Impl, h, k)]
    OBVIOUS
  <2>1. y.c[k] = 0
    BY <1>6
  <2>2. Bucket(Impl, h, k) \in 0 .. Impl.mask
    BY <1>4, BucketIn DEF Bucket
  <2>3. Impl.counter[Bucket(Impl, h, k)] \in Nat
    BY <1>4, <2>2, ImplFacts
  <2> QED BY <2>1, <2>3
<1>9. SearchOK(y, Impl, h, next, Live)
  BY <1>3, <1>6, <1>7, <1>8 DEF SearchOK
<1>10. ActiveOK(y, Impl, next, Live, contents, InFlight)
  BY <1>3, <1>5, <1>6, <1>9 DEF ActiveOK, Finding
<1>11. ReaderOK(y)
  BY <1>4, <1>6, <1>10 DEF ReaderOK, Impl
<1> QED BY <1>2, <1>11, OwnStep

\* cmap_cursor_start().
LEMMA CursorStartReaders ==
  ASSUME MapOK, ReadersOK, NEW r \in Readers, CursorStart(r)
  PROVE  ReadersOK'
<1>1. PICK y : y = Starter(Hashes, "slot", 0)
  OBVIOUS
<1>2. Become(r, y) /\ ReaderOnly
  BY <1>1 DEF CursorStart, Starter
<1>3. Starts(y, Hashes) /\ y.pc = "slot" /\ y.k = 0
  BY <1>1, StartedIs
<1> HIDE <1>1
<1>4. LiveOK(next, Live) /\ IsImpl(Impl) /\ cmap \in Nat \ {0}
  BY ImplIs DEF MapOK, ImplsOK, ReadersOK
<1>5. HistoryOK(y, Impl, next, Live, contents, InFlight)
  BY <1>3, <1>4, StartHistory
<1>6. /\ y.hash = Hashes /\ y.im = cmap /\ y.must \subseteq contents
      /\ y.i = 1 /\ y.node = Null /\ y.seen = {} /\ y.twice = FALSE
      /\ (y.inserts = FALSE => w.new = Null) /\ y \in ReaderT
  BY <1>3 DEF Starts
<1>7. ASSUME y.inserts = FALSE PROVE OnceOK(y, Impl, next)
  <2>1. GoodTable(Impl) /\ HeadsOK(HeadSet(Impl), next, Linked) /\ ChainsOK(next, Linked)
    BY <1>6, <1>7, NoInsertRest DEF RestOK, MapOK
  <2>2. ASSUME NEW n \in y.must
        PROVE  \E b \in 0 .. Impl.mask : \E i \in Slots :
                 Ahead(y, b, i) /\ n \in Reach(next, Impl.nodes[b][i])
    <3>1. n \in Linked
      BY <1>6, <2>2 DEF Linked
    <3>2. PICK b \in 0 .. Impl.mask, i \in Slots : n \in Reach(next, Impl.nodes[b][i])
      BY <1>4, <2>1, <3>1, ChainOf
    <3>3. Impl.mask \in Nat
      BY <1>4, ImplFacts
    <3>4. Ahead(y, b, i)
      BY <1>3, <1>6, <3>3, CmapAssumption DEF Ahead, Slots
    <3> QED BY <3>2, <3>4
  <2> QED BY <1>6, <2>1, <2>2 DEF OnceOK
<1>8. ActiveOK(y, Impl, next, Live, contents, InFlight)
  BY <1>3, <1>5, <1>6, <1>7 DEF ActiveOK, Finding, IterationOK
<1>9. ReaderOK(y)
  BY <1>4, <1>6, <1>8 DEF ReaderOK, Impl
<1> QED BY <1>2, <1>9, OwnStep

-----------------------------------------------------------------------------
(* What follows from the readers' invariant. *)

\* The end of a search or an iteration.
LEMMA DoneReaders ==
  ASSUME MapOK, MapOK', ReadersOK, NEW r \in Readers, Done(r)
  PROVE  ReadersOK'
<1>1. /\ DOMAIN rd = Readers /\ rd = [q \in Readers |-> rd[q]] /\ LiveOK(next, Live)
      /\ \A q \in Readers : ReaderOK(rd[q])
  BY DEF ReadersOK
<1>2. rd' = [rd EXCEPT ![r] = IdleReader] /\ UNCHANGED <<next, setup, ops, contents, w>>
  BY DEF Done, Become
<1>3. CASE \A q \in Readers \ {r} : rd[q].pc = "idle"
  <2>1. retired' = {}
    BY <1>3 DEF Done
  <2>2. RetiredOK'
    BY <2>1 DEF RetiredOK
  <2>3. LiveOK(next, Live)'
    <3>1. (MapOK /\ RetiredOK => LiveOK(next, Live))'
      BY LiveFromRetired, PTL
    <3> QED BY <2>2, <3>1
  <2>4. ASSUME NEW q \in Readers PROVE rd'[q] = IdleReader
    <3>1. CASE q = r
      BY <1>1, <1>2, <3>1
    <3>2. CASE q # r
      <4>1. rd'[q] = rd[q] /\ rd[q].pc = "idle"
        BY <1>1, <1>2, <1>3, <3>2
      <4>2. rd[q] = IdleReader
        BY <1>1, <4>1 DEF ReaderOK, ActiveOK
      <4> QED BY <4>1, <4>2
    <3> QED BY <3>1, <3>2
  <2>5. DOMAIN rd' = Readers /\ rd' = [q \in Readers |-> rd'[q]]
    BY <1>1, <1>2
  <2>6. \A q \in Readers : ReaderOK(rd[q])'
    BY <2>4 DEF ReaderOK
  <2> QED BY <2>3, <2>5, <2>6 DEF ReadersOK
<1>4. CASE ~(\A q \in Readers \ {r} : rd[q].pc = "idle")
  <2>1. ReaderOnly
    BY <1>2, <1>4 DEF Done, ReaderOnly
  <2>2. Become(r, IdleReader)
    BY DEF Done
  <2>3. ReaderOK(IdleReader)
    BY DEF ReaderOK
  <2> QED BY <2>1, <2>2, <2>3, OwnStep
<1> QED BY <1>3, <1>4

\* A step of a reader.
LEMMA ReaderReaders ==
  ASSUME MapOK, MapOK', ReadersOK, NEW r \in Readers, Reader(r)
  PROVE  ReadersOK'
<1>1. CASE \E h \in Hashes : FindStart(r, h)
  BY <1>1, FindStartReaders
<1>2. CASE ReadEvenCounter(r)
  BY <1>2, ReadEvenCounterReaders
<1>3. CASE ReadHash(r)
  BY <1>3, ReadHashReaders
<1>4. CASE ReadNode(r)
  BY <1>4, ReadNodeReaders
<1>5. CASE CounterCheck(r)
  BY <1>5, CounterCheckReaders
<1>6. CASE Recheck(r)
  BY <1>6, RecheckReaders
<1>7. CASE Walk(r)
  BY <1>7, WalkReaders
<1>8. CASE CursorStart(r)
  BY <1>8, CursorStartReaders
<1>9. CASE CursorSlot(r)
  BY <1>9, CursorSlotReaders
<1>10. CASE CursorNode(r)
  BY <1>10, CursorNodeReaders
<1>11. CASE CursorEnd(r)
  BY <1>11, CursorEndReaders
<1>12. CASE Done(r)
  BY <1>12, DoneReaders
<1> QED BY <1>1, <1>2, <1>3, <1>4, <1>5, <1>6, <1>7, <1>8, <1>9, <1>10, <1>11, <1>12 DEF Reader

\* The readers at the start.
LEMMA InitReaders ==
  ASSUME Init, MapOK PROVE ReadersOK
<1>1. retired = {} /\ rd = [r \in Readers |-> IdleReader]
  BY DEF Init
<1>2. RetiredOK
  BY <1>1 DEF RetiredOK
<1>3. LiveOK(next, Live)
  BY <1>2, LiveFromRetired
<1>4. DOMAIN rd = Readers /\ rd = [r \in Readers |-> rd[r]] /\ \A r \in Readers : rd[r] = IdleReader
  BY <1>1
<1> QED BY <1>3, <1>4 DEF ReadersOK, ReaderOK

\* The readers when nothing happens.
LEMMA SameReaders ==
  ASSUME ReadersOK, UNCHANGED vars PROVE ReadersOK'
<1>1. UNCHANGED <<impls, cmap, next, retired, contents, w, rd>>
  BY DEF vars
<1>2. Live' = Live /\ InFlight' = InFlight
  BY <1>1 DEF Live, Linked, InFlight
<1> QED BY <1>1, <1>2 DEF ReadersOK, ReaderOK

\* The readers of lib/cmap.c keep ReadersOK, whatever the writer does between their
\* loads: what a search still has to visit is ahead of it, or is in a bucket whose
\* counter has changed since the search looked there.
THEOREM ReadersInvariant == Spec => []ReadersOK
<1>1. Spec => []MapOK
  BY MapInvariant
<1>2. Init /\ MapOK => ReadersOK
  BY InitReaders
<1>3. MapOK /\ MapOK' /\ ReadersOK /\ [Next]_vars => ReadersOK'
  BY WriterReaders, ReaderReaders, SameReaders DEF Next
<1> QED BY <1>1, <1>2, <1>3, PTL DEF Spec

\* What TypeOK says of a reader's locals.
LEMMA ReaderTyped ==
  ASSUME MapOK, ReadersOK, NEW r \in Readers, rd[r].pc # "idle"
  PROVE  /\ rd[r].im \in DOMAIN impls /\ rd[r].i \in Slots
         /\ rd[r].pc \in Finding => rd[r].k \in 1 .. 2
         /\ rd[r].pc \in {"walk", "cursor"} => rd[r].node \in contents \cup InFlight \cup retired
<1>1. ReaderOK(rd[r]) /\ rd[r] # IdleReader
  BY DEF ReadersOK, IdleReader
<1>2. rd[r].im \in 1 .. cmap /\ ActiveOK(rd[r], impls[rd[r].im], next, Live, contents, InFlight)
  BY <1>1 DEF ReaderOK
<1>3. rd[r].im \in DOMAIN impls
  BY <1>2 DEF MapOK, ImplsOK
<1>4. rd[r].i \in Slots
  BY <1>2 DEF ActiveOK, ReaderT
<1>5. rd[r].pc \in Finding => rd[r].k \in 1 .. 2
  BY <1>2, Zenon DEF ActiveOK, SearchOK
<1>6. rd[r].pc \in {"walk", "cursor"} => rd[r].node \in Live
  BY <1>2, Zenon DEF ActiveOK, HistoryOK
<1>7. Live \subseteq contents \cup InFlight \cup retired
  <2>1. w.pc \in Storing => w.new # Null
    BY CmapAssumption DEF MapOK, WriterOK, Inserting
  <2> QED BY <2>1 DEF Live, Linked, InFlight
<1> QED BY <1>3, <1>4, <1>5, <1>6, <1>7

\* TypeOK: no store of the writer leaves the published table, the only odd counter is
\* that of the bucket that cmap_set_bucket() is changing, which read_even_counter()
\* waits for, and no reader is in a cmap_impl or on a node that is freed.
THEOREM TypeCorrect == Spec => []TypeOK
<1>1. MapOK /\ ReadersOK => TypeOK
  <2> SUFFICES ASSUME MapOK, ReadersOK PROVE TypeOK
    OBVIOUS
  <2>1. retired \subseteq Nodes /\ contents \subseteq Nodes \ retired /\ ops \in 0 .. MaxOps
    BY DEF MapOK
  <2> QED BY <2>1, WriterTyped, ReaderTyped DEF TypeOK, Finding
<1> QED BY <1>1, MapInvariant, ReadersInvariant, PTL

\* IterationOnce: an iteration that no insertion overlaps visits no node twice, and
\* every node that stays in the map, even with concurrent removals and their rehashes.
THEOREM IterationsOnce == Spec => []IterationOnce
<1>1. ReadersOK => IterationOnce
  <2> SUFFICES ASSUME ReadersOK, NEW r \in Readers, rd[r].pc = "done", rd[r].hash = Hashes,
                      ~rd[r].inserts
               PROVE  ~rd[r].twice /\ rd[r].must \subseteq rd[r].seen
    BY DEF IterationOnce
  <2>1. ReaderOK(rd[r]) /\ rd[r] # IdleReader
    BY DEF ReadersOK, IdleReader
  <2>2. EndOK(rd[r])
    BY <2>1 DEF ReaderOK, ActiveOK
  <2> QED BY <2>2, Zenon DEF EndOK
<1> QED BY <1>1, ReadersInvariant, PTL

-----------------------------------------------------------------------------
(* Every step is a step of ConcurrentMap, or none. *)

\* What ConcurrentMap sees of a reader.
Abstract(x) == [hash |-> x.hash, must |-> x.must, may |-> x.may, seen |-> x.seen]

\* An idle reader is in its initial state.
LEMMA IdleIs ==
  ASSUME ReadersOK, NEW r \in Readers
  PROVE  /\ rd[r].pc = "idle" <=> rd[r] = IdleReader
         /\ rd[r] # IdleReader => rd[r] \in ReaderT
<1>1. ReaderOK(rd[r])
  BY DEF ReadersOK
<1>2. rd[r] = IdleReader => rd[r].pc = "idle"
  BY DEF IdleReader
<1>3. rd[r] # IdleReader => rd[r] \in ReaderT /\ rd[r].pc # "idle"
  BY <1>1 DEF ReaderOK, ActiveOK
<1> QED BY <1>2, <1>3

\* The history of a reader with two fields changed.
LEMMA AbstractSet ==
  ASSUME NEW x, NEW S, NEW T
  PROVE  [Abstract(x) EXCEPT !.must = S, !.may = T] =
           [hash |-> x.hash, must |-> S, may |-> T, seen |-> x.seen]
<1>1. PICK a, b, c, d : a = x.hash /\ b = x.must /\ c = x.may /\ d = x.seen
  OBVIOUS
<1>2. PICK y : y = [Abstract(x) EXCEPT !.must = S, !.may = T]
  OBVIOUS
<1>3. y = [[hash |-> a, must |-> b, may |-> c, seen |-> d] EXCEPT !.must = S, !.may = T]
  BY <1>1, <1>2 DEF Abstract
<1>4. y = [hash |-> a, must |-> S, may |-> T, seen |-> d]
  BY <1>3
<1> QED BY <1>1, <1>2, <1>4

\* A call of the writer.
LEMMA CallMaps ==
  ASSUME ReadersOK, NEW into, NEW out, Observe(into, out), InFlight = {}, into \cup out # {},
         into \subseteq Nodes \ contents, out \subseteq contents,
         contents' = contents \ out, InFlight' = into \cup out
  PROVE  Map!Call(into, out)
<1>1. ASSUME NEW r \in Readers
      PROVE  Abstract(rd[r])' = [Abstract(rd[r]) EXCEPT
                !.must = @ \ out, !.may = @ \cup {n \in into : HashOf[n] \in rd[r].hash}]
  <2>1. PICK x, y : x = rd[r] /\ y = rd'[r]
    OBVIOUS
  <2>2. /\ y.hash = x.hash /\ y.must = x.must \ out /\ y.seen = x.seen
        /\ y.may = x.may \cup {n \in into : HashOf[n] \in x.hash}
    <3>1. CASE x.pc = "idle"
      <4>1. y = x /\ x = IdleReader
        BY <2>1, <3>1, IdleIs, Zenon DEF Observe
      <4>2. x.hash = {} /\ x.must = {} /\ x.may = {}
        BY <4>1 DEF IdleReader
      <4> QED BY <4>1, <4>2
    <3>2. CASE x.pc # "idle"
      <4>1. x \in ReaderT
        BY <2>1, <3>2, IdleIs DEF IdleReader
      <4>2. y = [x EXCEPT !.must = @ \ out,
                          !.may = @ \cup {n \in into : HashOf[n] \in x.hash},
                          !.inserts = @ \/ into # {}]
        BY <2>1, <3>2, Zenon DEF Observe
      <4> QED BY <4>1, <4>2 DEF ReaderT
    <3> QED BY <3>1, <3>2
  <2>3. PICK S, T : S = x.must \ out /\ T = x.may \cup {n \in into : HashOf[n] \in x.hash}
    OBVIOUS
  <2>4. Abstract(y) = [hash |-> x.hash, must |-> S, may |-> T, seen |-> x.seen]
    BY <2>2, <2>3 DEF Abstract
  <2>5. [Abstract(x) EXCEPT !.must = @ \ out, !.may = @ \cup {n \in into : HashOf[n] \in x.hash}]
          = [hash |-> x.hash, must |-> S, may |-> T, seen |-> x.seen]
    <3>1. Abstract(x).must \ out = S /\ Abstract(x).may \cup {n \in into : HashOf[n] \in x.hash} = T
      BY <2>3 DEF Abstract
    <3>2. [Abstract(x) EXCEPT !.must = S, !.may = T]
            = [hash |-> x.hash, must |-> S, may |-> T, seen |-> x.seen]
      BY AbstractSet, Zenon
    <3> QED BY <3>1, <3>2
  <2> QED BY <2>1, <2>4, <2>5
<1> DEFINE s == [q \in Readers |-> Abstract(rd[q])]
<1>2. [q \in Readers |-> Abstract(rd'[q])] =
        [q \in Readers |-> [s[q] EXCEPT !.must = @ \ out,
                                        !.may = @ \cup {n \in into : HashOf[n] \in s[q].hash}]]
  <2>1. ASSUME NEW q \in Readers PROVE s[q] = Abstract(rd[q]) /\ s[q].hash = rd[q].hash
    BY DEF Abstract
  <2> HIDE DEF s
  <2>2. ASSUME NEW q \in Readers
        PROVE  Abstract(rd'[q]) = [s[q] EXCEPT !.must = @ \ out,
                  !.may = @ \cup {n \in into : HashOf[n] \in s[q].hash}]
    BY <1>1, <2>1, Zenon
  <2> QED BY <2>2, Zenon
<1> QED BY <1>2, Zenon DEF Map!Call, Abstract

\* The return from a call.
LEMMA ReturnMaps ==
  ASSUME NEW into, into \subseteq InFlight, InFlight # {}, contents' = contents \cup into,
         InFlight' = {}, rd' = rd
  PROVE  Map!Return(into)
  BY DEF Map!Return

\* A search or an iteration begins.
LEMMA BeginMaps ==
  ASSUME NEW r \in Readers, NEW y, NEW H, H # {}, ReadersOK, rd[r].pc = "idle",
         Starts(y, H), Become(r, y), ReaderOnly
  PROVE  Map!Begin(r, H)
<1>1. rd[r].hash = {}
  BY IdleIs DEF IdleReader
<1>2. DOMAIN rd = Readers
  BY DEF ReadersOK
<1>3. rd' = [rd EXCEPT ![r] = y] /\ contents' = contents /\ InFlight' = InFlight
  BY DEF Become, ReaderOnly, InFlight
<1>4. /\ y.hash = H /\ y.must = {n \in contents : HashOf[n] \in H} /\ y.seen = {}
      /\ y.may = {n \in contents : HashOf[n] \in H} \cup {n \in InFlight : HashOf[n] \in H}
  BY DEF Starts
<1>5. Abstract(y) = [hash |-> H, must |-> {n \in contents : HashOf[n] \in H}, seen |-> {},
                     may |-> {n \in contents : HashOf[n] \in H} \cup {n \in InFlight : HashOf[n] \in H}]
  BY <1>4 DEF Abstract
<1>6. [q \in Readers |-> Abstract(rd'[q])] = [[q \in Readers |-> Abstract(rd[q])] EXCEPT ![r] = Abstract(y)]
  BY <1>2, <1>3
<1> QED BY <1>1, <1>3, <1>5, <1>6 DEF Map!Begin, Abstract

\* A node is visited.
LEMMA VisitMaps ==
  ASSUME NEW r \in Readers, NEW y, NEW n, n \in rd[r].may, ReadersOK, Become(r, y), ReaderOnly,
         y.hash = rd[r].hash, y.must = rd[r].must, y.may = rd[r].may, y.seen = rd[r].seen \cup {n}
  PROVE  Map!Visit(r, n)
<1>1. DOMAIN rd = Readers
  BY DEF ReadersOK
<1>2. rd' = [rd EXCEPT ![r] = y] /\ contents' = contents /\ InFlight' = InFlight
  BY DEF Become, ReaderOnly, InFlight
<1>3. PICK x : x = rd[r]
  OBVIOUS
<1>4. Abstract(y) = [Abstract(x) EXCEPT !.seen = x.seen \cup {n}]
  BY <1>3 DEF Abstract
<1>5. [q \in Readers |-> Abstract(rd'[q])] = [[q \in Readers |-> Abstract(rd[q])] EXCEPT ![r] = Abstract(y)]
  BY <1>1, <1>2
<1>6. [q \in Readers |-> Abstract(rd'[q])] =
        [[q \in Readers |-> Abstract(rd[q])] EXCEPT ![r].seen = @ \cup {n}]
  BY <1>3, <1>4, <1>5 DEF Abstract
<1> QED BY <1>2, <1>6 DEF Map!Visit, Abstract

\* The end of a search or an iteration.
LEMMA EndMaps ==
  ASSUME NEW r \in Readers, Done(r), ReadersOK, rd[r].hash # {}
  PROVE  Map!End(r)
<1>1. DOMAIN rd = Readers /\ ReaderOK(rd[r]) /\ rd[r].pc = "done"
  BY DEF ReadersOK, Done
<1>2. rd' = [rd EXCEPT ![r] = IdleReader] /\ contents' = contents /\ InFlight' = InFlight
  BY DEF Done, Become, InFlight
<1>3. rd[r] # IdleReader
  BY <1>1 DEF IdleReader
<1>4. rd[r].hash = Hashes \/ rd[r].must \subseteq rd[r].seen
  BY <1>1, <1>3 DEF ReaderOK, ActiveOK, EndOK
<1>5. Abstract(IdleReader) = Map!NoSearch
  BY DEF Abstract, IdleReader, Map!NoSearch
<1>6. [q \in Readers |-> Abstract(rd'[q])] =
        [[q \in Readers |-> Abstract(rd[q])] EXCEPT ![r] = Map!NoSearch]
  BY <1>1, <1>2, <1>5
<1> QED BY <1>2, <1>4, <1>6 DEF Map!End, Abstract, Map!Hashes, Hashes

\* Steps that ConcurrentMap does not see.
LEMMA StutterMaps ==
  ASSUME NEW r \in Readers, NEW y, ReadersOK, Become(r, y), contents' = contents, w' = w,
         y.hash = rd[r].hash, y.must = rd[r].must, y.may = rd[r].may, y.seen = rd[r].seen
  PROVE  UNCHANGED Map!vars
<1>1. DOMAIN rd = Readers /\ rd' = [rd EXCEPT ![r] = y]
  BY DEF ReadersOK, Become
<1>2. \A q \in Readers : Abstract(rd'[q]) = Abstract(rd[q])
  BY <1>1 DEF Abstract
<1>3. [q \in Readers |-> Abstract(rd'[q])] = [q \in Readers |-> Abstract(rd[q])]
  BY <1>2
<1>4. InFlight' = InFlight
  BY DEF InFlight
<1> QED BY <1>3, <1>4 DEF Map!vars, Abstract

\* A step that leaves the contents, the call and the readers alone.
LEMMA StillMaps ==
  ASSUME contents' = contents, InFlight' = InFlight, rd' = rd
  PROVE  UNCHANGED Map!vars
  BY DEF Map!vars

\* A step of ConcurrentMap, or none.
MapStep == [Map!Next]_(Map!vars)

\* The writer's steps that do not end a call.
LEMMA WithinMaps ==
  ASSUME contents' = contents, w'.node = w.node, w'.new = w.new, rd' = rd
  PROVE  MapStep
<1>1. InFlight' = InFlight
  BY DEF InFlight
<1>2. UNCHANGED Map!vars
  BY <1>1, StillMaps
<1> QED BY <1>2 DEF MapStep

\* The writer's steps that end a call.
LEMMA EndedMaps ==
  ASSUME MapOK, w.pc \notin {"idle", "shrink"}, contents' = contents \cup ({w.new} \ {Null}),
         w'.node = Null, w'.new = Null, rd' = rd
  PROVE  MapStep
<1>1. w.new \in Nodes \cup {Null} /\ InFlight # {} /\ w.pc \in Inserting \cup {"replace"}
  BY CmapAssumption DEF MapOK, WriterOK, WriterT, InFlight, Inserting, Storing, Resting
<1>2. InFlight' = {}
  BY DEF InFlight
<1>3. Map!Return({w.new} \ {Null})
  <2>1. PICK into : into = {w.new} \ {Null}
    OBVIOUS
  <2>2. into \subseteq InFlight /\ contents' = contents \cup into
    BY <2>1 DEF InFlight
  <2>3. Map!Return(into)
    BY <1>1, <1>2, <2>2, ReturnMaps
  <2> QED BY <2>1, <2>3
<1>4. Map!Next
  <2>1. CASE w.new = Null
    <3>1. {w.new} \ {Null} = {}
      BY <2>1
    <3>2. Map!Return({})
      BY <1>3, <3>1
    <3> QED BY <3>2 DEF Map!Next
  <2>2. CASE w.new # Null
    <3>1. {w.new} \ {Null} = {w.new} /\ w.new \in Nodes
      BY <1>1, <2>2
    <3>2. Map!Return({w.new})
      BY <1>3, <3>1
    <3> QED BY <3>1, <3>2 DEF Map!Next
  <2> QED BY <2>1, <2>2
<1> QED BY <1>4 DEF MapStep

\* cmap_insert() is a call of ConcurrentMap.
LEMMA InsertCallMaps ==
  ASSUME MapOK, ReadersOK, NEW n \in Nodes, InsertCall(n)
  PROVE  MapStep
<1>1. /\ w.pc = "idle" /\ n \notin contents /\ Observe({n}, {}) /\ contents' = contents
      /\ w'.node = Null /\ w'.new = n
  BY DEF InsertCall, NextCall, Unused, IdleWriter
<1>2. InFlight = {} /\ InFlight' = {n}
  BY <1>1, CmapAssumption DEF InFlight, MapOK, WriterOK
<1>3. Map!Call({n}, {})
  <2>1. PICK into, out : into = {n} /\ out = {}
    OBVIOUS
  <2>2. /\ Observe(into, out) /\ InFlight = {} /\ into \cup out # {} /\ into \subseteq Nodes \ contents
        /\ out \subseteq contents /\ contents' = contents \ out /\ InFlight' = into \cup out
    BY <1>1, <1>2, <2>1
  <2>3. Map!Call(into, out)
    BY <2>2, CallMaps
  <2> QED BY <2>1, <2>3
<1>4. Map!Next
  BY <1>3 DEF Map!Next
<1> QED BY <1>4 DEF MapStep

\* cmap_remove() and cmap_replace() are calls of ConcurrentMap.
LEMMA ReplaceCallMaps ==
  ASSUME MapOK, ReadersOK, NEW old \in Nodes, NEW new \in Nodes \cup {Null}, ReplaceCall(old, new)
  PROVE  MapStep
<1>1. /\ w.pc = "idle" /\ old \in contents /\ (new # Null => new \notin contents)
      /\ Observe({new} \ {Null}, {old}) /\ contents' = contents \ {old}
      /\ w'.node = old /\ w'.new = new
  BY DEF ReplaceCall, NextCall, Unused, IdleWriter
<1>2. PICK into, out : into = {new} \ {Null} /\ out = {old}
  OBVIOUS
<1>3. InFlight = {} /\ InFlight' = into \cup out
  BY <1>1, <1>2, CmapAssumption DEF InFlight, MapOK, WriterOK
<1>4. /\ Observe(into, out) /\ into \cup out # {} /\ into \subseteq Nodes \ contents
      /\ out \subseteq contents /\ contents' = contents \ out
  BY <1>1, <1>2
<1>5. Map!Call(into, out)
  BY <1>3, <1>4, CallMaps
<1>6. Map!Next
  <2>1. CASE new = Null
    <3>1. into = {}
      BY <1>2, <2>1
    <3>2. Map!Call({}, {old})
      BY <1>2, <1>5, <3>1
    <3> QED BY <3>2 DEF Map!Next
  <2>2. CASE new # Null
    <3>1. into = {new} /\ new \in Nodes
      BY <1>2, <2>2
    <3>2. Map!Call({new}, {old})
      BY <1>2, <1>5, <3>1
    <3> QED BY <3>1, <3>2 DEF Map!Next
  <2> QED BY <2>1, <2>2
<1> QED BY <1>6 DEF MapStep

\* Every step of the writer.
LEMMA WriterMaps ==
  ASSUME MapOK, ReadersOK, Writer
  PROVE  MapStep
<1>1. CASE \E n \in Nodes : InsertCall(n)
  BY <1>1, InsertCallMaps
<1>2. CASE \E old \in Nodes, new \in Nodes \cup {Null} : ReplaceCall(old, new)
  BY <1>2, ReplaceCallMaps
<1>3. w \in WriterT /\ (w.pc \in Inserting => w.new \in Nodes)
  BY DEF MapOK, WriterOK
<1>4. CASE Expand
  <2>1. w' = [w EXCEPT !.pc = "try"] /\ contents' = contents /\ rd' = rd
    BY <1>4 DEF Expand
  <2> QED BY <1>3, <2>1, WithinMaps DEF WriterT
<1>5. CASE TryInsert
  <2>1. w.pc = "try" /\ rd' = rd
    BY <1>5, Zenon DEF TryInsert
  <2>2. \/ UNCHANGED <<contents, w>>
        \/ InsertReturns
        \/ contents' = contents /\ \E plan : w' = [w EXCEPT !.pc = "odd", !.todo = plan]
    BY <1>5, Zenon DEF TryInsert
  <2>3. CASE UNCHANGED <<contents, w>>
    BY <2>1, <2>3, WithinMaps
  <2>4. CASE InsertReturns
    <3>1. w.new # Null
      BY <1>3, <2>1, CmapAssumption DEF Inserting
    <3>2. contents' = contents \cup ({w.new} \ {Null}) /\ w'.node = Null /\ w'.new = Null
      BY <2>4, <3>1 DEF InsertReturns, IdleWriter
    <3> QED BY <2>1, <3>2, EndedMaps
  <2>5. CASE contents' = contents /\ \E plan : w' = [w EXCEPT !.pc = "odd", !.todo = plan]
    BY <1>3, <2>1, <2>5, WithinMaps DEF WriterT
  <2> QED BY <2>2, <2>3, <2>4, <2>5, Zenon
<1>6. CASE SetOdd
  <2>1. w' = [w EXCEPT !.pc = "node"] /\ contents' = contents /\ rd' = rd
    BY <1>6 DEF SetOdd
  <2> QED BY <1>3, <2>1, WithinMaps DEF WriterT
<1>7. CASE SetNode
  <2>1. w' = [w EXCEPT !.pc = "hash"] /\ contents' = contents /\ rd' = rd
    BY <1>7 DEF SetNode
  <2> QED BY <1>3, <2>1, WithinMaps DEF WriterT
<1>8. CASE SetHash
  <2>1. w' = [w EXCEPT !.pc = "even"] /\ contents' = contents /\ rd' = rd
    BY <1>8 DEF SetHash
  <2> QED BY <1>3, <2>1, WithinMaps DEF WriterT
<1>9. CASE SetEven
  <2>1. w.pc = "even" /\ rd' = rd
    BY <1>9 DEF SetEven
  <2>2. \/ InsertReturns
        \/ contents' = contents /\ \E t : w' = [w EXCEPT !.todo = t, !.pc = "odd"]
    BY <1>9, Zenon DEF SetEven
  <2>3. CASE InsertReturns
    <3>1. w.new # Null
      BY <1>3, <2>1, CmapAssumption DEF Inserting, Storing
    <3>2. contents' = contents \cup ({w.new} \ {Null}) /\ w'.node = Null /\ w'.new = Null
      BY <2>3, <3>1 DEF InsertReturns, IdleWriter
    <3> QED BY <2>1, <3>2, EndedMaps
  <2>4. CASE contents' = contents /\ \E t : w' = [w EXCEPT !.todo = t, !.pc = "odd"]
    BY <1>3, <2>1, <2>4, WithinMaps DEF WriterT
  <2> QED BY <2>2, <2>3, <2>4, Zenon
<1>10. CASE Replace
  <2>1. /\ w.pc = "replace" /\ contents' = contents \cup ({w.new} \ {Null}) /\ rd' = rd
        /\ w'.node = Null /\ w'.new = Null
    BY <1>10, Zenon DEF Replace, IdleWriter
  <2> QED BY <2>1, EndedMaps
<1>11. CASE Shrink
  <2>1. /\ w.pc = "shrink" /\ contents' = contents /\ rd' = rd /\ w'.node = Null /\ w'.new = Null
    BY <1>11 DEF Shrink, IdleWriter
  <2>2. w.node = Null /\ w.new = Null
    BY <2>1 DEF MapOK, WriterOK
  <2> QED BY <2>1, <2>2, WithinMaps
<1> QED BY <1>1, <1>2, <1>4, <1>5, <1>6, <1>7, <1>8, <1>9, <1>10, <1>11 DEF Writer

\* A reader's step that leaves its history alone.
SameSearch(x, y) == y.hash = x.hash /\ y.must = x.must /\ y.may = x.may /\ y.seen = x.seen

\* Such a step is none of ConcurrentMap.
LEMMA SilentMaps ==
  ASSUME ReadersOK, NEW r \in Readers, NEW x, x = rd[r], NEW y, SameSearch(x, y), Become(r, y), ReaderOnly
  PROVE  MapStep
<1>1. contents' = contents /\ w' = w
  BY DEF ReaderOnly
<1>2. y.hash = rd[r].hash /\ y.must = rd[r].must /\ y.may = rd[r].may /\ y.seen = rd[r].seen
  BY DEF SameSearch
<1>3. UNCHANGED Map!vars
  BY <1>1, <1>2, StutterMaps
<1> QED BY <1>3 DEF MapStep

\* The loads of a search, and the cursor between two nodes.
LEMMA ReadMaps ==
  ASSUME MapOK, ReadersOK, NEW r \in Readers,
         \/ ReadEvenCounter(r) \/ ReadHash(r) \/ ReadNode(r) \/ CounterCheck(r) \/ Recheck(r)
         \/ CursorSlot(r) \/ CursorEnd(r)
  PROVE  MapStep
<1>1. rd[r].pc # "idle" /\ ReaderOnly
  BY DEF ReadEvenCounter, ReadHash, ReadNode, CounterCheck, Recheck, CursorSlot, CursorEnd
<1>2. PICK x : x = rd[r] /\ x \in ReaderT
  BY <1>1, IdleIs
<1>3. CASE ReadEvenCounter(r)
  <2>1. PICK c, y : y = [x EXCEPT !.pc = "hash", !.c[x.k] = c, !.i = 1] /\ Become(r, y)
    BY <1>2, <1>3, Zenon DEF ReadEvenCounter
  <2>2. SameSearch(x, y)
    BY <1>2, <2>1 DEF SameSearch, ReaderT
  <2> QED BY <1>1, <1>2, <2>1, <2>2, SilentMaps
<1>4. CASE ReadHash(r)
  <2>1. PICK y : /\ Become(r, y)
                 /\ y \in {[x EXCEPT !.pc = "node"], [x EXCEPT !.i = @ + 1],
                           [x EXCEPT !.pc = "check", !.node = Null]}
    BY <1>2, <1>4 DEF ReadHash
  <2>2. SameSearch(x, y)
    BY <1>2, <2>1 DEF SameSearch, ReaderT
  <2> QED BY <1>1, <1>2, <2>1, <2>2, SilentMaps
<1>5. CASE ReadNode(r)
  <2>1. PICK n, y : y = [x EXCEPT !.pc = "check", !.node = n] /\ Become(r, y)
    BY <1>2, <1>5, Zenon DEF ReadNode
  <2>2. SameSearch(x, y)
    BY <1>2, <2>1 DEF SameSearch, ReaderT
  <2> QED BY <1>1, <1>2, <2>1, <2>2, SilentMaps
<1>6. CASE CounterCheck(r)
  <2>1. PICK y : /\ Become(r, y)
                 /\ y \in {[x EXCEPT !.pc = "even"], [x EXCEPT !.pc = "walk"],
                           [x EXCEPT !.pc = "even", !.k = 2], [x EXCEPT !.pc = "recheck"]}
    BY <1>2, <1>6 DEF CounterCheck
  <2>2. SameSearch(x, y)
    BY <1>2, <2>1 DEF SameSearch, ReaderT
  <2> QED BY <1>1, <1>2, <2>1, <2>2, SilentMaps
<1>7. CASE Recheck(r)
  <2>1. PICK y : /\ Become(r, y)
                 /\ y \in {[x EXCEPT !.pc = "even", !.k = 1], [x EXCEPT !.pc = "done"]}
    BY <1>2, <1>7 DEF Recheck
  <2>2. SameSearch(x, y)
    BY <1>2, <2>1 DEF SameSearch, ReaderT
  <2> QED BY <1>1, <1>2, <2>1, <2>2, SilentMaps
<1>8. CASE CursorSlot(r)
  <2>1. PICK n, y0, y : /\ Become(r, y)
                        /\ y0 \in {[x EXCEPT !.i = @ + 1], [x EXCEPT !.k = @ + 1, !.i = 1]}
                        /\ y \in {y0, [y0 EXCEPT !.pc = "cursor", !.node = n]}
    BY <1>2, <1>8, Zenon DEF CursorSlot
  <2>2. PICK k, i : y0 = [x EXCEPT !.k = k, !.i = i]
    <3>1. CASE y0 = [x EXCEPT !.i = @ + 1]
      <4>1. y0 = [x EXCEPT !.k = x.k, !.i = x.i + 1]
        BY <1>2, <3>1 DEF ReaderT
      <4> QED BY <4>1, Zenon
    <3>2. CASE y0 = [x EXCEPT !.k = @ + 1, !.i = 1]
      <4>1. y0 = [x EXCEPT !.k = x.k + 1, !.i = 1]
        BY <3>2
      <4> QED BY <4>1, Zenon
    <3> QED BY <2>1, <3>1, <3>2, Zenon
  <2>3. SameSearch(x, y)
    BY <1>2, <2>1, <2>2, Zenon DEF SameSearch, ReaderT
  <2> QED BY <1>1, <1>2, <2>1, <2>3, SilentMaps
<1>9. CASE CursorEnd(r)
  <2>1. PICK y : y = [x EXCEPT !.pc = "done"] /\ Become(r, y)
    BY <1>2, <1>9 DEF CursorEnd
  <2>2. SameSearch(x, y)
    BY <1>2, <2>1 DEF SameSearch, ReaderT
  <2> QED BY <1>1, <1>2, <2>1, <2>2, SilentMaps
<1> QED BY <1>3, <1>4, <1>5, <1>6, <1>7, <1>8, <1>9

\* A turn of the loop over a chain.
LEMMA TurnMaps ==
  ASSUME MapOK, ReadersOK, NEW r \in Readers, Walk(r) \/ CursorNode(r)
  PROVE  MapStep
<1>1. rd[r].pc \in {"walk", "cursor"} /\ ReaderOnly
  BY DEF Walk, CursorNode
<1>2. PICK x, im, nx, L, C, F : AtWork(r, x, im, nx, L, C, F)
  BY <1>1, WorkFrom
<1>3. /\ x = rd[r] /\ x.pc \in {"walk", "cursor"} /\ x \in ReaderT /\ nx \in NextT
      /\ HistoryOK(x, im, nx, L, C, F) /\ nx = next
  BY <1>1, <1>2 DEF AtWork, ActiveOK
<1>4. x.node \in x.may /\ x.node \in Nodes
  BY <1>3 DEF HistoryOK, ReaderT
<1>5. PICK y, p : /\ y = Visited(x, nx[x.node], p) /\ Become(r, y)
                  /\ p \in {"walk", "done", "slot", "cursor"}
  <2>1. CASE Walk(r)
    <3>1. PICK p : p = IF nx[x.node] = Null THEN "done" ELSE "walk"
      OBVIOUS
    <3>2. Become(r, Visited(x, nx[x.node], p))
      BY <1>3, <2>1, <3>1 DEF Walk, Visited
    <3> QED BY <3>1, <3>2
  <2>2. CASE CursorNode(r)
    <3>1. PICK p : p = IF nx[x.node] = Null THEN "slot" ELSE "cursor"
      OBVIOUS
    <3>2. Become(r, Visited(x, nx[x.node], p))
      BY <1>3, <2>2, <3>1 DEF CursorNode, Visited
    <3> QED BY <3>1, <3>2
  <2> QED BY <2>1, <2>2
<1>6. PICK v \in Nodes \cup {Null} : v = nx[x.node]
  BY <1>3, <1>4 DEF NextT
<1>7. VisitsTo(x, y, v, p)
  BY <1>3, <1>4, <1>5, <1>6, VisitFields
<1>8. /\ y.hash = rd[r].hash /\ y.must = rd[r].must /\ y.may = rd[r].may
      /\ y.seen = rd[r].seen \cup {x.node} /\ x.node \in rd[r].may
  BY <1>3, <1>4, <1>7 DEF VisitsTo
<1>9. Map!Visit(r, x.node)
  <2>1. PICK n \in Nodes : n = x.node
    BY <1>4
  <2>2. Map!Visit(r, n)
    BY <1>1, <1>5, <1>8, <2>1, VisitMaps
  <2> QED BY <2>1, <2>2
<1>10. Map!Next
  BY <1>4, <1>9 DEF Map!Next
<1> QED BY <1>10 DEF MapStep

\* cmap_find() begins a search of ConcurrentMap.
LEMMA FindStartMaps ==
  ASSUME MapOK, ReadersOK, NEW r \in Readers, NEW h \in Hashes, FindStart(r, h)
  PROVE  MapStep
<1>1. PICK y : y = Starter({h}, "even", 1)
  OBVIOUS
<1>2. Become(r, y) /\ ReaderOnly /\ rd[r].pc = "idle"
  <2>1. [Started({h}) EXCEPT !.pc = "even"] = y
    BY <1>1, StarterIs
  <2> QED BY <2>1 DEF FindStart
<1>3. Starts(y, {h})
  BY <1>1, StartedIs
<1> HIDE <1>1
<1>4. Map!Begin(r, {h})
  <2>1. PICK H : H = {h}
    OBVIOUS
  <2>2. Map!Begin(r, H)
    BY <1>2, <1>3, <2>1, BeginMaps
  <2> QED BY <2>1, <2>2
<1>5. Map!Next
  BY <1>4 DEF Map!Next, Map!Hashes, Hashes
<1> QED BY <1>5 DEF MapStep

\* An iteration over nothing is no search of ConcurrentMap.
LEMMA CursorStartMaps ==
  ASSUME MapOK, ReadersOK, NEW r \in Readers, CursorStart(r)
  PROVE  MapStep
<1>1. PICK y : y = Starter(Hashes, "slot", 0)
  OBVIOUS
<1>2. Become(r, y) /\ ReaderOnly /\ rd[r].pc = "idle"
  BY <1>1 DEF CursorStart, Starter
<1>3. Starts(y, Hashes)
  BY <1>1, StartedIs
<1> HIDE <1>1
<1>4. CASE Hashes # {}
  <2>1. Map!Begin(r, Hashes)
    BY <1>2, <1>3, <1>4, BeginMaps
  <2>2. Map!Next
    BY <2>1 DEF Map!Next, Map!Hashes, Hashes
  <2> QED BY <2>2 DEF MapStep
<1>5. CASE Hashes = {}
  <2>1. y.hash = {} /\ y.must = {} /\ y.may = {} /\ y.seen = {}
    BY <1>3, <1>5 DEF Starts
  <2>2. PICK x : x = rd[r] /\ x = IdleReader
    BY <1>2, IdleIs
  <2>3. SameSearch(x, y)
    BY <2>1, <2>2 DEF SameSearch, IdleReader
  <2> QED BY <1>2, <2>2, <2>3, SilentMaps
<1> QED BY <1>4, <1>5

\* The end of a reader is the end of a search of ConcurrentMap, which needs EndOK.
LEMMA DoneMaps ==
  ASSUME MapOK, ReadersOK, NEW r \in Readers, Done(r)
  PROVE  MapStep
<1>1. CASE rd[r].hash # {}
  <2>1. Map!End(r)
    BY <1>1, EndMaps
  <2>2. Map!Next
    BY <2>1 DEF Map!Next
  <2> QED BY <2>2 DEF MapStep
<1>2. CASE rd[r].hash = {}
  <2>1. rd[r].pc = "done" /\ Become(r, IdleReader) /\ contents' = contents /\ w' = w
    BY DEF Done
  <2>2. PICK x, im, nx, L, C, F : AtWork(r, x, im, nx, L, C, F)
    BY <2>1, WorkFrom
  <2>3. x = rd[r] /\ HistoryOK(x, im, nx, L, C, F) /\ x \in ReaderT
    BY <2>2 DEF AtWork, ActiveOK
  <2>4. x.must = {} /\ x.may = {} /\ x.seen = {}
    BY <1>2, <2>3 DEF HistoryOK
  <2>5. PICK y : y = IdleReader
    OBVIOUS
  <2>6. y.hash = rd[r].hash /\ y.must = rd[r].must /\ y.may = rd[r].may /\ y.seen = rd[r].seen
    BY <1>2, <2>3, <2>4, <2>5 DEF IdleReader
  <2>7. UNCHANGED Map!vars
    BY <2>1, <2>5, <2>6, StutterMaps
  <2> QED BY <2>7 DEF MapStep
<1> QED BY <1>1, <1>2

\* An empty map is an empty ConcurrentMap.
LEMMA InitMaps ==
  ASSUME Init PROVE Map!Init
<1>1. contents = {} /\ w = IdleWriter /\ rd = [r \in Readers |-> IdleReader]
  BY DEF Init
<1>2. InFlight = {}
  BY <1>1 DEF InFlight, IdleWriter
<1>3. Abstract(IdleReader) = Map!NoSearch
  BY DEF Abstract, IdleReader, Map!NoSearch
<1>4. [r \in Readers |-> Abstract(rd[r])] = [r \in Readers |-> Map!NoSearch]
  BY <1>1, <1>3
<1> QED BY <1>1, <1>2, <1>4 DEF Map!Init, Abstract

\* Implements: lib/cmap.c keeps the promises of lib/cmap.h that ConcurrentMap states.
\* A search visits every node with its hash that is in the map all the time, and no
\* reader visits a node that was never in the map meanwhile, for any interleaving of
\* the loads of the readers with the stores of the writer.
THEOREM Refinement == Spec => Implements
<1>1. Init => Map!Init
  BY InitMaps
<1>2. MapOK /\ ReadersOK /\ [Next]_vars => [Map!Next]_(Map!vars)
  <2> SUFFICES ASSUME MapOK, ReadersOK, [Next]_vars PROVE MapStep
    BY DEF MapStep
  <2>1. CASE Writer
    BY <2>1, WriterMaps
  <2>2. ASSUME NEW r \in Readers, Reader(r) PROVE MapStep
    BY <2>2, FindStartMaps, ReadMaps, TurnMaps, CursorStartMaps, DoneMaps DEF Reader
  <2>3. CASE UNCHANGED vars
    BY <2>3, WithinMaps DEF vars
  <2> QED BY <2>1, <2>2, <2>3 DEF Next
<1>3. Spec => []MapOK /\ []ReadersOK
  BY MapInvariant, ReadersInvariant, PTL
<1> QED BY <1>1, <1>2, <1>3, PTL DEF Spec, Implements, Map!Spec
=============================================================================
