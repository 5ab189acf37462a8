-------------------------------- MODULE Cmap --------------------------------
(***************************************************************************)
(* The concurrent hash map of Open vSwitch (lib/cmap.c, lib/cmap.h): a     *)
(* cuckoo hash with two candidate buckets per hash, one writer, and        *)
(* readers that take no lock and rely on the counter of each bucket.       *)
(*                                                                         *)
(* Every load of a reader and every store of the writer that a reader can  *)
(* see is a step, in program order: the loads and stores are acquire and   *)
(* release operations or are ordered by them.  What the writer does to     *)
(* memory it has not published yet is part of the step that publishes it.  *)
(*                                                                         *)
(* The writer's caller obeys cmap.h: a removed node is not inserted again  *)
(* before the readers that might see it are done (Done; OvsRcu models how  *)
(* that is known).  contents, and must, may and seen of a reader, are      *)
(* history (what ConcurrentMap speaks of); no guard reads them but those   *)
(* on which nodes the caller may insert, remove or replace.                *)
(***************************************************************************)
EXTENDS Naturals, SequencesExt

CONSTANTS
  Nodes,     \* the cmap_nodes of the client
  HashOf,    \* [Nodes -> the client's hash of a node]
  Null,      \* a null pointer
  Readers,   \* threads that search and iterate
  K,         \* CMAP_K, slots per bucket
  HalfBits,  \* other_hash() rotates by HalfBits (16) of 2 * HalfBits bits
  Bases,     \* values of random_uint32() for impl->basis
  HashFinish,\* [Bases -> [hash -> hash_finish(basis, hash)]]
  MaxDepth,  \* MAX_DEPTH of the breadth-first search
  MaxLoad,   \* CMAP_MAX_LOAD in percent (85)
  MinLoad,   \* CMAP_MIN_LOAD in percent (20)
  Setups,    \* sequences of calls, one of which comes before the first reader
  MaxOps     \* bound on the calls after that

Hashes == {HashOf[n] : n \in Nodes}
Slots == 1 .. K

ASSUME CmapAssumption ==
  /\ Null \notin Nodes
  /\ K \in Nat \ {0, 1}
  /\ HalfBits \in Nat /\ 2^HalfBits \in Nat \ {0}
  /\ MaxDepth \in Nat /\ MaxOps \in Nat
  /\ MinLoad \in Nat \ {0} /\ MaxLoad \in Nat /\ 2 * MinLoad < MaxLoad
  /\ K * MaxLoad >= 100
  /\ \A x \in Bases : \A h \in Hashes \cup {0} : HashFinish[x][h] \in Nat

VARIABLES
  impls,     \* every cmap_impl made so far; readers may still use old ones
  cmap,      \* which of them cmap->impl points to
  next,      \* cmap_node.next
  retired,   \* removed nodes whose grace period has not passed
  setup,     \* calls before the first reader that are still to come
  ops,       \* number of calls after that
  contents,  \* the nodes whose insertion has returned and that no call removes
  w,         \* the locals of the writer
  rd         \* the locals of each reader

vars == <<impls, cmap, next, retired, setup, ops, contents, w, rd>>
-----------------------------------------------------------------------------
(* Hashing. *)

other_hash(h) == (h % 2^HalfBits) * 2^HalfBits + h \div 2^HalfBits

\* The two buckets a client's hash may be in: h & impl->mask.
Bucket1(im, h) == HashFinish[im.basis][h] % (im.mask + 1)
Bucket2(im, h) == other_hash(HashFinish[im.basis][h]) % (im.mask + 1)
Bucket(im, h, k) == IF k = 1 THEN Bucket1(im, h) ELSE Bucket2(im, h)

\* A load of exactly a limit is rounded down, as the 32-bit fractions do it.
calc_max_n(mask) == ((mask + 1) * K * MaxLoad - 1) \div 100
calc_min_n(mask) == ((mask + 1) * K * MinLoad - 1) \div 100

cmap_impl_create(mask, basis) ==
  [mask |-> mask, basis |-> basis, n |-> 0,
   counter |-> [b \in 0 .. mask |-> 0],
   hashes |-> [b \in 0 .. mask |-> [i \in Slots |-> 0]],
   nodes |-> [b \in 0 .. mask |-> [i \in Slots |-> Null]]]

Impl == impls[cmap]
-----------------------------------------------------------------------------
(* Where an insertion puts a node: the stores of cmap_try_insert(), in order. *)

\* A store of cmap_set_bucket(), or of the degenerate form in cmap_insert_dup().
Store(b, i, node, hash) ==
  [b |-> b, i |-> i, node |-> node, hash |-> hash, dup |-> FALSE]
DupStore(b, i, node, hash) == [Store(b, i, node, hash) EXCEPT !.dup = TRUE]

SlotsWith(im, b, h) == {i \in Slots : im.hashes[b][i] = h}
EmptySlots(im, b) == {i \in Slots : im.nodes[b][i] = Null}

other_bucket_protected(im, b, i) ==
  LET h == im.hashes[b][i] IN
  IF Bucket1(im, h) = b THEN Bucket2(im, h) ELSE Bucket1(im, h)

\* A path: the buckets it visits and the slot of each hop.  start tells b1 from b2.
Hop(im, p, i) ==
  [p EXCEPT !.at = Append(@, other_bucket_protected(im, Last(p.at), i)),
            !.slots = Append(@, i)]

\* One more hop from each of the paths, unless it stays in the same bucket.
Hops(im, paths) ==
  LET leaves(q, i) == other_bucket_protected(im, Last(q.at), i) # Last(q.at) IN
  {Hop(im, s[1], s[2]) : s \in {t \in paths \X Slots : leaves(t[1], t[2])}}

\* The paths of n hops from b1 or b2.
Paths(im, b) ==
  LET level[n \in 0 .. MaxDepth + 1] ==
        IF n = 0 THEN {[start |-> k, at |-> <<b[k]>>, slots |-> <<>>] : k \in 1 .. 2}
        ELSE Hops(im, level[n - 1])
  IN level

\* The queue holds the paths of one length in the order of start and slots.
Earlier(p, q) ==
  \/ p.start < q.start
  \/ /\ p.start = q.start
     /\ \E i \in DOMAIN p.slots : /\ p.slots[i] < q.slots[i]
                                  /\ \A j \in 1 .. i - 1 : p.slots[j] = q.slots[j]

\* Mutant: the nodes are moved from the start of the path on.
PathStoresForward(im, p, node, hash) ==
  LET n == Len(p.slots)
      slot == Append(p.slots, Min(EmptySlots(im, p.at[n + 1])))
      moved == [k \in 1 .. n |-> Store(p.at[k + 1], slot[k + 1],
                  im.nodes[p.at[k]][slot[k]], im.hashes[p.at[k]][slot[k]])]
  IN <<Store(p.at[1], slot[1], node, hash)>> \o moved

\* The nodes on the path are moved backward, the last one first, and then the
\* new node takes the first slot.
PathStores(im, p, node, hash) ==
  LET n == Len(p.slots)
      slot == Append(p.slots, Min(EmptySlots(im, p.at[n + 1])))
      moved == [k \in 1 .. n |-> Store(p.at[k + 1], slot[k + 1],
                  im.nodes[p.at[k]][slot[k]], im.hashes[p.at[k]][slot[k]])]
  IN Append(Reverse(moved), Store(p.at[1], slot[1], node, hash))

\* The search is breadth-first: it takes the first of the shortest paths to a
\* bucket with an empty slot.  <<>>: there is none.
cmap_insert_bfs(im, b, node, hash) ==
  LET level == Paths(im, b)
      found == [n \in 1 .. MaxDepth + 1 |->
                  {p \in level[n] : EmptySlots(im, Last(p.at)) # {}}]
      hops == {n \in DOMAIN found : found[n] # {}}
      best == found[Min(hops)]
  IN IF hops = {} THEN <<>>
     ELSE PathStores(im, CHOOSE p \in best : \A q \in best : ~Earlier(q, p), node, hash)

\* Mutant: cmap_insert_dup() is not tried.
TryInsertNoDup(im, node, hash) ==
  LET b == <<Bucket1(im, hash), Bucket2(im, hash)>>
      room == {k \in 1 .. 2 : EmptySlots(im, b[k]) # {}}
  IN IF room # {}
       THEN <<Store(b[Min(room)], Min(EmptySlots(im, b[Min(room)])), node, hash)>>
     ELSE cmap_insert_bfs(im, b, node, hash)

\* A slot that has held the hash before, in use or not; else an empty slot; else
\* the search.
cmap_try_insert(im, node, hash) ==
  LET b == <<Bucket1(im, hash), Bucket2(im, hash)>>
      dup == {k \in 1 .. 2 : SlotsWith(im, b[k], hash) # {}}
      room == {k \in 1 .. 2 : EmptySlots(im, b[k]) # {}}
  IN IF dup # {}
       THEN <<DupStore(b[Min(dup)], Min(SlotsWith(im, b[Min(dup)], hash)), node, hash)>>
     ELSE IF room # {}
       THEN <<Store(b[Min(room)], Min(EmptySlots(im, b[Min(room)])), node, hash)>>
     ELSE cmap_insert_bfs(im, b, node, hash)

\* All stores of an insertion into a cmap_impl that no reader sees yet.  They are
\* to different buckets: a shortest path does not come back to one.
Stored(im, plan) ==
  LET to(b) == {k \in DOMAIN plan : plan[k].b = b}
      st(b) == plan[Max(to(b))]
  IN [im EXCEPT
        !.nodes = [b \in 0 .. im.mask |->
          IF to(b) = {} THEN @[b] ELSE [@[b] EXCEPT ![st(b).i] = st(b).node]],
        !.hashes = [b \in 0 .. im.mask |->
          IF to(b) = {} THEN @[b] ELSE [@[b] EXCEPT ![st(b).i] = st(b).hash]],
        !.counter = [b \in 0 .. im.mask |->
          IF to(b) = {} \/ st(b).dup THEN @[b] ELSE @[b] + 2]]

\* cmap_try_rehash(): NoImpl if some chain finds no place.
NoImpl == <<>>

\* The chain at slot k of old, counted through all buckets, is put into im.
RehashSlot(old, im, k) ==
  LET b == (k - 1) \div K
      i == ((k - 1) % K) + 1
      plan == cmap_try_insert(im, old.nodes[b][i], old.hashes[b][i])
  IN IF im = NoImpl \/ old.nodes[b][i] = Null THEN im
     ELSE IF plan = <<>> THEN NoImpl ELSE Stored(im, plan)

cmap_try_rehash(old, new) ==
  LET built[k \in 0 .. (old.mask + 1) * K] ==
        IF k = 0 THEN new ELSE RehashSlot(old, built[k - 1], k)
  IN built[(old.mask + 1) * K]

Quiet == \A r \in Readers : rd[r].pc = "idle"

\* cmap_rehash(): random bases until one works; then the new cmap_impl is
\* published and the old one is left to the readers that still use it.
cmap_rehash(mask) ==
  \E basis \in Bases :
    LET im == cmap_try_rehash(Impl, cmap_impl_create(mask, basis)) IN
    /\ im # NoImpl
    /\ impls' = Append(IF Quiet THEN <<>> ELSE impls, [im EXCEPT !.n = Impl.n])
    /\ cmap' = Len(impls')
-----------------------------------------------------------------------------
(* The writer. *)

IdleWriter == [pc |-> "idle", node |-> Null, new |-> Null, todo |-> <<>>]

InFlight == {w.node, w.new} \ {Null}

\* History: a call that puts the nodes in `into' into the map, and takes those in
\* `out' away, has begun.
Observe(into, out) ==
  rd' = [r \in Readers |->
           IF rd[r].pc = "idle" THEN rd[r]
           ELSE [rd[r] EXCEPT !.must = @ \ out,
                              !.may = @ \cup {n \in into : HashOf[n] \in rd[r].hash},
                              !.inserts = @ \/ into # {}]]

\* A node the caller owns.
Unused(n) == n \notin contents \cup retired

\* The caller makes a call: <<Null, n>> inserts n, <<n, Null>> removes it.
NextCall(call) ==
  /\ w.pc = "idle"
  /\ IF setup # <<>> THEN Head(setup) = call /\ setup' = Tail(setup) /\ UNCHANGED ops
     ELSE ops < MaxOps /\ ops' = ops + 1 /\ UNCHANGED setup

\* Mutant: a full map is not enlarged.
InsertCallFull(n) ==
  /\ NextCall(<<Null, n>>) /\ Unused(n)
  /\ next' = [next EXCEPT ![n] = Null]
  /\ w' = [IdleWriter EXCEPT !.new = n,
              !.pc = IF Impl.n > calc_max_n(Impl.mask) THEN "expand" ELSE "try"]
  /\ Observe({n}, {})
  /\ UNCHANGED <<impls, cmap, retired, contents>>

\* cmap_insert(): node->next is cleared, and a full map is enlarged first.
InsertCall(n) ==
  /\ NextCall(<<Null, n>>) /\ Unused(n)
  /\ next' = [next EXCEPT ![n] = Null]
  /\ w' = [IdleWriter EXCEPT !.new = n,
              !.pc = IF Impl.n >= calc_max_n(Impl.mask) THEN "expand" ELSE "try"]
  /\ Observe({n}, {})
  /\ UNCHANGED <<impls, cmap, retired, contents>>

Expand ==
  /\ w.pc = "expand"
  /\ cmap_rehash(2 * Impl.mask + 1)
  /\ w' = [w EXCEPT !.pc = "try"]
  /\ UNCHANGED <<next, retired, setup, ops, contents, rd>>

\* The last store of an insertion is made; cmap_insert() counts the node.
InsertReturns ==
  /\ contents' = contents \cup {w.new}
  /\ w' = IdleWriter

\* cmap_insert_dup() makes one store, which leaves the counter alone; the other
\* stores go through cmap_set_bucket().  No place: new hash functions, and again.
TryInsert ==
  LET plan == cmap_try_insert(Impl, w.new, HashOf[w.new])
      st == plan[1]
  IN
  /\ w.pc = "try"
  /\ \/ /\ plan = <<>>
        /\ cmap_rehash(Impl.mask)
        /\ UNCHANGED <<next, contents, w>>
     \/ /\ plan # <<>> /\ st.dup
        /\ next' = [next EXCEPT ![w.new] = Impl.nodes[st.b][st.i]]
        /\ impls' = [impls EXCEPT ![cmap].nodes[st.b][st.i] = w.new, ![cmap].n = @ + 1]
        /\ InsertReturns
        /\ UNCHANGED cmap
     \/ /\ plan # <<>> /\ ~st.dup
        /\ w' = [w EXCEPT !.pc = "odd", !.todo = plan]
        /\ UNCHANGED <<impls, cmap, next, contents>>
  /\ UNCHANGED <<retired, setup, ops, rd>>

\* Mutant: the counter stays even.
SetOddMissing ==
  /\ w.pc = "odd"
  /\ w' = [w EXCEPT !.pc = "node"]
  /\ UNCHANGED <<impls, cmap, next, retired, setup, ops, contents, rd>>

\* cmap_set_bucket(): the counter becomes odd, the node, the hash, the counter
\* becomes even.
SetOdd ==
  /\ w.pc = "odd"
  /\ impls' = [impls EXCEPT ![cmap].counter[Head(w.todo).b] = @ + 1]
  /\ w' = [w EXCEPT !.pc = "node"]
  /\ UNCHANGED <<cmap, next, retired, setup, ops, contents, rd>>

SetNode ==
  LET st == Head(w.todo) IN
  /\ w.pc = "node"
  /\ impls' = [impls EXCEPT ![cmap].nodes[st.b][st.i] = st.node]
  /\ w' = [w EXCEPT !.pc = "hash"]
  /\ UNCHANGED <<cmap, next, retired, setup, ops, contents, rd>>

SetHash ==
  LET st == Head(w.todo) IN
  /\ w.pc = "hash"
  /\ impls' = [impls EXCEPT ![cmap].hashes[st.b][st.i] = st.hash]
  /\ w' = [w EXCEPT !.pc = "even"]
  /\ UNCHANGED <<cmap, next, retired, setup, ops, contents, rd>>

SetEven ==
  LET b == Head(w.todo).b
      last == Tail(w.todo) = <<>>
  IN
  /\ w.pc = "even"
  /\ impls' = [impls EXCEPT ![cmap].counter[b] = @ + 1,
                            ![cmap].n = IF last THEN @ + 1 ELSE @]
  /\ IF last THEN InsertReturns
             ELSE w' = [w EXCEPT !.todo = Tail(@), !.pc = "odd"] /\ UNCHANGED contents
  /\ UNCHANGED <<cmap, next, retired, setup, ops, rd>>

\* cmap_remove(), or cmap_replace() if new is a node.
ReplaceCall(old, new) ==
  /\ NextCall(<<old, new>>) /\ old \in contents
  /\ new # Null => Unused(new) /\ HashOf[new] = HashOf[old]
  /\ contents' = contents \ {old}
  /\ w' = [IdleWriter EXCEPT !.pc = "replace", !.node = old, !.new = new]
  /\ Observe({new} \ {Null}, {old})
  /\ UNCHANGED <<impls, cmap, next, retired>>

\* The nodes of the chain that starts at `head'.
Chain(head) ==
  {n \in Nodes : \A S \in SUBSET Nodes :
     head \in S /\ (\A m \in S : next[m] \in S \cup {Null}) => n \in S}

\* cmap_find_slot_protected(): the slot in use with this hash, b1 first.
UsedSlots(im, b, h) == SlotsWith(im, b, h) \ EmptySlots(im, b)
SlotOf(im, h) ==
  LET ks == {k \in 1 .. 2 : UsedSlots(im, Bucket(im, h, k), h) # {}}
      b == Bucket(im, h, Min(ks))
  IN IF ks = {} THEN <<>> ELSE <<b, Min(UsedSlots(im, b, h))>>

\* Mutant: the chain is cut where the old node was.
ReplaceCuts ==
  LET s == SlotOf(Impl, HashOf[w.node])
      head == Impl.nodes[s[1]][s[2]]
      n == IF w.new = Null THEN Impl.n - 1 ELSE Impl.n
  IN
  /\ w.pc = "replace" /\ s # <<>>
  /\ impls' = [impls EXCEPT ![cmap].n = n,
                            ![cmap].nodes[s[1]][s[2]] = IF head = w.node THEN w.new ELSE head]
  /\ IF head = w.node THEN UNCHANGED next
     ELSE \E p \in Chain(head) : next[p] = w.node /\ next' = [next EXCEPT ![p] = w.new]
  /\ retired' = IF Quiet THEN {} ELSE retired \cup {w.node}
  /\ contents' = contents \cup ({w.new} \ {Null})
  /\ w' = IdleWriter
  /\ UNCHANGED <<cmap, setup, ops, rd>>

\* cmap_replace__(): one store, to the slot or to the node before the old one.
\* ovs_assert(ok) and the walk need the node to be there; see OneChain.  The old
\* node is the caller's again after a grace period; a map that has become too
\* empty is shrunk.
Replace ==
  LET s == SlotOf(Impl, HashOf[w.node])
      head == Impl.nodes[s[1]][s[2]]
      new == IF w.new = Null THEN next[w.node] ELSE w.new
      n == IF w.new = Null THEN Impl.n - 1 ELSE Impl.n
      linked == IF w.new = Null THEN next ELSE [next EXCEPT ![w.new] = next[w.node]]
  IN
  /\ w.pc = "replace" /\ s # <<>>
  /\ impls' = [impls EXCEPT ![cmap].n = n,
                            ![cmap].nodes[s[1]][s[2]] = IF head = w.node THEN new ELSE head]
  /\ IF head = w.node THEN next' = linked
     ELSE \E p \in Chain(head) : next[p] = w.node /\ next' = [linked EXCEPT ![p] = new]
  /\ retired' = IF Quiet THEN {} ELSE retired \cup {w.node}
  /\ contents' = contents \cup ({w.new} \ {Null})
  /\ w' = [IdleWriter EXCEPT !.pc = IF w.new = Null /\ n < calc_min_n(Impl.mask)
                                      THEN "shrink" ELSE "idle"]
  /\ UNCHANGED <<cmap, setup, ops, rd>>

Shrink ==
  /\ w.pc = "shrink"
  /\ cmap_rehash(Impl.mask \div 2)
  /\ w' = IdleWriter
  /\ UNCHANGED <<next, retired, setup, ops, contents, rd>>
-----------------------------------------------------------------------------
(* The readers. *)

IdleReader == [pc |-> "idle", hash |-> {}, im |-> 0, k |-> 1, c |-> <<0, 0>>, i |-> 1,
               node |-> Null, must |-> {}, may |-> {}, seen |-> {},
               twice |-> FALSE, inserts |-> FALSE]

Become(r, x) == rd' = [rd EXCEPT ![r] = x]
ReaderOnly == UNCHANGED <<impls, cmap, next, retired, setup, ops, contents, w>>

\* A reader that starts to look for the hashes in H.
Started(H) ==
  LET in == {n \in contents : HashOf[n] \in H} IN
  [IdleReader EXCEPT !.hash = H, !.im = cmap, !.must = in,
                     !.may = in \cup {n \in InFlight : HashOf[n] \in H},
                     !.inserts = w.new # Null]

\* CMAP_FOR_EACH_WITH_HASH: cmap_find() and then the chain.  cmap_find_batch()
\* does the same for each of its hashes, in two rounds.
FindStart(r, h) ==
  /\ rd[r].pc = "idle" /\ setup = <<>>
  /\ Become(r, [Started({h}) EXCEPT !.pc = "even"])
  /\ ReaderOnly

HashOfFind(x) == CHOOSE h \in x.hash : TRUE
BucketOf(x, k) == Bucket(impls[x.im], HashOfFind(x), k)
CounterOf(x, k) == impls[x.im].counter[BucketOf(x, k)]

\* read_even_counter() spins while the counter is odd.
ReadEvenCounter(r) ==
  LET x == rd[r] IN
  /\ x.pc = "even" /\ CounterOf(x, x.k) % 2 = 0
  /\ Become(r, [x EXCEPT !.pc = "hash", !.c[x.k] = CounterOf(x, x.k), !.i = 1])
  /\ ReaderOnly

\* cmap_find_in_bucket(): the first slot with the hash ...
ReadHash(r) ==
  LET x == rd[r]
      hit == impls[x.im].hashes[BucketOf(x, x.k)][x.i] = HashOfFind(x)
  IN
  /\ x.pc = "hash"
  /\ Become(r, IF hit THEN [x EXCEPT !.pc = "node"]
                ELSE IF x.i < K THEN [x EXCEPT !.i = @ + 1]
                ELSE [x EXCEPT !.pc = "check", !.node = Null])
  /\ ReaderOnly

\* ... gives the node.
ReadNode(r) ==
  LET x == rd[r] IN
  /\ x.pc = "node"
  /\ Become(r, [x EXCEPT !.pc = "check",
                         !.node = impls[x.im].nodes[BucketOf(x, x.k)][x.i]])
  /\ ReaderOnly

\* counter_changed(): look again; else go on to the chain, to the second bucket,
\* or to the last check.
CounterCheck(r) ==
  LET x == rd[r] IN
  /\ x.pc = "check"
  /\ Become(r, IF CounterOf(x, x.k) # x.c[x.k] THEN [x EXCEPT !.pc = "even"]
                ELSE IF x.node # Null THEN [x EXCEPT !.pc = "walk"]
                ELSE IF x.k = 1 THEN [x EXCEPT !.pc = "even", !.k = 2]
                ELSE [x EXCEPT !.pc = "recheck"])
  /\ ReaderOnly

\* Nothing in either bucket: the node may have moved from the second to the
\* first meanwhile.
Recheck(r) ==
  LET x == rd[r] IN
  /\ x.pc = "recheck"
  /\ Become(r, IF CounterOf(x, 1) # x.c[1] THEN [x EXCEPT !.pc = "even", !.k = 1]
                ELSE [x EXCEPT !.pc = "done"])
  /\ ReaderOnly

Visit(x) == [x EXCEPT !.seen = @ \cup {x.node}, !.twice = @ \/ x.node \in x.seen]

\* One turn of the loop over the chain.
Walk(r) ==
  LET x == rd[r] IN
  /\ x.pc = "walk"
  /\ Become(r, [Visit(x) EXCEPT !.node = next[x.node],
                   !.pc = IF next[x.node] = Null THEN "done" ELSE "walk"])
  /\ ReaderOnly

\* CMAP_FOR_EACH: a cursor over buckets and slots; k is the bucket, from 0 up.
CursorStart(r) ==
  /\ rd[r].pc = "idle" /\ setup = <<>>
  /\ Become(r, [Started(Hashes) EXCEPT !.pc = "slot", !.k = 0])
  /\ ReaderOnly

\* cmap_cursor_advance() at a slot ...
CursorSlot(r) ==
  LET x == rd[r]
      node == impls[x.im].nodes[x.k][x.i]
      y == IF x.i < K THEN [x EXCEPT !.i = @ + 1] ELSE [x EXCEPT !.k = @ + 1, !.i = 1]
  IN
  /\ x.pc = "slot" /\ x.k <= impls[x.im].mask
  /\ Become(r, IF node = Null THEN y ELSE [y EXCEPT !.pc = "cursor", !.node = node])
  /\ ReaderOnly

\* ... and at a node: the loop's body runs after the cursor has moved on.
CursorNode(r) ==
  LET x == rd[r] IN
  /\ x.pc = "cursor"
  /\ Become(r, [Visit(x) EXCEPT !.node = next[x.node],
                   !.pc = IF next[x.node] = Null THEN "slot" ELSE "cursor"])
  /\ ReaderOnly

CursorEnd(r) ==
  /\ rd[r].pc = "slot" /\ rd[r].k > impls[rd[r].im].mask
  /\ Become(r, [rd[r] EXCEPT !.pc = "done"])
  /\ ReaderOnly

\* With the last reader gone nobody can see a removed node or an old cmap_impl:
\* the grace period is over and both are freed.
Done(r) ==
  /\ rd[r].pc = "done"
  /\ Become(r, IdleReader)
  /\ IF \A q \in Readers \ {r} : rd[q].pc = "idle"
       THEN retired' = {} /\ impls' = <<Impl>> /\ cmap' = 1
       ELSE UNCHANGED <<retired, impls, cmap>>
  /\ UNCHANGED <<next, setup, ops, contents, w>>
-----------------------------------------------------------------------------
Init ==
  /\ \E basis \in Bases : impls = <<cmap_impl_create(0, basis)>>
  /\ cmap = 1
  /\ next = [n \in Nodes |-> Null]
  /\ retired = {} /\ contents = {}
  /\ setup \in Setups /\ ops = 0
  /\ w = IdleWriter
  /\ rd = [r \in Readers |-> IdleReader]

Writer ==
  \/ \E n \in Nodes : InsertCall(n)
  \/ \E old \in Nodes, new \in Nodes \cup {Null} : ReplaceCall(old, new)
  \/ Expand \/ TryInsert
  \/ SetOdd \/ SetNode \/ SetHash \/ SetEven
  \/ Replace \/ Shrink

Reader(r) ==
  \/ \E h \in Hashes : FindStart(r, h)
  \/ ReadEvenCounter(r) \/ ReadHash(r) \/ ReadNode(r) \/ CounterCheck(r) \/ Recheck(r)
  \/ Walk(r)
  \/ CursorStart(r) \/ CursorSlot(r) \/ CursorNode(r) \/ CursorEnd(r)
  \/ Done(r)

Next == Writer \/ \E r \in Readers : Reader(r)

Spec == Init /\ [][Next]_vars
-----------------------------------------------------------------------------
(* Properties. *)

\* Types, and what the locals of the writer and of the readers refer to is there:
\* the next store of cmap_set_bucket() is inside the published table, and its
\* bucket is the only one with an odd counter; a reader is in a table and on a
\* node that are not freed, although both may have been replaced meanwhile.
TypeOK ==
  /\ cmap \in DOMAIN impls
  /\ next \in [Nodes -> Nodes \cup {Null}]
  /\ retired \subseteq Nodes /\ contents \subseteq Nodes \ retired
  /\ ops \in 0 .. MaxOps
  /\ InFlight \subseteq Nodes
  /\ w.pc \in {"odd", "node", "hash", "even"} =>
       /\ Head(w.todo).b \in 0 .. Impl.mask /\ Head(w.todo).i \in Slots
       /\ Head(w.todo).node \in Nodes
  /\ \A b \in 0 .. Impl.mask :
       (Impl.counter[b] % 2 = 1) <=> (w.pc \in {"node", "hash", "even"} /\ Head(w.todo).b = b)
  /\ \A r \in Readers : rd[r].pc # "idle" =>
       /\ rd[r].im \in DOMAIN impls /\ rd[r].i \in Slots
       /\ rd[r].pc \in {"even", "hash", "node", "check", "recheck"} => rd[r].k \in 1 .. 2
       /\ rd[r].pc \in {"walk", "cursor"} => rd[r].node \in contents \cup InFlight \cup retired

\* The invariant that the head of cmap.c states: a hash exists in a single chain
\* in a single bucket.  Between two calls the map holds exactly its contents,
\* each node where cmap_find() and cmap_replace() look for it: in the slot that
\* cmap_find() comes to, and no slot before that one in its bucket has the hash,
\* not even an empty one.
OneChain ==
  w.pc = "idle" =>
    LET used == {s \in (0 .. Impl.mask) \X Slots : Impl.nodes[s[1]][s[2]] # Null}
        chain == [s \in used |-> Chain(Impl.nodes[s[1]][s[2]])]
    IN /\ UNION {chain[s] : s \in used} = contents
       /\ Cardinality(contents) = Impl.n
       /\ \A s \in used :
            /\ \A n \in chain[s] : HashOf[n] = Impl.hashes[s[1]][s[2]]
            /\ s = SlotOf(Impl, Impl.hashes[s[1]][s[2]])
            /\ s[2] = Min(SlotsWith(Impl, s[1], Impl.hashes[s[1]][s[2]]))

\* ovs_assert(old->n < new->max_n) in cmap_rehash().
RehashFits ==
  /\ w.pc = "expand" => Impl.n < calc_max_n(2 * Impl.mask + 1)
  /\ w.pc = "try" => Impl.n < calc_max_n(Impl.mask)
  /\ w.pc = "shrink" => Impl.n < calc_max_n(Impl.mask \div 2)

\* "Concurrent calls to cmap_remove() don't have the same problem": an iteration
\* that no insertion overlaps visits no node twice and every node that stays.
IterationOnce ==
  \A r \in Readers :
    rd[r].pc = "done" /\ rd[r].hash = Hashes /\ ~rd[r].inserts =>
      ~rd[r].twice /\ rd[r].must \subseteq rd[r].seen

\* The promises of cmap.h to searches: each visits what is in the map all the
\* time, and nothing that was never in the map meanwhile.
Map == INSTANCE ConcurrentMap WITH
  changing <- InFlight,
  search <- [r \in Readers |-> [hash |-> rd[r].hash, must |-> rd[r].must,
                                may |-> rd[r].may, seen |-> rd[r].seen]]
Implements == Map!Spec
=============================================================================
