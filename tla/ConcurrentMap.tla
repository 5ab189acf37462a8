---------------------------- MODULE ConcurrentMap ----------------------------
(***************************************************************************)
(* What lib/cmap.h promises to readers and a single writer.  The map is    *)
(* the set of its nodes.  "CMAP_FOR_EACH_WITH_HASH will reliably visit     *)
(* each of the nodes with the specified hash in CMAP, even with concurrent *)
(* insertions and deletions.  (Of course, if nodes with the given HASH are *)
(* being inserted or deleted, it might or might not visit the nodes        *)
(* actually being inserted or deleted.)"                                   *)
(***************************************************************************)
CONSTANTS Nodes, HashOf, Readers

Hashes == {HashOf[n] : n \in Nodes}

VARIABLES
  contents,  \* nodes that are in the map and that no call is removing
  changing,  \* nodes that a call of the writer is inserting or removing
  search     \* per reader: [hash, must, may, seen]; hash {} is no search

vars == <<contents, changing, search>>

NoSearch == [hash |-> {}, must |-> {}, may |-> {}, seen |-> {}]

Init ==
  /\ contents = {} /\ changing = {}
  /\ search = [r \in Readers |-> NoSearch]

\* The writer calls cmap_insert(), cmap_remove() or cmap_replace().
Call(into, out) ==
  /\ changing = {} /\ into \cup out # {}
  /\ into \subseteq Nodes \ contents /\ out \subseteq contents
  /\ contents' = contents \ out
  /\ changing' = into \cup out
  /\ search' = [r \in Readers |->
                  [search[r] EXCEPT
                     !.must = @ \ out,
                     !.may = @ \cup {n \in into : HashOf[n] \in search[r].hash}]]

Return(into) ==
  /\ into \subseteq changing /\ changing # {}
  /\ contents' = contents \cup into
  /\ changing' = {}
  /\ UNCHANGED search

\* A search or an iteration starts: it has to visit what is there, unless a
\* call removes it, and may visit what a call puts there or takes away.
Begin(r, H) ==
  LET in == {n \in contents : HashOf[n] \in H} IN
  /\ search[r].hash = {} /\ H # {}
  /\ search' = [search EXCEPT ![r] =
        [hash |-> H, must |-> in, seen |-> {},
         may |-> in \cup {n \in changing : HashOf[n] \in H}]]
  /\ UNCHANGED <<contents, changing>>

Visit(r, n) ==
  /\ n \in search[r].may
  /\ search' = [search EXCEPT ![r].seen = @ \cup {n}]
  /\ UNCHANGED <<contents, changing>>

\* A search for a hash ends; an iteration may have skipped some nodes.
End(r) ==
  /\ search[r].hash # {}
  /\ search[r].hash = Hashes \/ search[r].must \subseteq search[r].seen
  /\ search' = [search EXCEPT ![r] = NoSearch]
  /\ UNCHANGED <<contents, changing>>

Next ==
  \/ \E n \in Nodes : Call({n}, {}) \/ Call({}, {n})
  \/ \E m, n \in Nodes : Call({m}, {n})
  \/ Return({}) \/ \E n \in Nodes : Return({n})
  \/ \E r \in Readers :
       \/ Begin(r, Hashes) \/ \E h \in Hashes : Begin(r, {h})
       \/ \E n \in Nodes : Visit(r, n)
       \/ End(r)

Spec == Init /\ [][Next]_vars
==============================================================================
