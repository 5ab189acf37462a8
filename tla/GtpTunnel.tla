------------------------------ MODULE GtpTunnel ------------------------------
(***************************************************************************)
(* The session tables of the GTP manager (ofproto/gtp-manager.c): the maps *)
(* teid2pgw and ueip2pgw, their nodes and the shared gtp_tunnel_node, with *)
(* their two levels of reference counts.                                   *)
(*                                                                         *)
(* Upcall threads look sessions up (handle_gtpc_message(),                 *)
(* handle_gtpu_message(), handle_pgw_sgi()), create them from a Create     *)
(* Session Response and delete them from a Delete Session Response.        *)
(* Lookups take no lock; a map node's count is under the node's mutex; the *)
(* tunnel node's count is under none.  One action is one step another      *)
(* thread can see.                                                         *)
(*                                                                         *)
(* Data abstraction: a map node is named by the session, the copy of the   *)
(* Create Session Response that made it, and the role of its key; both     *)
(* maps are one function from keys to chains (a ueip key is never a teid). *)
(* Freed memory is never reused: its first use stops the model in `fault'. *)
(***************************************************************************)
EXTENDS Naturals, SequencesExt

CONSTANTS
  Threads,   \* upcall threads
  Sessions,  \* sessions the gateways set up
  KeyMaps,   \* which TEIDs and UE address each session may have been given:
             \* functions [Sessions -> [Roles -> key]]
  Copies     \* how often a response of a session may arrive

Roles == {"t2", "t4", "t5", "ueip"}

ASSUME TunnelAssumption ==
  /\ Copies \in Nat \ {0} /\ IsFiniteSet(Threads)
  /\ \A m \in KeyMaps : \A s \in Sessions : DOMAIN m[s] = Roles

Keys == {m[s][r] : m \in KeyMaps, s \in Sessions, r \in Roles}
Tunnels == Sessions \X (1 .. Copies)
Entries == Sessions \X (1 .. Copies) \X Roles
NoEntry == <<>>

TunnelOf(e) == <<e[1], e[2]>>

VARIABLES
  KeyOf,    \* the keys of each session, which never change
  chain,    \* key -> its linked map nodes, newest first (cmap)
  entry,    \* map node -> [mem, ref_count]
  tunnel,   \* tunnel node -> [mem, ref_count]
  fault,    \* "none", or the undefined behaviour or assertion that was met
  victim,   \* the session whose handler met it (history)
  arrived,  \* how many Create Session Responses have come, per session
  known,    \* sessions whose Create Session Response was passed on to the SGW
  deleted,  \* how many Delete Session Responses have come, per session
  th        \* the locals of each thread

vars == <<KeyOf, chain, entry, tunnel, fault, victim, arrived, known, deleted, th>>

KeyOfEntry(e) == KeyOf[e[1]][e[3]]

\* A thread without a packet.  e is the map node in hand, held the one that the
\* handler of a Delete Session Response keeps, todo the keys it still has to
\* put or delete, rc the tunnel count it has loaded.
IdleThread == [pc |-> "idle", op |-> "none", sess |-> "none", e |-> NoEntry,
               held |-> NoEntry, todo |-> <<>>, rc |-> 0]

Init ==
  /\ KeyOf \in KeyMaps
  /\ chain = [k \in Keys |-> <<>>]
  /\ entry = [e \in Entries |-> [mem |-> "unused", ref_count |-> 0]]
  /\ tunnel = [u \in Tunnels |-> [mem |-> "unused", ref_count |-> 0]]
  /\ fault = "none"
  /\ victim = "none"
  /\ arrived = [s \in Sessions |-> 0]
  /\ known = {}
  /\ deleted = [s \in Sessions |-> 0]
  /\ th = [t \in Threads |-> IdleThread]

Become(t, h) == th' = [th EXCEPT ![t] = h]

\* The handler of a packet of session s stops the process.
Fails(kind, s) ==
  /\ fault' = kind
  /\ victim' = s
  /\ UNCHANGED <<chain, entry, tunnel, arrived, known, deleted, th>>

\* A step of thread t at pc in which the process has not been stopped.
At(t, pc) == fault = "none" /\ th[t].pc = pc
-----------------------------------------------------------------------------
(* Create Session Response. *)

\* Mutant: t2 is forgotten.
KeyOrderNoT2 == <<"t4", "t5", "ueip">>

\* The order of the four puts, and of the four deletes.
KeyOrder == <<"t4", "t5", "ueip", "t2">>

\* Mutant: t3 of the fast path is counted too.
RefsWithT3 == 5

\* A tunnel node starts with one reference per map node to come.
InitialRefs == 4

\* The response comes from a gateway gtp_manager_find_pgw() knows.
CreateStart(t, s) ==
  LET n == arrived[s] + 1 IN
  /\ At(t, "idle") /\ n <= Copies
  /\ arrived' = [arrived EXCEPT ![s] = n]
  /\ tunnel' = [tunnel EXCEPT ![<<s, n>>] = [mem |-> "live", ref_count |-> InitialRefs]]
  /\ Become(t, [IdleThread EXCEPT !.pc = "put", !.op = "create", !.sess = s,
                                  !.e = <<s, n, "t4">>, !.todo = KeyOrder])
  /\ UNCHANGED <<chain, entry, fault, victim, known, deleted>>

\* It comes from an unknown gateway: the tunnel node is dropped on the floor.
CreateUnknownPgw(t, s) ==
  LET n == arrived[s] + 1 IN
  /\ At(t, "idle") /\ n <= Copies
  /\ arrived' = [arrived EXCEPT ![s] = n]
  /\ tunnel' = [tunnel EXCEPT ![<<s, n>>] = [mem |-> "orphan", ref_count |-> 0]]
  /\ UNCHANGED <<chain, entry, fault, victim, known, deleted, th>>

\* gtp_manager_put_teid_pgw(), gtp_manager_put_ueip_pgw(): no look at what the
\* key already maps to.
Put(t) ==
  LET h == th[t]
      e == <<h.e[1], h.e[2], Head(h.todo)>>
  IN
  /\ At(t, "put") /\ h.todo # <<>>
  /\ entry' = [entry EXCEPT ![e] = [mem |-> "live", ref_count |-> 1]]
  /\ chain' = [chain EXCEPT ![KeyOfEntry(e)] = <<e>> \o @]
  /\ Become(t, [h EXCEPT !.todo = Tail(@)])
  /\ UNCHANGED <<tunnel, fault, victim, arrived, known, deleted>>

\* The response goes out of the physical port.
CreateEnd(t) ==
  /\ At(t, "put") /\ th[t].todo = <<>>
  /\ known' = known \cup {th[t].sess}
  /\ Become(t, IdleThread)
  /\ UNCHANGED <<chain, entry, tunnel, fault, victim, arrived, deleted>>
-----------------------------------------------------------------------------
(* Looking a session up. *)

\* A packet with one of the keys of session s: its newest map node, found
\* without a lock.  Nothing found: the packet is dropped.
LookupStart(t, s, r) ==
  LET c == chain[KeyOf[s][r]] IN
  /\ At(t, "idle")
  /\ c # <<>>
  /\ Become(t, [IdleThread EXCEPT !.pc = "ref", !.op = "lookup", !.sess = s,
                                  !.e = Head(c)])
  /\ UNCHANGED <<chain, entry, tunnel, fault, victim, arrived, known, deleted>>

\* A Delete Session Response, which answers a request of the session.
DeleteStart(t, s) ==
  LET c == chain[KeyOf[s]["t2"]] IN
  /\ At(t, "idle")
  /\ s \in known /\ deleted[s] < Copies
  /\ c # <<>>
  /\ deleted' = [deleted EXCEPT ![s] = @ + 1]
  /\ Become(t, [IdleThread EXCEPT !.pc = "ref", !.op = "delete", !.sess = s,
                                  !.e = Head(c), !.held = Head(c)])
  /\ UNCHANGED <<chain, entry, tunnel, fault, victim, arrived, known>>

\* gtp_manager_get_teid_pgw() returned NULL and the handler dereferences it.
DeleteUnknown(t, s) ==
  /\ At(t, "idle")
  /\ s \in known /\ deleted[s] < Copies
  /\ chain[KeyOf[s]["t2"]] = <<>>
  /\ Fails("null", s)

\* Mutant: the reference is taken without counting it.
RefUncounted(t) ==
  /\ At(t, "ref") /\ entry[th[t].e].mem = "live"
  /\ Become(t, [th[t] EXCEPT !.pc = "read"])
  /\ UNCHANGED <<chain, entry, tunnel, fault, victim, arrived, known, deleted>>

\* gtp_manager_get_teid_pgw(), gtp_manager_get_ueip_pgw(): ref_count++ under
\* the mutex of a node that may be gone.
Ref(t) ==
  /\ At(t, "ref") /\ entry[th[t].e].mem = "live"
  /\ entry' = [entry EXCEPT ![th[t].e].ref_count = @ + 1]
  /\ Become(t, [th[t] EXCEPT !.pc = "read"])
  /\ UNCHANGED <<chain, tunnel, fault, victim, arrived, known, deleted>>

\* Mutant: a lookup returns without giving its reference up.
ReadNoUnref(t) ==
  LET h == th[t] IN
  /\ At(t, "read")
  /\ entry[h.e].mem = "live" /\ tunnel[TunnelOf(h.e)].mem = "live"
  /\ Become(t, IF h.op = "lookup" THEN IdleThread
                                  ELSE [h EXCEPT !.pc = "del", !.todo = KeyOrder])
  /\ UNCHANGED <<chain, entry, tunnel, fault, victim, arrived, known, deleted>>

\* Mutant: the deletion of t4 is forgotten.
ReadSkipsT4(t) ==
  LET h == th[t] IN
  /\ At(t, "read")
  /\ entry[h.e].mem = "live" /\ tunnel[TunnelOf(h.e)].mem = "live"
  /\ Become(t, IF h.op = "lookup" THEN [h EXCEPT !.pc = "unref"]
                                  ELSE [h EXCEPT !.pc = "del", !.todo = Tail(KeyOrder)])
  /\ UNCHANGED <<chain, entry, tunnel, fault, victim, arrived, known, deleted>>

\* The tunnel node is read: the pgw_index, or the keys to delete.
Read(t) ==
  LET h == th[t] IN
  /\ At(t, "read")
  /\ entry[h.e].mem = "live" /\ tunnel[TunnelOf(h.e)].mem = "live"
  /\ Become(t, IF h.op = "lookup" THEN [h EXCEPT !.pc = "unref"]
                                  ELSE [h EXCEPT !.pc = "del", !.todo = KeyOrder])
  /\ UNCHANGED <<chain, entry, tunnel, fault, victim, arrived, known, deleted>>
-----------------------------------------------------------------------------
(* Delete Session Response: four times gtp_manager_del_teid_pgw() or        *)
(* gtp_manager_del_ueip_pgw(), then the reference of the handler itself.    *)

\* t4, t5 and the UE address come from the tunnel node, t2 from the message.
KeyToDelete(h) ==
  IF Head(h.todo) = "t2" THEN KeyOf[h.sess]["t2"] ELSE KeyOf[h.held[1]][Head(h.todo)]

\* The node to delete is looked up without a lock.
DelFind(t) ==
  LET h == th[t] IN
  /\ At(t, "del") /\ h.todo # <<>>
  /\ chain[KeyToDelete(h)] # <<>>
  /\ Become(t, [h EXCEPT !.pc = "remove", !.e = Head(chain[KeyToDelete(h)]),
                         !.todo = Tail(@)])
  /\ UNCHANGED <<chain, entry, tunnel, fault, victim, arrived, known, deleted>>

\* Not there: found_node is uninitialised.  It may happen to be NULL ...
DelMissNull(t) ==
  LET h == th[t] IN
  /\ At(t, "del") /\ h.todo # <<>>
  /\ chain[KeyToDelete(h)] = <<>>
  /\ Become(t, [h EXCEPT !.todo = Tail(@)])
  /\ UNCHANGED <<chain, entry, tunnel, fault, victim, arrived, known, deleted>>

\* ... or any other pointer.
DelMissWild(t) ==
  /\ At(t, "del") /\ th[t].todo # <<>>
  /\ chain[KeyToDelete(th[t])] = <<>>
  /\ Fails("wild", th[t].sess)

\* cmap_remove() under the mutex of the partition.
CmapRemove(t) ==
  LET h == th[t]
      k == KeyOfEntry(h.e)
  IN
  /\ At(t, "remove")
  /\ \E i \in DOMAIN chain[k] : /\ chain[k][i] = h.e
                               /\ chain' = [chain EXCEPT ![k] = RemoveAt(@, i)]
  /\ Become(t, [h EXCEPT !.pc = "unref"])
  /\ UNCHANGED <<entry, tunnel, fault, victim, arrived, known, deleted>>

\* cmap_remove() of a node that another thread has removed meanwhile.  No node is
\* left under the hash: the assertion in lib/cmap.c fails.
RemoveMissing(t) ==
  /\ At(t, "remove") /\ chain[KeyOfEntry(th[t].e)] = <<>>
  /\ Fails("assert", th[t].sess)

\* Other nodes are left: cmap_replace__() reads the next of the node it was given
\* (if that has been freed: UseFreed) and looks for the node to the end of the
\* chain and beyond.
RemoveWalksOff(t) ==
  LET c == chain[KeyOfEntry(th[t].e)] IN
  /\ At(t, "remove") /\ c # <<>> /\ th[t].e \notin ToSet(c)
  /\ entry[th[t].e].mem = "live"
  /\ Fails("walk", th[t].sess)

\* All four keys are gone: the handler gives up the node it looked up.
DelHeld(t) ==
  LET h == th[t] IN
  /\ At(t, "del") /\ h.todo = <<>>
  /\ Become(t, [h EXCEPT !.pc = "unref", !.e = h.held, !.held = NoEntry])
  /\ UNCHANGED <<chain, entry, tunnel, fault, victim, arrived, known, deleted>>
-----------------------------------------------------------------------------
(* Giving up a reference. *)

\* Where a thread goes on when it has given up a reference.
Resume(h) ==
  IF h.op = "delete" /\ h.held # NoEntry THEN [h EXCEPT !.pc = "del", !.e = NoEntry, !.rc = 0]
                                         ELSE IdleThread

\* ref_count-- and the test for zero, under the node's mutex.
Unref(t) ==
  LET h == th[t] IN
  /\ At(t, "unref") /\ entry[h.e].mem = "live"
  /\ entry' = [entry EXCEPT ![h.e].ref_count = @ - 1]
  /\ Become(t, IF entry[h.e].ref_count = 1 THEN [h EXCEPT !.pc = "tload"] ELSE Resume(h))
  /\ UNCHANGED <<chain, tunnel, fault, victim, arrived, known, deleted>>

\* gtp_tunnel_node->ref_count-- without a lock: a load ...
TunnelLoad(t) ==
  LET h == th[t] IN
  /\ At(t, "tload") /\ tunnel[TunnelOf(h.e)].mem = "live"
  /\ Become(t, [h EXCEPT !.pc = "tstore", !.rc = tunnel[TunnelOf(h.e)].ref_count])
  /\ UNCHANGED <<chain, entry, tunnel, fault, victim, arrived, known, deleted>>

\* ... and a store.
TunnelStore(t) ==
  LET h == th[t] IN
  /\ At(t, "tstore") /\ tunnel[TunnelOf(h.e)].mem = "live"
  /\ tunnel' = [tunnel EXCEPT ![TunnelOf(h.e)].ref_count = h.rc - 1]
  /\ Become(t, [h EXCEPT !.pc = "ttest", !.rc = @ - 1])
  /\ UNCHANGED <<chain, entry, fault, victim, arrived, known, deleted>>

\* The test for zero: the compiler may reload the count or keep it.
TunnelTest(t) ==
  LET h == th[t] IN
  /\ At(t, "ttest") /\ tunnel[TunnelOf(h.e)].mem = "live"
  /\ \E rc \in {h.rc, tunnel[TunnelOf(h.e)].ref_count} :
       Become(t, [h EXCEPT !.pc = IF rc = 0 THEN "tfree" ELSE "efree"])
  /\ UNCHANGED <<chain, entry, tunnel, fault, victim, arrived, known, deleted>>

\* free() of the tunnel node ...
TunnelFree(t) ==
  LET h == th[t] IN
  /\ At(t, "tfree") /\ tunnel[TunnelOf(h.e)].mem = "live"
  /\ tunnel' = [tunnel EXCEPT ![TunnelOf(h.e)].mem = "freed"]
  /\ Become(t, [h EXCEPT !.pc = "efree"])
  /\ UNCHANGED <<chain, entry, fault, victim, arrived, known, deleted>>

\* ... and of the map node, at once: no grace period.
EntryFree(t) ==
  LET h == th[t] IN
  /\ At(t, "efree") /\ entry[h.e].mem = "live"
  /\ entry' = [entry EXCEPT ![h.e].mem = "freed"]
  /\ Become(t, Resume(h))
  /\ UNCHANGED <<chain, tunnel, fault, victim, arrived, known, deleted>>

\* A map node or a tunnel node is used after it was freed.
UseFreed(t) ==
  LET h == th[t] IN
  /\ \/ /\ \/ At(t, "ref") \/ At(t, "read") \/ At(t, "unref") \/ At(t, "efree")
           \/ At(t, "remove") /\ chain[KeyOfEntry(h.e)] # <<>>
        /\ entry[h.e].mem = "freed"
     \/ /\ \/ At(t, "read") \/ At(t, "tload") \/ At(t, "tstore")
           \/ At(t, "ttest") \/ At(t, "tfree")
        /\ tunnel[TunnelOf(h.e)].mem = "freed"
  /\ Fails("use_after_free", h.sess)
-----------------------------------------------------------------------------
Create(t) ==
  \/ \E s \in Sessions : CreateStart(t, s) \/ CreateUnknownPgw(t, s)
  \/ Put(t) \/ CreateEnd(t)

Lookup(t) ==
  \/ \E s \in Sessions, r \in Roles \ {"t2"} : LookupStart(t, s, r)
  \/ Ref(t) \/ Read(t)

Delete(t) ==
  \/ \E s \in Sessions : DeleteStart(t, s) \/ DeleteUnknown(t, s)
  \/ DelFind(t) \/ DelMissNull(t) \/ DelMissWild(t)
  \/ CmapRemove(t) \/ RemoveMissing(t) \/ RemoveWalksOff(t) \/ DelHeld(t)

GiveUp(t) ==
  \/ Unref(t)
  \/ TunnelLoad(t) \/ TunnelStore(t) \/ TunnelTest(t) \/ TunnelFree(t)
  \/ EntryFree(t) \/ UseFreed(t)

Next ==
  /\ \E t \in Threads : Create(t) \/ Lookup(t) \/ Delete(t) \/ GiveUp(t)
  /\ UNCHANGED KeyOf

Spec == Init /\ [][Next]_vars
-----------------------------------------------------------------------------
(* Properties. *)

ThreadStates ==
  [pc : {"idle", "put", "ref", "read", "del", "remove", "unref", "tload", "tstore",
         "ttest", "tfree", "efree"},
   op : {"none", "create", "lookup", "delete"}, sess : Sessions \cup {"none"},
   e : Entries \cup {NoEntry}, held : Entries \cup {NoEntry},
   todo : {SubSeq(KeyOrder, i, 4) : i \in 1 .. 5}, rc : 0 .. 4]

\* Types; the tunnel count stays between 0 and the four references it is given.
TypeOK ==
  /\ KeyOf \in KeyMaps
  /\ \A k \in Keys : ToSet(chain[k]) \subseteq Entries /\ IsInjective(chain[k])
  /\ entry \in [Entries -> [mem : {"unused", "live", "freed"}, ref_count : Nat]]
  /\ tunnel \in [Tunnels -> [mem : {"unused", "live", "freed", "orphan"},
                             ref_count : 0 .. 4]]
  /\ fault \in {"none", "null", "wild", "assert", "walk", "use_after_free"}
  /\ victim \in Sessions \cup {"none"}
  /\ arrived \in [Sessions -> 0 .. Copies]
  /\ known \in SUBSET Sessions
  /\ deleted \in [Sessions -> 0 .. Copies]
  /\ th \in [Threads -> ThreadStates]

Linked(e) == e \in ToSet(chain[KeyOfEntry(e)])
AtRest == fault = "none" /\ \A t \in Threads : th[t].pc = "idle"

\* Handlers of Delete Session Responses that have counted e when they looked t2 up.
Keepers(e) == {t \in Threads : th[t].held = e /\ th[t].pc # "ref"}

\* Handlers that have e in hand and will give it up next: they have looked it up,
\* or have unlinked it and owe the map's own reference.
Users(e) ==
  {t \in Threads : /\ th[t].e = e
                   /\ th[t].pc = "unref" \/ (th[t].op = "lookup" /\ th[t].pc = "read")}

\* The count of a map node is exact at every moment, for any interleaving of
\* lookups, creations and deletions: one for the map and one for each handler
\* that has the node in hand.
EntryRefsExact ==
  \A e \in Entries :
    entry[e].mem = "live" =>
      entry[e].ref_count =
        (IF Linked(e) THEN 1 ELSE 0) + Cardinality(Keepers(e)) + Cardinality(Users(e))

\* When no handler runs, what is allocated is what the maps reach: each live
\* map node is linked and counted once, and a tunnel node lives exactly as
\* long as a map node refers to it and counts those that do.  (A tunnel node of
\* an unknown gateway never enters the maps; it is an "orphan" here.)
RestAccounted ==
  AtRest =>
    /\ \A e \in Entries :
         entry[e].mem = "live" <=> Linked(e) /\ entry[e].ref_count = 1
    /\ \A u \in Tunnels :
         LET users == {e \in Entries : TunnelOf(e) = u /\ entry[e].mem = "live"}
         IN /\ users # {} => tunnel[u].mem = "live" /\ tunnel[u].ref_count = Cardinality(users)
            /\ tunnel[u].mem = "live" => users # {}

\* The keys of session s are its own.
Apart(s) ==
  \A u \in Sessions \ {s} : \A q, r \in Roles : KeyOf[s][q] # KeyOf[u][r]

\* "the t2 is in map": the handler of a Delete Session Response finds the t2 of its
\* session, unless a response for that session has been handled before (a
\* retransmission), or another endpoint has chosen a TEID of that session too; with
\* any number of threads at work and whatever happens to other sessions.
NullExplained == fault = "null" => deleted[victim] > 0 \/ ~Apart(victim)

\* Only sharing of its own keys makes the handler miss one of the other keys of a
\* session, where found_node is left uninitialised.
FaultsExplained ==
  /\ NullExplained
  /\ fault = "wild" => ~Apart(victim)

\* What lib/cmap.h asks of writers: no element is freed before the readers have
\* finished with it.
NoUseAfterFree == fault # "use_after_free"

\* Map nodes of session s under its key of role r.
NodesOf(s, r) == {e \in ToSet(chain[KeyOf[s][r]]) : e[1] = s /\ e[3] = r}

\* "delete t2 [...], t4, t5, ueip in map": a session with keys of its own has, at
\* each of its keys, one map node for each Create Session Response handled that
\* no Delete Session Response has taken away, whatever happens to sessions that
\* share keys.  With one response of each kind nothing is left; the nodes of a
\* repeated Create Session Response stay until as many deletions have come.
SessionBalance ==
  AtRest =>
    \A s \in {u \in Sessions : Apart(u)} : \A r \in Roles :
      Cardinality(NodesOf(s, r)) + deleted[s]
        = Cardinality({n \in 1 .. arrived[s] : tunnel[<<s, n>>].mem # "orphan"})
=============================================================================
