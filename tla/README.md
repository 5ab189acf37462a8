# A verification project for linkerovs

linkerovs is a bundle of Open vSwitch 2.5, DPDK 2.2.0 and QEMU 2.4.1.  What is
the repository's own is the GTP manager in `src/ovs-branch-2.5-dpdk`: it makes
ovs-vswitchd spread the sessions of a mobile core over packet gateways (PGWs)
that run in virtual machines behind the switch.  The project models that
manager, with the threads that run it, and the parts of Open vSwitch that carry
it: read-copy-update, the concurrent hash map that holds its sessions, the
sequence numbers its threads sleep on, and the flow cache that keeps what it has
decided about a packet.

## Inventory

| Component | State | Operations | Who calls them |
|---|---|---|---|
| Gateway registry, `ofproto/gtp-manager.c` | `pgw_list`, `current`, `end` | `gtp_manager_add_pgw`, `_del_pgw`, `_get_pgw`, `_find_pgw` | main thread (`handle_flow_mod`), upcall threads (`handle_gtpc_message`) |
| Session tables, `ofproto/gtp-manager.c` | `teid2pgw`, `ueip2pgw`, map nodes, `gtp_tunnel_node` | `put`, `get`, `del` by TEID and by UE address | upcall threads |
| GTP packet handling, `ofproto/gtp-manager.c` | `ovs_id`, `ovs_total`, `ovs_phy_port`, `pgw_fastpath` | `handle_gtp`, `handle_pgw_sgi`, `gtp_manager_set_params` | upcall threads (`do_xlate_actions`), main thread |
| RCU, `lib/ovs-rcu.c` | `global_seqno`, `ovsrcu_threads`, `perthread`, `flushed_cbsets` | quiesce, join, leave, synchronize, postpone, the urcu thread | every thread |
| seq and poll loop, `lib/seq.c`, `lib/latch-unix.c`, `lib/poll-loop.c` | counters, waiters, latches | `seq_change`, `seq_read`, `seq_wait`, `poll_block` | every thread |
| cmap, `lib/cmap.c` | buckets | find, insert, remove, rehash | everyone; readers take no lock |
| Upcalls and flow cache, `ofproto/ofproto-dpif-upcall.c`, `lib/dpif-netdev.c` | ukeys, datapath flows | install, revalidate, delete | handlers, revalidators, PMD threads |
| OpenFlow extension, `lib/ofp-actions.c` | none | encode, decode, parse, format the GTP actions | main thread |
| The rest of Open vSwitch, DPDK, QEMU | - | unchanged third-party code | - |
| `ovs_add_action`, `ovs_add_key` | - | earlier experiments, not built by `build.sh` | - |

How they interact.  A controller sends flow_mods whose actions carry a GTP
operation; `handle_flow_mod` (main thread) then changes the registry or the
parameters and adds no flow.  Packets that match a flow with `handle_gtp` or
`handle_pgw_sgi` are translated by upcall threads (handler threads, or the PMD
threads with DPDK), which read the registry and read and write the session
tables while the main thread runs.  Nothing serialises the two sides: the mutex
`mutex` is taken by `gtp_manager_init` and `gtp_manager_set_params` only.

What is hard: lock-free access to the registry; map nodes that are found
without a lock and freed without a grace period; a tunnel node's count that no
lock protects; GTP-C messages that are retransmitted; slots that are reused
while sessions still hold their index; and in RCU, the order in which sequence
numbers are read, published and compared, and two waits that must not lose a
wakeup.  The four parameters are declared `OVS_GUARDED_BY(mutex)` and read
without it: `switches` shows a request compared with half of a configuration,
up to a remainder by zero (`DivideByZero`).  PROJECT.json lists each with its line.

In cmap: readers that take no lock while nodes move between buckets.  In seq: a
change at every moment between reading, waiting and sleeping.  In the flow
cache: translations that are stale when they are installed, and handlers, PMD
threads and revalidator that disagree about which flows exist.

What makes each part correct.  Registry: scans stay inside the list, packets of
a session reach the gateway that created it, the round robin forgets no
gateway.  Session tables: counts are exact, nothing is used after it was freed,
nothing is lost, a deleted session is gone.  RCU: no callback and no return from
`ovsrcu_synchronize` before the grace period, order per thread, and progress.
cmap: a search finds what is in the map throughout, and nothing else.  seq: a
thread that waits for a number wakes when it is no longer the number.  Flow
cache: a datapath flow that disagrees with the OpenFlow tables is known to be
stale, and goes or is corrected.

## Modules

`GtpPgw` models the registry.  A field of a slot holds the gateway whose value
it is, or `NoPgw` for zero; `cfg` holds the stores that the main thread has
still to make; `hnd` the locals of each upcall thread; `bound` the `pgw_index`
that each session has stored.  Every load and store of a shared field is a step
(`StoreField`, `LoadField`, `GetPgwTake`, `StoreCurrent`, ...), because no lock
makes them larger, and the stores of one operation may come in any order.
History members (`gone`, `whole`) say whether a session's gateway was deleted
and whether the main thread wrote the slot during a translation; no guard reads
them.

`GtpTunnel` models the session tables.  `chain` gives for each key the linked
map nodes, newest first; `entry` and `tunnel` the memory and the counts; `th`
the locals of each thread.  A lookup is find, count, read, give up; giving up is
a decrement under the node's mutex and then a load, a store and a test of the
tunnel count under no lock.  A null dereference, a wild pointer, a use after
free, and a second `cmap_remove` of one node (the assertion, or a walk off the
end of a chain that has other nodes) stop the model in `fault`; `victim` is
history and names the session whose handler met it.  Messages may arrive up to
`Copies` times.

`OvsRcu` models `lib/ovs-rcu.c` and what it needs of seq, thread creation and
the poll loop: a thread joins in two steps (read of `global_seqno`, push to the
list), quiesces in four (read, store, flush, change), and so on; `pc` holds the
place, `after` and `ret` what follows a flush and a call.  A callback is where
`loc` says: `none`, `cbset`, `flushed`, `batch`, `done`.  `blockers` and
`waitfor` are history: the threads that were active at the postponement, or at
the call of `ovsrcu_synchronize`, and have not quiesced since.

`GtpSwitches` puts several switches between one serving gateway and the packet
gateways, at the level of whole handlers: which switch selects itself
(`Select`), which forwards, what `gtp_manager_set_params` changes meanwhile, one
load and one store at a time, and what a restart loses.  Registry and tables are
reduced to what one gateway per switch and single operations need; `GtpPgw` and
`GtpTunnel` have them in detail.  The serving gateway sends every message to all
switches, which is what the selection by sequence number presupposes; it, the
gateways and the links are external.  A packet that is never handled is lost, and
a Delete Session Response may be handled again and again.  Create Session
Responses come once, and sessions have their own keys: `GtpTunnel` has what
repeated responses and shared keys leave in the tables.  `seen`, `taken`, `home`,
`lost` and `ended` are history.

`Cmap` models `lib/cmap.c`: the cuckoo hash with one writer and readers without
a lock.  `impls` are the `cmap_impl`s that a reader may still hold, each with
its buckets of counter, hashes and nodes; `next` the chains.  Every store of
`cmap_set_bucket` and every load of a reader is a step (`SetOdd`, `SetNode`,
`SetHash`, `SetEven`; `ReadEvenCounter`, `ReadHash`, `ReadNode`,
`CounterCheck`, `Recheck`), in program order, which the acquire and release
operations of the code guarantee.  Where an insertion puts a node, the search for
a cuckoo path included, is a pure operator that yields the stores to make
(`cmap_try_insert`).  A rehash works on memory that no reader sees and is one
step.  `contents`, and `must`, `may`, `seen` of a reader, are history.
`ConcurrentMap` is what cmap.h promises, with the map as a set of nodes; `Cmap`
implements it under the mapping at its end.

`Seq` models `lib/seq.c`, the latch and the poll loop.  Each function of seq.c
holds `seq_mutex` throughout and is one step; `poll_block` is three.  `latch`
counts the bytes in the pipe, of which one `latch_poll` reads `PipeBuf`;
`polled` says whether the latch is registered for the next `poll`.  `SeqWait` is
the promise of seq.h in terms of `value`, `awaited` and `blocked` alone; `Seq`
implements it, fairness included, and `OvsRcu` uses it: a wait there ends when
the number differs from the one read.

`FlowCache` models `ofproto-dpif-upcall.c`.  `dp` is the datapath's flow table,
`ukey` the map of udpif_keys, `hnd` the upcall of each flow, `rev` the leading
revalidator with its batch of operations.  `netdev` chooses between the two ways
of installing: handlers hold the ukey's mutex from `UkeyInstall` to `Finish`;
PMD threads put ukey and `flow_exists` first and the flow later (`Put`).  `kind`
says which flows belong to the GTP manager: they are translated from its
sessions, and `Retranslated` is what a revalidation without the packet makes of
them.  Since every test of a `dump_seq` is for the current one, ukeys hold the
answer, and `EndRound` clears it.  `NoPort` is the one way a handler installs a
flow without a ukey: the packet came from a port of no bridge.  An insertion
during a sweep sets `moved`: from then on the cursor of the sweep may miss ukeys,
meet a ukey again (`Meets`), or meet one that it has deleted (`Bury`,
`SweepMeetsDeleted`), because a move puts a node ahead of the cursor and the
cursor goes on in a `cmap_impl` that an enlarged map no longer uses.  A deletion of
a ukey that is not in the map ends the process.  `astray` is history: flows adopted
after a restart, flows for a port of no bridge, flows whose last operation failed or
was made for a deleted ukey, flows a PMD thread added too late.

`MCGtpPgw`, `MCGtpTunnel`, `MCGtpSwitches`, `MCOvsRcu`, `MCCmap`, `MCSeq` and
`MCFlowCache` instantiate these modules for TLC.  `GtpPgwProofs`,
`GtpTunnelProofs`, `GtpTunnelOneProofs` (the results that need a single upcall
thread), `GtpSwitchesProofs`, `OvsRcuProofs`, `SeqProofs`, `FlowCacheProofs` and
`CmapProofs` hold the proofs.  A definition whose comment says "Mutant" is a
plausible mistake in the definition after it; putting it in that place must make
a property fail.

## Runs

Passing runs:

* `pgw_registry` (the main thread and 1 upcall thread, 2 gateways, 2 slots, 1
  session): slots read are slots handed out, sessions follow their gateway, and
  a new session reaches a gateway whenever slot 0 holds one.  Two slots are
  enough for an empty slot below a used one, reuse, append, wrap and a full list;
  the proofs cover any number.
* `pgw_round_robin` (2 upcall threads, 1 gateway, 3 slots): a gateway that stays
  is selected again and again.  Slots may be given to the same gateway more than
  once, and three of them let one thread overtake another by more than one place.
* `tunnel_lifecycle` (1 thread, 3 sessions, each response up to twice, keys all
  different, one key of the first session shared by the second in one of four
  ways, or two TEIDs of the first session the same): memory and counts agree with
  the maps; a handler meets a missing `t2` only if the session it is about was
  deleted before or shares a key, and another missing key only if that session
  shares one; the third session, which shares nothing, keeps one node
  per key for each creation that was not deleted.
* `tunnel_threads` (2 threads, 1 session, each response twice): the count of a
  map node stays exact, and `t2` is missing only if the session was deleted
  before; this much survives both threads and duplicates.
* `switches` (2 switches, 1 request, 1 session, 2 configurations, 1 restart): the
  second switch joins while a session is created and deleted; the second
  configuration also turns on the fast path of the first switch.  One restart
  is enough to empty the tables between any two steps of a session.  Handlers
  crash on a Delete Session Response for a session that a restart has lost or that
  an earlier response has ended, on a request handled while the parameters change,
  and on nothing else.
* `rcu_safety` (2 threads and urcu, 1 callback): the grace period.
* `rcu_liveness` (1 thread and urcu, 2 callbacks, cbsets of 2): order and
  progress.  A callback may postpone another.  `MaxSeq` bounds `global_seqno`
  for quiescent states that nobody waits for; one thread may still quiesce twice
  while another synchronizes.
* `cmap` (6 nodes, two with the same hash, buckets of 2, two hash functions, one
  reader, 2 calls of the writer after one of three set-ups): refinement of
  `ConcurrentMap`, the single chain per hash, the assertion of `cmap_rehash`, and
  iterations.  The set-ups leave a full first bucket, so that the next insertion
  moves a chain from its second bucket to its first, or two nodes along a path;
  insertions from the empty map enlarge it, removals shrink it.  The longer a
  path, the more moves of the same kind; two hops have a first, a middle and a
  last bucket.  Calls are bounded because a search overlaps few of them.  A
  `MinLoad` of 40 in place of 20 percent lets a small map shrink.
* `seq` (2 threads, 2 seqs, 3 numbers, a pipe read one byte at a time): no lost
  wakeup, and refinement of `SeqWait`.  Two seqs leave two bytes in the latch of
  one thread; three numbers allow a change after the one waited for, and a seq
  destroyed and created anew.
* `flow_cache` (1 flow of the tables next to 1 of the GTP manager, either
  datapath, any flows left by a former process, 1 change of the tables, 1 failing
  operation or packet from a port of no bridge): one change may fall anywhere in an upcall, a dump and a sweep; two
  flows are needed for the sweep to meet one while the other is installed.  In one
  sweep a ukey is met again at most once in the map, and once after its deletion.
  The flow of the GTP manager is one that both datapaths may cache; one that
  `handle_upcalls` keeps out behaves as one that is declined every time.

Violation runs, each a finding of PROJECT.json: `pgw_slot_reuse` and
`tunnel_free`.  Each checks one sentence of a comment or of a log message, the
first on the instance of `pgw_registry`, the second with two threads.

Where the code falls short of a comment in a way that a passing run describes
exactly, the property says when, and no run of its own repeats it:

* `gtp_manager_get_pgw` returns slot 0 when its scan falls off the end, empty or
  not (`NewSessionReachesPgw`, which asks for slot 0 to be in use).
* "the t2 is in map" fails after a retransmitted Delete Session Response, and a
  retransmitted Create Session Response leaves nodes behind (`FaultsExplained`,
  `SessionBalance`).
* "Ensures flows are only deleted once" (`flow_exists`, `ofproto-dpif-upcall.c:251`)
  fails when a handler inserts into the umap that the sweep iterates over: the
  sweep leaves `flow_exists` set, meets a ukey again, and `cmap_remove` crashes on
  a ukey that is not in the map.  `FlowCache` then ends in `abort`; the safety
  properties hold up to there, and `EventuallyRight` exempts it.
* "Verifies that the datapath actions of 'ukey' are still correct" does not hold
  of flows that `handle_pgw_sgi` translated: without a packet it does nothing, so
  a revalidation turns them into drops, and session changes start none.  The
  promises of `FlowCache` are about the other flows.
* Flows adopted after a restart are given the current `reval_seq` and a copy of
  the wrong memory (`&flow->actions`); a packet from a port of no bridge installs
  a flow without a ukey; a PMD thread that is slow adds a flow whose ukey is gone.
  They are `astray`, and `FlowsTracked` names each reason.
* "GTP service" is kept out of the cache by `handle_upcalls` and not by
  `upcall_cb`, which DPDK uses (`Cacheable`).

`cmap_find_protected` is not modelled; its second bucket is computed from the
client's hash instead of the rehashed one (`lib/cmap.c:502`), so it may miss
nodes that `cmap_find` finds.

`CHECK_DEADLOCK FALSE` is set where a model may stop: after an assertion or a
fault, when all messages have come, or at the bound on `global_seqno`.

Fairness.  `GtpPgw!FairSpec`: a scan, a translation and the stores of the main
thread, once begun, go on; nothing makes packets arrive, and `RoundRobin` asks
for requests to keep coming.  `OvsRcu!FairSpec`: a thread in a function of the
library goes on; a thread that something waits for calls `ovsrcu_quiesce` in the
end, because every thread of ovs-vswitchd loops through `poll_block` or, as PMD
threads do, calls it directly; the urcu thread runs.  `Seq!FairSpec`: the kernel
ends a `poll` that has something to report, and the thread then gets to
`seq_woke`; nothing makes a seq change.  `FlowCache!FairSpec`: an upcall once
begun goes on, `type_run` is called again, and the revalidator goes on, since the
timer of its leader ends every sleep; nothing makes packets arrive.

## Proofs

`GtpPgwProofs`, for any gateways, slots, threads and sessions, from
`PgwAssumption`: `TypeCorrect`, `UsedSlots` and `Affinity`.  `TypeOK` is not
inductive: that a translation indexes `pgw_list` within bounds needs that an
index taken from a scan or a session is below `end`, or 0, and that `end` never
shrinks (`IndexInv`).  Session affinity needs in addition (`AffinityInv`) that
the slot of a session whose gateway is not gone belongs to that gateway or is
being rewritten by a deletion that has marked the session, and that what a
thread has loaded so far is that gateway's as long as `whole` holds.

`OvsRcuProofs`, for any threads, callbacks and cbset size, from
`RcuAssumption`: `RcuTypes`, `GracePeriodHolds`, `SynchronizeHolds`,
`OrderHolds`.  The invariant `Inv` says: a running thread is in the list
(`ListInv`); a number about to be published is not ahead of `global_seqno`
(`ReadInv`); a thread that is waited for is active and has published nothing
above the target (`WaitInv`), hence the test of the loop cannot pass while one
is left (`SyncedInv`); while the urcu thread synchronizes, the callbacks of its
batch wait for no more threads than it does, and after that for none
(`BlockInv`); and no callback is ahead of an earlier one of the same thread
(`OrderInv`).

`GtpPgwProofs` also has `NewReaches`, which needs
(`NewInv`) that a scan which began with the registry at rest, the main thread
having written nothing since, stops at a slot in use or at slot 0, and that what
was loaded of the slot is still there; other threads may move `current`
meanwhile.

`SeqProofs`, for any threads, seqs and size of the latch's reads, from
`SeqAssumption`: `SeqTypes`, `WaitersHold`, `WakeupsHold` and `Refinement`.
`NoLostWakeup` speaks of threads in `poll` only; the invariant carries it through
the whole loop: each pair given to `seq_wait` has a waiter for the number that the
seq still has, or something that ends the `poll` (`CoverInv`), and a thread with a
waiter has its latch registered until `poll` returns (`LatchInv`).  `Refinement`
shows that every step of `Seq` is one of `SeqWait` or leaves its variables alone.

`GtpSwitchesProofs`, for any switches, requests, sessions, configurations and
restarts, from `SwitchesAssumption` (in each configuration the switches agree on
`ovs_total` and each remainder belongs to one of them): `SwitchTypes`, `OneTakes`,
`ViewAgrees`, `CrashesHold`.  What a handler has loaded belongs to the
configuration it noted, or is mixed (`ParInv`, `LoadInv`); a request still to be
handled by a switch has left no trace of it (`OnceInv`), so that what a switch
took is what its configuration gives it (`SelectInv`); a session is at one switch
(`HomeInv`), and the serving gateway's view lags behind by the response under way
(`CreateInv`, `DeleteInv`, `ViewInv`), so that the first Delete Session Response
finds the session unless its switch has restarted.

`FlowCacheProofs`, for any flows, actions, changes and failures and for both
datapaths, from `FlowCacheAssumption`: `CacheTypes`, `StaleHolds`, `TrackedHolds`,
`BackedHolds`.  `StaleMarked` rests on two facts about a flow that
is not astray and has no operation queued: its ukey has its actions (`SameInv`),
and if the ukey carries the current `reval_seq` those are the tables' (`FreshInv`).
To keep them, the invariant follows a batch of operations until it is pushed: one
operation per flow while dumping (`DumpInv`), no later operation after a
modification (`ModifyInv`), the ukeys of a sweep stay until it is done
(`SweepInv`).  A sweep that meets a ukey again queues a second operation for it;
operations for ukeys that are deleted are told apart (`Again`), since they no longer
say anything about the flow's present ukey.

`GtpTunnelProofs`, for any finite set of threads, any sessions and keys, shared
or not, and any number of retransmissions, from `TunnelAssumption`: `RefsExact`
and `NullHolds`.  The count of a map node is a cardinality, so the proof shows for
each step that the set of those who keep the node changes by one element or not at
all.  For that it needs that nodes still to be put are unused and belong to one
handler (`OwnInv`), that a node in hand is not one of those (`HandInv`), that a
node on its way to `free` is out of the map (`OutInv`), and that a linked node is
linked once, under its own key, and is not freed (`ChainInv`).  `NullExplained` needs
in addition that a deletion in one session does not touch the nodes of a session
that shares no key (`ApartInv`) and that until its first deletion such a session
has a `t2` in the map (`KnownInv`).

`GtpTunnelOneProofs`, with one thread: `TunnelTypes`, `NoDangling`, `Accounted`,
`Balanced`, `FaultsHold`.
The hypothesis is necessary: the count of a tunnel node is changed under no lock,
and the run `tunnel_free` shows two threads free it early.  With one thread the
count is the number of map nodes that are allocated or still to be put, less the
one about to be freed (`TunInv`), what the handler has loaded of it is what it is
(`LoadInv`), and what the handler has in hand is allocated (`MemInv`).
`SessionBalance` and `FaultsExplained` are about sessions that share no key with
another.  The chains hold the nodes of such a session newest first (`OrderInv`),
so a deletion undoes the newest creation that is left; the creations that are
left and the deletions are as many as the creations (`BalanceInv`).  While a
deletion is at work, there is one node of that creation at each key it has still
to clear (`LeftOf`), which need not be the node of that role: a session whose own
keys coincide deletes one for another, and the invariant says so.

`CmapProofs`, for any nodes, readers, hash functions, slots per bucket, load
limits, depth of the search and calls, from `CmapAssumption`: `TypeCorrect`,
`AlwaysFits`, `ChainsStand`, `IterationsOnce` and `Refinement`.  The assumption
asks for two slots per bucket or more, for limits with `2 * MinLoad < MaxLoad`,
and for a `MaxLoad` that lets the smallest table hold a node; 5 slots, 20 and 85
percent satisfy it.

The writer's invariant is `MapOK`.  At rest, every linked node is in one chain,
at the slot where `SlotOf` looks for its hash, and `n` counts the contents
(`RestOK`, `CountOK`).  Inside `cmap_set_bucket` the table is the one before the
insertion with the first stores of the plan made, the store under way as far as
`w.pc` says (`MidAt`).  That a plan ends in such a table needs that the stores
are to different buckets and that each goes to a slot that is empty or whose
chain the store before it has copied on: a shortest path visits every bucket
once, and all but the last are full (`Bfs`, `PlanGood`).  That a rehash moves
every chain is an induction over the slots of the old table, and what `Paths`
yields is one over the length of a path; both use a lemma of induction that
takes the property as a set of numbers, which the provers can instantiate.

The readers' invariant is `ReadersOK`.  Before a search has found a chain, what
it knows of a bucket holds if the counter is still the one it has read: the
slots before the one it is at do not have the hash, and after a look in vain no
chain with the hash is there (`SearchOK`).  A node that has to be visited is
always in one of the two buckets, because a move stores the copy before the
original is overwritten; if it is not in the second, it is in the first, whose
counter has then changed since the search looked there, and the last check sends
the search back.  A search that ends without a chain therefore has nothing to
visit.  In a chain, what has to be visited is ahead and what has been visited is
not (`WalkOK`), also for a reader at a removed node, whose chain leads on into
the map until the grace period is over (`LiveOK`).  An iteration without
insertions sees a table in which each hash stays in its slot, so what is ahead
of the cursor is what has not been visited (`OnceOK`).  Each step of the writer
is summed up for the readers once (`Passes`: how the chains are relinked, what
becomes of the tables, what enters the histories), and the readers' invariant is
shown to survive any such step.

`Refinement` then maps the calls of the writer to `Call`, the stores that end
them to `Return`, the start, the visits and the end of a search to `Begin`,
`Visit` and `End`, and every other step to none.

Only model-checked: liveness (`RoundRobin`, `EventuallyCalled`,
`SynchronizeReturns`, `EventuallyRight`, the fairness of `SeqWait`), which the
prover does not do.  That searches end is not stated: a reader may spin for as
long as the writer goes on changing its bucket.

## Not modelled

Wording and logging; `gtp_manager_dump`; the byte layout of GTP messages
(a handler's input is what the parser found); the fast path, which the code
answers with a log message.  In cmap: `cmap_find_protected`,
`cmap_next_position`, `cmap_destroy`, and `MAX_QUEUE`, which cuts the search for
a path short in large maps and then leads to a rehash, which is modelled.  In
the flow cache: more than one revalidator and the barriers between them,
`dp_purge_cb`, recirculation references, statistics, flow limits (a choice to
decline or delete), and megaflows that cover each other.  Memory orders weaker
than program order.  Everything upstream listed as such in PROJECT.json: DPDK,
QEMU and most of Open vSwitch are third-party code in this repository, and their
five million lines are outside the scope of the project.

## Plan

The order was: the registry, the session tables, RCU, the switches that compose
the handlers; then cmap, seq and the flow cache below them.  These are done.
What is left, most important first:

1. Several revalidators with their barriers and `udpif_pause_revalidators`.
2. rconn and reconnect: back-off, probes, fail-open.
3. An instance of `GtpSwitches` with user data and two gateways per switch.
