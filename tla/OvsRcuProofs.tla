---------------------------- MODULE OvsRcuProofs ----------------------------
(***************************************************************************)
(* Proofs about OvsRcu, for any set of threads and callbacks and any size  *)
(* of a cbset.  The inductive invariant Inv says where each thread stands  *)
(* with respect to the list ovsrcu_threads, what a thread that is waited   *)
(* for has published, and how far the callbacks of one thread may be from  *)
(* each other on their way through cbset, flushed_cbsets and the batch     *)
(* that the urcu thread has taken.                                         *)
(***************************************************************************)
EXTENDS OvsRcu, TLAPS

Flushing(p) == pc[p] \in {"fpush", "fnotify"}

\* A thread that runs between joining and leaving is in the list.
Joined(p) ==
  \/ pc[p] \in {"run", "pop", "popped", "wait", "call",
                "fpush", "fnotify", "qstore", "qchange"}
  \/ pc[p] = "quiesced" /\ ret[p] = "run"

\* A thread on its way out of the list, or just out of it.
Leaving(p) == pc[p] \in {"unreg", "uchange"} \/ (Flushing(p) /\ after[p] = "unreg")

\* A thread in ovsrcu_quiesce(), which it leaves as it came: in the list.
Quiescing(p) == pc[p] \in {"qstore", "qchange"} \/ (Flushing(p) /\ after[p] = "qchange")

ListInv ==
  \A p \in Participants :
    /\ Joined(p) => p \in ovsrcu_threads
    /\ Leaving(p) => ret[p] # "run"
    /\ Quiescing(p) => ret[p] = "run"

\* The sequence number that a thread is about to publish is no newer than
\* global_seqno.
ReadInv ==
  \A p \in Participants : pc[p] \in {"reg", "qstore"} => val[p] <= global_seqno

\* Before the first ovs_thread_create() there is only the main thread.
AloneInv == ~multithreaded => \A p \in Participants \ {Main} : pc[p] = "off"

\* p is in ovsrcu_synchronize(), after the read of target_seqno.
InSync(p) ==
  \/ pc[p] \in {"sync", "check", "swait"}
  \/ (Leaving(p) \/ pc[p] = "quiesced") /\ ret[p] = "sync"

\* A thread that a caller of ovsrcu_synchronize() must wait for has not
\* published a sequence number above the target.
WaitInv ==
  \A p, q \in Participants :
    q \in waitfor[p] => Active(q) /\ (InSync(p) => seqno[q] <= target_seqno[p])

SyncedInv == \A p \in Participants : pc[p] = "synced" => waitfor[p] = {}

\* The urcu thread is past the grace period of its batch.
Calling ==
  \/ pc[Urcu] \in {"synced", "reg", "call"}
  \/ Flushing(Urcu) /\ after[Urcu] = "call"

\* What a callback waits for: while the urcu thread synchronizes, no more
\* than it waits for itself; after that, nothing.
BlockInv ==
  \A c \in Callbacks :
    /\ \A q \in blockers[c] : Active(q)
    /\ loc[c] = "batch" =>
         \/ pc[Urcu] = "popped"
         \/ InSync(Urcu) /\ blockers[c] \subseteq waitfor[Urcu]
         \/ Calling /\ blockers[c] = {}
    /\ loc[c] = "done" => blockers[c] = {}

\* A callback is never ahead of an earlier one of the same thread.
OrderInv ==
  /\ \A c \in Callbacks :
       /\ loc[c] # "none" => num[c] < posts[owner[c]]
       /\ loc[c] \in {"flushed", "batch"} => flush[c] < flushes
  /\ \A c, d \in Callbacks :
       owner[c] = owner[d] /\ num[c] < num[d] /\ loc[c] # "none" /\ loc[d] # "none" =>
         /\ loc[c] = "cbset" => loc[d] = "cbset"
         /\ loc[c] = "flushed" => loc[d] \in {"cbset", "flushed"}
         /\ loc[c] = "batch" => loc[d] \in {"cbset", "flushed", "batch"}
         /\ loc[c] \in {"flushed", "batch"} /\ loc[d] \in {"flushed", "batch"}
              => flush[c] <= flush[d]

Inv ==
  TypeOK /\ ReadInv /\ ListInv /\ AloneInv /\ WaitInv /\ SyncedInv /\ BlockInv /\ OrderInv
-----------------------------------------------------------------------------
\* Every step keeps the types and keeps sequence numbers behind global_seqno.
LEMMA TypeStep == Inv /\ [Next]_vars => TypeOK'
<1> SUFFICES ASSUME Inv, [Next]_vars PROVE TypeOK'
  OBVIOUS
<1> USE RcuAssumption DEF Inv, Participants
<1>1. CASE BecomeMultithreaded
  BY <1>1 DEF BecomeMultithreaded, TypeOK, ReadInv, Steps, Places, seqs, list,
     cbs, locals, hist
<1>2. ASSUME NEW p \in Participants, RegisterRead(p) PROVE TypeOK'
  BY <1>2 DEF RegisterRead, Goto, TypeOK, ReadInv, Steps, Places, seqs, list,
     cbs, locals, hist
<1>3. ASSUME NEW p \in Participants, RegisterPush(p) PROVE TypeOK'
  BY <1>3 DEF RegisterPush, Goto, At, TypeOK, ReadInv, Steps, Places, seqs,
     list, cbs, locals, hist
<1>4. ASSUME NEW p \in Participants, Quiesce(p) PROVE TypeOK'
  BY <1>4 DEF Quiesce, Goto, Quiescent, TypeOK, ReadInv, Steps, Places, seqs,
     list, cbs, locals, hist
<1>5. ASSUME NEW p \in Participants, QuiesceStart(p) PROVE TypeOK'
  BY <1>5 DEF QuiesceStart, Goto, Quiescent, FlushThen, CbsetOf, TypeOK,
     ReadInv, Steps, Places, seqs, list, cbs, locals, hist
<1>6. ASSUME NEW p \in Participants, Synchronize(p) PROVE TypeOK'
  BY <1>6 DEF Synchronize, Goto, FlushThen, CbsetOf, TypeOK, ReadInv, Steps,
     Places, seqs, list, cbs, locals, hist
<1>7. ASSUME NEW p \in Participants, FlushPush(p) PROVE TypeOK'
  BY <1>7 DEF FlushPush, Goto, CbsetOf, TypeOK, ReadInv, Steps, Places, seqs,
     list, cbs, locals, hist
<1>8. ASSUME NEW p \in Participants, FlushNotify(p) PROVE TypeOK'
  BY <1>8 DEF FlushNotify, Goto, TypeOK, ReadInv, Steps, Places, seqs, list,
     cbs, locals, hist
<1>9. ASSUME NEW p \in Participants, QuiesceStore(p) PROVE TypeOK'
  BY <1>9 DEF QuiesceStore, Goto, FlushThen, CbsetOf, TypeOK, ReadInv, Steps,
     Places, seqs, list, cbs, locals, hist
<1>10. ASSUME NEW p \in Participants, QuiesceChange(p) PROVE TypeOK'
  BY <1>10 DEF QuiesceChange, Goto, TypeOK, ReadInv, Steps, Places, seqs,
     list, cbs, locals, hist
<1>11. ASSUME NEW p \in Participants, QuiescedAlone(p) PROVE TypeOK'
  BY <1>11 DEF QuiescedAlone, Goto, TypeOK, ReadInv, Steps, Places, seqs,
     list, cbs, locals, hist
<1>12. ASSUME NEW p \in Participants, Quiesced(p) PROVE TypeOK'
  BY <1>12 DEF Quiesced, Goto, TypeOK, ReadInv, Steps, Places, seqs, list,
     cbs, locals, hist
<1>13. ASSUME NEW p \in Participants, Unregister(p) PROVE TypeOK'
  BY <1>13 DEF Unregister, Goto, TypeOK, ReadInv, Steps, Places, seqs, list,
     cbs, locals, hist
<1>14. ASSUME NEW p \in Participants, SyncRead(p) PROVE TypeOK'
  BY <1>14 DEF SyncRead, Goto, TypeOK, ReadInv, Steps, Places, seqs, list,
     cbs, locals, hist
<1>15. ASSUME NEW p \in Participants, SyncDone(p) PROVE TypeOK'
  BY <1>15 DEF SyncDone, Goto, GraceOver, TypeOK, ReadInv, Steps, Places,
     seqs, list, cbs, locals, hist
<1>16. ASSUME NEW p \in Participants, SyncBlock(p) PROVE TypeOK'
  BY <1>16 DEF SyncBlock, Goto, GraceOver, TypeOK, ReadInv, Steps, Places,
     seqs, list, cbs, locals, hist
<1>17. ASSUME NEW p \in Participants, SyncWake(p) PROVE TypeOK'
  BY <1>17 DEF SyncWake, Goto, TypeOK, ReadInv, Steps, Places, seqs, list,
     cbs, locals, hist
<1>18. ASSUME NEW p \in Participants, NEW c \in Callbacks, Postpone(p, c) PROVE TypeOK'
  BY <1>18 DEF Postpone, Goto, CbsetOf, TypeOK, ReadInv, Steps, Places, seqs,
     list, cbs, locals, hist
<1>19. CASE UrcuRead
  BY <1>19 DEF UrcuRead, Goto, TypeOK, ReadInv, Steps, Places, seqs, list,
     cbs, locals, hist
<1>20. CASE UrcuPop
  BY <1>20 DEF UrcuPop, Goto, At, TypeOK, ReadInv, Steps, Places, seqs, list,
     cbs, locals, hist
<1>21. CASE UrcuPopEmpty
  BY <1>21 DEF UrcuPopEmpty, Goto, At, TypeOK, ReadInv, Steps, Places, seqs,
     list, cbs, locals, hist
<1>22. CASE UrcuSleep
  BY <1>22 DEF UrcuSleep, Goto, Quiescent, FlushThen, CbsetOf, TypeOK,
     ReadInv, Steps, Places, seqs, list, cbs, locals, hist
<1>23. CASE UrcuNoSleep
  BY <1>23 DEF UrcuNoSleep, Goto, Quiescent, TypeOK, ReadInv, Steps, Places,
     seqs, list, cbs, locals, hist
<1>24. CASE UrcuWake
  BY <1>24 DEF UrcuWake, Goto, TypeOK, ReadInv, Steps, Places, seqs, list,
     cbs, locals, hist
<1>25. ASSUME NEW c \in Callbacks, UrcuCall(c) PROVE TypeOK'
  BY <1>25 DEF UrcuCall, Goto, At, Before, TypeOK, ReadInv, Steps, Places,
     seqs, list, cbs, locals, hist
<1>26. CASE UNCHANGED vars
  BY <1>26 DEF vars, seqs, list, cbs, locals, hist, TypeOK, ReadInv, Steps, Places
<1>27. QED
  BY <1>1, <1>2, <1>3, <1>4, <1>5, <1>6, <1>7, <1>8, <1>9, <1>10, <1>11,
     <1>12, <1>13, <1>14, <1>15, <1>16, <1>17, <1>18, <1>19, <1>20, <1>21,
     <1>22, <1>23, <1>24, <1>25, <1>26 DEF Next, Choose, Continue, UrcuLoop

\* A number read from global_seqno stays behind it.
LEMMA ReadStep == Inv /\ [Next]_vars => ReadInv'
<1> SUFFICES ASSUME Inv, [Next]_vars PROVE ReadInv'
  OBVIOUS
<1> USE RcuAssumption DEF Inv, Participants
<1>1. CASE BecomeMultithreaded
  BY <1>1 DEF BecomeMultithreaded, ReadInv, TypeOK, seqs, list, cbs, locals, hist
<1>2. ASSUME NEW p \in Participants, RegisterRead(p) PROVE ReadInv'
  BY <1>2 DEF RegisterRead, Goto, ReadInv, TypeOK, seqs, list, cbs, locals, hist
<1>3. ASSUME NEW p \in Participants, RegisterPush(p) PROVE ReadInv'
  BY <1>3 DEF RegisterPush, Goto, At, ReadInv, TypeOK, seqs, list, cbs, locals, hist
<1>4. ASSUME NEW p \in Participants, Quiesce(p) PROVE ReadInv'
  BY <1>4 DEF Quiesce, Goto, Quiescent, ReadInv, TypeOK, seqs, list, cbs,
     locals, hist
<1>5. ASSUME NEW p \in Participants, QuiesceStart(p) PROVE ReadInv'
  BY <1>5 DEF QuiesceStart, Goto, Quiescent, FlushThen, CbsetOf, ReadInv,
     TypeOK, seqs, list, cbs, locals, hist
<1>6. ASSUME NEW p \in Participants, Synchronize(p) PROVE ReadInv'
  BY <1>6 DEF Synchronize, Goto, FlushThen, CbsetOf, ReadInv, TypeOK, seqs,
     list, cbs, locals, hist
<1>7. ASSUME NEW p \in Participants, FlushPush(p) PROVE ReadInv'
  BY <1>7 DEF FlushPush, Goto, CbsetOf, ReadInv, TypeOK, seqs, list, cbs,
     locals, hist
<1>8. ASSUME NEW p \in Participants, FlushNotify(p) PROVE ReadInv'
  BY <1>8 DEF FlushNotify, Goto, ReadInv, TypeOK, seqs, list, cbs, locals, hist
<1>9. ASSUME NEW p \in Participants, QuiesceStore(p) PROVE ReadInv'
  BY <1>9 DEF QuiesceStore, Goto, FlushThen, CbsetOf, ReadInv, TypeOK, seqs,
     list, cbs, locals, hist
<1>10. ASSUME NEW p \in Participants, QuiesceChange(p) PROVE ReadInv'
  BY <1>10 DEF QuiesceChange, Goto, ReadInv, TypeOK, seqs, list, cbs, locals, hist
<1>11. ASSUME NEW p \in Participants, QuiescedAlone(p) PROVE ReadInv'
  BY <1>11 DEF QuiescedAlone, Goto, ReadInv, TypeOK, seqs, list, cbs, locals, hist
<1>12. ASSUME NEW p \in Participants, Quiesced(p) PROVE ReadInv'
  BY <1>12 DEF Quiesced, Goto, ReadInv, TypeOK, seqs, list, cbs, locals, hist
<1>13. ASSUME NEW p \in Participants, Unregister(p) PROVE ReadInv'
  BY <1>13 DEF Unregister, Goto, ReadInv, TypeOK, seqs, list, cbs, locals, hist
<1>14. ASSUME NEW p \in Participants, SyncRead(p) PROVE ReadInv'
  BY <1>14 DEF SyncRead, Goto, ReadInv, TypeOK, seqs, list, cbs, locals, hist
<1>15. ASSUME NEW p \in Participants, SyncDone(p) PROVE ReadInv'
  BY <1>15 DEF SyncDone, Goto, GraceOver, ReadInv, TypeOK, seqs, list, cbs,
     locals, hist
<1>16. ASSUME NEW p \in Participants, SyncBlock(p) PROVE ReadInv'
  BY <1>16 DEF SyncBlock, Goto, GraceOver, ReadInv, TypeOK, seqs, list, cbs,
     locals, hist
<1>17. ASSUME NEW p \in Participants, SyncWake(p) PROVE ReadInv'
  BY <1>17 DEF SyncWake, Goto, ReadInv, TypeOK, seqs, list, cbs, locals, hist
<1>18. ASSUME NEW p \in Participants, NEW c \in Callbacks, Postpone(p, c) PROVE ReadInv'
  BY <1>18 DEF Postpone, Goto, CbsetOf, ReadInv, TypeOK, seqs, list, cbs,
     locals, hist
<1>19. CASE UrcuRead
  BY <1>19 DEF UrcuRead, Goto, ReadInv, TypeOK, seqs, list, cbs, locals, hist
<1>20. CASE UrcuPop
  BY <1>20 DEF UrcuPop, Goto, At, ReadInv, TypeOK, seqs, list, cbs, locals, hist
<1>21. CASE UrcuPopEmpty
  BY <1>21 DEF UrcuPopEmpty, Goto, At, ReadInv, TypeOK, seqs, list, cbs,
     locals, hist
<1>22. CASE UrcuSleep
  BY <1>22 DEF UrcuSleep, Goto, Quiescent, FlushThen, CbsetOf, ReadInv,
     TypeOK, seqs, list, cbs, locals, hist
<1>23. CASE UrcuNoSleep
  BY <1>23 DEF UrcuNoSleep, Goto, Quiescent, ReadInv, TypeOK, seqs, list, cbs,
     locals, hist
<1>24. CASE UrcuWake
  BY <1>24 DEF UrcuWake, Goto, ReadInv, TypeOK, seqs, list, cbs, locals, hist
<1>25. ASSUME NEW c \in Callbacks, UrcuCall(c) PROVE ReadInv'
  BY <1>25 DEF UrcuCall, Goto, At, Before, ReadInv, TypeOK, seqs, list, cbs,
     locals, hist
<1>26. CASE UNCHANGED vars
  BY <1>26 DEF vars, seqs, list, cbs, locals, hist, ReadInv, TypeOK
<1>27. QED
  BY <1>1, <1>2, <1>3, <1>4, <1>5, <1>6, <1>7, <1>8, <1>9, <1>10, <1>11,
     <1>12, <1>13, <1>14, <1>15, <1>16, <1>17, <1>18, <1>19, <1>20, <1>21,
     <1>22, <1>23, <1>24, <1>25, <1>26 DEF Next, Choose, Continue, UrcuLoop

\* Every step keeps active threads in ovsrcu_threads.
LEMMA ListStep == Inv /\ [Next]_vars => ListInv'
<1> SUFFICES ASSUME Inv, [Next]_vars PROVE ListInv'
  OBVIOUS
<1> USE RcuAssumption DEF Inv, Participants
<1>1. CASE BecomeMultithreaded
  BY <1>1 DEF BecomeMultithreaded, ListInv, Joined, Leaving, Quiescing,
     Flushing, TypeOK, seqs, list, cbs, locals, hist
<1>2. ASSUME NEW p \in Participants, RegisterRead(p) PROVE ListInv'
  BY <1>2 DEF RegisterRead, Goto, ListInv, Joined, Leaving, Quiescing,
     Flushing, TypeOK, seqs, list, cbs, locals, hist
<1>3. ASSUME NEW p \in Participants, RegisterPush(p) PROVE ListInv'
  BY <1>3 DEF RegisterPush, Goto, At, ListInv, Joined, Leaving, Quiescing,
     Flushing, TypeOK, seqs, list, cbs, locals, hist
<1>4. ASSUME NEW p \in Participants, Quiesce(p) PROVE ListInv'
  BY <1>4 DEF Quiesce, Goto, Quiescent, ListInv, Joined, Leaving, Quiescing,
     Flushing, TypeOK, seqs, list, cbs, locals, hist
<1>5. ASSUME NEW p \in Participants, QuiesceStart(p) PROVE ListInv'
  BY <1>5 DEF QuiesceStart, Goto, Quiescent, FlushThen, CbsetOf, ListInv,
     Joined, Leaving, Quiescing, Flushing, TypeOK, seqs, list, cbs, locals,
     hist
<1>6. ASSUME NEW p \in Participants, Synchronize(p) PROVE ListInv'
  BY <1>6 DEF Synchronize, Goto, FlushThen, CbsetOf, ListInv, Joined, Leaving,
     Quiescing, Flushing, TypeOK, seqs, list, cbs, locals, hist
<1>7. ASSUME NEW p \in Participants, FlushPush(p) PROVE ListInv'
  BY <1>7 DEF FlushPush, Goto, CbsetOf, ListInv, Joined, Leaving, Quiescing,
     Flushing, TypeOK, seqs, list, cbs, locals, hist
<1>8. ASSUME NEW p \in Participants, FlushNotify(p) PROVE ListInv'
  BY <1>8 DEF FlushNotify, Goto, ListInv, Joined, Leaving, Quiescing,
     Flushing, TypeOK, seqs, list, cbs, locals, hist
<1>9. ASSUME NEW p \in Participants, QuiesceStore(p) PROVE ListInv'
  BY <1>9 DEF QuiesceStore, Goto, FlushThen, CbsetOf, ListInv, Joined,
     Leaving, Quiescing, Flushing, TypeOK, seqs, list, cbs, locals, hist
<1>10. ASSUME NEW p \in Participants, QuiesceChange(p) PROVE ListInv'
  BY <1>10 DEF QuiesceChange, Goto, ListInv, Joined, Leaving, Quiescing,
     Flushing, TypeOK, seqs, list, cbs, locals, hist
<1>11. ASSUME NEW p \in Participants, QuiescedAlone(p) PROVE ListInv'
  BY <1>11 DEF QuiescedAlone, Goto, ListInv, Joined, Leaving, Quiescing,
     Flushing, TypeOK, seqs, list, cbs, locals, hist
<1>12. ASSUME NEW p \in Participants, Quiesced(p) PROVE ListInv'
  BY <1>12 DEF Quiesced, Goto, ListInv, Joined, Leaving, Quiescing, Flushing,
     TypeOK, seqs, list, cbs, locals, hist
<1>13. ASSUME NEW p \in Participants, Unregister(p) PROVE ListInv'
  BY <1>13 DEF Unregister, Goto, ListInv, Joined, Leaving, Quiescing,
     Flushing, TypeOK, seqs, list, cbs, locals, hist
<1>14. ASSUME NEW p \in Participants, SyncRead(p) PROVE ListInv'
  BY <1>14 DEF SyncRead, Goto, ListInv, Joined, Leaving, Quiescing, Flushing,
     TypeOK, seqs, list, cbs, locals, hist
<1>15. ASSUME NEW p \in Participants, SyncDone(p) PROVE ListInv'
  BY <1>15 DEF SyncDone, Goto, GraceOver, ListInv, Joined, Leaving, Quiescing,
     Flushing, TypeOK, seqs, list, cbs, locals, hist
<1>16. ASSUME NEW p \in Participants, SyncBlock(p) PROVE ListInv'
  BY <1>16 DEF SyncBlock, Goto, GraceOver, ListInv, Joined, Leaving,
     Quiescing, Flushing, TypeOK, seqs, list, cbs, locals, hist
<1>17. ASSUME NEW p \in Participants, SyncWake(p) PROVE ListInv'
  BY <1>17 DEF SyncWake, Goto, ListInv, Joined, Leaving, Quiescing, Flushing,
     TypeOK, seqs, list, cbs, locals, hist
<1>18. ASSUME NEW p \in Participants, NEW c \in Callbacks, Postpone(p, c) PROVE ListInv'
  BY <1>18 DEF Postpone, Goto, CbsetOf, ListInv, Joined, Leaving, Quiescing,
     Flushing, TypeOK, seqs, list, cbs, locals, hist
<1>19. CASE UrcuRead
  BY <1>19 DEF UrcuRead, Goto, ListInv, Joined, Leaving, Quiescing, Flushing,
     TypeOK, seqs, list, cbs, locals, hist
<1>20. CASE UrcuPop
  BY <1>20 DEF UrcuPop, Goto, At, ListInv, Joined, Leaving, Quiescing,
     Flushing, TypeOK, seqs, list, cbs, locals, hist
<1>21. CASE UrcuPopEmpty
  BY <1>21 DEF UrcuPopEmpty, Goto, At, ListInv, Joined, Leaving, Quiescing,
     Flushing, TypeOK, seqs, list, cbs, locals, hist
<1>22. CASE UrcuSleep
  BY <1>22 DEF UrcuSleep, Goto, Quiescent, FlushThen, CbsetOf, ListInv,
     Joined, Leaving, Quiescing, Flushing, TypeOK, seqs, list, cbs, locals,
     hist
<1>23. CASE UrcuNoSleep
  BY <1>23 DEF UrcuNoSleep, Goto, Quiescent, ListInv, Joined, Leaving,
     Quiescing, Flushing, TypeOK, seqs, list, cbs, locals, hist
<1>24. CASE UrcuWake
  BY <1>24 DEF UrcuWake, Goto, ListInv, Joined, Leaving, Quiescing, Flushing,
     TypeOK, seqs, list, cbs, locals, hist
<1>25. ASSUME NEW c \in Callbacks, UrcuCall(c) PROVE ListInv'
  BY <1>25 DEF UrcuCall, Goto, At, Before, ListInv, Joined, Leaving,
     Quiescing, Flushing, TypeOK, seqs, list, cbs, locals, hist
<1>26. CASE UNCHANGED vars
  BY <1>26 DEF vars, seqs, list, cbs, locals, hist, ListInv, Joined, Leaving,
     Quiescing, Flushing, TypeOK
<1>27. QED
  BY <1>1, <1>2, <1>3, <1>4, <1>5, <1>6, <1>7, <1>8, <1>9, <1>10, <1>11,
     <1>12, <1>13, <1>14, <1>15, <1>16, <1>17, <1>18, <1>19, <1>20, <1>21,
     <1>22, <1>23, <1>24, <1>25, <1>26 DEF Next, Choose, Continue, UrcuLoop

\* Only ovs_thread_create() brings in a second thread.
LEMMA AloneStep == Inv /\ [Next]_vars => AloneInv'
<1> SUFFICES ASSUME Inv, [Next]_vars PROVE AloneInv'
  OBVIOUS
<1> USE RcuAssumption DEF Inv, Participants
<1>1. CASE BecomeMultithreaded
  BY <1>1 DEF BecomeMultithreaded, AloneInv, TypeOK, seqs, list, cbs, locals, hist
<1>2. ASSUME NEW p \in Participants, RegisterRead(p) PROVE AloneInv'
  BY <1>2 DEF RegisterRead, Goto, AloneInv, TypeOK, seqs, list, cbs, locals, hist
<1>3. ASSUME NEW p \in Participants, RegisterPush(p) PROVE AloneInv'
  BY <1>3 DEF RegisterPush, Goto, At, AloneInv, TypeOK, seqs, list, cbs,
     locals, hist
<1>4. ASSUME NEW p \in Participants, Quiesce(p) PROVE AloneInv'
  BY <1>4 DEF Quiesce, Goto, Quiescent, AloneInv, TypeOK, seqs, list, cbs,
     locals, hist
<1>5. ASSUME NEW p \in Participants, QuiesceStart(p) PROVE AloneInv'
  BY <1>5 DEF QuiesceStart, Goto, Quiescent, FlushThen, CbsetOf, AloneInv,
     TypeOK, seqs, list, cbs, locals, hist
<1>6. ASSUME NEW p \in Participants, Synchronize(p) PROVE AloneInv'
  BY <1>6 DEF Synchronize, Goto, FlushThen, CbsetOf, AloneInv, TypeOK, seqs,
     list, cbs, locals, hist
<1>7. ASSUME NEW p \in Participants, FlushPush(p) PROVE AloneInv'
  BY <1>7 DEF FlushPush, Goto, CbsetOf, AloneInv, TypeOK, seqs, list, cbs,
     locals, hist
<1>8. ASSUME NEW p \in Participants, FlushNotify(p) PROVE AloneInv'
  BY <1>8 DEF FlushNotify, Goto, AloneInv, TypeOK, seqs, list, cbs, locals, hist
<1>9. ASSUME NEW p \in Participants, QuiesceStore(p) PROVE AloneInv'
  BY <1>9 DEF QuiesceStore, Goto, FlushThen, CbsetOf, AloneInv, TypeOK, seqs,
     list, cbs, locals, hist
<1>10. ASSUME NEW p \in Participants, QuiesceChange(p) PROVE AloneInv'
  BY <1>10 DEF QuiesceChange, Goto, AloneInv, TypeOK, seqs, list, cbs, locals, hist
<1>11. ASSUME NEW p \in Participants, QuiescedAlone(p) PROVE AloneInv'
  BY <1>11 DEF QuiescedAlone, Goto, AloneInv, TypeOK, seqs, list, cbs, locals, hist
<1>12. ASSUME NEW p \in Participants, Quiesced(p) PROVE AloneInv'
  BY <1>12 DEF Quiesced, Goto, AloneInv, TypeOK, seqs, list, cbs, locals, hist
<1>13. ASSUME NEW p \in Participants, Unregister(p) PROVE AloneInv'
  BY <1>13 DEF Unregister, Goto, AloneInv, TypeOK, seqs, list, cbs, locals, hist
<1>14. ASSUME NEW p \in Participants, SyncRead(p) PROVE AloneInv'
  BY <1>14 DEF SyncRead, Goto, AloneInv, TypeOK, seqs, list, cbs, locals, hist
<1>15. ASSUME NEW p \in Participants, SyncDone(p) PROVE AloneInv'
  BY <1>15 DEF SyncDone, Goto, GraceOver, AloneInv, TypeOK, seqs, list, cbs,
     locals, hist
<1>16. ASSUME NEW p \in Participants, SyncBlock(p) PROVE AloneInv'
  BY <1>16 DEF SyncBlock, Goto, GraceOver, AloneInv, TypeOK, seqs, list, cbs,
     locals, hist
<1>17. ASSUME NEW p \in Participants, SyncWake(p) PROVE AloneInv'
  BY <1>17 DEF SyncWake, Goto, AloneInv, TypeOK, seqs, list, cbs, locals, hist
<1>18. ASSUME NEW p \in Participants, NEW c \in Callbacks, Postpone(p, c) PROVE AloneInv'
  BY <1>18 DEF Postpone, Goto, CbsetOf, AloneInv, TypeOK, seqs, list, cbs,
     locals, hist
<1>19. CASE UrcuRead
  BY <1>19 DEF UrcuRead, Goto, AloneInv, TypeOK, seqs, list, cbs, locals, hist
<1>20. CASE UrcuPop
  BY <1>20 DEF UrcuPop, Goto, At, AloneInv, TypeOK, seqs, list, cbs, locals, hist
<1>21. CASE UrcuPopEmpty
  BY <1>21 DEF UrcuPopEmpty, Goto, At, AloneInv, TypeOK, seqs, list, cbs,
     locals, hist
<1>22. CASE UrcuSleep
  BY <1>22 DEF UrcuSleep, Goto, Quiescent, FlushThen, CbsetOf, AloneInv,
     TypeOK, seqs, list, cbs, locals, hist
<1>23. CASE UrcuNoSleep
  BY <1>23 DEF UrcuNoSleep, Goto, Quiescent, AloneInv, TypeOK, seqs, list,
     cbs, locals, hist
<1>24. CASE UrcuWake
  BY <1>24 DEF UrcuWake, Goto, AloneInv, TypeOK, seqs, list, cbs, locals, hist
<1>25. ASSUME NEW c \in Callbacks, UrcuCall(c) PROVE AloneInv'
  BY <1>25 DEF UrcuCall, Goto, At, Before, AloneInv, TypeOK, seqs, list, cbs,
     locals, hist
<1>26. CASE UNCHANGED vars
  BY <1>26 DEF vars, seqs, list, cbs, locals, hist, AloneInv, TypeOK
<1>27. QED
  BY <1>1, <1>2, <1>3, <1>4, <1>5, <1>6, <1>7, <1>8, <1>9, <1>10, <1>11,
     <1>12, <1>13, <1>14, <1>15, <1>16, <1>17, <1>18, <1>19, <1>20, <1>21,
     <1>22, <1>23, <1>24, <1>25, <1>26 DEF Next, Choose, Continue, UrcuLoop

\* A thread that is waited for publishes no newer number before it quiesces.
LEMMA WaitStep == Inv /\ [Next]_vars => WaitInv'
<1> SUFFICES ASSUME Inv, [Next]_vars PROVE WaitInv'
  OBVIOUS
<1> USE RcuAssumption DEF Inv, Participants
<1>1. CASE BecomeMultithreaded
  BY <1>1 DEF BecomeMultithreaded, WaitInv, ListInv, Quiescing, Active,
     InSync, Leaving, Flushing, TypeOK, seqs, list, cbs, locals, hist
<1>2. ASSUME NEW p \in Participants, RegisterRead(p) PROVE WaitInv'
  BY <1>2 DEF RegisterRead, Goto, WaitInv, ListInv, Quiescing, Active, InSync,
     Leaving, Flushing, TypeOK, seqs, list, cbs, locals, hist
<1>3. ASSUME NEW p \in Participants, RegisterPush(p) PROVE WaitInv'
  BY <1>3 DEF RegisterPush, Goto, At, WaitInv, ListInv, Quiescing, Active,
     InSync, Leaving, Flushing, TypeOK, seqs, list, cbs, locals, hist
<1>4. ASSUME NEW p \in Participants, Quiesce(p) PROVE WaitInv'
  BY <1>4 DEF Quiesce, Goto, Quiescent, WaitInv, ListInv, Quiescing, Active,
     InSync, Leaving, Flushing, TypeOK, seqs, list, cbs, locals, hist
<1>5. ASSUME NEW p \in Participants, QuiesceStart(p) PROVE WaitInv'
  BY <1>5 DEF QuiesceStart, Goto, Quiescent, FlushThen, CbsetOf, WaitInv,
     ListInv, Quiescing, Active, InSync, Leaving, Flushing, TypeOK, seqs,
     list, cbs, locals, hist
<1>6. ASSUME NEW p \in Participants, Synchronize(p) PROVE WaitInv'
  BY <1>6 DEF Synchronize, Goto, FlushThen, CbsetOf, WaitInv, ListInv,
     Quiescing, Active, InSync, Leaving, Flushing, TypeOK, seqs, list, cbs,
     locals, hist
<1>7. ASSUME NEW p \in Participants, FlushPush(p) PROVE WaitInv'
  BY <1>7 DEF FlushPush, Goto, CbsetOf, WaitInv, ListInv, Quiescing, Active,
     InSync, Leaving, Flushing, TypeOK, seqs, list, cbs, locals, hist
<1>8. ASSUME NEW p \in Participants, FlushNotify(p) PROVE WaitInv'
  BY <1>8 DEF FlushNotify, Goto, WaitInv, ListInv, Quiescing, Active, InSync,
     Leaving, Flushing, TypeOK, seqs, list, cbs, locals, hist
<1>9. ASSUME NEW p \in Participants, QuiesceStore(p) PROVE WaitInv'
  BY <1>9 DEF QuiesceStore, Goto, FlushThen, CbsetOf, WaitInv, ListInv,
     Quiescing, Active, InSync, Leaving, Flushing, TypeOK, seqs, list, cbs,
     locals, hist
<1>10. ASSUME NEW p \in Participants, QuiesceChange(p) PROVE WaitInv'
  BY <1>10 DEF QuiesceChange, Goto, WaitInv, ListInv, Quiescing, Active,
     InSync, Leaving, Flushing, TypeOK, seqs, list, cbs, locals, hist
<1>11. ASSUME NEW p \in Participants, QuiescedAlone(p) PROVE WaitInv'
  BY <1>11 DEF QuiescedAlone, Goto, WaitInv, ListInv, Quiescing, Active,
     InSync, Leaving, Flushing, TypeOK, seqs, list, cbs, locals, hist
<1>12. ASSUME NEW p \in Participants, Quiesced(p) PROVE WaitInv'
  BY <1>12 DEF Quiesced, Goto, WaitInv, ListInv, Quiescing, Active, InSync,
     Leaving, Flushing, TypeOK, seqs, list, cbs, locals, hist
<1>13. ASSUME NEW p \in Participants, Unregister(p) PROVE WaitInv'
  BY <1>13 DEF Unregister, Goto, WaitInv, ListInv, Quiescing, Active, InSync,
     Leaving, Flushing, TypeOK, seqs, list, cbs, locals, hist
<1>14. ASSUME NEW p \in Participants, SyncRead(p) PROVE WaitInv'
  BY <1>14 DEF SyncRead, Goto, WaitInv, ListInv, Quiescing, Active, InSync,
     Leaving, Flushing, TypeOK, seqs, list, cbs, locals, hist
<1>15. ASSUME NEW p \in Participants, SyncDone(p) PROVE WaitInv'
  BY <1>15 DEF SyncDone, Goto, GraceOver, WaitInv, ListInv, Quiescing, Active,
     InSync, Leaving, Flushing, TypeOK, seqs, list, cbs, locals, hist
<1>16. ASSUME NEW p \in Participants, SyncBlock(p) PROVE WaitInv'
  BY <1>16 DEF SyncBlock, Goto, GraceOver, WaitInv, ListInv, Quiescing,
     Active, InSync, Leaving, Flushing, TypeOK, seqs, list, cbs, locals, hist
<1>17. ASSUME NEW p \in Participants, SyncWake(p) PROVE WaitInv'
  BY <1>17 DEF SyncWake, Goto, WaitInv, ListInv, Quiescing, Active, InSync,
     Leaving, Flushing, TypeOK, seqs, list, cbs, locals, hist
<1>18. ASSUME NEW p \in Participants, NEW c \in Callbacks, Postpone(p, c) PROVE WaitInv'
  BY <1>18 DEF Postpone, Goto, CbsetOf, WaitInv, ListInv, Quiescing, Active,
     InSync, Leaving, Flushing, TypeOK, seqs, list, cbs, locals, hist
<1>19. CASE UrcuRead
  BY <1>19 DEF UrcuRead, Goto, WaitInv, ListInv, Quiescing, Active, InSync,
     Leaving, Flushing, TypeOK, seqs, list, cbs, locals, hist
<1>20. CASE UrcuPop
  BY <1>20 DEF UrcuPop, Goto, At, WaitInv, ListInv, Quiescing, Active, InSync,
     Leaving, Flushing, TypeOK, seqs, list, cbs, locals, hist
<1>21. CASE UrcuPopEmpty
  BY <1>21 DEF UrcuPopEmpty, Goto, At, WaitInv, ListInv, Quiescing, Active,
     InSync, Leaving, Flushing, TypeOK, seqs, list, cbs, locals, hist
<1>22. CASE UrcuSleep
  BY <1>22 DEF UrcuSleep, Goto, Quiescent, FlushThen, CbsetOf, WaitInv,
     ListInv, Quiescing, Active, InSync, Leaving, Flushing, TypeOK, seqs,
     list, cbs, locals, hist
<1>23. CASE UrcuNoSleep
  BY <1>23 DEF UrcuNoSleep, Goto, Quiescent, WaitInv, ListInv, Quiescing,
     Active, InSync, Leaving, Flushing, TypeOK, seqs, list, cbs, locals, hist
<1>24. CASE UrcuWake
  BY <1>24 DEF UrcuWake, Goto, WaitInv, ListInv, Quiescing, Active, InSync,
     Leaving, Flushing, TypeOK, seqs, list, cbs, locals, hist
<1>25. ASSUME NEW c \in Callbacks, UrcuCall(c) PROVE WaitInv'
  BY <1>25 DEF UrcuCall, Goto, At, Before, WaitInv, ListInv, Quiescing,
     Active, InSync, Leaving, Flushing, TypeOK, seqs, list, cbs, locals, hist
<1>26. CASE UNCHANGED vars
  BY <1>26 DEF vars, seqs, list, cbs, locals, hist, WaitInv, ListInv,
     Quiescing, Active, InSync, Leaving, Flushing, TypeOK
<1>27. QED
  BY <1>1, <1>2, <1>3, <1>4, <1>5, <1>6, <1>7, <1>8, <1>9, <1>10, <1>11,
     <1>12, <1>13, <1>14, <1>15, <1>16, <1>17, <1>18, <1>19, <1>20, <1>21,
     <1>22, <1>23, <1>24, <1>25, <1>26 DEF Next, Choose, Continue, UrcuLoop

\* The loop of ovsrcu_synchronize() ends only when no thread is waited for.
LEMMA SyncedStep == Inv /\ [Next]_vars => SyncedInv'
<1> SUFFICES ASSUME Inv, [Next]_vars PROVE SyncedInv'
  OBVIOUS
<1> USE RcuAssumption DEF Inv, Participants
<1>1. CASE BecomeMultithreaded
  BY <1>1 DEF BecomeMultithreaded, SyncedInv, WaitInv, ListInv, Joined,
     Active, InSync, Flushing, TypeOK, seqs, list, cbs, locals, hist
<1>2. ASSUME NEW p \in Participants, RegisterRead(p) PROVE SyncedInv'
  BY <1>2 DEF RegisterRead, Goto, SyncedInv, WaitInv, ListInv, Joined, Active,
     InSync, Flushing, TypeOK, seqs, list, cbs, locals, hist
<1>3. ASSUME NEW p \in Participants, RegisterPush(p) PROVE SyncedInv'
  BY <1>3 DEF RegisterPush, Goto, At, SyncedInv, WaitInv, ListInv, Joined,
     Active, InSync, Flushing, TypeOK, seqs, list, cbs, locals, hist
<1>4. ASSUME NEW p \in Participants, Quiesce(p) PROVE SyncedInv'
  BY <1>4 DEF Quiesce, Goto, Quiescent, SyncedInv, WaitInv, ListInv, Joined,
     Active, InSync, Flushing, TypeOK, seqs, list, cbs, locals, hist
<1>5. ASSUME NEW p \in Participants, QuiesceStart(p) PROVE SyncedInv'
  BY <1>5 DEF QuiesceStart, Goto, Quiescent, FlushThen, CbsetOf, SyncedInv,
     WaitInv, ListInv, Joined, Active, InSync, Flushing, TypeOK, seqs, list,
     cbs, locals, hist
<1>6. ASSUME NEW p \in Participants, Synchronize(p) PROVE SyncedInv'
  BY <1>6 DEF Synchronize, Goto, FlushThen, CbsetOf, SyncedInv, WaitInv,
     ListInv, Joined, Active, InSync, Flushing, TypeOK, seqs, list, cbs,
     locals, hist
<1>7. ASSUME NEW p \in Participants, FlushPush(p) PROVE SyncedInv'
  BY <1>7 DEF FlushPush, Goto, CbsetOf, SyncedInv, WaitInv, ListInv, Joined,
     Active, InSync, Flushing, TypeOK, seqs, list, cbs, locals, hist
<1>8. ASSUME NEW p \in Participants, FlushNotify(p) PROVE SyncedInv'
  BY <1>8 DEF FlushNotify, Goto, SyncedInv, WaitInv, ListInv, Joined, Active,
     InSync, Flushing, TypeOK, seqs, list, cbs, locals, hist
<1>9. ASSUME NEW p \in Participants, QuiesceStore(p) PROVE SyncedInv'
  BY <1>9 DEF QuiesceStore, Goto, FlushThen, CbsetOf, SyncedInv, WaitInv,
     ListInv, Joined, Active, InSync, Flushing, TypeOK, seqs, list, cbs,
     locals, hist
<1>10. ASSUME NEW p \in Participants, QuiesceChange(p) PROVE SyncedInv'
  BY <1>10 DEF QuiesceChange, Goto, SyncedInv, WaitInv, ListInv, Joined,
     Active, InSync, Flushing, TypeOK, seqs, list, cbs, locals, hist
<1>11. ASSUME NEW p \in Participants, QuiescedAlone(p) PROVE SyncedInv'
  BY <1>11 DEF QuiescedAlone, Goto, SyncedInv, WaitInv, ListInv, Joined,
     Active, InSync, Flushing, TypeOK, seqs, list, cbs, locals, hist
<1>12. ASSUME NEW p \in Participants, Quiesced(p) PROVE SyncedInv'
  BY <1>12 DEF Quiesced, Goto, SyncedInv, WaitInv, ListInv, Joined, Active,
     InSync, Flushing, TypeOK, seqs, list, cbs, locals, hist
<1>13. ASSUME NEW p \in Participants, Unregister(p) PROVE SyncedInv'
  BY <1>13 DEF Unregister, Goto, SyncedInv, WaitInv, ListInv, Joined, Active,
     InSync, Flushing, TypeOK, seqs, list, cbs, locals, hist
<1>14. ASSUME NEW p \in Participants, SyncRead(p) PROVE SyncedInv'
  BY <1>14 DEF SyncRead, Goto, SyncedInv, WaitInv, ListInv, Joined, Active,
     InSync, Flushing, TypeOK, seqs, list, cbs, locals, hist
<1>15. ASSUME NEW p \in Participants, SyncDone(p) PROVE SyncedInv'
  BY <1>15 DEF SyncDone, Goto, GraceOver, SyncedInv, WaitInv, ListInv, Joined,
     Active, InSync, Flushing, TypeOK, seqs, list, cbs, locals, hist
<1>16. ASSUME NEW p \in Participants, SyncBlock(p) PROVE SyncedInv'
  BY <1>16 DEF SyncBlock, Goto, GraceOver, SyncedInv, WaitInv, ListInv,
     Joined, Active, InSync, Flushing, TypeOK, seqs, list, cbs, locals, hist
<1>17. ASSUME NEW p \in Participants, SyncWake(p) PROVE SyncedInv'
  BY <1>17 DEF SyncWake, Goto, SyncedInv, WaitInv, ListInv, Joined, Active,
     InSync, Flushing, TypeOK, seqs, list, cbs, locals, hist
<1>18. ASSUME NEW p \in Participants, NEW c \in Callbacks, Postpone(p, c) PROVE SyncedInv'
  BY <1>18 DEF Postpone, Goto, CbsetOf, SyncedInv, WaitInv, ListInv, Joined,
     Active, InSync, Flushing, TypeOK, seqs, list, cbs, locals, hist
<1>19. CASE UrcuRead
  BY <1>19 DEF UrcuRead, Goto, SyncedInv, WaitInv, ListInv, Joined, Active,
     InSync, Flushing, TypeOK, seqs, list, cbs, locals, hist
<1>20. CASE UrcuPop
  BY <1>20 DEF UrcuPop, Goto, At, SyncedInv, WaitInv, ListInv, Joined, Active,
     InSync, Flushing, TypeOK, seqs, list, cbs, locals, hist
<1>21. CASE UrcuPopEmpty
  BY <1>21 DEF UrcuPopEmpty, Goto, At, SyncedInv, WaitInv, ListInv, Joined,
     Active, InSync, Flushing, TypeOK, seqs, list, cbs, locals, hist
<1>22. CASE UrcuSleep
  BY <1>22 DEF UrcuSleep, Goto, Quiescent, FlushThen, CbsetOf, SyncedInv,
     WaitInv, ListInv, Joined, Active, InSync, Flushing, TypeOK, seqs, list,
     cbs, locals, hist
<1>23. CASE UrcuNoSleep
  BY <1>23 DEF UrcuNoSleep, Goto, Quiescent, SyncedInv, WaitInv, ListInv,
     Joined, Active, InSync, Flushing, TypeOK, seqs, list, cbs, locals, hist
<1>24. CASE UrcuWake
  BY <1>24 DEF UrcuWake, Goto, SyncedInv, WaitInv, ListInv, Joined, Active,
     InSync, Flushing, TypeOK, seqs, list, cbs, locals, hist
<1>25. ASSUME NEW c \in Callbacks, UrcuCall(c) PROVE SyncedInv'
  BY <1>25 DEF UrcuCall, Goto, At, Before, SyncedInv, WaitInv, ListInv,
     Joined, Active, InSync, Flushing, TypeOK, seqs, list, cbs, locals, hist
<1>26. CASE UNCHANGED vars
  BY <1>26 DEF vars, seqs, list, cbs, locals, hist, SyncedInv, WaitInv,
     ListInv, Joined, Active, InSync, Flushing, TypeOK
<1>27. QED
  BY <1>1, <1>2, <1>3, <1>4, <1>5, <1>6, <1>7, <1>8, <1>9, <1>10, <1>11,
     <1>12, <1>13, <1>14, <1>15, <1>16, <1>17, <1>18, <1>19, <1>20, <1>21,
     <1>22, <1>23, <1>24, <1>25, <1>26 DEF Next, Choose, Continue, UrcuLoop

\* A batch is called only after its grace period.
LEMMA BlockStep == Inv /\ [Next]_vars => BlockInv'
<1> SUFFICES ASSUME Inv, [Next]_vars PROVE BlockInv'
  OBVIOUS
<1> USE RcuAssumption DEF Inv, Participants
<1>1. CASE BecomeMultithreaded
  BY <1>1 DEF BecomeMultithreaded, BlockInv, SyncedInv, AloneInv, Calling,
     Active, InSync, Leaving, Flushing, TypeOK, seqs, list, cbs, locals, hist
<1>2. ASSUME NEW p \in Participants, RegisterRead(p) PROVE BlockInv'
  BY <1>2 DEF RegisterRead, Goto, BlockInv, SyncedInv, AloneInv, Calling,
     Active, InSync, Leaving, Flushing, TypeOK, seqs, list, cbs, locals, hist
<1>3. ASSUME NEW p \in Participants, RegisterPush(p) PROVE BlockInv'
  BY <1>3 DEF RegisterPush, Goto, At, BlockInv, SyncedInv, AloneInv, Calling,
     Active, InSync, Leaving, Flushing, TypeOK, seqs, list, cbs, locals, hist
<1>4. ASSUME NEW p \in Participants, Quiesce(p) PROVE BlockInv'
  BY <1>4 DEF Quiesce, Goto, Quiescent, BlockInv, SyncedInv, AloneInv,
     Calling, Active, InSync, Leaving, Flushing, TypeOK, seqs, list, cbs,
     locals, hist
<1>5. ASSUME NEW p \in Participants, QuiesceStart(p) PROVE BlockInv'
  BY <1>5 DEF QuiesceStart, Goto, Quiescent, FlushThen, CbsetOf, BlockInv,
     SyncedInv, AloneInv, Calling, Active, InSync, Leaving, Flushing, TypeOK,
     seqs, list, cbs, locals, hist
<1>6. ASSUME NEW p \in Participants, Synchronize(p) PROVE BlockInv'
  BY <1>6 DEF Synchronize, Goto, FlushThen, CbsetOf, BlockInv, SyncedInv,
     AloneInv, Calling, Active, InSync, Leaving, Flushing, TypeOK, seqs, list,
     cbs, locals, hist
<1>7. ASSUME NEW p \in Participants, FlushPush(p) PROVE BlockInv'
  BY <1>7 DEF FlushPush, Goto, CbsetOf, BlockInv, SyncedInv, AloneInv,
     Calling, Active, InSync, Leaving, Flushing, TypeOK, seqs, list, cbs,
     locals, hist
<1>8. ASSUME NEW p \in Participants, FlushNotify(p) PROVE BlockInv'
  BY <1>8 DEF FlushNotify, Goto, BlockInv, SyncedInv, AloneInv, Calling,
     Active, InSync, Leaving, Flushing, TypeOK, seqs, list, cbs, locals, hist
<1>9. ASSUME NEW p \in Participants, QuiesceStore(p) PROVE BlockInv'
  BY <1>9 DEF QuiesceStore, Goto, FlushThen, CbsetOf, BlockInv, SyncedInv,
     AloneInv, Calling, Active, InSync, Leaving, Flushing, TypeOK, seqs, list,
     cbs, locals, hist
<1>10. ASSUME NEW p \in Participants, QuiesceChange(p) PROVE BlockInv'
  BY <1>10 DEF QuiesceChange, Goto, BlockInv, SyncedInv, AloneInv, Calling,
     Active, InSync, Leaving, Flushing, TypeOK, seqs, list, cbs, locals, hist
<1>11. ASSUME NEW p \in Participants, QuiescedAlone(p) PROVE BlockInv'
  BY <1>11 DEF QuiescedAlone, Goto, BlockInv, SyncedInv, AloneInv, Calling,
     Active, InSync, Leaving, Flushing, TypeOK, seqs, list, cbs, locals, hist
<1>12. ASSUME NEW p \in Participants, Quiesced(p) PROVE BlockInv'
  BY <1>12 DEF Quiesced, Goto, BlockInv, SyncedInv, AloneInv, Calling, Active,
     InSync, Leaving, Flushing, TypeOK, seqs, list, cbs, locals, hist
<1>13. ASSUME NEW p \in Participants, Unregister(p) PROVE BlockInv'
  BY <1>13 DEF Unregister, Goto, BlockInv, SyncedInv, AloneInv, Calling,
     Active, InSync, Leaving, Flushing, TypeOK, seqs, list, cbs, locals, hist
<1>14. ASSUME NEW p \in Participants, SyncRead(p) PROVE BlockInv'
  BY <1>14 DEF SyncRead, Goto, BlockInv, SyncedInv, AloneInv, Calling, Active,
     InSync, Leaving, Flushing, TypeOK, seqs, list, cbs, locals, hist
<1>15. ASSUME NEW p \in Participants, SyncDone(p) PROVE BlockInv'
  <2>1. SyncedInv'
    BY SyncedStep
  <2>2. QED
    BY <1>15, <2>1 DEF SyncDone, Goto, BlockInv, SyncedInv, Calling, Active,
       InSync, Leaving, Flushing, Steps, TypeOK, seqs, list, cbs, locals, hist
<1>16. ASSUME NEW p \in Participants, SyncBlock(p) PROVE BlockInv'
  BY <1>16 DEF SyncBlock, Goto, GraceOver, BlockInv, SyncedInv, AloneInv,
     Calling, Active, InSync, Leaving, Flushing, TypeOK, seqs, list, cbs,
     locals, hist
<1>17. ASSUME NEW p \in Participants, SyncWake(p) PROVE BlockInv'
  BY <1>17 DEF SyncWake, Goto, BlockInv, SyncedInv, AloneInv, Calling, Active,
     InSync, Leaving, Flushing, TypeOK, seqs, list, cbs, locals, hist
<1>18. ASSUME NEW p \in Participants, NEW c \in Callbacks, Postpone(p, c) PROVE BlockInv'
  BY <1>18 DEF Postpone, Goto, CbsetOf, BlockInv, SyncedInv, AloneInv,
     Calling, Active, InSync, Leaving, Flushing, TypeOK, seqs, list, cbs,
     locals, hist
<1>19. CASE UrcuRead
  BY <1>19 DEF UrcuRead, Goto, BlockInv, SyncedInv, AloneInv, Calling, Active,
     InSync, Leaving, Flushing, TypeOK, seqs, list, cbs, locals, hist
<1>20. CASE UrcuPop
  BY <1>20 DEF UrcuPop, Goto, At, BlockInv, SyncedInv, AloneInv, Calling,
     Active, InSync, Leaving, Flushing, TypeOK, seqs, list, cbs, locals, hist
<1>21. CASE UrcuPopEmpty
  BY <1>21 DEF UrcuPopEmpty, Goto, At, BlockInv, SyncedInv, AloneInv, Calling,
     Active, InSync, Leaving, Flushing, TypeOK, seqs, list, cbs, locals, hist
<1>22. CASE UrcuSleep
  BY <1>22 DEF UrcuSleep, Goto, Quiescent, FlushThen, CbsetOf, BlockInv,
     SyncedInv, AloneInv, Calling, Active, InSync, Leaving, Flushing, TypeOK,
     seqs, list, cbs, locals, hist
<1>23. CASE UrcuNoSleep
  BY <1>23 DEF UrcuNoSleep, Goto, Quiescent, BlockInv, SyncedInv, AloneInv,
     Calling, Active, InSync, Leaving, Flushing, TypeOK, seqs, list, cbs,
     locals, hist
<1>24. CASE UrcuWake
  BY <1>24 DEF UrcuWake, Goto, BlockInv, SyncedInv, AloneInv, Calling, Active,
     InSync, Leaving, Flushing, TypeOK, seqs, list, cbs, locals, hist
<1>25. ASSUME NEW c \in Callbacks, UrcuCall(c) PROVE BlockInv'
  BY <1>25 DEF UrcuCall, Goto, At, Before, BlockInv, SyncedInv, AloneInv,
     Calling, Active, InSync, Leaving, Flushing, TypeOK, seqs, list, cbs,
     locals, hist
<1>26. CASE UNCHANGED vars
  BY <1>26 DEF vars, seqs, list, cbs, locals, hist, BlockInv, SyncedInv,
     AloneInv, Calling, Active, InSync, Leaving, Flushing, TypeOK
<1>27. QED
  BY <1>1, <1>2, <1>3, <1>4, <1>5, <1>6, <1>7, <1>8, <1>9, <1>10, <1>11,
     <1>12, <1>13, <1>14, <1>15, <1>16, <1>17, <1>18, <1>19, <1>20, <1>21,
     <1>22, <1>23, <1>24, <1>25, <1>26 DEF Next, Choose, Continue, UrcuLoop

\* Callbacks of one thread stay in order.
LEMMA OrderStep == Inv /\ [Next]_vars => OrderInv'
<1> SUFFICES ASSUME Inv, [Next]_vars PROVE OrderInv'
  OBVIOUS
<1> USE RcuAssumption DEF Inv, Participants
<1>1. CASE BecomeMultithreaded
  BY <1>1 DEF BecomeMultithreaded, OrderInv, BlockInv, AloneInv, InSync,
     Leaving, Calling, Flushing, TypeOK, seqs, list, cbs, locals, hist
<1>2. ASSUME NEW p \in Participants, RegisterRead(p) PROVE OrderInv'
  BY <1>2 DEF RegisterRead, Goto, OrderInv, BlockInv, AloneInv, InSync,
     Leaving, Calling, Flushing, TypeOK, seqs, list, cbs, locals, hist
<1>3. ASSUME NEW p \in Participants, RegisterPush(p) PROVE OrderInv'
  BY <1>3 DEF RegisterPush, Goto, At, OrderInv, BlockInv, AloneInv, InSync,
     Leaving, Calling, Flushing, TypeOK, seqs, list, cbs, locals, hist
<1>4. ASSUME NEW p \in Participants, Quiesce(p) PROVE OrderInv'
  BY <1>4 DEF Quiesce, Goto, Quiescent, OrderInv, BlockInv, AloneInv, InSync,
     Leaving, Calling, Flushing, TypeOK, seqs, list, cbs, locals, hist
<1>5. ASSUME NEW p \in Participants, QuiesceStart(p) PROVE OrderInv'
  BY <1>5 DEF QuiesceStart, Goto, Quiescent, FlushThen, CbsetOf, OrderInv,
     BlockInv, AloneInv, InSync, Leaving, Calling, Flushing, TypeOK, seqs,
     list, cbs, locals, hist
<1>6. ASSUME NEW p \in Participants, Synchronize(p) PROVE OrderInv'
  BY <1>6 DEF Synchronize, Goto, FlushThen, CbsetOf, OrderInv, BlockInv,
     AloneInv, InSync, Leaving, Calling, Flushing, TypeOK, seqs, list, cbs,
     locals, hist
<1>7. ASSUME NEW p \in Participants, FlushPush(p) PROVE OrderInv'
  BY <1>7 DEF FlushPush, Goto, CbsetOf, OrderInv, BlockInv, AloneInv, InSync,
     Leaving, Calling, Flushing, TypeOK, seqs, list, cbs, locals, hist
<1>8. ASSUME NEW p \in Participants, FlushNotify(p) PROVE OrderInv'
  BY <1>8 DEF FlushNotify, Goto, OrderInv, BlockInv, AloneInv, InSync,
     Leaving, Calling, Flushing, TypeOK, seqs, list, cbs, locals, hist
<1>9. ASSUME NEW p \in Participants, QuiesceStore(p) PROVE OrderInv'
  BY <1>9 DEF QuiesceStore, Goto, FlushThen, CbsetOf, OrderInv, BlockInv,
     AloneInv, InSync, Leaving, Calling, Flushing, TypeOK, seqs, list, cbs,
     locals, hist
<1>10. ASSUME NEW p \in Participants, QuiesceChange(p) PROVE OrderInv'
  BY <1>10 DEF QuiesceChange, Goto, OrderInv, BlockInv, AloneInv, InSync,
     Leaving, Calling, Flushing, TypeOK, seqs, list, cbs, locals, hist
<1>11. ASSUME NEW p \in Participants, QuiescedAlone(p) PROVE OrderInv'
  BY <1>11 DEF QuiescedAlone, Goto, OrderInv, BlockInv, AloneInv, InSync,
     Leaving, Calling, Flushing, TypeOK, seqs, list, cbs, locals, hist
<1>12. ASSUME NEW p \in Participants, Quiesced(p) PROVE OrderInv'
  BY <1>12 DEF Quiesced, Goto, OrderInv, BlockInv, AloneInv, InSync, Leaving,
     Calling, Flushing, TypeOK, seqs, list, cbs, locals, hist
<1>13. ASSUME NEW p \in Participants, Unregister(p) PROVE OrderInv'
  BY <1>13 DEF Unregister, Goto, OrderInv, BlockInv, AloneInv, InSync,
     Leaving, Calling, Flushing, TypeOK, seqs, list, cbs, locals, hist
<1>14. ASSUME NEW p \in Participants, SyncRead(p) PROVE OrderInv'
  BY <1>14 DEF SyncRead, Goto, OrderInv, BlockInv, AloneInv, InSync, Leaving,
     Calling, Flushing, TypeOK, seqs, list, cbs, locals, hist
<1>15. ASSUME NEW p \in Participants, SyncDone(p) PROVE OrderInv'
  BY <1>15 DEF SyncDone, Goto, GraceOver, OrderInv, BlockInv, AloneInv,
     InSync, Leaving, Calling, Flushing, TypeOK, seqs, list, cbs, locals, hist
<1>16. ASSUME NEW p \in Participants, SyncBlock(p) PROVE OrderInv'
  BY <1>16 DEF SyncBlock, Goto, GraceOver, OrderInv, BlockInv, AloneInv,
     InSync, Leaving, Calling, Flushing, TypeOK, seqs, list, cbs, locals, hist
<1>17. ASSUME NEW p \in Participants, SyncWake(p) PROVE OrderInv'
  BY <1>17 DEF SyncWake, Goto, OrderInv, BlockInv, AloneInv, InSync, Leaving,
     Calling, Flushing, TypeOK, seqs, list, cbs, locals, hist
<1>18. ASSUME NEW p \in Participants, NEW c \in Callbacks, Postpone(p, c) PROVE OrderInv'
  BY <1>18 DEF Postpone, Goto, CbsetOf, OrderInv, BlockInv, AloneInv, InSync,
     Leaving, Calling, Flushing, TypeOK, seqs, list, cbs, locals, hist
<1>19. CASE UrcuRead
  BY <1>19 DEF UrcuRead, Goto, OrderInv, BlockInv, AloneInv, InSync, Leaving,
     Calling, Flushing, TypeOK, seqs, list, cbs, locals, hist
<1>20. CASE UrcuPop
  BY <1>20 DEF UrcuPop, Goto, At, OrderInv, BlockInv, AloneInv, InSync,
     Leaving, Calling, Flushing, TypeOK, seqs, list, cbs, locals, hist
<1>21. CASE UrcuPopEmpty
  BY <1>21 DEF UrcuPopEmpty, Goto, At, OrderInv, BlockInv, AloneInv, InSync,
     Leaving, Calling, Flushing, TypeOK, seqs, list, cbs, locals, hist
<1>22. CASE UrcuSleep
  BY <1>22 DEF UrcuSleep, Goto, Quiescent, FlushThen, CbsetOf, OrderInv,
     BlockInv, AloneInv, InSync, Leaving, Calling, Flushing, TypeOK, seqs,
     list, cbs, locals, hist
<1>23. CASE UrcuNoSleep
  BY <1>23 DEF UrcuNoSleep, Goto, Quiescent, OrderInv, BlockInv, AloneInv,
     InSync, Leaving, Calling, Flushing, TypeOK, seqs, list, cbs, locals, hist
<1>24. CASE UrcuWake
  BY <1>24 DEF UrcuWake, Goto, OrderInv, BlockInv, AloneInv, InSync, Leaving,
     Calling, Flushing, TypeOK, seqs, list, cbs, locals, hist
<1>25. ASSUME NEW c \in Callbacks, UrcuCall(c) PROVE OrderInv'
  BY <1>25 DEF UrcuCall, Goto, At, Before, OrderInv, BlockInv, AloneInv,
     InSync, Leaving, Calling, Flushing, TypeOK, seqs, list, cbs, locals, hist
<1>26. CASE UNCHANGED vars
  BY <1>26 DEF vars, seqs, list, cbs, locals, hist, OrderInv, BlockInv,
     AloneInv, InSync, Leaving, Calling, Flushing, TypeOK
<1>27. QED
  BY <1>1, <1>2, <1>3, <1>4, <1>5, <1>6, <1>7, <1>8, <1>9, <1>10, <1>11,
     <1>12, <1>13, <1>14, <1>15, <1>16, <1>17, <1>18, <1>19, <1>20, <1>21,
     <1>22, <1>23, <1>24, <1>25, <1>26 DEF Next, Choose, Continue, UrcuLoop
-----------------------------------------------------------------------------
\* The initial state satisfies the invariant.
LEMMA InitInv == Init => Inv
<1> SUFFICES ASSUME Init PROVE Inv
  OBVIOUS
<1> USE RcuAssumption DEF Init, Participants
<1>1. TypeOK
  <2>1. \A p \in Participants : seqno[p] <= global_seqno /\ target_seqno[p] <= global_seqno
    OBVIOUS
  <2>2. seqno \in [Participants -> Nat] /\ target_seqno \in [Participants -> Nat]
    OBVIOUS
  <2>3. loc \in [Callbacks -> Places] /\ pc \in [Participants -> Steps]
    BY DEF Places, Steps
  <2>4. QED
    BY <2>1, <2>2, <2>3 DEF TypeOK
<1>2. ReadInv /\ ListInv /\ AloneInv
  BY DEF ReadInv, ListInv, AloneInv, Joined, Leaving, Quiescing, Flushing
<1>3. WaitInv /\ SyncedInv
  BY DEF WaitInv, SyncedInv
<1>4. BlockInv /\ OrderInv
  BY DEF BlockInv, OrderInv
<1>5. QED
  BY <1>1, <1>2, <1>3, <1>4 DEF Inv

\* Inv is an invariant of the specification.
THEOREM Invariance == Spec => []Inv
<1>1. Init => Inv
  BY InitInv
<1>2. Inv /\ [Next]_vars => Inv'
  BY TypeStep, ReadStep, ListStep, AloneStep, WaitStep, SyncedStep, BlockStep,
     OrderStep DEF Inv
<1>3. QED
  BY <1>1, <1>2, PTL DEF Spec

\* The state of lib/ovs-rcu.c is well typed, and no thread publishes or waits
\* for a sequence number ahead of global_seqno.
THEOREM RcuTypes == Spec => []TypeOK
<1>1. Inv => TypeOK
  BY DEF Inv
<1>2. QED
  BY <1>1, Invariance, PTL

\* No callback given to ovsrcu_postpone() is called before every thread that
\* was active at that moment has quiesced.
THEOREM GracePeriodHolds == Spec => []GracePeriod
<1>1. Inv => GracePeriod
  BY DEF Inv, BlockInv, GracePeriod
<1>2. QED
  BY <1>1, Invariance, PTL

\* ovsrcu_synchronize() returns only after every thread that was active when it
\* was called has quiesced.
THEOREM SynchronizeHolds == Spec => []SynchronizeWaits
<1>1. Inv => SynchronizeWaits
  BY DEF Inv, SyncedInv, SynchronizeWaits
<1>2. QED
  BY <1>1, Invariance, PTL

\* The callbacks of one thread are called in the order of their registration.
THEOREM OrderHolds == Spec => []InOrder
<1>1. Inv => InOrder
  BY DEF Inv, OrderInv, TypeOK, Places, InOrder
<1>2. QED
  BY <1>1, Invariance, PTL
=============================================================================
