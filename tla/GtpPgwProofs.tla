---------------------------- MODULE GtpPgwProofs ----------------------------
(***************************************************************************)
(* Proofs about the gateway registry (GtpPgw): type correctness, which     *)
(* slots a translation reads, session affinity, where new sessions go, and *)
(* when the process aborts, for any number of gateways, slots, threads and *)
(* sessions.                                                               *)
(***************************************************************************)
EXTENDS GtpPgw, TLAPS

-----------------------------------------------------------------------------
(* The inductive invariant, first part: indices.                           *)

\* Where a thread's index may point, by the step it has reached.
GoodIndex(h) ==
  /\ h.pc \in {"get", "take"} => h.kind = "new"
  /\ h.pc = "take" => h.idx < end \/ h.idx = 0
  /\ h.pc \in {"find", "bind"} => h.kind = "gtp" /\ h.sess \in Sessions /\ h.pgw \in Pgws
  /\ h.pc = "bind" => h.idx < end
  /\ h.pc = "check" => h.kind # "new" /\ h.idx < end
  /\ h.pc = "read" => h.idx < end \/ (h.kind = "new" /\ h.idx = 0)

ThreadIndexInv == \A t \in Threads : GoodIndex(hnd[t])

BoundIndexInv == \A s \in Sessions : bound[s] = Unbound \/ bound[s].idx < end

StoreIndexInv == cfg.todo # {} => cfg.slot < end

IndexInv == TypeOK /\ ThreadIndexInv /\ BoundIndexInv /\ StoreIndexInv

\* A thread that becomes h.
LEMMA BecomeLemma ==
  ASSUME NEW t \in Threads, NEW h \in ThreadStates,
         hnd \in [Threads -> ThreadStates], Become(t, h)
  PROVE  /\ hnd' \in [Threads -> ThreadStates]
         /\ hnd'[t] = h
         /\ \A u \in Threads : u # t => hnd'[u] = hnd[u]
  BY DEF Become

\* An idle thread is in a good place.
LEMMA IdleLemma == IdleThread \in ThreadStates /\ GoodIndex(IdleThread)
  <1>1. 0 \in 0 .. MaxPgw
    BY PgwAssumption
  <1> QED
    BY <1>1 DEF IdleThread, ThreadStates, FieldValues, GoodIndex

\* A translation reads only fields the instance has.
LEMMA FieldsReadLemma == \A kind : FieldsRead(kind) \subseteq Fields
  BY DEF FieldsRead

\* The empty registry satisfies the index invariant.
LEMMA InitIndex == Init => IndexInv
  <1> SUFFICES ASSUME Init PROVE IndexInv
    OBVIOUS
  <1>1. MaxPgw \in Nat /\ 0 \in Slots /\ 0 <= MaxPgw
    BY PgwAssumption DEF Slots
  <1>2. TypeOK
    <2>1. pgw_list \in [Slots -> [Fields -> FieldValues]]
      BY DEF Init, FieldValues
    <2>2. current \in 0 .. MaxPgw /\ end \in 0 .. MaxPgw
      BY <1>1 DEF Init
    <2>3. cfg \in [slot : Slots, pgw : FieldValues, todo : SUBSET Fields]
      BY <1>1 DEF Init, NoStores, FieldValues
    <2>4. aborted \in BOOLEAN
      BY DEF Init
    <2>5. bound \in [Sessions -> [idx : 0 .. MaxPgw, pgw : FieldValues, gone : BOOLEAN]]
      <3>1. Unbound \in [idx : 0 .. MaxPgw, pgw : FieldValues, gone : BOOLEAN]
        BY <1>1 DEF Unbound, FieldValues
      <3> QED
        BY <3>1 DEF Init
    <2>6. hnd \in [Threads -> ThreadStates]
      BY IdleLemma DEF Init
    <2> QED
      BY <2>1, <2>2, <2>3, <2>4, <2>5, <2>6 DEF TypeOK
  <1>3. ThreadIndexInv
    BY IdleLemma DEF Init, ThreadIndexInv
  <1>4. BoundIndexInv
    BY DEF Init, BoundIndexInv
  <1>5. StoreIndexInv
    BY DEF Init, StoreIndexInv, NoStores
  <1> QED
    BY <1>2, <1>3, <1>4, <1>5 DEF IndexInv


\* A step in which only the thread t moves, to h, preserves the invariant when
\* h is a good state of a thread.
LEMMA ThreadStepIndex ==
  ASSUME IndexInv, NEW t \in Threads, NEW h \in ThreadStates, GoodIndex(h),
         Become(t, h), UNCHANGED <<pgw_list, end, cfg, aborted>>,
         current' \in 0 .. MaxPgw,
         bound' \in [Sessions -> [idx : 0 .. MaxPgw, pgw : FieldValues, gone : BOOLEAN]],
         BoundIndexInv'
  PROVE  IndexInv'
  <1>1. /\ hnd' \in [Threads -> ThreadStates]
        /\ hnd'[t] = h
        /\ \A u \in Threads : u # t => hnd'[u] = hnd[u]
    BY BecomeLemma DEF IndexInv, TypeOK
  <1>2. TypeOK'
    BY <1>1 DEF IndexInv, TypeOK
  <1>3. \A g : GoodIndex(g)' <=> GoodIndex(g)
    BY DEF GoodIndex
  <1>4. ThreadIndexInv'
    BY <1>1, <1>3 DEF IndexInv, ThreadIndexInv
  <1>5. StoreIndexInv'
    BY DEF IndexInv, StoreIndexInv
  <1> QED
    BY <1>2, <1>4, <1>5 DEF IndexInv

\* A write of slot i by the main thread starts: threads keep their place.
LEMMA TouchLemma ==
  ASSUME NEW i \in Slots, hnd \in [Threads -> ThreadStates], Touch(i)
  PROVE  /\ hnd' \in [Threads -> ThreadStates]
         /\ \A t \in Threads :
              /\ hnd'[t].pc = hnd[t].pc /\ hnd'[t].kind = hnd[t].kind
              /\ hnd'[t].sess = hnd[t].sess /\ hnd'[t].idx = hnd[t].idx
              /\ hnd'[t].out = hnd[t].out /\ hnd'[t].todo = hnd[t].todo
              /\ hnd'[t].pgw = hnd[t].pgw /\ hnd'[t].gone = hnd[t].gone
              /\ hnd'[t].whole => hnd[t].whole /\ hnd[t].kind # "new" /\ hnd[t].idx # i
  <1>1. \A t \in Threads : [hnd[t] EXCEPT !.whole = FALSE] \in ThreadStates
    BY ZenonT(30) DEF ThreadStates
  <1> QED
    BY <1>1 DEF Touch, ThreadStates

\* The index invariant survives gtp_manager_add_pgw() taking an empty slot.
LEMMA AddPgwReuseIndex ==
  ASSUME IndexInv, NEW p \in Pgws, AddPgwReuse(p)
  PROVE  IndexInv'
  <1>1. PICK i \in FreeBelowEnd : cfg' = [slot |-> i, pgw |-> p, todo |-> Fields] /\ Touch(i)
    BY DEF AddPgwReuse
  <1>2. i \in Slots /\ i < end
    BY PgwAssumption DEF FreeBelowEnd, IndexInv, TypeOK, Slots
  <1>3. TypeOK'
    BY <1>1, <1>2, TouchLemma DEF IndexInv, TypeOK, AddPgwReuse, FieldValues
  <1>4. ThreadIndexInv'
    BY <1>1, <1>2, TouchLemma
       DEF IndexInv, TypeOK, AddPgwReuse, ThreadIndexInv, GoodIndex
  <1> QED
    BY <1>1, <1>2, <1>3, <1>4
       DEF IndexInv, AddPgwReuse, BoundIndexInv, StoreIndexInv

\* The index invariant survives gtp_manager_add_pgw() taking the slot at end.
LEMMA AddPgwAppendIndex ==
  ASSUME IndexInv, NEW p \in Pgws, AddPgwAppend(p)
  PROVE  IndexInv'
  <1>1. end \in Slots /\ end' = end + 1 /\ end' \in 0 .. MaxPgw /\ Touch(end)
    BY PgwAssumption DEF AddPgwAppend, IndexInv, TypeOK, Slots
  <1>2. TypeOK'
    BY <1>1, TouchLemma DEF IndexInv, TypeOK, AddPgwAppend, FieldValues
  <1>3. ThreadIndexInv'
    <2> SUFFICES ASSUME NEW t \in Threads PROVE GoodIndex(hnd[t])'
      BY DEF ThreadIndexInv
    <2>1. GoodIndex(hnd[t]) /\ hnd[t].idx \in 0 .. MaxPgw
      BY DEF IndexInv, ThreadIndexInv, TypeOK, ThreadStates
    <2>2. \A k \in 0 .. MaxPgw : k < end => k < end'
      BY <1>1, PgwAssumption DEF Slots
    <2> QED
      BY <1>1, <2>1, <2>2, TouchLemma DEF IndexInv, TypeOK, GoodIndex
  <1>4. BoundIndexInv'
    <2> SUFFICES ASSUME NEW s \in Sessions, bound[s] # Unbound PROVE bound[s].idx < end'
      BY DEF AddPgwAppend, BoundIndexInv
    <2>1. bound[s].idx < end /\ bound[s].idx \in 0 .. MaxPgw
      BY DEF IndexInv, BoundIndexInv, TypeOK
    <2> QED
      BY <1>1, <2>1, PgwAssumption DEF Slots
  <1>5. StoreIndexInv'
    BY <1>1, PgwAssumption DEF AddPgwAppend, StoreIndexInv, Slots
  <1> QED
    BY <1>2, <1>3, <1>4, <1>5 DEF IndexInv

\* The index invariant survives gtp_manager_del_pgw().
LEMMA DelPgwIndex ==
  ASSUME IndexInv, NEW p \in Pgws, DelPgw(p)
  PROVE  IndexInv'
  <1>1. PICK i \in Slots :
          /\ i \in {j \in 0 .. end - 1 : pgw_list[j]["ip"] = p}
          /\ cfg' = [slot |-> i, pgw |-> NoPgw, todo |-> ClearedFields]
          /\ bound' = [s \in Sessions |->
                         IF bound[s].idx = i THEN [bound[s] EXCEPT !.gone = TRUE]
                                             ELSE bound[s]]
          /\ Touch(i)
    BY DEF DelPgw, First
  <1>2. i < end
    BY <1>1, PgwAssumption DEF IndexInv, TypeOK
  <1>3. bound' \in [Sessions -> [idx : 0 .. MaxPgw, pgw : FieldValues, gone : BOOLEAN]]
    BY <1>1 DEF IndexInv, TypeOK
  <1>4. TypeOK'
    BY <1>1, <1>3, TouchLemma DEF IndexInv, TypeOK, DelPgw, FieldValues, ClearedFields
  <1>5. ThreadIndexInv'
    BY <1>1, TouchLemma DEF IndexInv, TypeOK, DelPgw, ThreadIndexInv, GoodIndex
  <1>6. BoundIndexInv'
    <2> SUFFICES ASSUME NEW s \in Sessions PROVE (bound[s] = Unbound \/ bound[s].idx < end)'
      BY DEF BoundIndexInv
    <2>1. bound[s] = Unbound \/ bound[s].idx < end
      BY DEF IndexInv, BoundIndexInv
    <2>2. Unbound.idx # i
      BY PgwAssumption DEF Unbound, Slots
    <2>3. end' = end /\ bound[s] \in [idx : 0 .. MaxPgw, pgw : FieldValues, gone : BOOLEAN]
      BY DEF DelPgw, IndexInv, TypeOK
    <2>4. CASE bound[s].idx = i
      BY <1>1, <1>2, <2>3, <2>4
    <2>5. CASE bound[s].idx # i
      BY <1>1, <2>1, <2>3, <2>5
    <2> QED
      BY <2>4, <2>5
  <1>7. StoreIndexInv'
    BY <1>1, <1>2 DEF DelPgw, StoreIndexInv
  <1> QED
    BY <1>4, <1>5, <1>6, <1>7 DEF IndexInv

\* The index invariant survives a store of the main thread.
LEMMA StoreFieldIndex ==
  ASSUME IndexInv, NEW f \in Fields, StoreField(f)
  PROVE  IndexInv'
  <1>1. pgw_list' \in [Slots -> [Fields -> FieldValues]]
    BY DEF IndexInv, TypeOK, StoreField
  <1>2. /\ cfg' \in [slot : Slots, pgw : FieldValues, todo : SUBSET Fields]
        /\ cfg'.slot = cfg.slot
    BY DEF IndexInv, TypeOK, StoreField
  <1>3. TypeOK'
    BY <1>1, <1>2 DEF IndexInv, TypeOK, StoreField
  <1> QED
    BY <1>2, <1>3
       DEF IndexInv, StoreField, ThreadIndexInv, GoodIndex, BoundIndexInv, StoreIndexInv

\* A thread's place, spelled out for the steps below.
LEMMA ThreadFacts ==
  ASSUME IndexInv, NEW t \in Threads
  PROVE  hnd[t] \in ThreadStates /\ GoodIndex(hnd[t]) /\ end \in 0 .. MaxPgw
  BY DEF IndexInv, TypeOK, ThreadIndexInv

\* The index invariant survives the start of gtp_manager_get_pgw().
LEMMA GetPgwStartIndex ==
  ASSUME IndexInv, NEW t \in Threads, GetPgwStart(t)
  PROVE  IndexInv'
  <1> DEFINE h == [IdleThread EXCEPT !.pc = "get", !.idx = current, !.whole = (cfg.todo = {})]
  <1>1. Become(t, h) /\ UNCHANGED <<pgw_list, end, cfg, aborted>>
    BY DEF GetPgwStart
  <1>2. h \in ThreadStates /\ GoodIndex(h)
    BY ThreadFacts, IdleLemma, PgwAssumption
       DEF GetPgwStart, ThreadStates, GoodIndex, IdleThread, IndexInv, TypeOK, FieldValues
  <1>3. current' \in 0 .. MaxPgw
    BY DEF GetPgwStart, IndexInv, TypeOK
  <1>4. /\ bound' \in [Sessions -> [idx : 0 .. MaxPgw, pgw : FieldValues, gone : BOOLEAN]]
        /\ BoundIndexInv'
    BY DEF GetPgwStart, IndexInv, TypeOK, BoundIndexInv
  <1> QED
    BY <1>1, <1>2, <1>3, <1>4, ThreadStepIndex

\* The index invariant survives the start of gtp_manager_find_pgw().
LEMMA FindPgwStartIndex ==
  ASSUME IndexInv, NEW t \in Threads, NEW s \in Sessions, NEW p \in Pgws, FindPgwStart(t, s, p)
  PROVE  IndexInv'
  <1> DEFINE h == [IdleThread EXCEPT !.pc = "find", !.kind = "gtp", !.sess = s, !.pgw = p]
  <1>1. Become(t, h) /\ UNCHANGED <<pgw_list, end, cfg, aborted>>
    BY DEF FindPgwStart
  <1>2. h \in ThreadStates /\ GoodIndex(h)
    BY ZenonT(30), ThreadFacts, IdleLemma, PgwAssumption
       DEF FindPgwStart, ThreadStates, GoodIndex, IdleThread, IndexInv, TypeOK, FieldValues
  <1>3. current' \in 0 .. MaxPgw
    BY DEF FindPgwStart, IndexInv, TypeOK
  <1>4. /\ bound' \in [Sessions -> [idx : 0 .. MaxPgw, pgw : FieldValues, gone : BOOLEAN]]
        /\ BoundIndexInv'
    BY DEF FindPgwStart, IndexInv, TypeOK, BoundIndexInv
  <1> QED
    BY <1>1, <1>2, <1>3, <1>4, ThreadStepIndex

\* The index invariant survives a turn of a scan.
LEMMA ScanSkipIndex ==
  ASSUME IndexInv, NEW t \in Threads, ScanSkip(t)
  PROVE  IndexInv'
  <1> DEFINE h == [hnd[t] EXCEPT !.idx = @ + 1]
  <1>1. Become(t, h) /\ UNCHANGED <<pgw_list, end, cfg, aborted>>
    BY DEF ScanSkip
  <1>2. h \in ThreadStates /\ GoodIndex(h)
    <2>1. hnd[t].idx + 1 \in 0 .. MaxPgw /\ hnd[t].pc \in {"get", "find"}
      BY ThreadFacts, PgwAssumption DEF ScanSkip, ThreadStates
    <2>2. h \in ThreadStates
      BY <2>1, ThreadFacts DEF ThreadStates
    <2>3. h.pc = hnd[t].pc /\ h.kind = hnd[t].kind /\ h.sess = hnd[t].sess /\ h.pgw = hnd[t].pgw
      BY ThreadFacts DEF ThreadStates
    <2> QED
      BY <2>1, <2>2, <2>3, ThreadFacts DEF GoodIndex
  <1>3. current' \in 0 .. MaxPgw
    BY DEF ScanSkip, IndexInv, TypeOK
  <1>4. /\ bound' \in [Sessions -> [idx : 0 .. MaxPgw, pgw : FieldValues, gone : BOOLEAN]]
        /\ BoundIndexInv'
    BY DEF ScanSkip, IndexInv, TypeOK, BoundIndexInv
  <1> QED
    BY <1>1, <1>2, <1>3, <1>4, ThreadStepIndex

\* The index invariant survives a scan that finds a slot in use.
LEMMA GetPgwTakeIndex ==
  ASSUME IndexInv, NEW t \in Threads, GetPgwTake(t)
  PROVE  IndexInv'
  <1> DEFINE h == [hnd[t] EXCEPT !.pc = "take"]
  <1>1. Become(t, h) /\ UNCHANGED <<pgw_list, end, cfg, aborted>>
    BY DEF GetPgwTake
  <1>2. h \in ThreadStates /\ GoodIndex(h)
    BY ThreadFacts, IdleLemma, PgwAssumption
       DEF GetPgwTake, ThreadStates, GoodIndex, IdleThread, IndexInv, TypeOK, FieldValues
  <1>3. current' \in 0 .. MaxPgw
    BY DEF GetPgwTake, IndexInv, TypeOK
  <1>4. /\ bound' \in [Sessions -> [idx : 0 .. MaxPgw, pgw : FieldValues, gone : BOOLEAN]]
        /\ BoundIndexInv'
    BY DEF GetPgwTake, IndexInv, TypeOK, BoundIndexInv
  <1> QED
    BY <1>1, <1>2, <1>3, <1>4, ThreadStepIndex

\* The index invariant survives a scan that falls back to slot 0.
LEMMA GetPgwWrapIndex ==
  ASSUME IndexInv, NEW t \in Threads, GetPgwWrap(t)
  PROVE  IndexInv'
  <1> DEFINE h == [hnd[t] EXCEPT !.pc = "take", !.idx = 0]
  <1>1. Become(t, h) /\ UNCHANGED <<pgw_list, end, cfg, aborted>>
    BY DEF GetPgwWrap
  <1>2. h \in ThreadStates /\ GoodIndex(h)
    BY ThreadFacts, IdleLemma, PgwAssumption
       DEF GetPgwWrap, ThreadStates, GoodIndex, IdleThread, IndexInv, TypeOK, FieldValues
  <1>3. current' \in 0 .. MaxPgw
    BY DEF GetPgwWrap, IndexInv, TypeOK
  <1>4. /\ bound' \in [Sessions -> [idx : 0 .. MaxPgw, pgw : FieldValues, gone : BOOLEAN]]
        /\ BoundIndexInv'
    BY DEF GetPgwWrap, IndexInv, TypeOK, BoundIndexInv
  <1> QED
    BY <1>1, <1>2, <1>3, <1>4, ThreadStepIndex

\* The index invariant survives the store to current.
LEMMA StoreCurrentIndex ==
  ASSUME IndexInv, NEW t \in Threads, StoreCurrent(t)
  PROVE  IndexInv'
  <1> DEFINE h == StartReading(hnd[t])
  <1>1. Become(t, h) /\ UNCHANGED <<pgw_list, end, cfg, aborted>>
    BY DEF StoreCurrent
  <1>2. h \in ThreadStates /\ GoodIndex(h)
    BY ThreadFacts, IdleLemma, PgwAssumption
       DEF StoreCurrent, ThreadStates, GoodIndex, IdleThread, IndexInv, TypeOK, FieldValues, StartReading, FieldsRead
  <1>3. current' \in 0 .. MaxPgw
    BY ThreadFacts, PgwAssumption DEF StoreCurrent, GoodIndex, ThreadStates
  <1>4. /\ bound' \in [Sessions -> [idx : 0 .. MaxPgw, pgw : FieldValues, gone : BOOLEAN]]
        /\ BoundIndexInv'
    BY DEF StoreCurrent, IndexInv, TypeOK, BoundIndexInv
  <1> QED
    BY <1>1, <1>2, <1>3, <1>4, ThreadStepIndex

\* The index invariant survives a scan that finds the gateway.
LEMMA FindPgwHitIndex ==
  ASSUME IndexInv, NEW t \in Threads, FindPgwHit(t)
  PROVE  IndexInv'
  <1> DEFINE h == [hnd[t] EXCEPT !.pc = "bind", !.whole = (Owner(hnd[t].idx) = hnd[t].pgw)]
  <1>1. Become(t, h) /\ UNCHANGED <<pgw_list, end, cfg, aborted>>
    BY DEF FindPgwHit
  <1>2. h \in ThreadStates /\ GoodIndex(h)
    BY ThreadFacts, IdleLemma, PgwAssumption
       DEF FindPgwHit, ThreadStates, GoodIndex, IdleThread, IndexInv, TypeOK, FieldValues
  <1>3. current' \in 0 .. MaxPgw
    BY DEF FindPgwHit, IndexInv, TypeOK
  <1>4. /\ bound' \in [Sessions -> [idx : 0 .. MaxPgw, pgw : FieldValues, gone : BOOLEAN]]
        /\ BoundIndexInv'
    BY DEF FindPgwHit, IndexInv, TypeOK, BoundIndexInv
  <1> QED
    BY <1>1, <1>2, <1>3, <1>4, ThreadStepIndex

\* The index invariant survives the store of pgw_index.
LEMMA BindIndex ==
  ASSUME IndexInv, NEW t \in Threads, Bind(t)
  PROVE  IndexInv'
  <1> DEFINE h == IdleThread
  <1>1. Become(t, h) /\ UNCHANGED <<pgw_list, end, cfg, aborted>>
    BY DEF Bind
  <1>2. h \in ThreadStates /\ GoodIndex(h)
    BY IdleLemma
  <1>3. current' \in 0 .. MaxPgw
    BY DEF Bind, IndexInv, TypeOK
  <1>4. /\ bound' \in [Sessions -> [idx : 0 .. MaxPgw, pgw : FieldValues, gone : BOOLEAN]]
        /\ BoundIndexInv'
    <2>1. /\ hnd[t].sess \in Sessions /\ hnd[t].idx < end
          /\ [idx |-> hnd[t].idx, pgw |-> hnd[t].pgw, gone |-> ~hnd[t].whole]
               \in [idx : 0 .. MaxPgw, pgw : FieldValues, gone : BOOLEAN]
      BY ThreadFacts DEF Bind, GoodIndex, ThreadStates
    <2> QED
      BY <2>1 DEF Bind, IndexInv, TypeOK, BoundIndexInv
  <1> QED
    BY <1>1, <1>2, <1>3, <1>4, ThreadStepIndex

\* The index invariant survives a scan that finds no gateway.
LEMMA FindPgwMissIndex ==
  ASSUME IndexInv, NEW t \in Threads, FindPgwMiss(t)
  PROVE  IndexInv'
  <1> DEFINE h == IdleThread
  <1>1. Become(t, h) /\ UNCHANGED <<pgw_list, end, cfg, aborted>>
    BY DEF FindPgwMiss
  <1>2. h \in ThreadStates /\ GoodIndex(h)
    BY IdleLemma
  <1>3. current' \in 0 .. MaxPgw
    BY DEF FindPgwMiss, IndexInv, TypeOK
  <1>4. /\ bound' \in [Sessions -> [idx : 0 .. MaxPgw, pgw : FieldValues, gone : BOOLEAN]]
        /\ BoundIndexInv'
    BY DEF FindPgwMiss, IndexInv, TypeOK, BoundIndexInv
  <1> QED
    BY <1>1, <1>2, <1>3, <1>4, ThreadStepIndex

\* The index invariant survives the lookup of a session.
LEMMA RouteStartIndex ==
  ASSUME IndexInv, NEW t \in Threads, NEW s \in Sessions, NEW kind \in {"gtp", "sgi"}, RouteStart(t, s, kind)
  PROVE  IndexInv'
  <1> DEFINE h == [IdleThread EXCEPT
                    !.pc = "check", !.kind = kind, !.idx = bound[s].idx,
                    !.pgw = bound[s].pgw, !.gone = bound[s].gone,
                    !.whole = Settled(bound[s].idx)]
  <1>1. Become(t, h) /\ UNCHANGED <<pgw_list, end, cfg, aborted>>
    BY DEF RouteStart
  <1>2. h \in ThreadStates /\ GoodIndex(h)
    <2>1. bound[s].idx < end /\ bound[s] \in [idx : 0 .. MaxPgw, pgw : FieldValues, gone : BOOLEAN]
      BY DEF RouteStart, IndexInv, TypeOK, BoundIndexInv
    <2> QED
      BY <2>1, IdleLemma, PgwAssumption DEF ThreadStates, GoodIndex, IdleThread, Settled
  <1>3. current' \in 0 .. MaxPgw
    BY DEF RouteStart, IndexInv, TypeOK
  <1>4. /\ bound' \in [Sessions -> [idx : 0 .. MaxPgw, pgw : FieldValues, gone : BOOLEAN]]
        /\ BoundIndexInv'
    BY DEF RouteStart, IndexInv, TypeOK, BoundIndexInv
  <1> QED
    BY <1>1, <1>2, <1>3, <1>4, ThreadStepIndex

\* The index invariant survives the drop for a deleted gateway.
LEMMA RouteDropIndex ==
  ASSUME IndexInv, NEW t \in Threads, RouteDrop(t)
  PROVE  IndexInv'
  <1> DEFINE h == IdleThread
  <1>1. Become(t, h) /\ UNCHANGED <<pgw_list, end, cfg, aborted>>
    BY DEF RouteDrop
  <1>2. h \in ThreadStates /\ GoodIndex(h)
    BY IdleLemma
  <1>3. current' \in 0 .. MaxPgw
    BY DEF RouteDrop, IndexInv, TypeOK
  <1>4. /\ bound' \in [Sessions -> [idx : 0 .. MaxPgw, pgw : FieldValues, gone : BOOLEAN]]
        /\ BoundIndexInv'
    BY DEF RouteDrop, IndexInv, TypeOK, BoundIndexInv
  <1> QED
    BY <1>1, <1>2, <1>3, <1>4, ThreadStepIndex

\* The index invariant survives the check that the gateway is there.
LEMMA RouteAcceptIndex ==
  ASSUME IndexInv, NEW t \in Threads, RouteAccept(t)
  PROVE  IndexInv'
  <1> DEFINE h == StartReading(hnd[t])
  <1>1. Become(t, h) /\ UNCHANGED <<pgw_list, end, cfg, aborted>>
    BY DEF RouteAccept
  <1>2. h \in ThreadStates /\ GoodIndex(h)
    BY ZenonT(30), ThreadFacts, IdleLemma, PgwAssumption
       DEF RouteAccept, ThreadStates, GoodIndex, IdleThread, IndexInv, TypeOK, FieldValues, StartReading, FieldsRead
  <1>3. current' \in 0 .. MaxPgw
    BY DEF RouteAccept, IndexInv, TypeOK
  <1>4. /\ bound' \in [Sessions -> [idx : 0 .. MaxPgw, pgw : FieldValues, gone : BOOLEAN]]
        /\ BoundIndexInv'
    BY DEF RouteAccept, IndexInv, TypeOK, BoundIndexInv
  <1> QED
    BY <1>1, <1>2, <1>3, <1>4, ThreadStepIndex

\* The index invariant survives the load of a field of a slot.
LEMMA LoadFieldIndex ==
  ASSUME IndexInv, NEW t \in Threads, NEW f \in Fields, LoadField(t, f)
  PROVE  IndexInv'
  <1> DEFINE h == [hnd[t] EXCEPT !.out[f] = pgw_list[hnd[t].idx][f], !.todo = @ \ {f}]
  <1>1. Become(t, h) /\ UNCHANGED <<pgw_list, end, cfg, aborted>>
    BY DEF LoadField
  <1>2. h \in ThreadStates /\ GoodIndex(h)
    <2>1. hnd[t].idx \in Slots
      BY ThreadFacts, PgwAssumption DEF LoadField, GoodIndex, ThreadStates, Slots
    <2>2. pgw_list[hnd[t].idx][f] \in FieldValues
      BY <2>1 DEF IndexInv, TypeOK
    <2> QED
      BY <2>2, ThreadFacts DEF LoadField, ThreadStates, GoodIndex
  <1>3. current' \in 0 .. MaxPgw
    BY DEF LoadField, IndexInv, TypeOK
  <1>4. /\ bound' \in [Sessions -> [idx : 0 .. MaxPgw, pgw : FieldValues, gone : BOOLEAN]]
        /\ BoundIndexInv'
    BY DEF LoadField, IndexInv, TypeOK, BoundIndexInv
  <1> QED
    BY <1>1, <1>2, <1>3, <1>4, ThreadStepIndex

\* The index invariant survives the output of the packet.
LEMMA OutputIndex ==
  ASSUME IndexInv, NEW t \in Threads, Output(t)
  PROVE  IndexInv'
  <1> DEFINE h == IdleThread
  <1>1. Become(t, h) /\ UNCHANGED <<pgw_list, end, cfg, aborted>>
    BY DEF Output
  <1>2. h \in ThreadStates /\ GoodIndex(h)
    BY IdleLemma
  <1>3. current' \in 0 .. MaxPgw
    BY DEF Output, IndexInv, TypeOK
  <1>4. /\ bound' \in [Sessions -> [idx : 0 .. MaxPgw, pgw : FieldValues, gone : BOOLEAN]]
        /\ BoundIndexInv'
    BY DEF Output, IndexInv, TypeOK, BoundIndexInv
  <1> QED
    BY <1>1, <1>2, <1>3, <1>4, ThreadStepIndex

\* The index invariant is inductive.
LEMMA IndexStep == IndexInv /\ [Next]_vars => IndexInv'
  <1> SUFFICES ASSUME IndexInv, [Next]_vars PROVE IndexInv'
    OBVIOUS
  <1>1. CASE Main
    <2>1. CASE AddPgwAbort
      BY <2>1 DEF AddPgwAbort, IndexInv, TypeOK, ThreadIndexInv, GoodIndex,
                  BoundIndexInv, StoreIndexInv
    <2> QED
      BY <1>1, <2>1, AddPgwReuseIndex, AddPgwAppendIndex, DelPgwIndex, StoreFieldIndex
         DEF Main
  <1>2. ASSUME NEW t \in Threads, Upcall(t) PROVE IndexInv'
    <2>1. CASE Scan(t)
      BY <2>1, ScanSkipIndex, GetPgwTakeIndex, GetPgwWrapIndex, StoreCurrentIndex,
         FindPgwHitIndex, BindIndex, FindPgwMissIndex DEF Scan
    <2>2. CASE Translate(t)
      BY <2>2, RouteDropIndex, RouteAcceptIndex, LoadFieldIndex, OutputIndex DEF Translate
    <2> QED
      BY <1>2, <2>1, <2>2, GetPgwStartIndex, FindPgwStartIndex, RouteStartIndex DEF Upcall
  <1>3. ASSUME NEW s \in Sessions, Unbind(s) PROVE IndexInv'
    <2>1. Unbound \in [idx : 0 .. MaxPgw, pgw : FieldValues, gone : BOOLEAN]
      BY PgwAssumption DEF Unbound, FieldValues
    <2>2. TypeOK' /\ BoundIndexInv'
      BY <1>3, <2>1 DEF Unbind, IndexInv, TypeOK, BoundIndexInv
    <2> QED
      BY <1>3, <2>2 DEF Unbind, IndexInv, ThreadIndexInv, GoodIndex, StoreIndexInv
  <1>4. CASE UNCHANGED vars
    BY <1>4 DEF vars, IndexInv, TypeOK, ThreadIndexInv, GoodIndex, BoundIndexInv, StoreIndexInv
  <1> QED
    BY <1>1, <1>2, <1>3, <1>4 DEF Next

\* Type correctness of the registry, whatever the main thread and the upcall
\* threads of gtp-manager.c interleave: in particular no index into pgw_list
\* ever leaves its MAX_PGW_PER_NODE slots.
THEOREM TypeCorrect == Spec => []TypeOK
  <1>1. IndexInv => TypeOK
    BY DEF IndexInv
  <1> QED
    BY <1>1, InitIndex, IndexStep, PTL DEF Spec

\* A translation reads only slots that gtp_manager_add_pgw() has handed out, or
\* slot 0 for a new session.
THEOREM UsedSlots == Spec => []OnlyUsedSlotsRead
  <1>1. IndexInv => OnlyUsedSlotsRead
    BY DEF IndexInv, ThreadIndexInv, GoodIndex, OnlyUsedSlotsRead, Translating
  <1> QED
    BY <1>1, InitIndex, IndexStep, PTL DEF Spec
-----------------------------------------------------------------------------
(* The inductive invariant, second part: what the slots hold. *)

\* Every field of slot i is the gateway p's, or is about to be stored as p's.
Holds(i, p) ==
  \A f \in Fields :
    pgw_list[i][f] = p \/ (cfg.slot = i /\ cfg.pgw = p /\ f \in cfg.todo)

\* gtp_manager_del_pgw() is in the middle of clearing slot i.
Clearing(i) == cfg.todo # {} /\ cfg.slot = i /\ cfg.pgw = NoPgw

Owns(i, p) == p \in Pgws /\ i < end /\ Holds(i, p) /\ ~Clearing(i)

\* A slot with an address belongs to that gateway, or is being cleared; a slot
\* never handed out has no address.
SlotInv ==
  \A i \in Slots :
    /\ pgw_list[i]["ip"] # NoPgw =>
         i < end /\ (Holds(i, pgw_list[i]["ip"]) \/ Clearing(i))

\* How far the main thread has got with the slot it writes.
StoreInv ==
  cfg.todo # {} =>
    /\ cfg.pgw # NoPgw =>
         /\ Holds(cfg.slot, cfg.pgw)
         /\ "ip" \in cfg.todo => pgw_list[cfg.slot]["ip"] = NoPgw
    /\ cfg.pgw = NoPgw /\ "ip" \notin cfg.todo => pgw_list[cfg.slot]["ip"] = NoPgw

\* A session whose gateway has not been deleted still owns its slot.
BoundInv == \A s \in Sessions : ~bound[s].gone => Owns(bound[s].idx, bound[s].pgw)

\* A packet translated for such a session, the slot untouched, has picked up
\* that gateway's fields only.
GoodThread(h) ==
  /\ h.pc = "bind" /\ h.whole => Owns(h.idx, h.pgw)
  /\ h.pc \in {"check", "read"} /\ h.kind # "new" /\ h.whole =>
       /\ Settled(h.idx)
       /\ ~h.gone =>
            /\ Owns(h.idx, h.pgw)
            /\ h.pc = "read" => \A f \in FieldsRead(h.kind) \ h.todo : h.out[f] = h.pgw

ThreadInv == \A t \in Threads : GoodThread(hnd[t])

AffinityInv == IndexInv /\ SlotInv /\ StoreInv /\ BoundInv /\ ThreadInv

\* An idle thread owes nothing to any session.
LEMMA IdleGood == GoodThread(IdleThread)
  BY DEF GoodThread, IdleThread

\* The empty registry satisfies the whole invariant.
LEMMA InitAffinity == Init => AffinityInv
  <1> SUFFICES ASSUME Init PROVE AffinityInv
    OBVIOUS
  <1>1. SlotInv
    BY PgwAssumption DEF Init, SlotInv
  <1>2. StoreInv
    BY DEF Init, StoreInv, NoStores
  <1>3. BoundInv
    BY DEF Init, BoundInv, Unbound
  <1>4. ThreadInv
    BY IdleGood DEF Init, ThreadInv
  <1> QED
    BY <1>1, <1>2, <1>3, <1>4, InitIndex DEF AffinityInv

\* A step in which only the thread t moves, to a good h.
LEMMA ThreadStepAffinity ==
  ASSUME AffinityInv, IndexInv', NEW t \in Threads, NEW h \in ThreadStates, GoodThread(h),
         Become(t, h), UNCHANGED <<pgw_list, end, cfg>>, BoundInv'
  PROVE  AffinityInv'
  <1>1. /\ hnd'[t] = h
        /\ \A u \in Threads : u # t => hnd'[u] = hnd[u]
    BY BecomeLemma DEF AffinityInv, IndexInv, TypeOK
  <1>2. \A g : GoodThread(g)' <=> GoodThread(g)
    BY DEF GoodThread, Owns, Holds, Clearing, Settled
  <1>3. ThreadInv'
    BY <1>1, <1>2 DEF AffinityInv, ThreadInv
  <1>4. SlotInv' /\ StoreInv'
    BY DEF AffinityInv, SlotInv, StoreInv, Holds, Clearing
  <1> QED
    BY <1>3, <1>4 DEF AffinityInv

\* Sessions are not concerned by a step that leaves them and the slots alone.
LEMMA BoundUnchanged ==
  ASSUME BoundInv, UNCHANGED <<pgw_list, end, cfg, bound>>
  PROVE  BoundInv'
  BY DEF BoundInv, Owns, Holds, Clearing

\* Steps after which a thread is not bound to a slot a session owns.
LEMMA FreeStepAffinity ==
  ASSUME AffinityInv, IndexInv', NEW t \in Threads, NEW h \in ThreadStates,
         h.pc \in {"idle", "get", "take", "find"} \/ h.kind = "new",
         h.pc # "bind", Become(t, h), UNCHANGED <<pgw_list, end, cfg, bound>>
  PROVE  AffinityInv'
  <1>1. GoodThread(h)
    BY DEF GoodThread
  <1>2. BoundInv'
    BY BoundUnchanged DEF AffinityInv
  <1> QED
    BY <1>1, <1>2, ThreadStepAffinity

\* Session affinity survives a scan that finds the gateway.
LEMMA FindPgwHitAffinity ==
  ASSUME AffinityInv, IndexInv', NEW t \in Threads, FindPgwHit(t)
  PROVE  AffinityInv'
  <1> DEFINE h == [hnd[t] EXCEPT !.pc = "bind", !.whole = (Owner(hnd[t].idx) = hnd[t].pgw)]
  <1>0. hnd[t] \in ThreadStates /\ hnd[t].pgw \in Pgws /\ hnd[t].idx < end /\ hnd[t].idx \in Slots
    BY ThreadFacts, PgwAssumption DEF AffinityInv, FindPgwHit, GoodIndex, ThreadStates, Slots
  <1>1. h \in ThreadStates /\ h.pc = "bind" /\ h.idx = hnd[t].idx /\ h.pgw = hnd[t].pgw
        /\ h.whole = (Owner(hnd[t].idx) = hnd[t].pgw)
    BY <1>0 DEF ThreadStates
  <1>2. ASSUME Owner(hnd[t].idx) = hnd[t].pgw PROVE Owns(hnd[t].idx, hnd[t].pgw)
    <2>1. CASE Settled(hnd[t].idx)
      <3>1. Holds(hnd[t].idx, hnd[t].pgw)
        BY <1>0, <2>1, PgwAssumption
           DEF FindPgwHit, AffinityInv, SlotInv, Clearing, Settled
      <3> QED
        BY <1>0, <2>1, <3>1 DEF Owns, Clearing, Settled
    <2>2. CASE ~Settled(hnd[t].idx)
      <3>1. cfg.pgw = hnd[t].pgw /\ cfg.todo # {} /\ cfg.slot = hnd[t].idx
        BY <1>2, <2>2 DEF Owner, Settled
      <3> QED
        BY <1>0, <3>1, PgwAssumption DEF AffinityInv, StoreInv, Owns, Clearing
    <2> QED
      BY <2>1, <2>2
  <1>3. GoodThread(h)
    BY <1>1, <1>2 DEF GoodThread
  <1>4. Become(t, h) /\ UNCHANGED <<pgw_list, end, cfg, bound>>
    BY DEF FindPgwHit
  <1>5. BoundInv'
    BY <1>4, BoundUnchanged DEF AffinityInv
  <1> QED
    BY <1>1, <1>3, <1>4, <1>5, ThreadStepAffinity

\* Session affinity survives the store of pgw_index.
LEMMA BindAffinity ==
  ASSUME AffinityInv, IndexInv', NEW t \in Threads, Bind(t)
  PROVE  AffinityInv'
  <1>1. Become(t, IdleThread) /\ UNCHANGED <<pgw_list, end, cfg>>
    BY DEF Bind
  <1>2. hnd[t] \in ThreadStates /\ hnd[t].sess \in Sessions
    BY ThreadFacts DEF AffinityInv, Bind, GoodIndex
  <1>3. \A i, p : Owns(i, p)' <=> Owns(i, p)
    BY <1>1 DEF Owns, Holds, Clearing
  <1>4. hnd[t].whole => Owns(hnd[t].idx, hnd[t].pgw)
    BY DEF AffinityInv, ThreadInv, GoodThread, Bind
  <1>5. BoundInv'
    <2> SUFFICES ASSUME NEW s \in Sessions, ~bound'[s].gone
                 PROVE  Owns(bound'[s].idx, bound'[s].pgw)
      BY <1>3 DEF BoundInv
    <2>1. CASE s = hnd[t].sess
      <3>1. bound'[s] = [idx |-> hnd[t].idx, pgw |-> hnd[t].pgw, gone |-> ~hnd[t].whole]
        BY <2>1 DEF Bind, AffinityInv, IndexInv, TypeOK
      <3>2. hnd[t].whole \in BOOLEAN
        BY <1>2 DEF ThreadStates
      <3>3. bound'[s].gone = ~hnd[t].whole
        BY <3>1
      <3>4. hnd[t].whole
        BY <3>2, <3>3
      <3> QED
        BY <1>4, <3>1, <3>4
    <2>2. CASE s # hnd[t].sess
      BY <2>2 DEF Bind, AffinityInv, BoundInv, IndexInv, TypeOK
    <2> QED
      BY <2>1, <2>2
  <1> QED
    BY <1>1, <1>5, IdleLemma, IdleGood, ThreadStepAffinity

\* Session affinity survives the lookup of a session.
LEMMA RouteStartAffinity ==
  ASSUME AffinityInv, IndexInv', NEW t \in Threads, NEW s \in Sessions,
         NEW kind \in {"gtp", "sgi"}, RouteStart(t, s, kind)
  PROVE  AffinityInv'
  <1> DEFINE h == [IdleThread EXCEPT
                    !.pc = "check", !.kind = kind, !.idx = bound[s].idx,
                    !.pgw = bound[s].pgw, !.gone = bound[s].gone,
                    !.whole = Settled(bound[s].idx)]
  <1>1. Become(t, h) /\ UNCHANGED <<pgw_list, end, cfg, bound>>
    BY DEF RouteStart
  <1>2. bound[s] \in [idx : 0 .. MaxPgw, pgw : FieldValues, gone : BOOLEAN]
    BY DEF AffinityInv, IndexInv, TypeOK
  <1>3. /\ h \in ThreadStates /\ h.pc = "check" /\ h.idx = bound[s].idx
        /\ h.pgw = bound[s].pgw /\ h.gone = bound[s].gone
        /\ h.whole = Settled(bound[s].idx)
    BY <1>2, IdleLemma DEF ThreadStates, IdleThread, Settled
  <1>4. ~bound[s].gone => Owns(bound[s].idx, bound[s].pgw)
    BY DEF AffinityInv, BoundInv
  <1>5. GoodThread(h)
    BY <1>3, <1>4 DEF GoodThread
  <1>6. BoundInv'
    BY <1>1, BoundUnchanged DEF AffinityInv
  <1> QED
    BY <1>1, <1>3, <1>5, <1>6, ThreadStepAffinity

\* Session affinity survives the check that the gateway is there.
LEMMA RouteAcceptAffinity ==
  ASSUME AffinityInv, IndexInv', NEW t \in Threads, RouteAccept(t)
  PROVE  AffinityInv'
  <1> DEFINE h == StartReading(hnd[t])
  <1>1. Become(t, h) /\ UNCHANGED <<pgw_list, end, cfg, bound>>
    BY DEF RouteAccept
  <1>2. hnd[t] \in ThreadStates /\ GoodThread(hnd[t]) /\ hnd[t].pc = "check"
    BY ThreadFacts DEF AffinityInv, ThreadInv, RouteAccept
  <1>3. /\ h \in ThreadStates /\ h.pc = "read" /\ h.idx = hnd[t].idx /\ h.kind = hnd[t].kind
        /\ h.pgw = hnd[t].pgw /\ h.gone = hnd[t].gone /\ h.whole = hnd[t].whole
        /\ h.todo = FieldsRead(hnd[t].kind)
    BY <1>2, FieldsReadLemma DEF ThreadStates, StartReading
  <1>4. GoodThread(h)
    BY <1>2, <1>3 DEF GoodThread
  <1>5. BoundInv'
    BY <1>1, BoundUnchanged DEF AffinityInv
  <1> QED
    BY <1>1, <1>3, <1>4, <1>5, ThreadStepAffinity

\* Session affinity survives the load of a field of a slot.
LEMMA LoadFieldAffinity ==
  ASSUME AffinityInv, IndexInv', NEW t \in Threads, NEW f \in Fields, LoadField(t, f)
  PROVE  AffinityInv'
  <1> DEFINE g == hnd[t]
             h == [hnd[t] EXCEPT !.out[f] = pgw_list[hnd[t].idx][f], !.todo = @ \ {f}]
  <1>1. Become(t, h) /\ UNCHANGED <<pgw_list, end, cfg, bound>>
    BY DEF LoadField
  <1>2. g \in ThreadStates /\ GoodThread(g) /\ g.pc = "read" /\ GoodIndex(g)
    BY ThreadFacts DEF AffinityInv, ThreadInv, LoadField
  <1>3. g.idx \in Slots
    BY <1>2, ThreadFacts, PgwAssumption DEF AffinityInv, GoodIndex, ThreadStates, Slots
  <1>4. pgw_list[g.idx][f] \in FieldValues
    BY <1>3 DEF AffinityInv, IndexInv, TypeOK
  <1>5. /\ h \in ThreadStates /\ h.pc = "read" /\ h.idx = g.idx /\ h.kind = g.kind
        /\ h.pgw = g.pgw /\ h.gone = g.gone /\ h.whole = g.whole
        /\ h.todo = g.todo \ {f}
        /\ h.out[f] = pgw_list[g.idx][f]
        /\ \A e \in Fields \ {f} : h.out[e] = g.out[e]
    <2>1. /\ h.pc = g.pc /\ h.idx = g.idx /\ h.kind = g.kind /\ h.sess = g.sess
          /\ h.pgw = g.pgw /\ h.gone = g.gone /\ h.whole = g.whole
          /\ h.todo = g.todo \ {f}
          /\ h.out = [g.out EXCEPT ![f] = pgw_list[g.idx][f]]
      BY <1>2 DEF ThreadStates
    <2>2. g.out \in [Fields -> FieldValues]
      BY <1>2 DEF ThreadStates
    <2>3. h \in ThreadStates
      BY <1>2, <1>4 DEF ThreadStates
    <2> QED
      BY <1>2, <2>1, <2>2, <2>3
  <1>6. ASSUME Owns(g.idx, g.pgw), Settled(g.idx) PROVE pgw_list[g.idx][f] = g.pgw
    BY <1>6 DEF Owns, Holds, Settled
  <1>7. ASSUME g.kind # "new", g.whole, ~g.gone
        PROVE  \A e \in FieldsRead(h.kind) \ h.todo : h.out[e] = h.pgw
    <2>1. Owns(g.idx, g.pgw) /\ Settled(g.idx)
          /\ \A e \in FieldsRead(g.kind) \ g.todo : g.out[e] = g.pgw
      BY <1>2, <1>7 DEF GoodThread
    <2> QED
      BY <1>5, <1>6, <2>1, FieldsReadLemma
  <1>8. GoodThread(h)
    BY <1>2, <1>5, <1>7 DEF GoodThread
  <1>9. BoundInv'
    BY <1>1, BoundUnchanged DEF AffinityInv
  <1> QED
    BY <1>1, <1>5, <1>8, <1>9, ThreadStepAffinity

\* The steps of the main thread.
LEMMA AddPgwReuseAffinity ==
  ASSUME AffinityInv, IndexInv', NEW p \in Pgws, AddPgwReuse(p)
  PROVE  AffinityInv'
  <1>1. PICK i \in FreeBelowEnd : cfg' = [slot |-> i, pgw |-> p, todo |-> Fields] /\ Touch(i)
    BY DEF AddPgwReuse
  <1>2. i \in Slots /\ i < end /\ pgw_list[i]["ip"] = NoPgw
    BY PgwAssumption DEF FreeBelowEnd, Live, AffinityInv, IndexInv, TypeOK, Slots
  <1>3. cfg.todo = {} /\ UNCHANGED <<pgw_list, end, bound>> /\ p # NoPgw /\ "ip" \in Fields
    BY PgwAssumption DEF AddPgwReuse
  <1>4. \A j, q : Holds(j, q) => Holds(j, q)'
    BY <1>3 DEF Holds
  <1>5. \A j : ~Clearing(j)'
    BY <1>1, <1>3 DEF Clearing
  <1>6. \A j, q : Owns(j, q) => Owns(j, q)' /\ j # i
    <2>1. \A q \in Pgws : ~Holds(i, q)
      BY <1>2, <1>3, PgwAssumption DEF Holds
    <2> QED
      BY <1>3, <1>4, <1>5, <2>1 DEF Owns
  <1>7. \A j : j # i => Settled(j)'
    BY <1>1 DEF Settled
  <1>8. SlotInv'
    BY <1>3, <1>4 DEF AffinityInv, SlotInv, Clearing
  <1>9. StoreInv'
    BY <1>1, <1>2, <1>3 DEF StoreInv, Holds
  <1>10. BoundInv'
    BY <1>3, <1>6 DEF AffinityInv, BoundInv
  <1>11. ThreadInv'
    <2> SUFFICES ASSUME NEW t \in Threads PROVE GoodThread(hnd[t])'
      BY DEF ThreadInv
    <2>1. GoodThread(hnd[t])
      BY DEF AffinityInv, ThreadInv
    <2>2. /\ hnd'[t].pc = hnd[t].pc /\ hnd'[t].kind = hnd[t].kind /\ hnd'[t].idx = hnd[t].idx
          /\ hnd'[t].out = hnd[t].out /\ hnd'[t].todo = hnd[t].todo
          /\ hnd'[t].pgw = hnd[t].pgw /\ hnd'[t].gone = hnd[t].gone
          /\ hnd'[t].whole => hnd[t].whole /\ hnd[t].idx # i
      BY <1>1, <1>2, TouchLemma DEF AffinityInv, IndexInv, TypeOK
    <2> QED
      BY <1>6, <1>7, <2>1, <2>2 DEF GoodThread
  <1> QED
    BY <1>8, <1>9, <1>10, <1>11 DEF AffinityInv

\* Session affinity survives gtp_manager_add_pgw() taking the slot at end.
LEMMA AddPgwAppendAffinity ==
  ASSUME AffinityInv, IndexInv', NEW p \in Pgws, AddPgwAppend(p)
  PROVE  AffinityInv'
  <1>1. /\ cfg' = [slot |-> end, pgw |-> p, todo |-> Fields] /\ Touch(end)
        /\ end' = end + 1 /\ end \in Slots /\ end \in Nat
    BY PgwAssumption DEF AddPgwAppend, AffinityInv, IndexInv, TypeOK, Slots
  <1>2. pgw_list[end]["ip"] = NoPgw
    BY <1>1 DEF AffinityInv, SlotInv
  <1>3. cfg.todo = {} /\ UNCHANGED <<pgw_list, bound>> /\ p # NoPgw /\ "ip" \in Fields
    BY PgwAssumption DEF AddPgwAppend
  <1>4. \A j, q : Holds(j, q) => Holds(j, q)'
    BY <1>3 DEF Holds
  <1>5. \A j : ~Clearing(j)'
    BY <1>1, <1>3 DEF Clearing
  <1>6. \A j \in 0 .. MaxPgw : \A q : Owns(j, q) => Owns(j, q)' /\ j # end
    BY <1>1, <1>3, <1>4, <1>5, PgwAssumption DEF Owns
  <1>7. \A j : j # end => Settled(j)'
    BY <1>1 DEF Settled
  <1>8. SlotInv'
    <2> SUFFICES ASSUME NEW i \in Slots, pgw_list[i]["ip"] # NoPgw
                 PROVE  i < end' /\ Holds(i, pgw_list[i]["ip"])'
      BY <1>3 DEF SlotInv
    <2>1. i < end /\ Holds(i, pgw_list[i]["ip"])
      BY <1>3 DEF AffinityInv, SlotInv, Clearing
    <2> QED
      BY <1>1, <1>3, <1>4, <2>1, PgwAssumption DEF Slots
  <1>9. StoreInv'
    BY <1>1, <1>2, <1>3 DEF StoreInv, Holds
  <1>10. BoundInv'
    BY <1>3, <1>6 DEF AffinityInv, BoundInv, IndexInv, TypeOK
  <1>11. ThreadInv'
    <2> SUFFICES ASSUME NEW t \in Threads PROVE GoodThread(hnd[t])'
      BY DEF ThreadInv
    <2>1. GoodThread(hnd[t]) /\ hnd[t].idx \in 0 .. MaxPgw
      BY DEF AffinityInv, ThreadInv, IndexInv, TypeOK, ThreadStates
    <2> QED
      BY SMTT(30), <1>1, <1>6, <1>7, <2>1, TouchLemma DEF GoodThread, AffinityInv, IndexInv, TypeOK
  <1> QED
    BY <1>8, <1>9, <1>10, <1>11 DEF AffinityInv

\* Session affinity survives gtp_manager_del_pgw().
LEMMA DelPgwAffinity ==
  ASSUME AffinityInv, IndexInv', NEW p \in Pgws, DelPgw(p)
  PROVE  AffinityInv'
  <1>1. PICK i \in Slots :
          /\ cfg' = [slot |-> i, pgw |-> NoPgw, todo |-> ClearedFields]
          /\ bound' = [s \in Sessions |->
                         IF bound[s].idx = i THEN [bound[s] EXCEPT !.gone = TRUE]
                                             ELSE bound[s]]
          /\ Touch(i)
    BY DEF DelPgw
  <1>2. cfg.todo = {} /\ UNCHANGED <<pgw_list, end>> /\ "ip" \in ClearedFields
    BY PgwAssumption DEF DelPgw, ClearedFields
  <1>3. \A j, q : Holds(j, q) => Holds(j, q)'
    BY <1>2 DEF Holds
  <1>4. \A j : j # i => ~Clearing(j)' /\ Settled(j)'
    BY <1>1 DEF Clearing, Settled
  <1>5. \A j, q : Owns(j, q) /\ j # i => Owns(j, q)'
    BY <1>2, <1>3, <1>4 DEF Owns
  <1>6. SlotInv'
    BY <1>2, <1>3 DEF AffinityInv, SlotInv, Clearing
  <1>7. StoreInv'
    BY <1>1, <1>2 DEF StoreInv
  <1>8. BoundInv'
    <2> SUFFICES ASSUME NEW s \in Sessions, ~bound'[s].gone
                 PROVE  Owns(bound[s].idx, bound[s].pgw)'
      BY DEF BoundInv
    <2>1. bound[s] \in [idx : 0 .. MaxPgw, pgw : FieldValues, gone : BOOLEAN]
      BY DEF AffinityInv, IndexInv, TypeOK
    <2>2. bound[s].idx # i /\ bound'[s] = bound[s]
      BY <1>1, <2>1
    <2> QED
      BY <1>5, <2>2 DEF AffinityInv, BoundInv
  <1>9. ThreadInv'
    <2> SUFFICES ASSUME NEW t \in Threads PROVE GoodThread(hnd[t])'
      BY DEF ThreadInv
    <2>1. GoodThread(hnd[t])
      BY DEF AffinityInv, ThreadInv
    <2>2. /\ hnd'[t].pc = hnd[t].pc /\ hnd'[t].kind = hnd[t].kind /\ hnd'[t].idx = hnd[t].idx
          /\ hnd'[t].out = hnd[t].out /\ hnd'[t].todo = hnd[t].todo
          /\ hnd'[t].pgw = hnd[t].pgw /\ hnd'[t].gone = hnd[t].gone
          /\ hnd'[t].whole => hnd[t].whole /\ hnd[t].idx # i
      BY <1>1, TouchLemma DEF AffinityInv, IndexInv, TypeOK
    <2> QED
      BY <1>4, <1>5, <2>1, <2>2 DEF GoodThread
  <1> QED
    BY <1>6, <1>7, <1>8, <1>9 DEF AffinityInv

\* Session affinity survives a store of the main thread.
LEMMA StoreFieldAffinity ==
  ASSUME AffinityInv, IndexInv', NEW f \in Fields, StoreField(f)
  PROVE  AffinityInv'
  <1> DEFINE i == cfg.slot
             q == cfg.pgw
  <1>1. /\ i \in Slots /\ q \in FieldValues /\ f \in cfg.todo /\ i < end
        /\ cfg'.slot = i /\ cfg'.pgw = q /\ cfg'.todo = cfg.todo \ {f}
        /\ UNCHANGED <<end, bound, hnd>>
    BY DEF StoreField, AffinityInv, IndexInv, TypeOK, StoreIndexInv
  <1>2. /\ pgw_list'[i][f] = q
        /\ \A e \in Fields : e # f => pgw_list'[i][e] = pgw_list[i][e]
        /\ \A j \in Slots : j # i => pgw_list'[j] = pgw_list[j]
    BY <1>1 DEF StoreField, AffinityInv, IndexInv, TypeOK
  <1>3. \A j \in Slots : \A p : j # i /\ Holds(j, p) => Holds(j, p)'
    BY <1>1, <1>2 DEF Holds
  <1>4. Holds(i, q) => Holds(i, q)'
    BY <1>1, <1>2 DEF Holds
  <1>5. "ip" \in Fields
    BY PgwAssumption
  <1>6. \A j \in Slots : \A p : Owns(j, p) => Owns(j, p)'
    <2> SUFFICES ASSUME NEW j \in Slots, NEW p, Owns(j, p) PROVE Owns(j, p)'
      OBVIOUS
    <2>1. CASE j # i
      BY <1>1, <1>3, <2>1 DEF Owns, Clearing
    <2>2. CASE j = i
      <3>1. q # NoPgw
        BY <1>1, <2>2 DEF Owns, Clearing
      <3>2. Holds(i, q) /\ ("ip" \in cfg.todo => pgw_list[i]["ip"] = NoPgw)
        BY <1>1, <3>1 DEF AffinityInv, StoreInv
      <3>3. p = q
        BY <1>5, <2>2, <3>2, PgwAssumption DEF Owns, Holds
      <3> QED
        BY <1>1, <1>4, <2>2, <3>1, <3>2, <3>3 DEF Owns, Clearing
    <2> QED
      BY <2>1, <2>2
  <1>7. \A j : Settled(j) => Settled(j)' /\ j # i
    BY <1>1 DEF Settled
  <1>8. SlotInv'
    <2> SUFFICES ASSUME NEW j \in Slots, pgw_list'[j]["ip"] # NoPgw
                 PROVE  j < end' /\ (Holds(j, pgw_list[j]["ip"]) \/ Clearing(j))'
      BY DEF SlotInv
    <2>1. CASE j # i
      BY <1>1, <1>2, <1>3, <2>1 DEF AffinityInv, SlotInv, Clearing
    <2>2. CASE j = i /\ q # NoPgw
      <3>1. Holds(i, q) /\ ("ip" \in cfg.todo => pgw_list[i]["ip"] = NoPgw)
        BY <1>1, <2>2 DEF AffinityInv, StoreInv
      <3>2. pgw_list'[i]["ip"] = q
        BY <1>1, <1>2, <1>5, <2>2, <3>1 DEF Holds
      <3> QED
        BY <1>1, <1>4, <2>2, <3>1, <3>2
    <2>3. CASE j = i /\ q = NoPgw
      <3>1. "ip" \in cfg.todo /\ f # "ip"
        BY <1>1, <1>2, <1>5, <2>3 DEF AffinityInv, StoreInv
      <3> QED
        BY <1>1, <2>3, <3>1 DEF Clearing
    <2> QED
      BY <2>1, <2>2, <2>3
  <1>9. StoreInv'
    BY <1>1, <1>2, <1>4, <1>5 DEF AffinityInv, StoreInv
  <1>10. BoundInv'
    <2>1. \A s \in Sessions : ~bound[s].gone => bound[s].idx \in Slots
      BY PgwAssumption DEF AffinityInv, BoundInv, Owns, IndexInv, TypeOK, Slots
    <2> QED
      BY <1>1, <1>6, <2>1 DEF AffinityInv, BoundInv
  <1>11. ThreadInv'
    <2> SUFFICES ASSUME NEW t \in Threads PROVE GoodThread(hnd[t])'
      BY DEF ThreadInv
    <2>1. GoodThread(hnd[t]) /\ hnd[t].idx \in 0 .. MaxPgw /\ end \in 0 .. MaxPgw
      BY DEF AffinityInv, ThreadInv, IndexInv, TypeOK, ThreadStates
    <2>2. \A p : Owns(hnd[t].idx, p) => hnd[t].idx \in Slots
      BY <2>1, PgwAssumption DEF Owns, Slots
    <2> QED
      BY <1>1, <1>6, <1>7, <2>1, <2>2 DEF GoodThread
  <1> QED
    BY <1>8, <1>9, <1>10, <1>11 DEF AffinityInv

\* The whole invariant is inductive.
LEMMA AffinityStep == AffinityInv /\ [Next]_vars => AffinityInv'
  <1> SUFFICES ASSUME AffinityInv, [Next]_vars PROVE AffinityInv'
    OBVIOUS
  <1>0. IndexInv' /\ IndexInv
    BY IndexStep DEF AffinityInv
  <1>1. CASE Main
    <2>1. CASE AddPgwAbort
      BY <1>0, <2>1 DEF AddPgwAbort, AffinityInv, SlotInv, StoreInv, BoundInv, ThreadInv,
                        GoodThread, Owns, Holds, Clearing, Settled
    <2> QED
      BY <1>0, <1>1, <2>1, AddPgwReuseAffinity, AddPgwAppendAffinity, DelPgwAffinity,
         StoreFieldAffinity DEF Main
  <1>2. ASSUME NEW t \in Threads, Upcall(t) PROVE AffinityInv'
    <2>0. hnd[t] \in ThreadStates /\ GoodIndex(hnd[t]) /\ IdleThread \in ThreadStates
      BY <1>0, ThreadFacts, IdleLemma
    <2>1. ASSUME NEW h \in ThreadStates,
                 h.pc \in {"idle", "get", "take", "find"} \/ h.kind = "new", h.pc # "bind",
                 Become(t, h), UNCHANGED <<pgw_list, end, cfg, bound>>
          PROVE  AffinityInv'
      BY <1>0, <2>1, FreeStepAffinity
    <2>2. CASE GetPgwStart(t)
      <3> DEFINE h == [IdleThread EXCEPT !.pc = "get", !.idx = current, !.whole = (cfg.todo = {})]
      <3>1. h \in ThreadStates /\ h.pc = "get"
        BY <2>0, <1>0 DEF ThreadStates, IdleThread, IndexInv, TypeOK
      <3> QED
        BY <2>1, <2>2, <3>1 DEF GetPgwStart
    <2>3. ASSUME NEW s \in Sessions, NEW p \in Pgws, FindPgwStart(t, s, p) PROVE AffinityInv'
      <3> DEFINE h == [IdleThread EXCEPT !.pc = "find", !.kind = "gtp", !.sess = s, !.pgw = p]
      <3>1. h \in ThreadStates /\ h.pc = "find"
        BY <2>0 DEF ThreadStates, IdleThread, FieldValues
      <3> QED
        BY <2>1, <2>3, <3>1 DEF FindPgwStart
    <2>4. CASE ScanSkip(t)
      <3> DEFINE h == [hnd[t] EXCEPT !.idx = @ + 1]
      <3>1. hnd[t].idx + 1 \in 0 .. MaxPgw /\ hnd[t].pc \in {"get", "find"}
        <4>1. hnd[t].idx \in 0 .. MaxPgw /\ end \in 0 .. MaxPgw /\ hnd[t].idx < end
          BY <1>0, <2>0, <2>4 DEF ScanSkip, ThreadStates, IndexInv, TypeOK
        <4> QED
          BY <2>4, <4>1, PgwAssumption DEF ScanSkip
      <3>2. h \in ThreadStates /\ h.pc \in {"get", "find"}
        BY <2>0, <3>1 DEF ThreadStates
      <3> QED
        BY <2>1, <2>4, <3>2 DEF ScanSkip
    <2>5. CASE GetPgwTake(t)
      <3> DEFINE h == [hnd[t] EXCEPT !.pc = "take"]
      <3>1. h \in ThreadStates /\ h.pc = "take"
        BY <2>0 DEF ThreadStates
      <3> QED
        BY <2>1, <2>5, <3>1 DEF GetPgwTake
    <2>6. CASE GetPgwWrap(t)
      <3> DEFINE h == [hnd[t] EXCEPT !.pc = "take", !.idx = 0]
      <3>0. 0 \in 0 .. MaxPgw
        BY PgwAssumption
      <3>1. h \in ThreadStates /\ h.pc = "take"
        BY <2>0, <3>0 DEF ThreadStates
      <3> QED
        BY <2>1, <2>6, <3>1 DEF GetPgwWrap
    <2>7. CASE StoreCurrent(t)
      <3> DEFINE h == StartReading(hnd[t])
      <3>1. h \in ThreadStates /\ h.kind = "new" /\ h.pc = "read"
        BY <2>0, <2>7, FieldsReadLemma DEF StoreCurrent, GoodIndex, ThreadStates, StartReading
      <3> QED
        BY <2>1, <2>7, <3>1 DEF StoreCurrent
    <2>8. CASE FindPgwMiss(t) \/ RouteDrop(t) \/ Output(t)
      <3>1. IdleThread.pc = "idle"
        BY DEF IdleThread
      <3> QED
        BY <2>0, <2>1, <2>8, <3>1 DEF FindPgwMiss, RouteDrop, Output
    <2> QED
      BY <1>0, <1>2, <2>2, <2>3, <2>4, <2>5, <2>6, <2>7, <2>8, FindPgwHitAffinity,
         BindAffinity, RouteStartAffinity, RouteAcceptAffinity, LoadFieldAffinity
         DEF Upcall, Scan, Translate
  <1>3. ASSUME NEW s \in Sessions, Unbind(s) PROVE AffinityInv'
    <2>1. UNCHANGED <<pgw_list, end, cfg, hnd>>
      BY <1>3 DEF Unbind
    <2>2. BoundInv'
      BY <1>3, <2>1 DEF Unbind, Unbound, AffinityInv, BoundInv, Owns, Holds, Clearing,
                        IndexInv, TypeOK
    <2> QED
      BY <1>0, <2>1, <2>2 DEF AffinityInv, SlotInv, StoreInv, ThreadInv,
                              GoodThread, Owns, Holds, Clearing, Settled
  <1>4. CASE UNCHANGED vars
    BY <1>0, <1>4 DEF vars, AffinityInv, SlotInv, StoreInv, BoundInv, ThreadInv,
                      GoodThread, Owns, Holds, Clearing, Settled
  <1> QED
    BY <1>1, <1>2, <1>3, <1>4 DEF Next

\* Session affinity for any number of gateways, slots, sessions and threads:
\* the lock-free handlers of gtp-manager.c send a session's packet with the
\* address, MAC and port of the session's own gateway as long as that has not
\* been deleted and its slot is not being written meanwhile.
THEOREM Affinity == Spec => []SessionAffinity
  <1>1. AffinityInv => SessionAffinity
    BY DEF AffinityInv, ThreadInv, GoodThread, SessionAffinity, ForSession, Translated,
           Translating
  <1> QED
    BY <1>1, InitAffinity, AffinityStep, PTL DEF Spec
-----------------------------------------------------------------------------
(* New sessions.                                                           *)

\* A message without a TEID that arrived with the registry at rest, the main
\* thread having written nothing since: the scan has stopped at a slot in use or
\* at slot 0, and what was loaded of the slot is still there.
GoodNew(h) ==
  h.kind = "new" /\ h.whole =>
    /\ cfg.todo = {}
    /\ h.pc \in {"take", "read"} => h.idx = 0 \/ Live(h.idx)
    /\ h.pc = "read" => "ip" \in h.todo \/ h.out["ip"] = pgw_list[h.idx]["ip"]

NewInv == IndexInv /\ \A t \in Threads : GoodNew(hnd[t])

\* A step in which only the thread t moves, to a good h.
LEMMA ThreadStepNew ==
  ASSUME NewInv, NEW t \in Threads, NEW h \in ThreadStates, GoodNew(h),
         Become(t, h), UNCHANGED <<pgw_list, cfg>>
  PROVE  \A u \in Threads : GoodNew(hnd[u])'
  <1>1. /\ hnd'[t] = h
        /\ \A u \in Threads : u # t => hnd'[u] = hnd[u]
    BY BecomeLemma DEF NewInv, IndexInv, TypeOK
  <1>2. \A g : GoodNew(g)' <=> GoodNew(g)
    BY DEF GoodNew, Live
  <1> QED
    BY <1>1, <1>2 DEF NewInv

\* Whatever the main thread starts to write, no thread that is translating a
\* message without a TEID counts as undisturbed any more.
LEMMA TouchNew ==
  ASSUME NewInv, NEW i \in Slots, Touch(i)
  PROVE  \A u \in Threads : GoodNew(hnd[u])'
  BY TouchLemma DEF NewInv, IndexInv, TypeOK, GoodNew

\* An idle thread translates nothing.
LEMMA IdleNew == GoodNew(IdleThread)
  BY DEF GoodNew, IdleThread

\* A field that is loaded is what the slot holds.
LEMMA LoadFieldNew ==
  ASSUME NewInv, NEW t \in Threads, NEW f \in Fields, LoadField(t, f)
  PROVE  \A u \in Threads : GoodNew(hnd[u])'
  <1> DEFINE g == hnd[t]
             h == [hnd[t] EXCEPT !.out[f] = pgw_list[hnd[t].idx][f], !.todo = @ \ {f}]
  <1>1. Become(t, h) /\ UNCHANGED <<pgw_list, cfg>>
    BY DEF LoadField
  <1>2. g \in ThreadStates /\ GoodNew(g) /\ g.pc = "read" /\ GoodIndex(g)
    BY ThreadFacts DEF NewInv, LoadField
  <1>3. g.idx \in Slots
    BY <1>2, ThreadFacts, PgwAssumption DEF NewInv, GoodIndex, ThreadStates, Slots
  <1>4. pgw_list[g.idx][f] \in FieldValues
    BY <1>3 DEF NewInv, IndexInv, TypeOK
  <1>5. /\ h.pc = g.pc /\ h.idx = g.idx /\ h.kind = g.kind /\ h.whole = g.whole
        /\ h.todo = g.todo \ {f}
        /\ h.out = [g.out EXCEPT ![f] = pgw_list[g.idx][f]]
        /\ g.out \in [Fields -> FieldValues]
    BY <1>2 DEF ThreadStates
  <1>6. h \in ThreadStates
    BY <1>2, <1>4 DEF ThreadStates
  <1>7. h.out["ip"] = IF f = "ip" THEN pgw_list[g.idx]["ip"] ELSE g.out["ip"]
    BY <1>5, PgwAssumption
  <1>8. GoodNew(h)
    BY <1>2, <1>5, <1>7 DEF GoodNew
  <1> QED
    BY <1>1, <1>6, <1>8, ThreadStepNew

\* The invariant of new sessions is inductive.
LEMMA NewStep == NewInv /\ [Next]_vars => NewInv'
  <1> SUFFICES ASSUME NewInv, [Next]_vars PROVE \A u \in Threads : GoodNew(hnd[u])'
    BY IndexStep DEF NewInv
  <1>0. IndexInv
    BY DEF NewInv
  <1>1. CASE Main
    <2>1. ASSUME NEW p \in Pgws, AddPgwReuse(p) PROVE \A u \in Threads : GoodNew(hnd[u])'
      <3>1. PICK i \in FreeBelowEnd : Touch(i)
        BY <2>1 DEF AddPgwReuse
      <3>2. i \in Slots
        BY <1>0, PgwAssumption DEF FreeBelowEnd, IndexInv, TypeOK, Slots
      <3> QED
        BY <3>1, <3>2, TouchNew
    <2>2. ASSUME NEW p \in Pgws, AddPgwAppend(p) PROVE \A u \in Threads : GoodNew(hnd[u])'
      <3>1. end \in Slots /\ Touch(end)
        BY <1>0, <2>2, PgwAssumption DEF AddPgwAppend, IndexInv, TypeOK, Slots
      <3> QED
        BY <3>1, TouchNew
    <2>3. ASSUME NEW p \in Pgws, DelPgw(p) PROVE \A u \in Threads : GoodNew(hnd[u])'
      BY <2>3, TouchNew DEF DelPgw
    <2>4. CASE AddPgwAbort
      BY <2>4 DEF AddPgwAbort, NewInv, GoodNew, Live
    <2>5. ASSUME NEW f \in Fields, StoreField(f) PROVE \A u \in Threads : GoodNew(hnd[u])'
      BY <2>5 DEF StoreField, NewInv, GoodNew
    <2> QED
      BY <1>1, <2>1, <2>2, <2>3, <2>4, <2>5 DEF Main
  <1>2. ASSUME NEW t \in Threads, Upcall(t) PROVE \A u \in Threads : GoodNew(hnd[u])'
    <2> DEFINE g == hnd[t]
    <2>0. /\ g \in ThreadStates /\ GoodIndex(g) /\ GoodNew(g)
          /\ IdleThread \in ThreadStates
      BY <1>0, ThreadFacts, IdleLemma DEF NewInv
    <2>1. ASSUME NEW h \in ThreadStates, GoodNew(h), Become(t, h), UNCHANGED <<pgw_list, cfg>>
          PROVE  \A u \in Threads : GoodNew(hnd[u])'
      BY <2>1, ThreadStepNew
    <2>2. CASE GetPgwStart(t)
      <3> DEFINE h == [IdleThread EXCEPT !.pc = "get", !.idx = current, !.whole = (cfg.todo = {})]
      <3>1. h \in ThreadStates
        BY <2>0, <1>0 DEF ThreadStates, IdleThread, IndexInv, TypeOK
      <3>2. h.pc = "get" /\ (h.whole => cfg.todo = {})
        BY DEF IdleThread
      <3> QED
        BY <2>1, <2>2, <3>1, <3>2 DEF GetPgwStart, GoodNew
    <2>3. ASSUME NEW s \in Sessions, NEW p \in Pgws, FindPgwStart(t, s, p)
          PROVE  \A u \in Threads : GoodNew(hnd[u])'
      <3> DEFINE h == [IdleThread EXCEPT !.pc = "find", !.kind = "gtp", !.sess = s, !.pgw = p]
      <3>1. h \in ThreadStates /\ h.kind = "gtp"
        BY <2>0 DEF ThreadStates, IdleThread, FieldValues
      <3> QED
        BY <2>1, <2>3, <3>1 DEF FindPgwStart, GoodNew
    <2>4. CASE ScanSkip(t)
      <3> DEFINE h == [hnd[t] EXCEPT !.idx = @ + 1]
      <3>1. hnd[t].idx + 1 \in 0 .. MaxPgw /\ hnd[t].pc \in {"get", "find"}
        <4>1. hnd[t].idx \in 0 .. MaxPgw /\ end \in 0 .. MaxPgw /\ hnd[t].idx < end
          BY <1>0, <2>0, <2>4 DEF ScanSkip, ThreadStates, IndexInv, TypeOK
        <4> QED
          BY <2>4, <4>1, PgwAssumption DEF ScanSkip
      <3>2. /\ h \in ThreadStates /\ h.pc \in {"get", "find"} /\ h.kind = g.kind
            /\ h.whole = g.whole
        BY <2>0, <3>1 DEF ThreadStates
      <3> QED
        BY <2>0, <2>1, <2>4, <3>2 DEF ScanSkip, GoodNew
    <2>5. CASE GetPgwTake(t)
      <3> DEFINE h == [hnd[t] EXCEPT !.pc = "take"]
      <3>1. /\ h \in ThreadStates /\ h.pc = "take" /\ h.kind = g.kind /\ h.whole = g.whole
            /\ h.idx = g.idx
        BY <2>0 DEF ThreadStates
      <3>2. Live(g.idx)
        BY <2>5 DEF GetPgwTake
      <3> QED
        BY <2>0, <2>1, <2>5, <3>1, <3>2 DEF GetPgwTake, GoodNew
    <2>6. CASE GetPgwWrap(t)
      <3> DEFINE h == [hnd[t] EXCEPT !.pc = "take", !.idx = 0]
      <3>0. 0 \in 0 .. MaxPgw
        BY PgwAssumption
      <3>1. /\ h \in ThreadStates /\ h.pc = "take" /\ h.kind = g.kind /\ h.whole = g.whole
            /\ h.idx = 0
        BY <2>0, <3>0 DEF ThreadStates
      <3> QED
        BY <2>0, <2>1, <2>6, <3>1 DEF GetPgwWrap, GoodNew
    <2>7. CASE StoreCurrent(t)
      <3> DEFINE h == StartReading(hnd[t])
      <3>1. /\ h \in ThreadStates /\ h.kind = "new" /\ h.pc = "read" /\ h.whole = g.whole
            /\ h.idx = g.idx /\ h.todo = FieldsRead("new") /\ g.pc = "take" /\ g.kind = "new"
        BY <2>0, <2>7, FieldsReadLemma DEF StoreCurrent, GoodIndex, ThreadStates, StartReading
      <3>2. "ip" \in h.todo
        BY <3>1, PgwAssumption DEF FieldsRead
      <3> HIDE DEF h
      <3>3. GoodNew(h)
        BY <2>0, <3>1, <3>2 DEF GoodNew
      <3> QED
        BY <2>1, <2>7, <3>1, <3>3 DEF StoreCurrent, h
    <2>8. CASE FindPgwMiss(t) \/ RouteDrop(t) \/ Output(t) \/ Bind(t)
      BY <2>0, <2>1, <2>8, IdleNew DEF FindPgwMiss, RouteDrop, Output, Bind
    <2>9. CASE FindPgwHit(t)
      <3> DEFINE h == [hnd[t] EXCEPT !.pc = "bind", !.whole = (Owner(hnd[t].idx) = hnd[t].pgw)]
      <3>1. h \in ThreadStates /\ h.kind = "gtp"
        BY <2>0, <2>9 DEF ThreadStates, GoodIndex, FindPgwHit
      <3> QED
        BY <2>1, <2>9, <3>1 DEF FindPgwHit, GoodNew
    <2>10. ASSUME NEW s \in Sessions, NEW kind \in {"gtp", "sgi"}, RouteStart(t, s, kind)
           PROVE  \A u \in Threads : GoodNew(hnd[u])'
      <3> DEFINE h == [IdleThread EXCEPT
                         !.pc = "check", !.kind = kind, !.idx = bound[s].idx,
                         !.pgw = bound[s].pgw, !.gone = bound[s].gone,
                         !.whole = Settled(bound[s].idx)]
      <3>1. bound[s] \in [idx : 0 .. MaxPgw, pgw : FieldValues, gone : BOOLEAN]
        BY <1>0 DEF IndexInv, TypeOK
      <3>2. h \in ThreadStates /\ h.kind # "new"
        BY <3>1, IdleLemma DEF ThreadStates, IdleThread, Settled
      <3> QED
        BY <2>1, <2>10, <3>2 DEF RouteStart, GoodNew
    <2>11. CASE RouteAccept(t)
      <3> DEFINE h == StartReading(hnd[t])
      <3>1. h \in ThreadStates /\ h.kind # "new"
        BY <2>0, <2>11, FieldsReadLemma DEF RouteAccept, GoodIndex, ThreadStates, StartReading
      <3> QED
        BY <2>1, <2>11, <3>1 DEF RouteAccept, GoodNew
    <2> QED
      BY <1>2, <2>2, <2>3, <2>4, <2>5, <2>6, <2>7, <2>8, <2>9, <2>10, <2>11, LoadFieldNew
         DEF Upcall, Scan, Translate
  <1>3. ASSUME NEW s \in Sessions, Unbind(s) PROVE \A u \in Threads : GoodNew(hnd[u])'
    BY <1>3 DEF Unbind, NewInv, GoodNew, Live
  <1>4. CASE UNCHANGED vars
    BY <1>4 DEF vars, NewInv, GoodNew, Live
  <1> QED
    BY <1>1, <1>2, <1>3, <1>4 DEF Next

\* A message without a TEID leaves gtp_manager_get_pgw() for a gateway whenever
\* slot 0 holds one and the registry is at rest, however the round robin of the
\* other threads moves current meanwhile.
THEOREM NewReaches == Spec => []NewSessionReachesPgw
  <1>1. Init => NewInv
    BY InitIndex, IdleNew DEF Init, NewInv
  <1>2. NewInv => NewSessionReachesPgw
    BY DEF NewInv, GoodNew, NewSessionReachesPgw, Translated, Live
  <1> QED
    BY <1>1, <1>2, NewStep, PTL DEF Spec
=============================================================================
