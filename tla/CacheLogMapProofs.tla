-------------------------- MODULE CacheLogMapProofs ---------------------------
(***************************************************************************)
(* Proofs about the concurrent map, for any finite set of threads, any     *)
(* keys, calls, capacity, bounds and width of the counter: the inductive   *)
(* invariant IInv, and from it the accounts of the clean cache and what    *)
(* may take an entry away; then the promise to keys with one writer.       *)
(***************************************************************************)
EXTENDS CacheLogMap, ProofLemmas

(***************************************************************************)
(* The calls in progress.                                                  *)
(***************************************************************************)

\* What a call has with it at each pc.
LEMMA OpKinds ==
  ASSUME NEW o \in OpType
  PROVE  /\ o.pc \in {"append", "publish"} =>
              o \in [pc : {"append", "publish"}, key : Key, id : WriteId]
         /\ o.pc \in {"entry", "count"} =>
              o \in [pc : {"entry", "count", "push", "pop"}, key : Key, id : CacheId]
         /\ o.pc \in {"push", "pop"} =>
              \/ o \in [pc : {"entry", "count", "push", "pop"}, key : Key, id : CacheId]
              \/ o \in [pc : {"drop", "uncount_old", "push", "pop"}, key : Key,
                        id : CacheId, old : CleanRecord]
         /\ o.pc \in {"drop", "uncount_old"} =>
              o \in [pc : {"drop", "uncount_old", "push", "pop"}, key : Key,
                     id : CacheId, old : CleanRecord]
         /\ o.pc = "cleanup" =>
              o \in [pc : {"cleanup"}, key : Key, ref : VisibleRef \ {NoRef}]
         /\ o.pc = "unpublish" =>
              o \in [pc : {"unpublish"}, todo : Seq(DirtyRecord) \ {<<>>}]
<1>1. CASE o = Idle
  BY <1>1 DEF Idle
<1>2. CASE o \in [pc : {"uncount"}]
  BY <1>2
<1>3. CASE o \in [pc : {"append", "publish"}, key : Key, id : WriteId]
  BY <1>3
<1>4. CASE o \in [pc : {"entry", "count", "push", "pop"}, key : Key, id : CacheId]
  BY <1>4
<1>5. CASE o \in [pc : {"drop", "uncount_old", "push", "pop"}, key : Key,
                  id : CacheId, old : CleanRecord]
  BY <1>5
<1>6. CASE o \in [pc : {"cleanup"}, key : Key, ref : VisibleRef \ {NoRef}]
  BY <1>6
<1>7. CASE o \in [pc : {"unpublish"}, todo : Seq(DirtyRecord) \ {<<>>}]
  BY <1>7
<1> QED
  BY <1>1, <1>2, <1>3, <1>4, <1>5, <1>6, <1>7 DEF OpType

\* A call that enqueues has a key and a clean id.
LEMMA Enqueues ==
  ASSUME NEW o \in OpType,
         o.pc \in {"entry", "count", "push", "pop", "drop", "uncount_old"}
  PROVE  o.key \in Key /\ o.id \in CacheId
<1>1. \/ o \in [pc : {"entry", "count", "push", "pop"}, key : Key, id : CacheId]
      \/ o \in [pc : {"drop", "uncount_old", "push", "pop"}, key : Key,
                id : CacheId, old : CleanRecord]
  BY OpKinds
<1> QED
  BY <1>1

\* Where a call may go on: each pc has what the next one needs.
LEMMA OpMoves ==
  ASSUME NEW o \in OpType
  PROVE  /\ o.pc = "append" => [o EXCEPT !.pc = "publish"] \in OpType
         /\ o.pc = "entry" => [o EXCEPT !.pc = "count"] \in OpType
         /\ o.pc = "count" => [o EXCEPT !.pc = "push"] \in OpType
         /\ o.pc = "push" => [o EXCEPT !.pc = "pop"] \in OpType
         /\ o.pc = "pop" => [o EXCEPT !.pc = "push"] \in OpType
         /\ o.pc = "drop" => [o EXCEPT !.pc = "uncount_old"] \in OpType
         /\ o.pc = "drop" => [o EXCEPT !.pc = "push"] \in OpType
         /\ o.pc = "uncount_old" => [o EXCEPT !.pc = "push"] \in OpType
<1> DEFINE A == [pc : {"append", "publish"}, key : Key, id : WriteId]
           E == [pc : {"entry", "count", "push", "pop"}, key : Key, id : CacheId]
           D == [pc : {"drop", "uncount_old", "push", "pop"}, key : Key,
                 id : CacheId, old : CleanRecord]
<1>1. A \subseteq OpType /\ E \subseteq OpType /\ D \subseteq OpType
  BY DEF OpType
<1>2. o.pc = "append" => o \in A
  BY OpKinds
<1>3. o.pc \in {"entry", "count"} => o \in E
  BY OpKinds
<1>4. o.pc \in {"push", "pop"} => o \in E \/ o \in D
  BY OpKinds
<1>5. o.pc \in {"drop", "uncount_old"} => o \in D
  BY OpKinds
<1>6. o \in A => [o EXCEPT !.pc = "publish"] \in A
  OBVIOUS
<1>7. o \in E => /\ [o EXCEPT !.pc = "count"] \in E
                 /\ [o EXCEPT !.pc = "push"] \in E /\ [o EXCEPT !.pc = "pop"] \in E
  OBVIOUS
<1>8. o \in D => /\ [o EXCEPT !.pc = "uncount_old"] \in D
                 /\ [o EXCEPT !.pc = "push"] \in D /\ [o EXCEPT !.pc = "pop"] \in D
  OBVIOUS
<1> HIDE DEF A, E, D
<1> QED
  BY <1>1, <1>2, <1>3, <1>4, <1>5, <1>6, <1>7, <1>8

\* The calls that go on with Goto.
Moving == {"append", "entry", "count", "push", "pop", "drop", "uncount_old"}

\* Going on changes the pc of the call and nothing else of it.
LEMMA MovedOp ==
  ASSUME NEW o \in OpType, o.pc \in Moving, NEW x
  PROVE  /\ [o EXCEPT !.pc = x].pc = x
         /\ [o EXCEPT !.pc = x].key = o.key
         /\ [o EXCEPT !.pc = x].id = o.id
<1>1. \/ o \in [pc : {"append", "publish"}, key : Key, id : WriteId]
      \/ o \in [pc : {"entry", "count", "push", "pop"}, key : Key, id : CacheId]
      \/ o \in [pc : {"drop", "uncount_old", "push", "pop"}, key : Key,
                id : CacheId, old : CleanRecord]
  BY OpKinds DEF Moving
<1> QED
  BY <1>1

\* What Goto does to the calls.
LEMMA GotoOp ==
  ASSUME TypeOK, NEW t \in Thread, NEW pc, Goto(t, pc), op[t].pc \in Moving
  PROVE  /\ op' = [op EXCEPT ![t] = [op[t] EXCEPT !.pc = pc]]
         /\ op'[t].pc = pc /\ op'[t].key = op[t].key /\ op'[t].id = op[t].id
         /\ \A u \in Thread \ {t} : op'[u] = op[u]
<1>1. op \in [Thread -> OpType]
  BY DEF TypeOK
<1>2. op' = [op EXCEPT ![t] = [op[t] EXCEPT !.pc = pc]]
  BY DEF Goto
<1>3. op'[t] = [op[t] EXCEPT !.pc = pc] /\ \A u \in Thread \ {t} : op'[u] = op[u]
  BY <1>1, <1>2
<1> QED
  BY <1>1, <1>2, <1>3, MovedOp

\* A call that goes on where it may keeps the type of the calls.
LEMMA GotoType ==
  ASSUME TypeOK, NEW t \in Thread, NEW pc, Goto(t, pc),
         [op[t] EXCEPT !.pc = pc] \in OpType
  PROVE  op' \in [Thread -> OpType]
<1>1. op' = [op EXCEPT ![t] = [op[t] EXCEPT !.pc = pc]]
  BY DEF Goto
<1> QED
  BY <1>1 DEF TypeOK

\* What Return does to them.
LEMMA ReturnOp ==
  ASSUME TypeOK, NEW t \in Thread, Return(t)
  PROVE  /\ op' \in [Thread -> OpType]
         /\ op'[t] = Idle /\ op'[t].pc = "idle"
         /\ \A u \in Thread \ {t} : op'[u] = op[u]
<1>1. Idle \in OpType /\ Idle.pc = "idle"
  BY DEF OpType, Idle
<1> QED
  BY <1>1 DEF Return, TypeOK

(***************************************************************************)
(* Types.                                                                  *)
(***************************************************************************)

\* The map starts out with its types.
LEMMA InitTypeOK == Init => TypeOK
<1> SUFFICES ASSUME Init PROVE TypeOK
  OBVIOUS
<1> USE DEF Init
<1>1. visible \in [Key -> VisibleRef]
  BY DEF VisibleRef
<1>2. Dirty!TypeOK
  BY DEF Dirty!Init, Dirty!TypeOK
<1>3. clean_fifo \in Seq(CleanRecord) /\ Len(clean_fifo) <= Capacity
  BY CapacityAssumption
<1>4. /\ next_write \in 0 .. MaxWrite /\ next_cache \in 0 .. MaxCache
      /\ leaked \in 0 .. MaxCache /\ clean_count \in 0 .. CountModulus - 1
  BY BoundAssumption, CountModulusAssumption
<1>5. op \in [Thread -> OpType]
  BY DEF OpType, Idle
<1>6. held \in [Thread -> Seq(DirtyRecord)]
  OBVIOUS
<1> QED
  BY <1>1, <1>2, <1>3, <1>4, <1>5, <1>6 DEF TypeOK

\* A counter that wraps is a word of it.
LEMMA WrapType == \A n \in Int : Wrap(n) \in 0 .. CountModulus - 1
BY CountModulusAssumption, ModRange DEF Wrap

\* Removing an entry, or not, leaves references.
LEMMA RemovedType ==
  ASSUME TypeOK, NEW k, NEW is_match, RemoveIf(k, is_match)
  PROVE  visible' \in [Key -> VisibleRef]
BY DEF RemoveIf, TypeOK, VisibleRef

\* The steps of insert_dirty keep the types.
LEMMA InsertDirtyTypes ==
  ASSUME TypeOK, NEW t \in Thread,
         (\E k \in Key : TakeWriteId(t, k)) \/ InsertDirty(t)
  PROVE  TypeOK'
<1>0. op \in [Thread -> OpType] /\ op[t] \in OpType
  BY DEF TypeOK
<1>1. ASSUME NEW k \in Key, TakeWriteId(t, k) PROVE TypeOK'
  <2> USE <1>1 DEF TakeWriteId
  <2>1. next_write \in WriteId /\ next_write' \in 0 .. MaxWrite
    BY BoundAssumption DEF TypeOK, WriteId
  <2>2. [pc |-> "append", key |-> k, id |-> next_write] \in OpType
    BY <2>1 DEF OpType
  <2>3. op' \in [Thread -> OpType]
    BY <1>0, <2>2
  <2> QED
    BY <2>1, <2>3 DEF TypeOK, logVars, cleanVars, Dirty!TypeOK
<1>2. CASE AppendDirty(t)
  <2> USE <1>2 DEF AppendDirty
  <2>1. op[t].key \in Key /\ op[t].id \in WriteId
    BY <1>0, OpKinds
  <2>2. [id |-> op[t].id, key |-> op[t].key] \in DirtyRecord
    BY <2>1 DEF DirtyRecord
  <2>3. Dirty!TypeOK'
    BY <2>2 DEF TypeOK, Dirty!TypeOK, Dirty!AppendRecord
  <2>4. op' \in [Thread -> OpType]
    BY <1>0, GotoType, OpMoves
  <2> QED
    BY <2>3, <2>4 DEF TypeOK, cleanVars
<1>3. CASE PublishDirty(t)
  <2> USE <1>3 DEF PublishDirty
  <2>1. DirtyRef(op[t].id) \in VisibleRef
    BY <1>0, OpKinds DEF VisibleRef
  <2>2. visible' \in [Key -> VisibleRef]
    BY <2>1 DEF TypeOK
  <2>3. clean_count' \in 0 .. CountModulus - 1
    <3>1. clean_count \in Int /\ clean_count \in 0 .. CountModulus - 1
      BY CountModulusAssumption DEF TypeOK
    <3>2. clean_count' = Wrap(clean_count - 1) \/ clean_count' = clean_count
      BY DEF CountAfterReplacing
    <3> QED
      BY <3>1, <3>2, WrapType
  <2>4. op' \in [Thread -> OpType]
    BY ReturnOp
  <2> QED
    BY <2>2, <2>3, <2>4 DEF TypeOK, logVars, Dirty!TypeOK
<1> QED
  BY <1>1, <1>2, <1>3 DEF InsertDirty

\* The steps of insert_clean_if_absent keep the types, and the FIFO its
\* capacity.
LEMMA InsertCleanTypes ==
  ASSUME TypeOK, NEW t \in Thread,
         (\E k \in Key : TakeCacheId(t, k)) \/ InsertClean(t)
  PROVE  TypeOK'
<1>0. op \in [Thread -> OpType] /\ op[t] \in OpType
  BY DEF TypeOK
<1>1. ASSUME NEW k \in Key, TakeCacheId(t, k) PROVE TypeOK'
  <2> USE <1>1 DEF TakeCacheId
  <2>1. next_cache \in CacheId /\ next_cache' \in 0 .. MaxCache
    BY BoundAssumption DEF TypeOK, CacheId
  <2>2. [pc |-> "entry", key |-> k, id |-> next_cache] \in OpType
    BY <2>1 DEF OpType
  <2>3. op' \in [Thread -> OpType]
    BY <1>0, <2>2
  <2> QED
    BY <2>1, <2>3 DEF TypeOK, logVars, Dirty!TypeOK
<1>2. CASE InsertVacant(t)
  <2> USE <1>2 DEF InsertVacant
  <2>1. CleanRef(op[t].id) \in VisibleRef
    BY <1>0, Enqueues DEF VisibleRef
  <2>2. visible' \in [Key -> VisibleRef]
    BY <2>1 DEF TypeOK
  <2>3. op' \in [Thread -> OpType]
    BY <1>0, GotoType, OpMoves
  <2> QED
    BY <2>2, <2>3 DEF TypeOK, logVars, cleanVars, Dirty!TypeOK
<1>3. CASE FindOccupied(t)
  BY <1>3, ReturnOp DEF FindOccupied, TypeOK, logVars, cleanVars, Dirty!TypeOK
<1>4. CASE CountClean(t)
  <2> USE <1>4 DEF CountClean
  <2>1. op' \in [Thread -> OpType]
    BY <1>0, GotoType, OpMoves
  <2>2. clean_count' \in 0 .. CountModulus - 1
    BY WrapType, CountModulusAssumption DEF TypeOK
  <2> QED
    BY <2>1, <2>2 DEF TypeOK, logVars, Dirty!TypeOK
<1>5. CASE EnqueuePush(t)
  <2> USE <1>5 DEF EnqueuePush
  <2>1. [id |-> op[t].id, key |-> op[t].key] \in CleanRecord
    BY <1>0, Enqueues DEF CleanRecord
  <2>2. clean_fifo' \in Seq(CleanRecord) /\ Len(clean_fifo') <= Capacity
    BY <2>1, CapacityAssumption DEF PushSlot, QueueFull, TypeOK
  <2> QED
    BY <2>2, ReturnOp DEF TypeOK, logVars, Dirty!TypeOK
<1>6. CASE EnqueueFull(t)
  <2> USE <1>6 DEF EnqueueFull, AfterFullQueue
  <2>1. op' \in [Thread -> OpType]
    BY <1>0, GotoType, OpMoves
  <2> QED
    BY <2>1 DEF TypeOK, logVars, cleanVars, Dirty!TypeOK
<1>7. CASE EnqueuePop(t)
  <2> USE <1>7 DEF EnqueuePop
  <2>1. CASE Goto(t, "push") /\ UNCHANGED clean_fifo
    <3>1. op' \in [Thread -> OpType]
      BY <1>0, <2>1, GotoType, OpMoves
    <3> QED
      BY <2>1, <3>1 DEF TypeOK, logVars, Dirty!TypeOK
  <2>2. CASE /\ PopSlot
             /\ op' = [op EXCEPT ![t] =
                  [pc |-> "drop", key |-> op[t].key, id |-> op[t].id,
                   old |-> Head(clean_fifo)]]
    <3>1. /\ Head(clean_fifo) \in CleanRecord
          /\ clean_fifo' \in Seq(CleanRecord) /\ Len(clean_fifo') <= Capacity
      BY <2>2, CapacityAssumption, HeadTailProperties DEF PopSlot, TypeOK
    <3>2. [pc |-> "drop", key |-> op[t].key, id |-> op[t].id,
           old |-> Head(clean_fifo)] \in OpType
      BY <1>0, <3>1, Enqueues DEF OpType
    <3>3. op' \in [Thread -> OpType]
      BY <1>0, <2>2, <3>2
    <3> QED
      BY <3>1, <3>3 DEF TypeOK, logVars, Dirty!TypeOK
  <2> QED
    BY <2>1, <2>2
<1>8. CASE EnqueueDrop(t)
  <2> USE <1>8 DEF EnqueueDrop
  <2>1. visible' \in [Key -> VisibleRef]
    BY RemovedType
  <2>2. CASE IsOldClean(op[t].old)
    <3>1. op' \in [Thread -> OpType]
      BY <1>0, <2>2, GotoType, OpMoves
    <3> QED
      BY <2>1, <3>1 DEF TypeOK, logVars, cleanVars, Dirty!TypeOK
  <2>3. CASE ~IsOldClean(op[t].old)
    <3>1. op' \in [Thread -> OpType]
      BY <1>0, <2>3, GotoType, OpMoves
    <3> QED
      BY <2>1, <3>1 DEF TypeOK, logVars, cleanVars, Dirty!TypeOK
  <2> QED
    BY <2>2, <2>3
<1>9. CASE EnqueueUncount(t)
  <2> USE <1>9 DEF EnqueueUncount
  <2>1. op' \in [Thread -> OpType]
    BY <1>0, GotoType, OpMoves
  <2>2. clean_count' \in 0 .. CountModulus - 1
    BY WrapType, CountModulusAssumption DEF TypeOK
  <2> QED
    BY <2>1, <2>2 DEF TypeOK, logVars, Dirty!TypeOK
<1> QED
  BY <1>1, <1>2, <1>3, <1>4, <1>5, <1>6, <1>7, <1>8, <1>9 DEF InsertClean

\* The steps of evict_clean and cleanup_stale_visible keep the types: there
\* is a clean id for every leak.
LEMMA RemovalTypes ==
  ASSUME TypeOK, CleanIdsSpent, NEW t \in Thread,
         \/ \E k \in Key : EvictClean(t, k) \/ CleanupRead(t, k)
         \/ EvictUncount(t) \/ CleanupRemove(t)
  PROVE  TypeOK'
<1>0. op \in [Thread -> OpType] /\ op[t] \in OpType
  BY DEF TypeOK
<1>1. ASSUME NEW k \in Key, EvictClean(t, k) PROVE TypeOK'
  <2> USE <1>1 DEF EvictClean
  <2>1. visible' \in [Key -> VisibleRef]
    BY RemovedType
  <2>2. [pc |-> "uncount"] \in OpType
    BY DEF OpType
  <2>3. op' \in [Thread -> OpType]
    BY <1>0, <2>2
  <2> QED
    BY <2>1, <2>3 DEF TypeOK, logVars, cleanVars, Dirty!TypeOK
<1>2. ASSUME NEW k \in Key, CleanupRead(t, k) PROVE TypeOK'
  <2> USE <1>2 DEF CleanupRead
  <2>1. visible[k] \in VisibleRef \ {NoRef}
    BY DEF TypeOK
  <2>2. [pc |-> "cleanup", key |-> k, ref |-> visible[k]] \in OpType
    BY <2>1 DEF OpType
  <2>3. op' \in [Thread -> OpType]
    BY <1>0, <2>2
  <2> QED
    BY <2>3 DEF TypeOK, logVars, cleanVars, Dirty!TypeOK
<1>3. CASE EvictUncount(t)
  <2> USE <1>3 DEF EvictUncount
  <2>1. clean_count' \in 0 .. CountModulus - 1
    BY WrapType, CountModulusAssumption DEF TypeOK
  <2> QED
    BY <2>1, ReturnOp DEF TypeOK, logVars, Dirty!TypeOK
<1>4. CASE CleanupRemove(t)
  <2> USE <1>4 DEF CleanupRemove
  <2>1. visible' \in [Key -> VisibleRef]
    BY RemovedType
  <2>2. leaked' \in 0 .. MaxCache
    <3>1. op[t].key \in Key
      BY <1>0, OpKinds
    <3>2. CASE SameRef(op[t].key, op[t].ref) /\ op[t].ref.kind = "Clean"
      <4>1. op[t].key \in VisibleClean
        BY <3>1, <3>2 DEF SameRef, VisibleClean
      <4>2. Cardinality(VisibleClean) \in Nat \ {0}
        BY <4>1, FS_EmptySet, FS_CardinalityType DEF CleanIdsSpent
      <4>3. Cardinality(Entering) \in Nat
        <5>1. Entering \in SUBSET Thread
          BY DEF Entering
        <5> QED
          BY <5>1, FiniteThreadsAssumption, FS_Subset, FS_CardinalityType
      <4> QED
        BY <3>2, <4>2, <4>3, BoundAssumption DEF CleanIdsSpent, TypeOK
    <3>3. CASE ~(SameRef(op[t].key, op[t].ref) /\ op[t].ref.kind = "Clean")
      BY <3>3 DEF TypeOK
    <3> QED
      BY <3>2, <3>3
  <2> QED
    BY <2>1, <2>2, ReturnOp DEF TypeOK, logVars, Dirty!TypeOK
<1> QED
  BY <1>1, <1>2, <1>3, <1>4

\* The steps of flush_batch and mark_flushed keep the types.
LEMMA FlushTypes ==
  ASSUME TypeOK, NEW t \in Thread,
         \/ FlushAgain(t) \/ FlushNothing(t) \/ MarkFlushed(t) \/ Unpublish(t)
         \/ \E limit \in Limit : FlushNew(t, limit)
  PROVE  TypeOK'
<1>0. /\ op \in [Thread -> OpType] /\ op[t] \in OpType
      /\ pending \in Seq(DirtyRecord) /\ inflight \in Seq(DirtyRecord)
      /\ retired \in Seq(DirtyRecord) /\ held[t] \in Seq(DirtyRecord)
  BY DEF TypeOK, Dirty!TypeOK
<1>1. CASE FlushAgain(t)
  BY <1>0, <1>1 DEF FlushAgain, TypeOK, logVars, cleanVars, Dirty!TypeOK
<1>2. CASE FlushNothing(t)
  <2>1. held' \in [Thread -> Seq(DirtyRecord)]
    BY <1>2 DEF FlushNothing, TypeOK
  <2> QED
    BY <1>2, <2>1 DEF FlushNothing, TypeOK, logVars, cleanVars, Dirty!TypeOK
<1>3. ASSUME NEW limit \in Limit, FlushNew(t, limit) PROVE TypeOK'
  <2> DEFINE n == IF Len(pending) < limit THEN Len(pending) ELSE limit
  <2> USE <1>3 DEF FlushNew
  <2>1. /\ n \in 1 .. Len(pending)
        /\ inflight' = SubSeq(pending, 1, n)
        /\ pending' = SubSeq(pending, n + 1, Len(pending))
        /\ retired' = retired
    BY DEF Dirty!Take
  <2> HIDE DEF n
  <2>2. n \in 0 .. Len(pending)
    BY <1>0, <2>1
  <2>3. inflight' \in Seq(DirtyRecord) /\ pending' \in Seq(DirtyRecord)
    BY <1>0, <2>1, <2>2, SplitAt
  <2>4. held' \in [Thread -> Seq(DirtyRecord)]
    BY <2>3 DEF TypeOK
  <2> QED
    BY <1>0, <2>1, <2>3, <2>4 DEF TypeOK, cleanVars, Dirty!TypeOK
<1>4. CASE MarkFlushed(t)
  <2> USE <1>4 DEF MarkFlushed
  <2>1. /\ retired' = retired \o inflight /\ inflight' = <<>> /\ pending' = pending
        /\ inflight # <<>>
    BY DEF Dirty!Retire
  <2>2. retired' \in Seq(DirtyRecord)
    BY <1>0, <2>1, ConcatProperties
  <2>3. held[t] # <<>>
    <3>1. Len(inflight) \in Nat \ {0} /\ Len(inflight) = Len(held[t])
      BY <1>0, <2>1, EmptySeq DEF SameBatch
    <3> QED
      BY <3>1
  <2>4. [pc |-> "unpublish", todo |-> held[t]] \in OpType
    BY <1>0, <2>3 DEF OpType
  <2>5. op' \in [Thread -> OpType]
    BY <1>0, <2>4
  <2>6. Dirty!TypeOK'
    BY <1>0, <2>1, <2>2 DEF Dirty!TypeOK
  <2> QED
    BY <2>5, <2>6 DEF TypeOK, cleanVars
<1>5. CASE Unpublish(t)
  <2> USE <1>5 DEF Unpublish
  <2>1. visible' \in [Key -> VisibleRef]
    BY RemovedType
  <2>2. op[t].todo \in Seq(DirtyRecord) \ {<<>>}
    BY <1>0, OpKinds
  <2>3. (IF Len(op[t].todo) = 1 THEN Idle
         ELSE [pc |-> "unpublish", todo |-> Tail(op[t].todo)]) \in OpType
    <3>1. Tail(op[t].todo) \in Seq(DirtyRecord)
          /\ Len(Tail(op[t].todo)) = Len(op[t].todo) - 1
      BY <2>2, HeadTailProperties
    <3>2. CASE Len(op[t].todo) = 1
      BY <3>2 DEF OpType, Idle
    <3>3. CASE Len(op[t].todo) # 1
      <4>1. Tail(op[t].todo) # <<>>
        <5>1. Len(op[t].todo) \in Nat \ {0}
          BY <2>2, EmptySeq
        <5>2. Len(Tail(op[t].todo)) # 0
          BY <3>1, <3>3, <5>1
        <5>3. Len(<<>>) = 0
          OBVIOUS
        <5> QED
          BY <5>2, <5>3
      <4>2. [pc |-> "unpublish", todo |-> Tail(op[t].todo)] \in OpType
        BY <3>1, <4>1 DEF OpType
      <4> QED
        BY <3>3, <4>2
    <3> QED
      BY <3>2, <3>3
  <2>4. op' \in [Thread -> OpType]
    BY <1>0, <2>3
  <2> QED
    BY <2>1, <2>4 DEF TypeOK, logVars, cleanVars, Dirty!TypeOK
<1> QED
  BY <1>1, <1>2, <1>3, <1>4, <1>5

\* The steps of the map, by the calls they belong to.
LEMMA Steps ==
  ASSUME [Next]_vars
  PROVE  \/ \E t \in Thread :
              \/ (\E k \in Key : TakeWriteId(t, k)) \/ InsertDirty(t)
              \/ (\E k \in Key : TakeCacheId(t, k)) \/ InsertClean(t)
              \/ \E k \in Key : EvictClean(t, k) \/ CleanupRead(t, k)
              \/ EvictUncount(t) \/ CleanupRemove(t)
              \/ FlushAgain(t) \/ FlushNothing(t) \/ MarkFlushed(t) \/ Unpublish(t)
              \/ \E limit \in Limit : FlushNew(t, limit)
         \/ UNCHANGED vars
BY DEF Next, Call, Continue

\* No step takes a variable out of its type.
LEMMA NextTypeOK == TypeOK /\ CleanIdsSpent /\ [Next]_vars => TypeOK'
<1> SUFFICES ASSUME TypeOK, CleanIdsSpent, [Next]_vars PROVE TypeOK'
  OBVIOUS
<1>1. CASE UNCHANGED vars
  BY <1>1 DEF vars, logVars, cleanVars, TypeOK, Dirty!TypeOK
<1> QED
  BY <1>1, Steps, InsertDirtyTypes, InsertCleanTypes, RemovalTypes, FlushTypes

(***************************************************************************)
(* The accounts of the clean cache.                                        *)
(***************************************************************************)

\* The threads at some pc of a set.
At(pcs) == {t \in Thread : op[t].pc \in pcs}

\* 1 for what is counted, 0 for what is not.
One(counted) == IF counted THEN 1 ELSE 0

\* A step of one thread changes the number of threads at some pcs by where
\* that thread was and is.
LEMMA AtStep ==
  ASSUME NEW t \in Thread, \A u \in Thread \ {t} : op'[u] = op[u], NEW pcs
  PROVE  /\ Cardinality(At(pcs)) \in Nat /\ Cardinality(At(pcs)') \in Nat
         /\ Cardinality(At(pcs)') = Cardinality(At(pcs))
              + One(op'[t].pc \in pcs) - One(op[t].pc \in pcs)
<1>1. IsFiniteSet(At(pcs))
  <2>1. At(pcs) \in SUBSET Thread
    BY DEF At
  <2> QED
    BY <2>1, FiniteThreadsAssumption, FS_Subset
<1>2. At(pcs)' = IF op'[t].pc \in pcs THEN At(pcs) \cup {t} ELSE At(pcs) \ {t}
  BY DEF At
<1>3. t \in At(pcs) <=> op[t].pc \in pcs
  BY DEF At
<1>4. Cardinality(At(pcs)) \in Nat
  BY <1>1, FS_CardinalityType
<1>5. CASE op'[t].pc \in pcs
  <2>1. /\ IsFiniteSet(At(pcs)')
        /\ Cardinality(At(pcs)') = IF t \in At(pcs) THEN Cardinality(At(pcs))
                                   ELSE Cardinality(At(pcs)) + 1
    BY <1>1, <1>2, <1>5, FS_AddElement
  <2> QED
    BY <1>3, <1>4, <1>5, <2>1 DEF One
<1>6. CASE op'[t].pc \notin pcs
  <2>1. /\ IsFiniteSet(At(pcs)')
        /\ Cardinality(At(pcs)') = IF t \in At(pcs) THEN Cardinality(At(pcs)) - 1
                                   ELSE Cardinality(At(pcs))
    BY <1>1, <1>2, <1>6, FS_RemoveElement
  <2>2. Cardinality(At(pcs)') \in Nat
    BY <2>1, FS_CardinalityType
  <2> QED
    BY <1>3, <1>4, <1>6, <2>1, <2>2 DEF One
<1> QED
  BY <1>5, <1>6

\* A step on one key changes the number of clean entries by that key's entry.
LEMMA VisibleStep ==
  ASSUME IsFiniteSet(VisibleClean), NEW k \in Key,
         \A j \in Key \ {k} : visible'[j] = visible[j]
  PROVE  /\ IsFiniteSet(VisibleClean') /\ Cardinality(VisibleClean) \in Nat
         /\ Cardinality(VisibleClean') \in Nat
         /\ Cardinality(VisibleClean') = Cardinality(VisibleClean)
              + One(visible'[k].kind = "Clean") - One(visible[k].kind = "Clean")
<1>1. VisibleClean' = IF visible'[k].kind = "Clean" THEN VisibleClean \cup {k}
                      ELSE VisibleClean \ {k}
  BY DEF VisibleClean
<1>2. k \in VisibleClean <=> visible[k].kind = "Clean"
  BY DEF VisibleClean
<1>3. Cardinality(VisibleClean) \in Nat
  BY FS_CardinalityType
<1>4. CASE visible'[k].kind = "Clean"
  <2>1. /\ IsFiniteSet(VisibleClean')
        /\ Cardinality(VisibleClean') = IF k \in VisibleClean THEN Cardinality(VisibleClean)
                                        ELSE Cardinality(VisibleClean) + 1
    BY <1>1, <1>4, FS_AddElement
  <2> QED
    BY <1>2, <1>3, <1>4, <2>1 DEF One
<1>5. CASE visible'[k].kind # "Clean"
  <2>1. /\ IsFiniteSet(VisibleClean')
        /\ Cardinality(VisibleClean') = IF k \in VisibleClean THEN Cardinality(VisibleClean) - 1
                                        ELSE Cardinality(VisibleClean)
    BY <1>1, <1>5, FS_RemoveElement
  <2>2. Cardinality(VisibleClean') \in Nat
    BY <2>1, FS_CardinalityType
  <2> QED
    BY <1>2, <1>3, <1>5, <2>1, <2>2 DEF One
<1> QED
  BY <1>4, <1>5

\* The two accounts together.
CleanLedger == CleanIdsSpent /\ CleanCountAccounts

\* The accounts in terms of At.
LEMMA LedgerDef ==
  /\ Entering = At({"entry"}) /\ Counting = At({"count"})
  /\ Uncounting = At({"uncount", "uncount_old"})
  /\ CleanLedger <=>
       /\ IsFiniteSet(VisibleClean)
       /\ Cardinality(VisibleClean) + leaked + Cardinality(At({"entry"})) <= next_cache
       /\ clean_count = Wrap(Cardinality(VisibleClean) + leaked
                             + Cardinality(At({"uncount", "uncount_old"}))
                             - Cardinality(At({"count"})))
<1>1. Entering = At({"entry"}) /\ Counting = At({"count"})
  BY DEF At, Entering, Counting
<1>2. Uncounting = At({"uncount", "uncount_old"})
  BY DEF At, Uncounting
<1> QED
  BY <1>1, <1>2 DEF CleanLedger, CleanIdsSpent, CleanCountAccounts

\* Wrapping and then adding is adding and then wrapping.
LEMMA WrapAdd == \A a, b \in Int : Wrap(Wrap(a) + b) = Wrap(a + b)
BY CountModulusAssumption, ModAdd DEF Wrap

\* A step of t balances: v more clean entries, c counted.
Balanced(t, v, c) ==
  /\ \A u \in Thread \ {t} : op'[u] = op[u]
  /\ v \in Int /\ IsFiniteSet(VisibleClean')
  /\ Cardinality(VisibleClean') = Cardinality(VisibleClean) + v
  /\ c \in Int /\ clean_count' = Wrap(clean_count + c)
  /\ leaked' \in Int /\ next_cache' \in Int
  /\ v + (leaked' - leaked) + One(op'[t].pc = "entry") - One(op[t].pc = "entry")
       <= next_cache' - next_cache
  /\ v + (leaked' - leaked)
       + One(op'[t].pc \in {"uncount", "uncount_old"})
       - One(op[t].pc \in {"uncount", "uncount_old"})
       - One(op'[t].pc = "count") + One(op[t].pc = "count") = c

\* A step that balances keeps the accounts.
LEMMA Balance ==
  ASSUME TypeOK, CleanLedger, NEW t \in Thread, NEW v, NEW c, Balanced(t, v, c)
  PROVE  CleanLedger'
<1> DEFINE V == Cardinality(VisibleClean)
           E == Cardinality(At({"entry"}))
           U == Cardinality(At({"uncount", "uncount_old"}))
           C == Cardinality(At({"count"}))
<1> USE DEF Balanced
<1>1. /\ E \in Nat /\ E' \in Nat
      /\ E' = E + One(op'[t].pc = "entry") - One(op[t].pc = "entry")
  <2>1. \A p : p \in {"entry"} <=> p = "entry"
    OBVIOUS
  <2> QED
    BY <2>1, AtStep DEF One
<1>2. /\ C \in Nat /\ C' \in Nat
      /\ C' = C + One(op'[t].pc = "count") - One(op[t].pc = "count")
  <2>1. \A p : p \in {"count"} <=> p = "count"
    OBVIOUS
  <2> QED
    BY <2>1, AtStep DEF One
<1>3. /\ U \in Nat /\ U' \in Nat
      /\ U' = U + One(op'[t].pc \in {"uncount", "uncount_old"})
                - One(op[t].pc \in {"uncount", "uncount_old"})
  BY AtStep
<1>4. /\ IsFiniteSet(VisibleClean) /\ V + leaked + E <= next_cache
      /\ clean_count = Wrap(V + leaked + U - C)
  BY LedgerDef
<1>5. V \in Nat /\ V' \in Nat /\ V' = V + v
  BY <1>4, FS_CardinalityType
<1>6. leaked \in Int /\ next_cache \in Int
  BY BoundAssumption DEF TypeOK
<1>7. /\ One(op'[t].pc = "entry") \in Int /\ One(op[t].pc = "entry") \in Int
      /\ One(op'[t].pc = "count") \in Int /\ One(op[t].pc = "count") \in Int
      /\ One(op'[t].pc \in {"uncount", "uncount_old"}) \in Int
      /\ One(op[t].pc \in {"uncount", "uncount_old"}) \in Int
  BY DEF One
<1>8. /\ v \in Int /\ IsFiniteSet(VisibleClean') /\ c \in Int /\ leaked' \in Int /\ next_cache' \in Int
       /\ v + (leaked' - leaked) + One(op'[t].pc = "entry") - One(op[t].pc = "entry")
            <= next_cache' - next_cache
       /\ v + (leaked' - leaked)
            + One(op'[t].pc \in {"uncount", "uncount_old"})
            - One(op[t].pc \in {"uncount", "uncount_old"})
            - One(op'[t].pc = "count") + One(op[t].pc = "count") = c
       /\ clean_count' = Wrap(clean_count + c)
  OBVIOUS
<1> HIDE DEF V, E, U, C, Balanced
<1>9. V' + leaked' + E' <= next_cache'
  BY <1>1, <1>4, <1>5, <1>6, <1>7, <1>8
<1>10. clean_count' = Wrap(V' + leaked' + U' - C')
  <2>1. V' + leaked' + U' - C' = (V + leaked + U - C) + c
    BY <1>2, <1>3, <1>5, <1>6, <1>7, <1>8
  <2>2. V + leaked + U - C \in Int
    BY <1>2, <1>3, <1>5, <1>6
  <2> QED
    BY <1>4, <1>8, <2>1, <2>2, WrapAdd
<1>11. Entering' = At({"entry"})' /\ Counting' = At({"count"})'
  BY DEF At, Entering, Counting
<1>12. Uncounting' = At({"uncount", "uncount_old"})'
  BY DEF At, Uncounting
<1> QED
  BY <1>8, <1>9, <1>10, <1>11, <1>12
     DEF V, E, U, C, CleanLedger, CleanIdsSpent, CleanCountAccounts

\* The counter as it is, and the types the accounts need.
LEMMA CountAsIs ==
  ASSUME TypeOK
  PROVE  /\ clean_count = Wrap(clean_count + 0) /\ clean_count \in Int
         /\ leaked \in Int /\ next_cache \in Int
<1>1. clean_count \in Nat /\ clean_count < CountModulus
  BY CountModulusAssumption DEF TypeOK
<1>2. Wrap(clean_count + 0) = clean_count
  BY <1>1, CountModulusAssumption DEF Wrap
<1> QED
  BY <1>1, <1>2, BoundAssumption DEF TypeOK

\* The pcs the accounts tell apart.
Ledgered == {"entry", "count", "uncount", "uncount_old"}

\* A step that leaves alone the clean entries, the counters and the threads at
\* those pcs keeps the accounts.
LEMMA LedgerFrame ==
  ASSUME TypeOK, CleanLedger, NEW t \in Thread,
         \A u \in Thread \ {t} : op'[u] = op[u],
         VisibleClean' = VisibleClean,
         UNCHANGED <<clean_count, leaked, next_cache>>,
         op'[t].pc = op[t].pc \/ {op[t].pc, op'[t].pc} \cap Ledgered = {}
  PROVE  CleanLedger'
<1>1. /\ One(op'[t].pc = "entry") = One(op[t].pc = "entry")
      /\ One(op'[t].pc = "count") = One(op[t].pc = "count")
      /\ One(op'[t].pc \in {"uncount", "uncount_old"})
           = One(op[t].pc \in {"uncount", "uncount_old"})
  BY DEF Ledgered, One
<1>2. /\ One(op[t].pc = "entry") \in Int /\ One(op[t].pc = "count") \in Int
      /\ One(op[t].pc \in {"uncount", "uncount_old"}) \in Int
  BY DEF One
<1>3. IsFiniteSet(VisibleClean) /\ Cardinality(VisibleClean) \in Nat
  BY LedgerDef, FS_CardinalityType
<1>4. Balanced(t, 0, 0)
  BY <1>1, <1>2, <1>3, CountAsIs DEF Balanced
<1> QED
  BY <1>4, Balance

\* The clean entries after a step on one key of the index.
LEMMA OneEntry ==
  ASSUME TypeOK, CleanLedger, NEW k \in Key, NEW v,
         v = One(visible'[k].kind = "Clean") - One(visible[k].kind = "Clean"),
         \A j \in Key \ {k} : visible'[j] = visible[j]
  PROVE  /\ v \in Int /\ IsFiniteSet(VisibleClean')
         /\ Cardinality(VisibleClean') = Cardinality(VisibleClean) + v
         /\ v = 0 => VisibleClean' = VisibleClean
<1>1. IsFiniteSet(VisibleClean)
  BY LedgerDef
<1>2. v = 0 => (visible'[k].kind = "Clean" <=> visible[k].kind = "Clean")
  BY DEF One
<1>3. v = 0 => VisibleClean' = VisibleClean
  BY <1>2 DEF VisibleClean
<1>4. /\ One(visible'[k].kind = "Clean") \in Int
      /\ One(visible[k].kind = "Clean") \in Int
  BY DEF One
<1> QED
  BY <1>1, <1>3, <1>4, VisibleStep

\* insert_dirty: a clean entry that a dirty one replaces is uncounted at once.
LEMMA InsertDirtyLedger ==
  ASSUME TypeOK, CleanLedger, NEW t \in Thread,
         (\E k \in Key : TakeWriteId(t, k)) \/ InsertDirty(t)
  PROVE  CleanLedger'
<1>0. op \in [Thread -> OpType] /\ op[t] \in OpType
  BY DEF TypeOK
<1>1. ASSUME NEW k \in Key, TakeWriteId(t, k) PROVE CleanLedger'
  <2> USE <1>1 DEF TakeWriteId
  <2>1. /\ \A u \in Thread \ {t} : op'[u] = op[u]
        /\ op'[t].pc = "append" /\ op[t].pc = "idle"
    BY <1>0
  <2>2. VisibleClean' = VisibleClean
    BY DEF VisibleClean
  <2> QED
    BY <2>1, <2>2, LedgerFrame DEF cleanVars, Ledgered
<1>2. CASE AppendDirty(t)
  <2> USE <1>2 DEF AppendDirty
  <2>1. /\ \A u \in Thread \ {t} : op'[u] = op[u]
        /\ op'[t].pc = "publish" /\ op[t].pc = "append"
    BY GotoOp DEF Moving
  <2>2. VisibleClean' = VisibleClean
    BY DEF VisibleClean
  <2> QED
    BY <2>1, <2>2, LedgerFrame DEF cleanVars, Ledgered
<1>3. CASE PublishDirty(t)
  <2> USE <1>3 DEF PublishDirty
  <2> DEFINE k == op[t].key
             v == One(visible'[k].kind = "Clean") - One(visible[k].kind = "Clean")
  <2>1. /\ \A u \in Thread \ {t} : op'[u] = op[u]
        /\ op'[t].pc = "idle" /\ op[t].pc = "publish"
    BY ReturnOp
  <2>2. k \in Key
    BY <1>0, OpKinds
  <2>3. visible'[k].kind = "Dirty" /\ \A j \in Key \ {k} : visible'[j] = visible[j]
    BY <2>2 DEF TypeOK, DirtyRef
  <2>4. /\ v \in Int /\ IsFiniteSet(VisibleClean')
        /\ Cardinality(VisibleClean') = Cardinality(VisibleClean) + v
    BY <2>2, <2>3, OneEntry
  <2>5. v = IF visible[k].kind = "Clean" THEN -1 ELSE 0
    BY <2>3 DEF One
  <2>6. clean_count' = Wrap(clean_count + v)
    BY <2>5, CountAsIs DEF CountAfterReplacing
  <2> HIDE DEF v
  <2>7. Balanced(t, v, v)
    BY <2>1, <2>4, <2>5, <2>6, CountAsIs DEF Balanced, One
  <2> QED
    BY <2>7, Balance
<1> QED
  BY <1>1, <1>2, <1>3 DEF InsertDirty

\* insert_clean_if_absent: an id, then an entry to count, then the count; and
\* for a slot it pops, an entry to uncount, then the uncount.
LEMMA InsertCleanLedger ==
  ASSUME TypeOK, CleanLedger, NEW t \in Thread,
         (\E k \in Key : TakeCacheId(t, k)) \/ InsertClean(t)
  PROVE  CleanLedger'
<1>0. op \in [Thread -> OpType] /\ op[t] \in OpType
  BY DEF TypeOK
<1>10. IsFiniteSet(VisibleClean) /\ Cardinality(VisibleClean) \in Int
  BY LedgerDef, FS_CardinalityType
<1>1. ASSUME NEW k \in Key, TakeCacheId(t, k) PROVE CleanLedger'
  <2> USE <1>1 DEF TakeCacheId
  <2>1. /\ \A u \in Thread \ {t} : op'[u] = op[u]
        /\ op'[t].pc = "entry" /\ op[t].pc = "idle"
    BY <1>0
  <2>2. VisibleClean' = VisibleClean
    BY DEF VisibleClean
  <2>3. Balanced(t, 0, 0)
    BY <1>10, <2>1, <2>2, CountAsIs DEF Balanced, One
  <2> QED
    BY <2>3, Balance
<1>2. CASE InsertVacant(t)
  <2> USE <1>2 DEF InsertVacant
  <2> DEFINE k == op[t].key
  <2>1. /\ \A u \in Thread \ {t} : op'[u] = op[u]
        /\ op'[t].pc = "count" /\ op[t].pc = "entry"
    BY GotoOp DEF Moving
  <2>2. k \in Key
    BY <1>0, Enqueues
  <2>3. /\ visible'[k].kind = "Clean" /\ visible[k].kind # "Clean"
        /\ \A j \in Key \ {k} : visible'[j] = visible[j]
    BY <2>2 DEF TypeOK, CleanRef, VacantEntry, NoRef
  <2>4. 1 = One(visible'[k].kind = "Clean") - One(visible[k].kind = "Clean")
    BY <2>3 DEF One
  <2>5. /\ IsFiniteSet(VisibleClean')
        /\ Cardinality(VisibleClean') = Cardinality(VisibleClean) + 1
    BY <2>2, <2>3, <2>4, OneEntry
  <2>6. Balanced(t, 1, 0)
    BY <2>1, <2>5, CountAsIs DEF Balanced, One, cleanVars
  <2> QED
    BY <2>6, Balance
<1>3. CASE FindOccupied(t)
  <2> USE <1>3 DEF FindOccupied
  <2>1. /\ \A u \in Thread \ {t} : op'[u] = op[u]
        /\ op'[t].pc = "idle" /\ op[t].pc = "entry"
    BY ReturnOp
  <2>2. VisibleClean' = VisibleClean
    BY DEF VisibleClean
  <2>3. Balanced(t, 0, 0)
    BY <1>10, <2>1, <2>2, CountAsIs DEF Balanced, One, cleanVars
  <2> QED
    BY <2>3, Balance
<1>4. CASE CountClean(t)
  <2> USE <1>4 DEF CountClean
  <2>1. /\ \A u \in Thread \ {t} : op'[u] = op[u]
        /\ op'[t].pc = "push" /\ op[t].pc = "count"
    BY GotoOp DEF Moving
  <2>2. VisibleClean' = VisibleClean
    BY DEF VisibleClean
  <2>3. Balanced(t, 0, 1)
    BY <1>10, <2>1, <2>2, CountAsIs DEF Balanced, One
  <2> QED
    BY <2>3, Balance
<1>5. CASE EnqueuePush(t)
  <2> USE <1>5 DEF EnqueuePush
  <2>1. /\ \A u \in Thread \ {t} : op'[u] = op[u]
        /\ op'[t].pc = "idle" /\ op[t].pc = "push"
    BY ReturnOp
  <2>2. VisibleClean' = VisibleClean
    BY DEF VisibleClean
  <2> QED
    BY <2>1, <2>2, LedgerFrame DEF Ledgered
<1>6. CASE EnqueueFull(t)
  <2> USE <1>6 DEF EnqueueFull, AfterFullQueue
  <2>1. /\ \A u \in Thread \ {t} : op'[u] = op[u]
        /\ op'[t].pc = "pop" /\ op[t].pc = "push"
    BY GotoOp DEF Moving
  <2>2. VisibleClean' = VisibleClean
    BY DEF VisibleClean
  <2> QED
    BY <2>1, <2>2, LedgerFrame DEF Ledgered, cleanVars
<1>7. CASE EnqueuePop(t)
  <2> USE <1>7 DEF EnqueuePop
  <2>1. /\ \A u \in Thread \ {t} : op'[u] = op[u]
        /\ op'[t].pc \in {"push", "drop"} /\ op[t].pc = "pop"
    <3>1. CASE Goto(t, "push")
      BY <3>1, GotoOp DEF Moving
    <3>2. CASE op' = [op EXCEPT ![t] =
                  [pc |-> "drop", key |-> op[t].key, id |-> op[t].id,
                   old |-> Head(clean_fifo)]]
      BY <1>0, <3>2
    <3> QED
      BY <3>1, <3>2
  <2>2. VisibleClean' = VisibleClean
    BY DEF VisibleClean
  <2> QED
    BY <2>1, <2>2, LedgerFrame DEF Ledgered
<1>8. CASE EnqueueDrop(t)
  <2> USE <1>8 DEF EnqueueDrop
  <2> DEFINE old == op[t].old
  <2>0. old.key \in Key
    BY <1>0, OpKinds DEF CleanRecord
  <2>1. CASE IsOldClean(old)
    <3>1. /\ \A u \in Thread \ {t} : op'[u] = op[u]
          /\ op'[t].pc = "uncount_old" /\ op[t].pc = "drop"
      BY <2>1, GotoOp DEF Moving
    <3>2. /\ visible'[old.key].kind # "Clean" /\ visible[old.key].kind = "Clean"
          /\ \A j \in Key \ {old.key} : visible'[j] = visible[j]
      BY <2>0, <2>1 DEF TypeOK, CleanRef, IsOldClean, NoRef, RemoveIf
    <3>3. -1 = One(visible'[old.key].kind = "Clean") - One(visible[old.key].kind = "Clean")
      BY <3>2 DEF One
    <3>4. /\ IsFiniteSet(VisibleClean')
          /\ Cardinality(VisibleClean') = Cardinality(VisibleClean) + (-1)
      BY <2>0, <3>2, <3>3, OneEntry
    <3>5. Balanced(t, -1, 0)
      BY <3>1, <3>4, CountAsIs DEF Balanced, One, cleanVars
    <3> QED
      BY <3>5, Balance
  <2>2. CASE ~IsOldClean(old)
    <3>1. /\ \A u \in Thread \ {t} : op'[u] = op[u]
          /\ op'[t].pc = "push" /\ op[t].pc = "drop"
      BY <2>2, GotoOp DEF Moving
    <3>2. VisibleClean' = VisibleClean
      BY <2>2 DEF VisibleClean, RemoveIf
    <3> QED
      BY <3>1, <3>2, LedgerFrame DEF Ledgered, cleanVars
  <2> QED
    BY <2>1, <2>2
<1>9. CASE EnqueueUncount(t)
  <2> USE <1>9 DEF EnqueueUncount
  <2>1. /\ \A u \in Thread \ {t} : op'[u] = op[u]
        /\ op'[t].pc = "push" /\ op[t].pc = "uncount_old"
    BY GotoOp DEF Moving
  <2>2. VisibleClean' = VisibleClean
    BY DEF VisibleClean
  <2>3. clean_count' = Wrap(clean_count + (-1))
    BY CountAsIs
  <2>4. Balanced(t, 0, -1)
    BY <1>10, <2>1, <2>2, <2>3, CountAsIs DEF Balanced, One
  <2> QED
    BY <2>4, Balance
<1> QED
  BY <1>1, <1>2, <1>3, <1>4, <1>5, <1>6, <1>7, <1>8, <1>9 DEF InsertClean

\* evict_clean: an entry to uncount, then the uncount; cleanup_stale_visible:
\* a clean entry it removes leaks.
LEMMA RemovalLedger ==
  ASSUME TypeOK, CleanLedger, NEW t \in Thread,
         \/ \E k \in Key : EvictClean(t, k) \/ CleanupRead(t, k)
         \/ EvictUncount(t) \/ CleanupRemove(t)
  PROVE  CleanLedger'
<1>0. op \in [Thread -> OpType] /\ op[t] \in OpType
  BY DEF TypeOK
<1>1. ASSUME NEW k \in Key, EvictClean(t, k) PROVE CleanLedger'
  <2> USE <1>1 DEF EvictClean
  <2>1. /\ \A u \in Thread \ {t} : op'[u] = op[u]
        /\ op'[t].pc = "uncount" /\ op[t].pc = "idle"
    BY <1>0
  <2>2. /\ visible'[k].kind # "Clean" /\ visible[k].kind = "Clean"
        /\ \A j \in Key \ {k} : visible'[j] = visible[j]
    BY DEF TypeOK, NoRef, RemoveIf
  <2>3. -1 = One(visible'[k].kind = "Clean") - One(visible[k].kind = "Clean")
    BY <2>2 DEF One
  <2>4. /\ IsFiniteSet(VisibleClean')
        /\ Cardinality(VisibleClean') = Cardinality(VisibleClean) + (-1)
    BY <2>2, <2>3, OneEntry
  <2>5. Balanced(t, -1, 0)
    BY <2>1, <2>4, CountAsIs DEF Balanced, One, cleanVars
  <2> QED
    BY <2>5, Balance
<1>2. ASSUME NEW k \in Key, CleanupRead(t, k) PROVE CleanLedger'
  <2> USE <1>2 DEF CleanupRead
  <2>1. /\ \A u \in Thread \ {t} : op'[u] = op[u]
        /\ op'[t].pc = "cleanup" /\ op[t].pc = "idle"
    BY <1>0
  <2>2. VisibleClean' = VisibleClean
    BY DEF VisibleClean
  <2> QED
    BY <2>1, <2>2, LedgerFrame DEF cleanVars, Ledgered
<1>3. CASE EvictUncount(t)
  <2> USE <1>3 DEF EvictUncount
  <2>1. /\ \A u \in Thread \ {t} : op'[u] = op[u]
        /\ op'[t].pc = "idle" /\ op[t].pc = "uncount"
    BY ReturnOp
  <2>2. VisibleClean' = VisibleClean
    BY DEF VisibleClean
  <2>3. IsFiniteSet(VisibleClean) /\ Cardinality(VisibleClean) \in Int
    BY LedgerDef, FS_CardinalityType
  <2>4. clean_count' = Wrap(clean_count + (-1))
    BY CountAsIs
  <2>5. Balanced(t, 0, -1)
    BY <2>1, <2>2, <2>3, <2>4, CountAsIs DEF Balanced, One
  <2> QED
    BY <2>5, Balance
<1>4. CASE CleanupRemove(t)
  <2> USE <1>4 DEF CleanupRemove
  <2> DEFINE k == op[t].key
             same == SameRef(k, op[t].ref)
  <2>0. k \in Key
    BY <1>0, OpKinds
  <2>1. /\ \A u \in Thread \ {t} : op'[u] = op[u]
        /\ op'[t].pc = "idle" /\ op[t].pc = "cleanup"
    BY ReturnOp
  <2>2. CASE same /\ op[t].ref.kind = "Clean"
    <3>1. /\ visible'[k].kind # "Clean" /\ visible[k].kind = "Clean"
          /\ \A j \in Key \ {k} : visible'[j] = visible[j]
      BY <2>0, <2>2 DEF TypeOK, NoRef, RemoveIf, SameRef
    <3>2. -1 = One(visible'[k].kind = "Clean") - One(visible[k].kind = "Clean")
      BY <3>1 DEF One
    <3>3. /\ IsFiniteSet(VisibleClean')
          /\ Cardinality(VisibleClean') = Cardinality(VisibleClean) + (-1)
      BY <2>0, <3>1, <3>2, OneEntry
    <3>4. leaked' = leaked + 1
      BY <2>2
    <3>5. Balanced(t, -1, 0)
      BY <2>1, <3>3, <3>4, CountAsIs DEF Balanced, One
    <3> QED
      BY <3>5, Balance
  <2>3. CASE ~(same /\ op[t].ref.kind = "Clean")
    <3>1. VisibleClean' = VisibleClean
      BY <2>0, <2>3 DEF TypeOK, NoRef, RemoveIf, SameRef, VisibleClean
    <3>2. leaked' = leaked
      BY <2>3
    <3> QED
      BY <2>1, <3>1, <3>2, LedgerFrame DEF Ledgered
  <2> QED
    BY <2>2, <2>3
<1> QED
  BY <1>1, <1>2, <1>3, <1>4

\* flush_batch and mark_flushed leave the clean cache alone.
LEMMA FlushLedger ==
  ASSUME TypeOK, CleanLedger, NEW t \in Thread,
         \/ FlushAgain(t) \/ FlushNothing(t) \/ MarkFlushed(t) \/ Unpublish(t)
         \/ \E limit \in Limit : FlushNew(t, limit)
  PROVE  CleanLedger'
<1>0. op \in [Thread -> OpType] /\ op[t] \in OpType
  BY DEF TypeOK
<1>1. ASSUME \/ FlushAgain(t) \/ FlushNothing(t)
             \/ \E limit \in Limit : FlushNew(t, limit)
      PROVE  CleanLedger'
  <2>1. UNCHANGED <<visible, cleanVars, op>>
    BY <1>1 DEF FlushAgain, FlushNothing, FlushNew
  <2>2. VisibleClean' = VisibleClean
    BY <2>1 DEF VisibleClean
  <2> QED
    BY <2>1, <2>2, LedgerFrame DEF cleanVars
<1>2. CASE MarkFlushed(t)
  <2> USE <1>2 DEF MarkFlushed
  <2>1. /\ \A u \in Thread \ {t} : op'[u] = op[u]
        /\ op'[t].pc = "unpublish" /\ op[t].pc = "idle"
    BY <1>0
  <2>2. VisibleClean' = VisibleClean
    BY DEF VisibleClean
  <2> QED
    BY <2>1, <2>2, LedgerFrame DEF cleanVars, Ledgered
<1>3. CASE Unpublish(t)
  <2> USE <1>3 DEF Unpublish
  <2>1. /\ \A u \in Thread \ {t} : op'[u] = op[u]
        /\ op'[t].pc \in {"idle", "unpublish"} /\ op[t].pc = "unpublish"
    BY <1>0 DEF Idle
  <2>2. VisibleClean' = VisibleClean
    BY DEF VisibleClean, RemoveIf, IsFlushedEntry, DirtyRef, NoRef, TypeOK
  <2> QED
    BY <2>1, <2>2, LedgerFrame DEF cleanVars, Ledgered
<1> QED
  BY <1>1, <1>2, <1>3

\* Every step keeps the accounts.
LEMMA NextLedger == TypeOK /\ CleanLedger /\ [Next]_vars => CleanLedger'
<1> SUFFICES ASSUME TypeOK, CleanLedger, [Next]_vars PROVE CleanLedger'
  OBVIOUS
<1>1. CASE UNCHANGED vars
  BY <1>1 DEF vars, cleanVars, CleanLedger, CleanIdsSpent, CleanCountAccounts,
              VisibleClean, Entering, Counting, Uncounting
<1> QED
  BY <1>1, Steps, InsertDirtyLedger, InsertCleanLedger, RemovalLedger, FlushLedger

\* The accounts are settled at the start.
LEMMA InitLedger == Init => CleanLedger
<1> SUFFICES ASSUME Init PROVE CleanLedger
  OBVIOUS
<1>1. /\ VisibleClean = {} /\ Entering = {} /\ Counting = {} /\ Uncounting = {}
  BY DEF Init, VisibleClean, Entering, Counting, Uncounting, NoRef, Idle
<1>2. IsFiniteSet({}) /\ Cardinality({}) = 0
  BY FS_EmptySet
<1>3. Wrap(0) = 0
  BY CountModulusAssumption DEF Wrap
<1> QED
  BY <1>1, <1>2, <1>3 DEF Init, CleanLedger, CleanIdsSpent, CleanCountAccounts

(***************************************************************************)
(* Where the clean entries are.                                            *)
(***************************************************************************)

\* The clean entry id of k is in a FIFO.
Holds(fifo, k, id) == \E i \in DOMAIN fifo : fifo[i] = [id |-> id, key |-> k]

\* A call has it: it has yet to push it, or it has popped it.
Carries(o, k, id) ==
  \/ o.pc \in {"count", "push", "pop", "drop", "uncount_old"} /\ o.key = k /\ o.id = id
  \/ o.pc = "drop" /\ o.old = [id |-> id, key |-> k]

\* CleanEntriesTracked in those terms.
LEMMA TrackedDef ==
  /\ CleanEntriesTracked <=>
       \A k \in VisibleClean : \/ Holds(clean_fifo, k, visible[k].id)
                               \/ \E t \in Thread : Carries(op[t], k, visible[k].id)
  /\ CleanEntriesTracked' <=>
       \A k \in VisibleClean' : \/ Holds(clean_fifo', k, visible'[k].id)
                                \/ \E t \in Thread : Carries(op'[t], k, visible'[k].id)
<1>1. ASSUME NEW k
      PROVE  (\E t \in Thread : Carries(op[t], k, visible[k].id)) <=>
               \/ \E t \in Enqueueing : op[t].key = k /\ op[t].id = visible[k].id
               \/ PoppedByName(k)
  BY DEF Carries, Enqueueing, PoppedByName
<1>2. ASSUME NEW k
      PROVE  (\E t \in Thread : Carries(op'[t], k, visible'[k].id)) <=>
               \/ \E t \in Enqueueing' : op'[t].key = k /\ op'[t].id = visible'[k].id
               \/ PoppedByName(k)'
  BY DEF Carries, Enqueueing, PoppedByName
<1>3. CleanEntriesTracked <=>
        \A k \in VisibleClean : \/ Holds(clean_fifo, k, visible[k].id)
                                \/ \E t \in Thread : Carries(op[t], k, visible[k].id)
  BY <1>1 DEF CleanEntriesTracked, Holds
<1>4. CleanEntriesTracked' <=>
        \A k \in VisibleClean' : \/ Holds(clean_fifo', k, visible'[k].id)
                                 \/ \E t \in Thread : Carries(op'[t], k, visible'[k].id)
  BY <1>2 DEF CleanEntriesTracked, Holds
<1> QED
  BY <1>3, <1>4

\* A step of t keeps track of the clean entries: a new one is with t, and what
\* was with t or in the FIFO is still there, or is no longer visible.
LEMMA TrackedBy ==
  ASSUME CleanEntriesTracked, NEW t \in Thread, \A u \in Thread \ {t} : op'[u] = op[u],
         \A k \in VisibleClean' :
           \/ visible'[k] = visible[k]
           \/ Carries(op'[t], k, visible'[k].id),
         \A k \in VisibleClean' :
           Carries(op[t], k, visible'[k].id)
             => Carries(op'[t], k, visible'[k].id) \/ Holds(clean_fifo', k, visible'[k].id),
         \A k \in VisibleClean' :
           Holds(clean_fifo, k, visible'[k].id)
             => Carries(op'[t], k, visible'[k].id) \/ Holds(clean_fifo', k, visible'[k].id)
  PROVE  CleanEntriesTracked'
<1> SUFFICES ASSUME NEW k \in VisibleClean'
             PROVE  \/ Holds(clean_fifo', k, visible'[k].id)
                    \/ \E u \in Thread : Carries(op'[u], k, visible'[k].id)
  BY TrackedDef
<1>1. CASE Carries(op'[t], k, visible'[k].id)
  BY <1>1
<1>2. CASE visible'[k] = visible[k]
  <2>1. k \in VisibleClean
    BY <1>2 DEF VisibleClean
  <2>2. CASE Holds(clean_fifo, k, visible[k].id)
    BY <1>2, <2>2
  <2>3. ASSUME NEW u \in Thread, Carries(op[u], k, visible[k].id)
        PROVE  \/ Holds(clean_fifo', k, visible'[k].id)
               \/ \E w \in Thread : Carries(op'[w], k, visible'[k].id)
    <3>1. CASE u = t
      BY <1>2, <2>3, <3>1
    <3>2. CASE u # t
      <4>1. op'[u] = op[u]
        BY <3>2
      <4>2. Carries(op'[u], k, visible'[k].id)
        BY <1>2, <2>3, <4>1
      <4> QED
        BY <4>2
    <3> QED
      BY <3>1, <3>2
  <2> QED
    BY <2>1, <2>2, <2>3, TrackedDef
<1> QED
  BY <1>1, <1>2

\* A step that makes no clean entry, leaves the FIFO alone and goes on with
\* what the call carries, or carries nothing, keeps track.
LEMMA TrackedFrame ==
  ASSUME CleanEntriesTracked, NEW t \in Thread, \A u \in Thread \ {t} : op'[u] = op[u],
         \A k \in VisibleClean' : visible'[k] = visible[k],
         UNCHANGED clean_fifo,
         \A k, id : Carries(op[t], k, id) => Carries(op'[t], k, id)
  PROVE  CleanEntriesTracked'
<1>1. \A k, id : Holds(clean_fifo, k, id) => Holds(clean_fifo', k, id)
  OBVIOUS
<1> QED
  BY <1>1, TrackedBy

\* The steps outside insert_clean_if_absent.
LEMMA OtherTracked ==
  ASSUME TypeOK, CleanEntriesTracked, NEW t \in Thread,
         \/ \E k \in Key : TakeWriteId(t, k) \/ EvictClean(t, k) \/ CleanupRead(t, k)
         \/ InsertDirty(t) \/ EvictUncount(t) \/ CleanupRemove(t)
         \/ FlushAgain(t) \/ FlushNothing(t) \/ MarkFlushed(t) \/ Unpublish(t)
         \/ \E limit \in Limit : FlushNew(t, limit)
  PROVE  CleanEntriesTracked'
<1>0. op \in [Thread -> OpType] /\ visible \in [Key -> VisibleRef]
  BY DEF TypeOK
<1>1. ASSUME \E k \in Key : TakeWriteId(t, k) \/ CleanupRead(t, k)
      PROVE  CleanEntriesTracked'
  <2>1. /\ \A u \in Thread \ {t} : op'[u] = op[u]
        /\ op[t].pc = "idle" /\ UNCHANGED <<visible, clean_fifo>>
    BY <1>0, <1>1 DEF TakeWriteId, CleanupRead, cleanVars
  <2>2. \A k, id : ~Carries(op[t], k, id)
    BY <2>1 DEF Carries
  <2> QED
    BY <2>1, <2>2, TrackedFrame
<1>2. ASSUME NEW k \in Key, EvictClean(t, k) PROVE CleanEntriesTracked'
  <2> USE <1>2 DEF EvictClean
  <2>1. /\ \A u \in Thread \ {t} : op'[u] = op[u]
        /\ op[t].pc = "idle" /\ UNCHANGED clean_fifo
    BY <1>0 DEF cleanVars
  <2>2. \A j \in VisibleClean' : visible'[j] = visible[j]
    BY <1>0 DEF RemoveIf, VisibleClean, NoRef
  <2>3. \A j, id : ~Carries(op[t], j, id)
    BY <2>1 DEF Carries
  <2> QED
    BY <2>1, <2>2, <2>3, TrackedFrame
<1>3. CASE AppendDirty(t)
  <2> USE <1>3 DEF AppendDirty
  <2>1. /\ \A u \in Thread \ {t} : op'[u] = op[u]
        /\ op[t].pc = "append" /\ UNCHANGED <<visible, clean_fifo>>
    BY GotoOp DEF cleanVars, Moving
  <2>2. \A k, id : ~Carries(op[t], k, id)
    BY <2>1 DEF Carries
  <2> QED
    BY <2>1, <2>2, TrackedFrame
<1>4. CASE PublishDirty(t)
  <2> USE <1>4 DEF PublishDirty
  <2>1. /\ \A u \in Thread \ {t} : op'[u] = op[u]
        /\ op[t].pc = "publish" /\ UNCHANGED clean_fifo
    BY ReturnOp
  <2>2. \A k \in VisibleClean' : visible'[k] = visible[k]
    BY <1>0 DEF VisibleClean, DirtyRef
  <2>3. \A k, id : ~Carries(op[t], k, id)
    BY <2>1 DEF Carries
  <2> QED
    BY <2>1, <2>2, <2>3, TrackedFrame
<1>5. CASE EvictUncount(t)
  <2> USE <1>5 DEF EvictUncount
  <2>1. /\ \A u \in Thread \ {t} : op'[u] = op[u]
        /\ op[t].pc = "uncount" /\ UNCHANGED <<visible, clean_fifo>>
    BY ReturnOp
  <2>2. \A k, id : ~Carries(op[t], k, id)
    BY <2>1 DEF Carries
  <2> QED
    BY <2>1, <2>2, TrackedFrame
<1>6. CASE CleanupRemove(t)
  <2> USE <1>6 DEF CleanupRemove
  <2>1. /\ \A u \in Thread \ {t} : op'[u] = op[u]
        /\ op[t].pc = "cleanup" /\ UNCHANGED clean_fifo
    BY ReturnOp
  <2>2. \A k \in VisibleClean' : visible'[k] = visible[k]
    BY <1>0 DEF RemoveIf, VisibleClean, NoRef
  <2>3. \A k, id : ~Carries(op[t], k, id)
    BY <2>1 DEF Carries
  <2> QED
    BY <2>1, <2>2, <2>3, TrackedFrame
<1>7. ASSUME \/ FlushAgain(t) \/ FlushNothing(t)
             \/ \E limit \in Limit : FlushNew(t, limit)
      PROVE  CleanEntriesTracked'
  <2>1. UNCHANGED <<visible, clean_fifo, op>>
    BY <1>7 DEF FlushAgain, FlushNothing, FlushNew, cleanVars
  <2> QED
    BY <2>1, TrackedFrame
<1>8. CASE MarkFlushed(t)
  <2> USE <1>8 DEF MarkFlushed
  <2>1. /\ \A u \in Thread \ {t} : op'[u] = op[u]
        /\ op[t].pc = "idle" /\ UNCHANGED <<visible, clean_fifo>>
    BY <1>0 DEF cleanVars
  <2>2. \A k, id : ~Carries(op[t], k, id)
    BY <2>1 DEF Carries
  <2> QED
    BY <2>1, <2>2, TrackedFrame
<1>9. CASE Unpublish(t)
  <2> USE <1>9 DEF Unpublish
  <2>1. /\ \A u \in Thread \ {t} : op'[u] = op[u]
        /\ op[t].pc = "unpublish" /\ UNCHANGED clean_fifo
    BY <1>0 DEF cleanVars
  <2>2. \A k \in VisibleClean' : visible'[k] = visible[k]
    BY <1>0 DEF RemoveIf, VisibleClean, NoRef
  <2>3. \A k, id : ~Carries(op[t], k, id)
    BY <2>1 DEF Carries
  <2> QED
    BY <2>1, <2>2, <2>3, TrackedFrame
<1> QED
  BY <1>1, <1>2, <1>3, <1>4, <1>5, <1>6, <1>7, <1>8, <1>9 DEF InsertDirty

\* The steps of insert_clean_if_absent: from the entry on, the call carries
\* it, and hands it over to the FIFO; what it pops, it carries until it has
\* seen that it is not visible.
LEMMA InsertCleanTracked ==
  ASSUME TypeOK, CleanEntriesTracked, NEW t \in Thread,
         (\E k \in Key : TakeCacheId(t, k)) \/ InsertClean(t)
  PROVE  CleanEntriesTracked'
<1>0. /\ op \in [Thread -> OpType] /\ op[t] \in OpType
      /\ visible \in [Key -> VisibleRef] /\ clean_fifo \in Seq(CleanRecord)
  BY DEF TypeOK
<1>1. ASSUME NEW k \in Key, TakeCacheId(t, k) PROVE CleanEntriesTracked'
  <2> USE <1>1 DEF TakeCacheId
  <2>1. /\ \A u \in Thread \ {t} : op'[u] = op[u]
        /\ op[t].pc = "idle" /\ UNCHANGED <<visible, clean_fifo>>
    BY <1>0
  <2>2. \A j, id : ~Carries(op[t], j, id)
    BY <2>1 DEF Carries
  <2> QED
    BY <2>1, <2>2, TrackedFrame
<1>2. CASE InsertVacant(t)
  <2> USE <1>2 DEF InsertVacant
  <2>1. /\ \A u \in Thread \ {t} : op'[u] = op[u]
        /\ op[t].pc = "entry" /\ op'[t].pc = "count"
        /\ op'[t].key = op[t].key /\ op'[t].id = op[t].id
    BY GotoOp DEF Moving
  <2>2. \A k, id : ~Carries(op[t], k, id)
    BY <2>1 DEF Carries
  <2>3. ASSUME NEW k \in VisibleClean'
        PROVE  visible'[k] = visible[k] \/ Carries(op'[t], k, visible'[k].id)
    <3>1. CASE k = op[t].key
      <4>1. visible'[k] = CleanRef(op[t].id)
        BY <1>0, <3>1, Enqueues
      <4>2. visible'[k].id = op'[t].id
        BY <2>1, <4>1 DEF CleanRef
      <4> QED
        BY <2>1, <3>1, <4>2 DEF Carries
    <3>2. CASE k # op[t].key
      BY <1>0, <3>2 DEF VisibleClean
    <3> QED
      BY <3>1, <3>2
  <2>4. \A k, id : Holds(clean_fifo', k, id) <=> Holds(clean_fifo, k, id)
    BY DEF Holds, cleanVars
  <2> QED
    BY <2>1, <2>2, <2>3, <2>4, TrackedBy
<1>3. CASE FindOccupied(t)
  <2> USE <1>3 DEF FindOccupied
  <2>1. /\ \A u \in Thread \ {t} : op'[u] = op[u]
        /\ op[t].pc = "entry" /\ UNCHANGED <<visible, clean_fifo>>
    BY ReturnOp DEF cleanVars
  <2>2. \A k, id : ~Carries(op[t], k, id)
    BY <2>1 DEF Carries
  <2> QED
    BY <2>1, <2>2, TrackedFrame
<1>4. CASE CountClean(t) \/ EnqueueFull(t) \/ EnqueueUncount(t)
  <2> USE <1>4 DEF CountClean, EnqueueFull, EnqueueUncount, AfterFullQueue
  <2>1. /\ \A u \in Thread \ {t} : op'[u] = op[u]
        /\ op[t].pc \in {"count", "push", "uncount_old"}
        /\ op'[t].pc \in {"push", "pop"}
        /\ op'[t].key = op[t].key /\ op'[t].id = op[t].id
        /\ UNCHANGED <<visible, clean_fifo>>
    BY GotoOp DEF Moving, cleanVars
  <2>2. \A k, id : Carries(op[t], k, id) => Carries(op'[t], k, id)
    BY <2>1 DEF Carries
  <2> QED
    BY <2>1, <2>2, TrackedFrame
<1>5. CASE EnqueuePush(t)
  <2> USE <1>5 DEF EnqueuePush
  <2> DEFINE slot == [id |-> op[t].id, key |-> op[t].key]
  <2>1. /\ \A u \in Thread \ {t} : op'[u] = op[u]
        /\ op[t].pc = "push" /\ visible' = visible /\ clean_fifo' = Append(clean_fifo, slot)
    BY ReturnOp DEF PushSlot
  <2>2. slot \in CleanRecord
    BY <1>0, <2>1, Enqueues DEF CleanRecord
  <2>3. /\ \A i \in DOMAIN clean_fifo : i \in DOMAIN clean_fifo' /\ clean_fifo'[i] = clean_fifo[i]
        /\ Len(clean_fifo) + 1 \in DOMAIN clean_fifo' /\ clean_fifo'[Len(clean_fifo) + 1] = slot
    BY <1>0, <2>1, <2>2, AppendProperties
  <2>4. \A k, id : Holds(clean_fifo, k, id) => Holds(clean_fifo', k, id)
    BY <2>3 DEF Holds
  <2>5. ASSUME NEW k, NEW id, Carries(op[t], k, id) PROVE Holds(clean_fifo', k, id)
    <3>1. slot = [id |-> id, key |-> k]
      BY <2>1, <2>5 DEF Carries
    <3> QED
      BY <2>3, <3>1 DEF Holds
  <2> QED
    BY <2>1, <2>4, <2>5, TrackedBy
<1>6. CASE EnqueuePop(t)
  <2> USE <1>6 DEF EnqueuePop
  <2>1. CASE Goto(t, "push") /\ UNCHANGED clean_fifo
    <3>1. /\ \A u \in Thread \ {t} : op'[u] = op[u]
          /\ op[t].pc = "pop" /\ op'[t].pc = "push"
          /\ op'[t].key = op[t].key /\ op'[t].id = op[t].id
      BY <2>1, GotoOp DEF Moving
    <3>2. \A k, id : Carries(op[t], k, id) => Carries(op'[t], k, id)
      BY <3>1 DEF Carries
    <3> QED
      BY <2>1, <3>1, <3>2, TrackedFrame
  <2>2. CASE /\ PopSlot
             /\ op' = [op EXCEPT ![t] =
                  [pc |-> "drop", key |-> op[t].key, id |-> op[t].id,
                   old |-> Head(clean_fifo)]]
    <3>1. /\ \A u \in Thread \ {t} : op'[u] = op[u]
          /\ op[t].pc = "pop" /\ op'[t].pc = "drop"
          /\ op'[t].key = op[t].key /\ op'[t].id = op[t].id
          /\ op'[t].old = Head(clean_fifo)
      BY <1>0, <2>2
    <3>2. \A k, id : Carries(op[t], k, id) => Carries(op'[t], k, id)
      BY <3>1 DEF Carries
    <3>3. ASSUME NEW k, NEW id, Holds(clean_fifo, k, id)
          PROVE  Carries(op'[t], k, id) \/ Holds(clean_fifo', k, id)
      <4>1. PICK i \in DOMAIN clean_fifo : clean_fifo[i] = [id |-> id, key |-> k]
        BY <3>3 DEF Holds
      <4>2. CASE i = 1
        <5>1. Head(clean_fifo) = clean_fifo[1]
          BY <1>0, <2>2, HeadTailProperties DEF PopSlot
        <5> QED
          BY <3>1, <4>1, <4>2, <5>1 DEF Carries
      <4>3. CASE i # 1
        <5>1. i - 1 \in DOMAIN Tail(clean_fifo) /\ Tail(clean_fifo)[i - 1] = clean_fifo[i]
          BY <1>0, <2>2, <4>3 DEF PopSlot
        <5> QED
          BY <2>2, <4>1, <5>1 DEF PopSlot, Holds
      <4> QED
        BY <4>2, <4>3
    <3> QED
      BY <3>1, <3>2, <3>3, TrackedBy
  <2> QED
    BY <2>1, <2>2
<1>7. CASE EnqueueDrop(t)
  <2> USE <1>7 DEF EnqueueDrop
  <2> DEFINE old == op[t].old
  <2>1. /\ \A u \in Thread \ {t} : op'[u] = op[u]
        /\ op[t].pc = "drop" /\ op'[t].pc \in {"uncount_old", "push"}
        /\ op'[t].key = op[t].key /\ op'[t].id = op[t].id
    BY GotoOp DEF Moving
  <2>2. old \in CleanRecord
    BY <1>0, <2>1, OpKinds
  <2>3. \A k \in VisibleClean' : visible'[k] = visible[k]
    BY <1>0 DEF RemoveIf, VisibleClean, NoRef
  <2>4. ASSUME NEW k \in VisibleClean'
        PROVE  old # [id |-> visible'[k].id, key |-> k]
    <3> SUFFICES ASSUME old = [id |-> visible'[k].id, key |-> k] PROVE FALSE
      OBVIOUS
    <3>1. k \in Key /\ old.key = k /\ old.id = visible[k].id /\ visible[k].kind = "Clean"
      BY <2>3 DEF VisibleClean
    <3>2. visible[k] = CleanRef(visible[k].id)
      BY <1>0, <3>1 DEF VisibleRef, NoRef, DirtyRef, CleanRef
    <3>3. IsOldClean(old)
      BY <3>1, <3>2 DEF IsOldClean
    <3>4. visible'[k] = NoRef
      BY <1>0, <3>1, <3>3 DEF RemoveIf
    <3> QED
      BY <3>4 DEF VisibleClean, NoRef
  <2>5. \A k \in VisibleClean' :
          Carries(op[t], k, visible'[k].id) => Carries(op'[t], k, visible'[k].id)
    BY <2>1, <2>4 DEF Carries
  <2>6. \A k, id : Holds(clean_fifo', k, id) <=> Holds(clean_fifo, k, id)
    BY DEF Holds, cleanVars
  <2> QED
    BY <2>1, <2>3, <2>5, <2>6, TrackedBy
<1> QED
  BY <1>1, <1>2, <1>3, <1>4, <1>5, <1>6, <1>7 DEF InsertClean

\* Every step keeps track of the clean entries.
LEMMA NextTracked == TypeOK /\ CleanEntriesTracked /\ [Next]_vars => CleanEntriesTracked'
<1> SUFFICES ASSUME TypeOK, CleanEntriesTracked, [Next]_vars PROVE CleanEntriesTracked'
  OBVIOUS
<1>1. CASE UNCHANGED vars
  BY <1>1 DEF vars, cleanVars, CleanEntriesTracked, VisibleClean, Enqueueing, PoppedByName
<1> QED
  BY <1>1, Steps, OtherTracked, InsertCleanTracked

(***************************************************************************)
(* The dirty log behind the map.                                           *)
(***************************************************************************)

\* Its parts and the whole of it.
LEMMA LogSeqs ==
  ASSUME TypeOK
  PROVE  /\ retired \in Seq(DirtyRecord) /\ inflight \in Seq(DirtyRecord)
         /\ pending \in Seq(DirtyRecord)
         /\ retired \o inflight \in Seq(DirtyRecord)
         /\ Dirty!Appended \in Seq(DirtyRecord)
         /\ Dirty!Appended = (retired \o inflight) \o pending
<1>1. /\ retired \in Seq(DirtyRecord) /\ inflight \in Seq(DirtyRecord)
      /\ pending \in Seq(DirtyRecord)
  BY DEF TypeOK, Dirty!TypeOK
<1>2. retired \o inflight \in Seq(DirtyRecord)
  BY <1>1, ConcatProperties
<1>3. (retired \o inflight) \o pending \in Seq(DirtyRecord)
  BY <1>1, <1>2, ConcatProperties
<1> QED
  BY <1>1, <1>2, <1>3 DEF Dirty!Appended

\* Where the retired records and those in flight are in it.
LEMMA LogFront ==
  ASSUME TypeOK
  PROVE  /\ \A i \in DOMAIN retired : /\ i \in DOMAIN Dirty!Appended
                                      /\ Dirty!Appended[i] = retired[i]
         /\ \A j \in DOMAIN inflight :
              /\ Len(retired) + j \in DOMAIN Dirty!Appended
              /\ Len(retired) + j \notin DOMAIN retired
              /\ Dirty!Appended[Len(retired) + j] = inflight[j]
<1> DEFINE front == retired \o inflight
<1>1. /\ retired \in Seq(DirtyRecord) /\ inflight \in Seq(DirtyRecord)
      /\ pending \in Seq(DirtyRecord) /\ front \in Seq(DirtyRecord)
      /\ Dirty!Appended = front \o pending
  BY LogSeqs
<1>2. /\ Len(front) = Len(retired) + Len(inflight)
      /\ \A i \in 1 .. Len(retired) + Len(inflight) :
           front[i] = IF i <= Len(retired) THEN retired[i] ELSE inflight[i - Len(retired)]
  BY <1>1, ConcatProperties
<1> HIDE DEF front
<1>3. /\ Len(front \o pending) = Len(front) + Len(pending)
      /\ front \o pending \in Seq(DirtyRecord)
      /\ \A i \in 1 .. Len(front) + Len(pending) :
           (front \o pending)[i] = IF i <= Len(front) THEN front[i] ELSE pending[i - Len(front)]
  BY <1>1, ConcatProperties
<1>4. /\ DOMAIN retired = 1 .. Len(retired) /\ DOMAIN inflight = 1 .. Len(inflight)
      /\ DOMAIN (front \o pending) = 1 .. Len(front) + Len(pending)
      /\ Len(retired) \in Nat /\ Len(inflight) \in Nat /\ Len(pending) \in Nat
  BY <1>1, <1>3, LenProperties
<1> QED
  BY <1>1, <1>2, <1>3, <1>4

\* An append adds its record at the end of the log.
LEMMA AppendLog ==
  ASSUME TypeOK, NEW r \in DirtyRecord, Dirty!AppendRecord(r)
  PROVE  /\ Dirty!Appended' = Append(Dirty!Appended, r)
         /\ retired' = retired /\ inflight' = inflight
<1>1. /\ retired \o inflight \in Seq(DirtyRecord) /\ pending \in Seq(DirtyRecord)
      /\ Dirty!Appended = (retired \o inflight) \o pending
  BY LogSeqs
<1>2. /\ pending' = Append(pending, r) /\ retired' = retired /\ inflight' = inflight
  BY DEF Dirty!AppendRecord
<1>3. Dirty!Appended' = (retired \o inflight) \o Append(pending, r)
  BY <1>2 DEF Dirty!Appended
<1> HIDE DEF Dirty!Appended
<1>4. (retired \o inflight) \o Append(pending, r)
        = Append((retired \o inflight) \o pending, r)
  BY <1>1, ConcatAppend
<1> QED
  BY <1>1, <1>2, <1>3, <1>4

\* A batch that goes in flight stays in the log.
LEMMA TakeLog ==
  ASSUME TypeOK, NEW n, Dirty!Take(n)
  PROVE  /\ Dirty!Appended' = Dirty!Appended
         /\ retired' = retired /\ inflight = <<>>
<1>1. /\ retired \in Seq(DirtyRecord) /\ pending \in Seq(DirtyRecord)
  BY LogSeqs
<1>2. /\ inflight = <<>> /\ n \in 1 .. Len(pending) /\ retired' = retired
      /\ inflight' = SubSeq(pending, 1, n)
      /\ pending' = SubSeq(pending, n + 1, Len(pending))
  BY DEF Dirty!Take
<1>3. n \in 0 .. Len(pending)
  BY <1>1, <1>2
<1>4. /\ inflight' \in Seq(DirtyRecord) /\ pending' \in Seq(DirtyRecord)
      /\ inflight' \o pending' = pending
  BY <1>1, <1>2, <1>3, SplitAt
<1>5. (retired \o inflight') \o pending' = retired \o (inflight' \o pending')
  <2>1. /\ retired \in Seq(DirtyRecord) /\ inflight' \in Seq(DirtyRecord)
        /\ pending' \in Seq(DirtyRecord)
    BY <1>1, <1>4
  <2> QED
    BY <2>1, ConcatAssociative
<1>6. retired \o inflight = retired
  BY <1>1, <1>2, ConcatEmptySeq
<1> QED
  BY <1>2, <1>4, <1>5, <1>6 DEF Dirty!Appended

\* A batch that is retired stays in the log.
LEMMA RetireLog ==
  ASSUME TypeOK, Dirty!Retire
  PROVE  /\ Dirty!Appended' = Dirty!Appended
         /\ retired' = retired \o inflight /\ inflight # <<>> /\ inflight' = <<>>
<1>1. /\ retired \o inflight \in Seq(DirtyRecord) /\ pending \in Seq(DirtyRecord)
  BY LogSeqs
<1>2. /\ inflight # <<>> /\ retired' = retired \o inflight /\ inflight' = <<>>
      /\ pending' = pending
  BY DEF Dirty!Retire
<1>3. (retired \o inflight) \o <<>> = retired \o inflight
  BY <1>1, ConcatEmptySeq
<1> QED
  BY <1>2, <1>3 DEF Dirty!Appended

\* The log as it is when its variables do not change.
LEMMA SameLog ==
  ASSUME UNCHANGED logVars
  PROVE  /\ Dirty!Appended' = Dirty!Appended
         /\ retired' = retired /\ inflight' = inflight
BY DEF logVars, Dirty!Appended

\* A step that leaves the log and the calls that append alone keeps each id
\* where it is.
LEMMA IdsFrame ==
  ASSUME WriteIdsOnce, Dirty!Appended' = Dirty!Appended, next_write' = next_write,
         \A u \in Thread : op'[u].pc = "append" => op'[u] = op[u]
  PROVE  WriteIdsOnce'
<1> DEFINE log == Dirty!Appended
<1>1. /\ \A i \in DOMAIN log : log[i].id < next_write
      /\ \A i, j \in DOMAIN log : i # j => log[i].id # log[j].id
      /\ \A t \in Thread : op[t].pc = "append" =>
           /\ op[t].id < next_write
           /\ \A i \in DOMAIN log : log[i].id # op[t].id
           /\ \A u \in Thread \ {t} : op[u].pc = "append" => op[u].id # op[t].id
  BY DEF WriteIdsOnce
<1>2. log' = log
  OBVIOUS
<1> HIDE DEF log
<1>3. /\ \A i \in DOMAIN log' : log'[i].id < next_write'
      /\ \A i, j \in DOMAIN log' : i # j => log'[i].id # log'[j].id
      /\ \A t \in Thread : op'[t].pc = "append" =>
           /\ op'[t].id < next_write'
           /\ \A i \in DOMAIN log' : log'[i].id # op'[t].id
           /\ \A u \in Thread \ {t} : op'[u].pc = "append" => op'[u].id # op'[t].id
  BY <1>1, <1>2
<1> QED
  BY <1>3 DEF log, WriteIdsOnce

\* What is retired stays retired.
LEMMA RetiredGrows ==
  ASSUME TypeOK, retired' = retired \o inflight
  PROVE  /\ \A id : Retired(id) => Retired(id)'
         /\ \A j \in DOMAIN inflight : \E i \in DOMAIN retired' : retired'[i] = inflight[j]
<1>1. retired \in Seq(DirtyRecord) /\ inflight \in Seq(DirtyRecord)
  BY LogSeqs
<1>2. /\ retired' \in Seq(DirtyRecord) /\ Len(retired') = Len(retired) + Len(inflight)
      /\ \A i \in 1 .. Len(retired) + Len(inflight) :
           retired'[i] = IF i <= Len(retired) THEN retired[i] ELSE inflight[i - Len(retired)]
  BY <1>1, ConcatProperties
<1>3. /\ DOMAIN retired = 1 .. Len(retired) /\ DOMAIN inflight = 1 .. Len(inflight)
      /\ DOMAIN retired' = 1 .. Len(retired) + Len(inflight)
      /\ Len(retired) \in Nat /\ Len(inflight) \in Nat
  BY <1>1, <1>2, LenProperties
<1>4. \A i \in DOMAIN retired : i \in DOMAIN retired' /\ retired'[i] = retired[i]
  BY <1>2, <1>3
<1>5. \A j \in DOMAIN inflight :
        Len(retired) + j \in DOMAIN retired' /\ retired'[Len(retired) + j] = inflight[j]
  BY <1>2, <1>3
<1> QED
  BY <1>4, <1>5 DEF Retired

\* A step that retires nothing keeps what is known of the batches, if it hands
\* out the batch in flight or none and unpublishes retired records only.
LEMMA HeldFrame ==
  ASSUME HeldBatchKnown, NEW t \in Thread,
         \A u \in Thread \ {t} : op'[u] = op[u] /\ held'[u] = held[u],
         retired' = retired, inflight' = inflight \/ inflight = <<>>,
         held'[t] = held[t] \/ held'[t] = inflight' \/ held'[t] = <<>>,
         op'[t].pc = "unpublish" =>
           \A i \in DOMAIN op'[t].todo : Retired(op'[t].todo[i].id)
  PROVE  HeldBatchKnown'
BY DEF HeldBatchKnown, Retired, last_id

\* The log's two invariants together.
LogKnown == WriteIdsOnce /\ HeldBatchKnown

\* The steps of insert_clean_if_absent, evict_clean and cleanup_stale_visible,
\* and the publication of a write, leave the log alone.
LEMMA OtherLog ==
  ASSUME TypeOK, LogKnown, NEW t \in Thread,
         \/ \E k \in Key : TakeCacheId(t, k) \/ EvictClean(t, k) \/ CleanupRead(t, k)
         \/ PublishDirty(t) \/ InsertClean(t) \/ EvictUncount(t) \/ CleanupRemove(t)
  PROVE  LogKnown'
<1>0. op \in [Thread -> OpType]
  BY DEF TypeOK
<1> DEFINE Alone == /\ UNCHANGED <<logVars, next_write, held>>
                    /\ \A u \in Thread \ {t} : op'[u] = op[u]
                    /\ op'[t].pc \notin {"append", "unpublish"}
<1>1. ASSUME NEW k \in Key, TakeCacheId(t, k) \/ EvictClean(t, k) \/ CleanupRead(t, k)
      PROVE  Alone
  <2>1. CASE TakeCacheId(t, k)
    BY <1>0, <2>1 DEF TakeCacheId
  <2>2. CASE EvictClean(t, k)
    BY <1>0, <2>2 DEF EvictClean
  <2>3. CASE CleanupRead(t, k)
    BY <1>0, <2>3 DEF CleanupRead
  <2> QED
    BY <1>1, <2>1, <2>2, <2>3
<1>2. ASSUME \/ PublishDirty(t) \/ FindOccupied(t) \/ EnqueuePush(t)
             \/ EvictUncount(t) \/ CleanupRemove(t)
      PROVE  Alone
  <2>1. Return(t) /\ UNCHANGED <<logVars, next_write, held>>
    BY <1>2 DEF PublishDirty, FindOccupied, EnqueuePush, EvictUncount, CleanupRemove
  <2> QED
    BY <2>1, ReturnOp
<1>3. ASSUME InsertVacant(t) \/ CountClean(t) \/ EnqueueFull(t) \/ EnqueueUncount(t)
      PROVE  Alone
  <2>1. /\ UNCHANGED <<logVars, next_write, held>>
        /\ op[t].pc \in Moving
        /\ \E pc \in {"count", "push", "pop"} : Goto(t, pc)
    BY <1>3 DEF InsertVacant, CountClean, EnqueueFull, EnqueueUncount, AfterFullQueue, Moving
  <2> QED
    BY <2>1, GotoOp
<1>4. ASSUME EnqueueDrop(t) PROVE Alone
  <2>1. /\ UNCHANGED <<logVars, next_write, held>>
        /\ op[t].pc \in Moving
        /\ \E pc \in {"uncount_old", "push"} : Goto(t, pc)
    BY <1>4 DEF EnqueueDrop, Moving
  <2> QED
    BY <2>1, GotoOp
<1>5. ASSUME EnqueuePop(t) PROVE Alone
  <2>1. UNCHANGED <<logVars, next_write, held>> /\ op[t].pc \in Moving
    BY <1>5 DEF EnqueuePop, Moving
  <2>2. CASE Goto(t, "push")
    BY <2>1, <2>2, GotoOp
  <2>3. CASE op' = [op EXCEPT ![t] = [pc |-> "drop", key |-> op[t].key, id |-> op[t].id,
                                      old |-> Head(clean_fifo)]]
    BY <1>0, <2>1, <2>3
  <2> QED
    BY <1>5, <2>2, <2>3 DEF EnqueuePop
<1>6. Alone
  BY <1>1, <1>2, <1>3, <1>4, <1>5 DEF InsertClean
<1>7. WriteIdsOnce'
  BY <1>6, SameLog, IdsFrame DEF LogKnown
<1>8. HeldBatchKnown'
  BY <1>6, SameLog, HeldFrame DEF LogKnown
<1> QED
  BY <1>7, <1>8 DEF LogKnown

\* insert_dirty: the id it takes is new, and it appends it once.
LEMMA InsertDirtyLog ==
  ASSUME TypeOK, LogKnown, NEW t \in Thread,
         (\E k \in Key : TakeWriteId(t, k)) \/ AppendDirty(t)
  PROVE  LogKnown'
<1> DEFINE log == Dirty!Appended
<1>0. op \in [Thread -> OpType] /\ op[t] \in OpType /\ next_write \in Nat
  BY BoundAssumption DEF TypeOK
<1>1. /\ \A i \in DOMAIN log : log[i].id < next_write
      /\ \A i, j \in DOMAIN log : i # j => log[i].id # log[j].id
      /\ \A w \in Thread : op[w].pc = "append" =>
           /\ op[w].id < next_write
           /\ \A i \in DOMAIN log : log[i].id # op[w].id
           /\ \A u \in Thread \ {w} : op[u].pc = "append" => op[u].id # op[w].id
  BY DEF LogKnown, WriteIdsOnce
<1>2. log \in Seq(DirtyRecord)
  BY LogSeqs
<1>3. ASSUME NEW k \in Key, TakeWriteId(t, k) PROVE LogKnown'
  <2>1. /\ log' = log /\ retired' = retired /\ inflight' = inflight
        /\ next_write' = next_write + 1 /\ held' = held
        /\ op'[t].pc = "append" /\ op'[t].id = next_write
        /\ \A u \in Thread \ {t} : op'[u] = op[u]
    BY <1>0, <1>3, SameLog DEF TakeWriteId
  <2> HIDE DEF log
  <2>2. \A i \in DOMAIN log : log[i].id \in Nat
    <3>1. \A i \in DOMAIN log : log[i] \in DirtyRecord
      BY <1>2
    <3> QED
      BY <3>1 DEF DirtyRecord, WriteId
  <2>3. \A w \in Thread : op[w].pc = "append" => op[w].id \in Nat
    BY <1>0, OpKinds DEF WriteId
  <2>4. /\ \A i \in DOMAIN log' : log'[i].id < next_write'
        /\ \A i, j \in DOMAIN log' : i # j => log'[i].id # log'[j].id
    BY <1>0, <1>1, <2>1, <2>2
  <2>5. ASSUME NEW w \in Thread, op'[w].pc = "append"
        PROVE  /\ op'[w].id < next_write'
               /\ \A i \in DOMAIN log' : log'[i].id # op'[w].id
               /\ \A u \in Thread \ {w} : op'[u].pc = "append" => op'[u].id # op'[w].id
    <3>1. CASE w = t
      BY <1>0, <1>1, <2>1, <2>2, <2>3, <3>1
    <3>2. CASE w # t
      BY <1>0, <1>1, <2>1, <2>2, <2>3, <2>5, <3>2
    <3> QED
      BY <3>1, <3>2
  <2>6. WriteIdsOnce'
    BY <2>4, <2>5 DEF log, WriteIdsOnce
  <2>7. HeldBatchKnown'
    BY <2>1, HeldFrame DEF LogKnown
  <2> QED
    BY <2>6, <2>7 DEF LogKnown
<1>4. CASE AppendDirty(t)
  <2> DEFINE r == [id |-> op[t].id, key |-> op[t].key]
  <2>1. /\ op[t].pc = "append" /\ op'[t].pc = "publish"
        /\ \A u \in Thread \ {t} : op'[u] = op[u]
        /\ next_write' = next_write /\ held' = held /\ Dirty!AppendRecord(r)
    BY <1>4, GotoOp DEF AppendDirty, Moving
  <2>2. r \in DirtyRecord
    BY <1>0, <2>1, OpKinds DEF DirtyRecord
  <2>3. log' = Append(log, r) /\ retired' = retired /\ inflight' = inflight
    BY <2>1, <2>2, AppendLog
  <2> HIDE DEF log
  <2>4. r.id = op[t].id
    OBVIOUS
  <2> HIDE DEF r
  <2>5. /\ DOMAIN log' = DOMAIN log \cup {Len(log) + 1}
        /\ \A i \in DOMAIN log : log'[i] = log[i]
        /\ log'[Len(log) + 1] = r
    <3>1. DOMAIN log = 1 .. Len(log) /\ Len(log) \in Nat
      BY <1>2
    <3>2. /\ log' \in Seq(DirtyRecord) /\ Len(log') = Len(log) + 1
          /\ \A i \in 1 .. Len(log) : log'[i] = log[i] /\ log'[Len(log) + 1] = r
      BY <1>2, <2>2, <2>3, AppendProperties
    <3>3. DOMAIN log' = 1 .. Len(log) + 1
      BY <3>2
    <3> QED
      BY <1>2, <2>2, <2>3, <3>1, <3>2, <3>3, AppendProperties
  <2>6. /\ op[t].id < next_write
        /\ \A i \in DOMAIN log : log[i].id # op[t].id
        /\ \A u \in Thread \ {t} : op[u].pc = "append" => op[u].id # op[t].id
    BY <1>1, <2>1
  <2>7. \A i \in DOMAIN log' : log'[i].id < next_write'
    BY <1>1, <2>1, <2>4, <2>5, <2>6
  <2>8. \A i, j \in DOMAIN log' : i # j => log'[i].id # log'[j].id
    BY <1>1, <2>4, <2>5, <2>6
  <2>9. ASSUME NEW w \in Thread, op'[w].pc = "append"
        PROVE  /\ op'[w].id < next_write'
               /\ \A i \in DOMAIN log' : log'[i].id # op'[w].id
               /\ \A u \in Thread \ {w} : op'[u].pc = "append" => op'[u].id # op'[w].id
    BY <1>1, <2>1, <2>4, <2>5, <2>6, <2>9
  <2>10. WriteIdsOnce'
    BY <2>7, <2>8, <2>9 DEF log, WriteIdsOnce
  <2>11. HeldBatchKnown'
    BY <2>1, <2>3, HeldFrame DEF LogKnown
  <2> QED
    BY <2>10, <2>11 DEF LogKnown
<1> QED
  BY <1>3, <1>4

\* mark_flushed compares lengths and last ids: that is enough to tell the batch
\* in flight from any other the thread may hold.
LEMMA MarksWhatWasHeld ==
  ASSUME TypeOK, LogKnown, NEW t \in Thread, inflight # <<>>, SameBatch(inflight, held[t])
  PROVE  held[t] = inflight
<1> DEFINE n == Len(inflight)
           log == Dirty!Appended
<1>1. /\ inflight \in Seq(DirtyRecord) /\ n \in Nat \ {0} /\ n \in DOMAIN inflight
      /\ held[t] \in Seq(DirtyRecord)
  <2>1. inflight \in Seq(DirtyRecord) /\ held[t] \in Seq(DirtyRecord)
    BY LogSeqs DEF TypeOK
  <2> QED
    BY <2>1, EmptySeq
<1>2. held[t] # <<>>
  <2>1. Len(held[t]) = n
    BY DEF SameBatch
  <2> QED
    BY <1>1, <2>1
<1>3. last_id(held[t]) = inflight[n].id
  BY DEF SameBatch, last_id
<1>4. ~Retired(last_id(held[t]))
  <2> SUFFICES ASSUME NEW i \in DOMAIN retired, retired[i].id = inflight[n].id PROVE FALSE
    BY <1>3 DEF Retired
  <2>1. /\ i \in DOMAIN log /\ log[i] = retired[i]
        /\ Len(retired) + n \in DOMAIN log /\ Len(retired) + n \notin DOMAIN retired
        /\ log[Len(retired) + n] = inflight[n]
    BY <1>1, LogFront
  <2>2. \A j, k \in DOMAIN log : j # k => log[j].id # log[k].id
    BY DEF LogKnown, WriteIdsOnce
  <2> HIDE DEF log, n
  <2> QED
    BY <2>1, <2>2
<1> QED
  BY <1>2, <1>4 DEF LogKnown, HeldBatchKnown

\* flush_batch and mark_flushed: records move through the log, and what is
\* unpublished is retired.
LEMMA FlushLog ==
  ASSUME TypeOK, LogKnown, NEW t \in Thread,
         \/ FlushAgain(t) \/ FlushNothing(t) \/ MarkFlushed(t) \/ Unpublish(t)
         \/ \E limit \in Limit : FlushNew(t, limit)
  PROVE  LogKnown'
<1>0. /\ op \in [Thread -> OpType] /\ op[t] \in OpType
      /\ held \in [Thread -> Seq(DirtyRecord)]
  BY DEF TypeOK
<1>1. CASE FlushAgain(t) \/ FlushNothing(t)
  <2>1. /\ UNCHANGED <<logVars, next_write, op>> /\ op[t].pc = "idle"
        /\ \A u \in Thread \ {t} : held'[u] = held[u]
        /\ held'[t] = inflight \/ held'[t] = <<>>
    BY <1>0, <1>1 DEF FlushAgain, FlushNothing
  <2>2. WriteIdsOnce'
    BY <2>1, SameLog, IdsFrame DEF LogKnown
  <2>3. HeldBatchKnown'
    BY <2>1, SameLog, HeldFrame DEF LogKnown
  <2> QED
    BY <2>2, <2>3 DEF LogKnown
<1>2. ASSUME NEW limit \in Limit, FlushNew(t, limit) PROVE LogKnown'
  <2>1. /\ UNCHANGED <<next_write, op>> /\ op[t].pc = "idle"
        /\ \A u \in Thread \ {t} : held'[u] = held[u]
        /\ held'[t] = inflight'
    BY <1>0, <1>2 DEF FlushNew
  <2>2. /\ Dirty!Appended' = Dirty!Appended
        /\ retired' = retired /\ inflight = <<>>
    BY <1>2, TakeLog DEF FlushNew
  <2>3. WriteIdsOnce'
    BY <2>1, <2>2, IdsFrame DEF LogKnown
  <2>4. HeldBatchKnown'
    BY <2>1, <2>2, HeldFrame DEF LogKnown
  <2> QED
    BY <2>3, <2>4 DEF LogKnown
<1>3. CASE MarkFlushed(t)
  <2>1. /\ next_write' = next_write /\ held' = held
        /\ op'[t] = [pc |-> "unpublish", todo |-> held[t]]
        /\ \A u \in Thread \ {t} : op'[u] = op[u]
        /\ Dirty!Retire /\ SameBatch(inflight, held[t])
    BY <1>0, <1>3 DEF MarkFlushed
  <2>2. /\ Dirty!Appended' = Dirty!Appended
        /\ retired' = retired \o inflight /\ inflight # <<>> /\ inflight' = <<>>
    BY <2>1, RetireLog
  <2>3. held[t] = inflight
    BY <2>1, <2>2, MarksWhatWasHeld
  <2>4. op'[t].pc = "unpublish" /\ op'[t].todo = inflight
    BY <2>1, <2>3
  <2>5. WriteIdsOnce'
    BY <2>1, <2>2, <2>4, IdsFrame DEF LogKnown
  <2>6. /\ \A id : Retired(id) => \E i \in DOMAIN retired' : retired'[i].id = id
        /\ \A j \in DOMAIN inflight : \E i \in DOMAIN retired' : retired'[i].id = inflight[j].id
    <3>1. \A id : Retired(id) => Retired(id)'
      BY <2>2, RetiredGrows
    <3>2. \A j \in DOMAIN inflight : \E i \in DOMAIN retired' : retired'[i] = inflight[j]
      BY <2>2, RetiredGrows
    <3>3. \A j \in DOMAIN inflight : \E i \in DOMAIN retired' : retired'[i].id = inflight[j].id
      BY <3>2
    <3> QED
      BY <3>1, <3>3 DEF Retired
  <2>7. \E i \in DOMAIN retired' : retired'[i].id = last_id(inflight)
    <3>1. inflight \in Seq(DirtyRecord)
      BY LogSeqs
    <3>2. Len(inflight) \in DOMAIN inflight
      BY <2>2, <3>1, EmptySeq
    <3>3. last_id(inflight) = inflight[Len(inflight)].id
      BY <2>2 DEF last_id
    <3> QED
      BY <2>6, <3>2, <3>3
  <2>8. HeldBatchKnown'
    <3>1. ASSUME NEW u \in Thread
          PROVE  \/ held'[u] = <<>> \/ held'[u] = inflight'
                 \/ \E i \in DOMAIN retired' : retired'[i].id = last_id(held'[u])
      <4>1. held[u] = <<>> \/ held[u] = inflight \/ Retired(last_id(held[u]))
        BY DEF LogKnown, HeldBatchKnown
      <4> QED
        BY <2>1, <2>6, <2>7, <4>1
    <3>2. ASSUME NEW u \in Thread, op'[u].pc = "unpublish", NEW j \in DOMAIN op'[u].todo
          PROVE  \E i \in DOMAIN retired' : retired'[i].id = op'[u].todo[j].id
      <4>1. CASE u = t
        BY <2>4, <2>6, <3>2, <4>1
      <4>2. CASE u # t
        <5>1. op'[u] = op[u]
          BY <2>1, <4>2
        <5>2. Retired(op[u].todo[j].id)
          BY <3>2, <5>1 DEF LogKnown, HeldBatchKnown
        <5> QED
          BY <2>6, <5>1, <5>2
      <4> QED
        BY <4>1, <4>2
    <3> QED
      BY <3>1, <3>2 DEF HeldBatchKnown, Retired
  <2> QED
    BY <2>5, <2>8 DEF LogKnown
<1>4. CASE Unpublish(t)
  <2>1. /\ UNCHANGED <<logVars, next_write, held>> /\ op[t].pc = "unpublish"
        /\ \A u \in Thread \ {t} : op'[u] = op[u]
        /\ op'[t] = Idle \/ op'[t] = [pc |-> "unpublish", todo |-> Tail(op[t].todo)]
    BY <1>0, <1>4 DEF Unpublish
  <2>2. op[t].todo \in Seq(DirtyRecord) \ {<<>>}
    BY <1>0, <2>1, OpKinds
  <2>3. \A i \in DOMAIN Tail(op[t].todo) :
          i + 1 \in DOMAIN op[t].todo /\ Tail(op[t].todo)[i] = op[t].todo[i + 1]
    BY <2>2
  <2>4. \A i \in DOMAIN op[t].todo : Retired(op[t].todo[i].id)
    BY <2>1 DEF LogKnown, HeldBatchKnown
  <2>5. op'[t].pc = "unpublish" =>
          \A i \in DOMAIN op'[t].todo : Retired(op'[t].todo[i].id)
    <3>1. \A i \in DOMAIN Tail(op[t].todo) : Retired(Tail(op[t].todo)[i].id)
      BY <2>3, <2>4
    <3>2. op'[t].pc = "unpublish" => op'[t].todo = Tail(op[t].todo)
      <4>1. Idle.pc = "idle"
        BY DEF Idle
      <4>2. [pc |-> "unpublish", todo |-> Tail(op[t].todo)].todo = Tail(op[t].todo)
        OBVIOUS
      <4> QED
        BY <2>1, <4>1, <4>2
    <3> QED
      BY <3>1, <3>2
  <2>6. op'[t].pc # "append"
    BY <2>1 DEF Idle
  <2>7. WriteIdsOnce'
    BY <2>1, <2>6, SameLog, IdsFrame DEF LogKnown
  <2>8. HeldBatchKnown'
    BY <2>1, <2>5, SameLog, HeldFrame DEF LogKnown
  <2> QED
    BY <2>7, <2>8 DEF LogKnown
<1> QED
  BY <1>1, <1>2, <1>3, <1>4

\* Every step keeps what is known of the log.
LEMMA NextLog == TypeOK /\ LogKnown /\ [Next]_vars => LogKnown'
<1> SUFFICES ASSUME TypeOK, LogKnown, [Next]_vars PROVE LogKnown'
  OBVIOUS
<1>1. CASE UNCHANGED vars
  <2>1. UNCHANGED <<next_write, logVars, op, held>>
    BY <1>1 DEF vars
  <2>2. WriteIdsOnce'
    BY <2>1, SameLog, IdsFrame DEF LogKnown
  <2>3. HeldBatchKnown'
    BY <2>1, SameLog DEF LogKnown, HeldBatchKnown, Retired
  <2> QED
    BY <2>2, <2>3 DEF LogKnown
<1> QED
  BY <1>1, Steps, OtherLog, InsertDirtyLog, FlushLog DEF InsertDirty

(***************************************************************************)
(* The inductive invariant and what follows from it.                       *)
(***************************************************************************)

\* The map begins in IInv.
LEMMA InitIInv == Init => IInv
<1> SUFFICES ASSUME Init PROVE IInv
  OBVIOUS
<1>1. TypeOK /\ CleanLedger
  BY InitTypeOK, InitLedger
<1>2. CleanEntriesTracked
  BY DEF Init, CleanEntriesTracked, VisibleClean, NoRef
<1>3. Dirty!Appended = <<>>
  BY DEF Init, Dirty!Init, Dirty!Appended
<1>4. WriteIdsOnce
  BY <1>3 DEF Init, Idle, WriteIdsOnce
<1>5. HeldBatchKnown
  BY DEF Init, Idle, HeldBatchKnown
<1> QED
  BY <1>1, <1>2, <1>4, <1>5 DEF IInv, CleanLedger

\* Every step of every call preserves IInv.
LEMMA NextIInv == IInv /\ [Next]_vars => IInv'
<1> SUFFICES ASSUME IInv, [Next]_vars PROVE IInv'
  OBVIOUS
<1>1. TypeOK /\ CleanLedger /\ CleanEntriesTracked /\ LogKnown
  BY DEF IInv, CleanLedger, LogKnown
<1>2. TypeOK'
  BY <1>1, NextTypeOK DEF CleanLedger
<1>3. CleanLedger' /\ CleanEntriesTracked' /\ LogKnown'
  BY <1>1, NextLedger, NextTracked, NextLog
<1> QED
  BY <1>2, <1>3 DEF IInv, CleanLedger, LogKnown

\* The accounts of the clean cache, where its entries are, and what is known
\* of the log and of the batches hold together in every reachable state.
THEOREM Invariance == Spec => []IInv
<1> QED
  BY InitIInv, NextIInv, PTL DEF Spec

\* Each variable keeps its type: the FIFO never exceeds its capacity, and no
\* more clean entries leak than ids were taken.
THEOREM TypeCorrect == Spec => []TypeOK
<1>1. IInv => TypeOK
  BY DEF IInv
<1> QED
  BY <1>1, Invariance, PTL

\* clean_count is, modulo its width, the number of clean entries, off by the
\* counts and uncounts in progress and by what cleanup_stale_visible leaked.
THEOREM CountAccounts == Spec => []CleanCountAccounts
<1>1. IInv => CleanCountAccounts
  BY DEF IInv
<1> QED
  BY <1>1, Invariance, PTL

\* Every visible clean entry has its slot in the FIFO, or with a thread that
\* is about to push it or to remove it.
THEOREM EntriesTracked == Spec => []CleanEntriesTracked
<1>1. IInv => CleanEntriesTracked
  BY DEF IInv
<1> QED
  BY <1>1, Invariance, PTL

\* The threads that enqueue are finitely many.
LEMMA FiniteThreads ==
  /\ IsFiniteSet(Enqueueing) /\ Cardinality(Enqueueing) \in Nat
  /\ IsFiniteSet(Dropping) /\ Cardinality(Dropping) \in Nat
<1>1. Enqueueing \in SUBSET Thread /\ Dropping \in SUBSET Thread
  BY DEF Enqueueing, Dropping
<1> QED
  BY <1>1, FiniteThreadsAssumption, FS_Subset, FS_CardinalityType

\* The keys of the clean entries that are tracked are those of the FIFO, those
\* of the calls that enqueue and those of the slots they have popped.
LEMMA CleanBound ==
  ASSUME TypeOK, CleanEntriesTracked
  PROVE  CleanCacheBounded
<1> DEFINE slots == [i \in DOMAIN clean_fifo |-> clean_fifo[i].key]
           keys == [t \in Enqueueing |-> op[t].key]
           olds == [t \in Dropping |-> op[t].old.key]
           A == {slots[i] : i \in DOMAIN clean_fifo}
           B == {keys[t] : t \in Enqueueing}
           C == {olds[t] : t \in Dropping}
<1>1. VisibleClean \subseteq A \cup B \cup C
  <2> SUFFICES ASSUME NEW k \in VisibleClean PROVE k \in A \cup B \cup C
    OBVIOUS
  <2>1. CASE \E i \in DOMAIN clean_fifo : clean_fifo[i] = [id |-> visible[k].id, key |-> k]
    BY <2>1
  <2>2. CASE \E t \in Enqueueing : op[t].key = k /\ op[t].id = visible[k].id
    BY <2>2
  <2>3. CASE PoppedByName(k)
    <3>1. PICK t \in Thread : op[t].pc = "drop" /\ op[t].old = [id |-> visible[k].id, key |-> k]
      BY <2>3 DEF PoppedByName
    <3>2. t \in Dropping /\ olds[t] = k
      BY <3>1 DEF Dropping
    <3> QED
      BY <3>2
  <2> QED
    BY <2>1, <2>2, <2>3 DEF CleanEntriesTracked
<1>2. /\ DOMAIN clean_fifo = 1 .. Len(clean_fifo) /\ Len(clean_fifo) \in Nat
      /\ Len(clean_fifo) <= Capacity
  BY DEF TypeOK
<1>3. IsFiniteSet(DOMAIN clean_fifo) /\ Cardinality(DOMAIN clean_fifo) <= Capacity
      /\ Cardinality(DOMAIN clean_fifo) \in Nat
  <2>1. IsFiniteSet(1 .. Len(clean_fifo)) /\ Cardinality(1 .. Len(clean_fifo)) = Len(clean_fifo)
    <3>1. 1 \in Int /\ Len(clean_fifo) \in Int
      BY <1>2
    <3>2. IsFiniteSet(1 .. Len(clean_fifo))
          /\ Cardinality(1 .. Len(clean_fifo))
               = IF 1 > Len(clean_fifo) THEN 0 ELSE Len(clean_fifo) - 1 + 1
      BY <3>1, FS_Interval
    <3> QED
      BY <1>2, <3>2
  <2> QED
    BY <1>2, <2>1
<1>4. IsFiniteSet(A) /\ Cardinality(A) \in Nat /\ Cardinality(A) <= Capacity
  <2>1. Cardinality(A) <= Cardinality(DOMAIN clean_fifo) /\ IsFiniteSet(A) /\ Cardinality(A) \in Nat
    BY <1>3, ImageCount
  <2> QED
    BY <1>3, <2>1, CapacityAssumption
<1>5. IsFiniteSet(B) /\ Cardinality(B) \in Nat /\ Cardinality(B) <= Cardinality(Enqueueing)
  BY FiniteThreads, ImageCount
<1>6. IsFiniteSet(C) /\ Cardinality(C) \in Nat /\ Cardinality(C) <= Cardinality(Dropping)
  BY FiniteThreads, ImageCount
<1> HIDE DEF A, B, C
<1>7. IsFiniteSet(A \cup B \cup C)
      /\ Cardinality(A \cup B \cup C) <= Cardinality(A) + Cardinality(B) + Cardinality(C)
  BY <1>4, <1>5, <1>6, UnionCount
<1>8. Cardinality(VisibleClean) <= Cardinality(A \cup B \cup C)
  BY <1>1, <1>7, FS_Subset
<1>9. Cardinality(VisibleClean) \in Nat /\ Cardinality(A \cup B \cup C) \in Nat
  BY <1>1, <1>7, FS_Subset, FS_CardinalityType
<1> QED
  BY <1>4, <1>5, <1>6, <1>7, <1>8, <1>9, FiniteThreads, CapacityAssumption
     DEF CleanCacheBounded

\* The clean cache exceeds its capacity by the calls that are making room for
\* their entry, and no more.
THEOREM CacheBounded == Spec => []CleanCacheBounded
<1>1. IInv => CleanCacheBounded
  BY CleanBound DEF IInv
<1> QED
  BY <1>1, Invariance, PTL

(***************************************************************************)
(* What may take an entry away.                                            *)
(***************************************************************************)

\* Only six kinds of step touch the index, and each one key of it.
LEMMA IndexSteps ==
  ASSUME TypeOK, [Next]_vars, NEW k \in Key, visible'[k] # visible[k]
  PROVE  \/ \E t \in Thread : PublishDirty(t) /\ op[t].key = k
         \/ \E t \in Thread : InsertVacant(t) /\ op[t].key = k
         \/ \E t \in Thread : /\ EnqueueDrop(t) /\ op[t].old.key = k
                              /\ IsOldClean(op[t].old) /\ visible'[k] = NoRef
         \/ \E t \in Thread : EvictClean(t, k) /\ visible'[k] = NoRef
         \/ \E t \in Thread : /\ CleanupRemove(t) /\ op[t].key = k
                              /\ SameRef(k, op[t].ref) /\ visible'[k] = NoRef
         \/ \E t \in Thread : /\ Unpublish(t) /\ Head(op[t].todo).key = k
                              /\ IsFlushedEntry(Head(op[t].todo)) /\ visible'[k] = NoRef
<1>0. visible \in [Key -> VisibleRef] /\ visible' # visible
  BY DEF TypeOK
<1>1. PICK t \in Thread :
        \/ (\E j \in Key : TakeWriteId(t, j)) \/ InsertDirty(t)
        \/ (\E j \in Key : TakeCacheId(t, j)) \/ InsertClean(t)
        \/ \E j \in Key : EvictClean(t, j) \/ CleanupRead(t, j)
        \/ EvictUncount(t) \/ CleanupRemove(t)
        \/ FlushAgain(t) \/ FlushNothing(t) \/ MarkFlushed(t) \/ Unpublish(t)
        \/ \E limit \in Limit : FlushNew(t, limit)
  BY <1>0, Steps DEF vars
<1>2. \/ PublishDirty(t) \/ InsertVacant(t) \/ EnqueueDrop(t)
      \/ (\E j \in Key : EvictClean(t, j)) \/ CleanupRemove(t) \/ Unpublish(t)
  BY <1>0, <1>1 DEF TakeWriteId, InsertDirty, AppendDirty, TakeCacheId, InsertClean,
     FindOccupied, CountClean, EnqueuePush, EnqueueFull, EnqueuePop, EnqueueUncount,
     CleanupRead, EvictUncount, FlushAgain, FlushNothing, FlushNew, MarkFlushed
<1>3. CASE PublishDirty(t)
  BY <1>0, <1>3 DEF PublishDirty
<1>4. CASE InsertVacant(t)
  BY <1>0, <1>4 DEF InsertVacant
<1>5. CASE EnqueueDrop(t)
  BY <1>0, <1>5 DEF EnqueueDrop, RemoveIf
<1>6. ASSUME NEW j \in Key, EvictClean(t, j)
      PROVE  EvictClean(t, k) /\ visible'[k] = NoRef
  BY <1>0, <1>6 DEF EvictClean, RemoveIf
<1>7. CASE CleanupRemove(t)
  BY <1>0, <1>7 DEF CleanupRemove, RemoveIf
<1>8. CASE Unpublish(t)
  BY <1>0, <1>8 DEF Unpublish, RemoveIf
<1> QED
  BY <1>2, <1>3, <1>4, <1>5, <1>6, <1>7, <1>8

\* A step on a dirty entry: another write takes its place, or its own record
\* is retired, or a cleanup read that very entry.
LEMMA DirtyStep ==
  ASSUME IInv, [Next]_vars, NEW k \in Key,
         visible[k].kind = "Dirty", visible'[k] # visible[k]
  PROVE  \/ visible'[k].kind = "Dirty"
         \/ visible'[k] = NoRef /\ Retired(visible[k].id)
         \/ visible'[k] = NoRef /\ CleanedUp(k)
<1>0. TypeOK /\ HeldBatchKnown /\ visible \in [Key -> VisibleRef] /\ op \in [Thread -> OpType]
  BY DEF IInv, TypeOK
<1>1. ASSUME NEW t \in Thread, PublishDirty(t), op[t].key = k
      PROVE  visible'[k].kind = "Dirty"
  BY <1>0, <1>1 DEF PublishDirty, DirtyRef
<1>2. ASSUME NEW t \in Thread, InsertVacant(t), op[t].key = k PROVE FALSE
  BY <1>2 DEF InsertVacant, VacantEntry, NoRef
<1>3. ASSUME NEW t \in Thread, EnqueueDrop(t), op[t].old.key = k, IsOldClean(op[t].old)
      PROVE  FALSE
  BY <1>3 DEF IsOldClean, CleanRef
<1>4. ASSUME NEW t \in Thread, EvictClean(t, k) PROVE FALSE
  BY <1>4 DEF EvictClean
<1>5. ASSUME NEW t \in Thread, CleanupRemove(t), op[t].key = k, SameRef(k, op[t].ref)
      PROVE  CleanedUp(k)
  BY <1>5 DEF CleanupRemove, SameRef, CleanedUp
<1>6. ASSUME NEW t \in Thread, Unpublish(t), Head(op[t].todo).key = k,
             IsFlushedEntry(Head(op[t].todo))
      PROVE  Retired(visible[k].id)
  <2>1. op[t].pc = "unpublish" /\ op[t].todo \in Seq(DirtyRecord) \ {<<>>}
    BY <1>0, <1>6, OpKinds DEF Unpublish
  <2>2. 1 \in DOMAIN op[t].todo /\ Head(op[t].todo) = op[t].todo[1]
    BY <2>1, EmptySeq, HeadTailProperties
  <2>3. visible[k].id = op[t].todo[1].id
    BY <1>6, <2>2 DEF IsFlushedEntry, DirtyRef
  <2> QED
    BY <1>0, <2>1, <2>2, <2>3 DEF HeldBatchKnown
<1> QED
  BY <1>0, <1>1, <1>2, <1>3, <1>4, <1>5, <1>6, IndexSteps

\* Dirty always wins: no clean insertion, no eviction, no stale FIFO slot and
\* no flush of an older record ever takes a dirty entry away.
THEOREM DirtyStays == Spec => DirtyEntryStays
<1>1. IInv /\ [Next]_vars =>
        [\A k \in Key :
           visible[k].kind = "Dirty" /\ visible'[k] # visible[k] =>
             \/ visible'[k].kind = "Dirty"
             \/ visible'[k] = NoRef /\ Retired(visible[k].id)
             \/ visible'[k] = NoRef /\ CleanedUp(k)]_vars
  BY DirtyStep
<1> QED
  BY <1>1, Invariance, PTL DEF Spec, DirtyEntryStays

\* A step on a clean entry: a write takes its place, or its own slot came out
\* of the FIFO, or an eviction or a cleanup of it.
LEMMA CleanStep ==
  ASSUME IInv, [Next]_vars, NEW k \in Key,
         visible[k].kind = "Clean", visible'[k] # visible[k]
  PROVE  \/ visible'[k].kind = "Dirty"
         \/ visible'[k] = NoRef /\ PoppedByName(k)
         \/ visible'[k] = NoRef /\ CleanedUp(k)
         \/ \E t \in Thread : EvictClean(t, k)
<1>0. TypeOK /\ visible \in [Key -> VisibleRef] /\ op \in [Thread -> OpType]
  BY DEF IInv, TypeOK
<1>1. ASSUME NEW t \in Thread, PublishDirty(t), op[t].key = k
      PROVE  visible'[k].kind = "Dirty"
  BY <1>0, <1>1 DEF PublishDirty, DirtyRef
<1>2. ASSUME NEW t \in Thread, InsertVacant(t), op[t].key = k PROVE FALSE
  BY <1>2 DEF InsertVacant, VacantEntry, NoRef
<1>3. ASSUME NEW t \in Thread, EnqueueDrop(t), op[t].old.key = k, IsOldClean(op[t].old)
      PROVE  PoppedByName(k)
  <2>1. op[t].pc = "drop" /\ op[t].old \in CleanRecord
    BY <1>0, <1>3, OpKinds DEF EnqueueDrop
  <2>2. visible[k].id = op[t].old.id
    BY <1>3 DEF IsOldClean, CleanRef
  <2>3. op[t].old = [id |-> visible[k].id, key |-> k]
    BY <1>3, <2>1, <2>2 DEF CleanRecord
  <2> QED
    BY <2>1, <2>3 DEF PoppedByName
<1>4. ASSUME NEW t \in Thread, CleanupRemove(t), op[t].key = k, SameRef(k, op[t].ref)
      PROVE  CleanedUp(k)
  BY <1>4 DEF CleanupRemove, SameRef, CleanedUp
<1>5. ASSUME NEW t \in Thread, Unpublish(t), Head(op[t].todo).key = k,
             IsFlushedEntry(Head(op[t].todo))
      PROVE  FALSE
  BY <1>5 DEF IsFlushedEntry, DirtyRef
<1> QED
  BY <1>0, <1>1, <1>2, <1>3, <1>4, <1>5, IndexSteps

\* No stale FIFO slot of an older entry of the key and no flush takes a clean
\* entry away.
THEOREM CleanStays == Spec => CleanEntryStays
<1>1. IInv /\ [Next]_vars =>
        [\A k \in Key :
           visible[k].kind = "Clean" /\ visible'[k] # visible[k] =>
             \/ visible'[k].kind = "Dirty"
             \/ visible'[k] = NoRef /\ PoppedByName(k)
             \/ visible'[k] = NoRef /\ CleanedUp(k)
             \/ \E t \in Thread : EvictClean(t, k)]_vars
  BY CleanStep
<1> QED
  BY <1>1, Invariance, PTL DEF Spec, CleanEntryStays

(***************************************************************************)
(* One writer per key.  The promise of the map to such a key: its newest   *)
(* write is readable from its publication until it is retired, whatever    *)
(* the other threads fill, evict, flush and mark.  Proved for any threads, *)
(* keys, calls and bounds, as long as no two threads write one key and     *)
(* none calls cleanup_stale_visible.                                       *)
(***************************************************************************)

(***************************************************************************)
(* The log by position.                                                    *)
(***************************************************************************)

\* The records of a log after its first n.
After(log, n) == {log[i] : i \in {j \in DOMAIN log : j > n}}

\* What follows r in r \o f \o p is what f and p hold.
LEMMA RecordsAfter ==
  ASSUME NEW S, NEW r \in Seq(S), NEW f \in Seq(S), NEW p \in Seq(S)
  PROVE  RecordOf(p) \cup RecordOf(f) = After((r \o f) \o p, Len(r))
<1> DEFINE front == r \o f
           log == front \o p
<1>1. /\ front \in Seq(S) /\ Len(front) = Len(r) + Len(f)
      /\ \A i \in 1 .. Len(r) + Len(f) : front[i] = IF i <= Len(r) THEN r[i] ELSE f[i - Len(r)]
  BY ConcatProperties
<1> HIDE DEF front
<1>2. /\ log \in Seq(S) /\ Len(log) = Len(front) + Len(p)
      /\ \A i \in 1 .. Len(front) + Len(p) :
           log[i] = IF i <= Len(front) THEN front[i] ELSE p[i - Len(front)]
  <2>1. front \in Seq(S) /\ p \in Seq(S)
    BY <1>1
  <2> QED
    BY <2>1, ConcatProperties
<1> HIDE DEF log
<1>3. /\ DOMAIN log = 1 .. Len(r) + Len(f) + Len(p)
      /\ DOMAIN f = 1 .. Len(f) /\ DOMAIN p = 1 .. Len(p)
      /\ Len(r) \in Nat /\ Len(f) \in Nat /\ Len(p) \in Nat
  BY <1>1, <1>2
<1>4. \A j \in DOMAIN f : Len(r) + j \in DOMAIN log /\ Len(r) + j > Len(r)
                          /\ log[Len(r) + j] = f[j]
  BY <1>1, <1>2, <1>3
<1>5. \A j \in DOMAIN p : Len(r) + Len(f) + j \in DOMAIN log /\ Len(r) + Len(f) + j > Len(r)
                          /\ log[Len(r) + Len(f) + j] = p[j]
  BY <1>1, <1>2, <1>3
<1>6. ASSUME NEW i \in DOMAIN log, i > Len(r)
      PROVE  \/ i - Len(r) \in DOMAIN f /\ log[i] = f[i - Len(r)]
             \/ i - (Len(r) + Len(f)) \in DOMAIN p /\ log[i] = p[i - (Len(r) + Len(f))]
  BY <1>1, <1>2, <1>3, <1>6
<1>7. RecordOf(p) \cup RecordOf(f) \subseteq After(log, Len(r))
  BY <1>4, <1>5 DEF RecordOf, After
<1>8. After(log, Len(r)) \subseteq RecordOf(p) \cup RecordOf(f)
  BY <1>6 DEF RecordOf, After
<1> QED
  BY <1>7, <1>8 DEF log, front

\* What is queued is the log after what is retired, before a step and after.
LEMMA QueuedAfter ==
  ASSUME TypeOK, TypeOK'
  PROVE  /\ Queued = After(Dirty!Appended, Len(retired))
         /\ Queued' = After(Dirty!Appended', Len(retired'))
<1>1. /\ retired \in Seq(DirtyRecord) /\ inflight \in Seq(DirtyRecord)
      /\ pending \in Seq(DirtyRecord)
      /\ retired' \in Seq(DirtyRecord) /\ inflight' \in Seq(DirtyRecord)
      /\ pending' \in Seq(DirtyRecord)
  BY DEF TypeOK, Dirty!TypeOK
<1>2. RecordOf(pending) \cup RecordOf(inflight)
        = After((retired \o inflight) \o pending, Len(retired))
  BY <1>1, RecordsAfter
<1>3. RecordOf(pending') \cup RecordOf(inflight')
        = After((retired' \o inflight') \o pending', Len(retired'))
  BY <1>1, RecordsAfter
<1> QED
  BY <1>2, <1>3 DEF Queued, Dirty!Appended, RecordOf

\* What is queued are records.
LEMMA QueuedRecords == TypeOK => Queued \subseteq DirtyRecord
<1> SUFFICES ASSUME TypeOK PROVE Queued \subseteq DirtyRecord
  OBVIOUS
<1>1. pending \in Seq(DirtyRecord) /\ inflight \in Seq(DirtyRecord)
  BY LogSeqs
<1>2. RecordOf(pending) \subseteq DirtyRecord /\ RecordOf(inflight) \subseteq DirtyRecord
  BY <1>1 DEF RecordOf
<1> QED
  BY <1>2 DEF Queued

\* A log that keeps its records, of which no fewer are retired.
Settled == Dirty!Appended' = Dirty!Appended /\ Len(retired) <= Len(retired')

(***************************************************************************)
(* The steps, by what they do to writes in progress.                       *)
(***************************************************************************)

\* insert_dirty takes an id, appends or publishes; any other step leaves the
\* writes in progress and the log's records alone.
LEMMA WriteSteps ==
  ASSUME TypeOK, [Next]_vars
  PROVE  \/ \E t \in Thread, k \in Key : TakeWriteId(t, k)
         \/ \E t \in Thread : AppendDirty(t)
         \/ \E t \in Thread : PublishDirty(t)
         \/ /\ Settled
            /\ \A u \in Thread :
                 \/ op'[u] = op[u]
                 \/ {op[u].pc, op'[u].pc} \cap {"append", "publish"} = {}
<1> DEFINE Others == \A u \in Thread :
             \/ op'[u] = op[u]
             \/ {op[u].pc, op'[u].pc} \cap {"append", "publish"} = {}
<1>0. op \in [Thread -> OpType] /\ Len(retired) \in Nat
  BY LogSeqs DEF TypeOK
<1>1. CASE UNCHANGED vars
  BY <1>0, <1>1, SameLog DEF vars, Settled
<1>2. ASSUME NEW t \in Thread, NEW k \in Key,
             TakeCacheId(t, k) \/ EvictClean(t, k) \/ CleanupRead(t, k)
      PROVE  Settled /\ Others
  <2>1. UNCHANGED logVars /\ op[t].pc = "idle" /\ \A u \in Thread \ {t} : op'[u] = op[u]
    BY <1>0, <1>2 DEF TakeCacheId, EvictClean, CleanupRead
  <2>2. op'[t].pc \in {"entry", "uncount", "cleanup"}
    <3>1. CASE TakeCacheId(t, k)
      BY <1>0, <3>1 DEF TakeCacheId
    <3>2. CASE EvictClean(t, k)
      BY <1>0, <3>2 DEF EvictClean
    <3>3. CASE CleanupRead(t, k)
      BY <1>0, <3>3 DEF CleanupRead
    <3> QED
      BY <1>2, <3>1, <3>2, <3>3
  <2> QED
    BY <1>0, <2>1, <2>2, SameLog DEF Settled
<1>3. ASSUME NEW t \in Thread,
             \/ FindOccupied(t) \/ EnqueuePush(t) \/ EvictUncount(t) \/ CleanupRemove(t)
      PROVE  Settled /\ Others
  <2>1. /\ Return(t) /\ UNCHANGED logVars
        /\ op[t].pc \in {"entry", "push", "uncount", "cleanup"}
    BY <1>3 DEF FindOccupied, EnqueuePush, EvictUncount, CleanupRemove
  <2> QED
    BY <1>0, <2>1, ReturnOp, SameLog DEF Settled
<1>4. ASSUME NEW t \in Thread,
             \/ InsertVacant(t) \/ CountClean(t) \/ EnqueueFull(t) \/ EnqueueUncount(t)
             \/ EnqueueDrop(t)
      PROVE  Settled /\ Others
  <2>1. /\ UNCHANGED logVars
        /\ op[t].pc \in {"entry", "count", "push", "drop", "uncount_old"}
        /\ \E pc \in {"count", "push", "pop", "uncount_old"} : Goto(t, pc)
    <3>1. CASE EnqueueDrop(t)
      BY <3>1 DEF EnqueueDrop
    <3>2. CASE \/ InsertVacant(t) \/ CountClean(t) \/ EnqueueFull(t) \/ EnqueueUncount(t)
      BY <3>2 DEF InsertVacant, CountClean, EnqueueFull, EnqueueUncount, AfterFullQueue
    <3> QED
      BY <1>4, <3>1, <3>2
  <2>2. PICK pc \in {"count", "push", "pop", "uncount_old"} : Goto(t, pc)
    BY <2>1
  <2>3. op'[t].pc = pc /\ \A u \in Thread \ {t} : op'[u] = op[u]
    BY <2>1, <2>2, GotoOp DEF Moving
  <2> QED
    BY <1>0, <2>1, <2>3, SameLog DEF Settled
<1>5. ASSUME NEW t \in Thread, EnqueuePop(t) PROVE Settled /\ Others
  <2>1. UNCHANGED logVars /\ op[t].pc = "pop"
    BY <1>5 DEF EnqueuePop
  <2>2. op'[t].pc \in {"push", "drop"} /\ \A u \in Thread \ {t} : op'[u] = op[u]
    <3>1. CASE Goto(t, "push")
      BY <2>1, <3>1, GotoOp DEF Moving
    <3>2. CASE op' = [op EXCEPT ![t] = [pc |-> "drop", key |-> op[t].key, id |-> op[t].id,
                                        old |-> Head(clean_fifo)]]
      BY <1>0, <3>2
    <3> QED
      BY <1>5, <3>1, <3>2 DEF EnqueuePop
  <2> QED
    BY <1>0, <2>1, <2>2, SameLog DEF Settled
<1>6. ASSUME NEW t \in Thread, FlushAgain(t) \/ FlushNothing(t)
      PROVE  Settled /\ Others
  <2>1. UNCHANGED <<logVars, op>>
    BY <1>6 DEF FlushAgain, FlushNothing
  <2> QED
    BY <1>0, <2>1, SameLog DEF Settled
<1>7. ASSUME NEW t \in Thread, NEW limit \in Limit, FlushNew(t, limit)
      PROVE  Settled /\ Others
  BY <1>0, <1>7, TakeLog DEF FlushNew, Settled
<1>8. ASSUME NEW t \in Thread, MarkFlushed(t) PROVE Settled /\ Others
  <2>1. /\ Dirty!Appended' = Dirty!Appended /\ retired' = retired \o inflight
    BY <1>8, RetireLog DEF MarkFlushed
  <2>2. Len(retired) <= Len(retired')
    <3>1. /\ retired \in Seq(DirtyRecord) /\ inflight \in Seq(DirtyRecord)
      BY LogSeqs
    <3>2. Len(retired \o inflight) = Len(retired) + Len(inflight)
      BY <3>1, ConcatProperties
    <3> QED
      BY <2>1, <3>1, <3>2
  <2>3. /\ op[t].pc = "idle" /\ op'[t].pc = "unpublish"
        /\ \A u \in Thread \ {t} : op'[u] = op[u]
    BY <1>0, <1>8 DEF MarkFlushed
  <2> QED
    BY <2>1, <2>2, <2>3 DEF Settled
<1>9. ASSUME NEW t \in Thread, Unpublish(t) PROVE Settled /\ Others
  <2>1. /\ UNCHANGED logVars /\ op[t].pc = "unpublish"
        /\ \A u \in Thread \ {t} : op'[u] = op[u]
        /\ op'[t].pc \in {"idle", "unpublish"}
    BY <1>0, <1>9 DEF Unpublish, Idle
  <2> QED
    BY <1>0, <2>1, SameLog DEF Settled
<1> QED
  BY <1>1, <1>2, <1>3, <1>4, <1>5, <1>6, <1>7, <1>8, <1>9, Steps
     DEF InsertDirty, InsertClean

\* The facts of the three steps of insert_dirty.
LEMMA TakeIdFacts ==
  ASSUME TypeOK, NEW t \in Thread, NEW k \in Key, TakeWriteId(t, k)
  PROVE  /\ k \in WriteKeys[t] /\ op[t].pc = "idle"
         /\ op'[t].pc = "append" /\ op'[t].key = k /\ op'[t].id = next_write
         /\ \A u \in Thread \ {t} : op'[u] = op[u]
         /\ Dirty!Appended' = Dirty!Appended /\ retired' = retired /\ visible' = visible
<1>1. op \in [Thread -> OpType]
  BY DEF TypeOK
<1> QED
  BY <1>1, SameLog DEF TakeWriteId

\* What an append does.
LEMMA AppendFacts ==
  ASSUME TypeOK, NEW t \in Thread, AppendDirty(t)
  PROVE  LET log == Dirty!Appended
             r   == [id |-> op[t].id, key |-> op[t].key]
         IN  /\ op[t].pc = "append" /\ op'[t].pc = "publish"
             /\ op'[t].key = op[t].key /\ op'[t].id = op[t].id
             /\ \A u \in Thread \ {t} : op'[u] = op[u]
             /\ op[t].key \in Key /\ op[t].id \in Nat
             /\ DOMAIN log = 1 .. Len(log) /\ Len(log) \in Nat
             /\ DOMAIN log' = 1 .. Len(log) + 1
             /\ \A i \in DOMAIN log : log'[i] = log[i]
             /\ log'[Len(log) + 1] = r
             /\ retired' = retired /\ visible' = visible
<1> DEFINE log == Dirty!Appended
           r   == [id |-> op[t].id, key |-> op[t].key]
<1>0. op[t] \in OpType
  BY DEF TypeOK
<1>1. /\ op[t].pc = "append" /\ op'[t].pc = "publish"
      /\ op'[t].key = op[t].key /\ op'[t].id = op[t].id
      /\ \A u \in Thread \ {t} : op'[u] = op[u]
      /\ Dirty!AppendRecord(r) /\ visible' = visible
  BY GotoOp DEF AppendDirty, Moving
<1>2. op[t].key \in Key /\ op[t].id \in WriteId
  BY <1>0, <1>1, OpKinds
<1>3. r \in DirtyRecord
  BY <1>2 DEF DirtyRecord
<1>4. log' = Append(log, r) /\ retired' = retired /\ log \in Seq(DirtyRecord)
  BY <1>1, <1>3, AppendLog, LogSeqs
<1>5. op[t].id \in Nat
  BY <1>2 DEF WriteId
<1> HIDE DEF r, log
<1>6. /\ DOMAIN log = 1 .. Len(log) /\ Len(log) \in Nat
      /\ DOMAIN log' = 1 .. Len(log) + 1
      /\ \A i \in DOMAIN log : log'[i] = log[i]
      /\ log'[Len(log) + 1] = r
  <2>1. DOMAIN log = 1 .. Len(log) /\ Len(log) \in Nat
    BY <1>4
  <2>2. Append(log, r) \in Seq(DirtyRecord) /\ Len(Append(log, r)) = Len(log) + 1
    BY <1>3, <1>4, AppendProperties
  <2>3. DOMAIN log' = 1 .. Len(log) + 1
    BY <1>4, <2>2
  <2> QED
    BY <1>3, <1>4, <2>1, <2>3, AppendProperties
<1> QED
  BY <1>1, <1>2, <1>4, <1>5, <1>6 DEF log, r

\* What a publication does.
LEMMA PublishFacts ==
  ASSUME TypeOK, NEW t \in Thread, PublishDirty(t)
  PROVE  /\ op[t].pc = "publish" /\ op'[t].pc = "idle"
         /\ \A u \in Thread \ {t} : op'[u] = op[u]
         /\ op[t].key \in Key /\ op[t].id \in Nat
         /\ visible' = [visible EXCEPT ![op[t].key] = DirtyRef(op[t].id)]
         /\ Dirty!Appended' = Dirty!Appended /\ retired' = retired
<1>0. op[t] \in OpType
  BY DEF TypeOK
<1>1. op[t].key \in Key /\ op[t].id \in WriteId
  BY <1>0, OpKinds DEF PublishDirty
<1>2. UNCHANGED logVars
  BY DEF PublishDirty
<1> QED
  BY <1>1, <1>2, ReturnOp, SameLog DEF PublishDirty, WriteId

(***************************************************************************)
(* The order of a key's writes.                                            *)
(***************************************************************************)

\* The ids of the log and of the writes in progress are numbers.
LEMMA Numbers ==
  ASSUME TypeOK
  PROVE  /\ DOMAIN Dirty!Appended = 1 .. Len(Dirty!Appended)
         /\ Len(Dirty!Appended) \in Nat
         /\ \A i \in DOMAIN Dirty!Appended : Dirty!Appended[i].id \in Nat
         /\ \A t \in Thread : op[t].pc \in {"append", "publish"} => op[t].id \in Nat
         /\ next_write \in Nat
<1> DEFINE log == Dirty!Appended
<1>1. log \in Seq(DirtyRecord)
  BY LogSeqs
<1> HIDE DEF log
<1>2. DOMAIN log = 1 .. Len(log) /\ Len(log) \in Nat /\ \A i \in DOMAIN log : log[i] \in DirtyRecord
  BY <1>1
<1>3. \A i \in DOMAIN log : log[i].id \in Nat
  BY <1>2 DEF DirtyRecord, WriteId
<1>4. ASSUME NEW t \in Thread, op[t].pc \in {"append", "publish"} PROVE op[t].id \in Nat
  <2>1. op[t] \in OpType
    BY DEF TypeOK
  <2>2. op[t].id \in WriteId
    BY <1>4, <2>1, OpKinds
  <2> QED
    BY <2>2 DEF WriteId
<1>5. next_write \in Nat
  BY BoundAssumption DEF TypeOK
<1> QED
  BY <1>2, <1>3, <1>4, <1>5 DEF log

\* A step that keeps the log's records and starts no write, nor brings one on,
\* keeps the order.
LEMMA OrderFrame ==
  ASSUME KeysInOrder, Dirty!Appended' = Dirty!Appended,
         \A u \in Thread : op'[u].pc \in {"append", "publish"} => op'[u] = op[u]
  PROVE  KeysInOrder'
<1> DEFINE log == Dirty!Appended
<1>1. log' = log
  OBVIOUS
<1>2. /\ \A i, j \in DOMAIN log :
           i < j /\ log[i].key = log[j].key => log[i].id < log[j].id
      /\ \A t \in Thread : op[t].pc = "append" =>
           /\ op[t].key \in WriteKeys[t]
           /\ \A i \in DOMAIN log : log[i].key = op[t].key => log[i].id < op[t].id
      /\ \A t \in Thread : op[t].pc = "publish" =>
           /\ op[t].key \in WriteKeys[t]
           /\ \E i \in DOMAIN log : log[i] = [id |-> op[t].id, key |-> op[t].key]
           /\ \A i \in DOMAIN log : log[i].key = op[t].key => log[i].id <= op[t].id
  BY DEF KeysInOrder
<1> HIDE DEF log
<1>3. \A i, j \in DOMAIN log' :
        i < j /\ log'[i].key = log'[j].key => log'[i].id < log'[j].id
  BY <1>1, <1>2
<1>4. ASSUME NEW t \in Thread, op'[t].pc = "append"
      PROVE  /\ op'[t].key \in WriteKeys[t]
             /\ \A i \in DOMAIN log' : log'[i].key = op'[t].key => log'[i].id < op'[t].id
  BY <1>1, <1>2, <1>4
<1>5. ASSUME NEW t \in Thread, op'[t].pc = "publish"
      PROVE  /\ op'[t].key \in WriteKeys[t]
             /\ \E i \in DOMAIN log' : log'[i] = [id |-> op'[t].id, key |-> op'[t].key]
             /\ \A i \in DOMAIN log' : log'[i].key = op'[t].key => log'[i].id <= op'[t].id
  BY <1>1, <1>2, <1>5
<1> QED
  BY <1>3, <1>4, <1>5 DEF log, KeysInOrder

\* Each step keeps the order: an id is newer than every id of the log, and no
\* other thread writes the key between taking it and appending it.
LEMMA NextOrder ==
  ASSUME OneWriterPerKey, TypeOK, WriteIdsOnce, KeysInOrder, [Next]_vars
  PROVE  KeysInOrder'
<1> DEFINE log == Dirty!Appended
<1>0. /\ \A i, j \in DOMAIN log :
           i < j /\ log[i].key = log[j].key => log[i].id < log[j].id
      /\ \A t \in Thread : op[t].pc = "append" =>
           /\ op[t].key \in WriteKeys[t]
           /\ \A i \in DOMAIN log : log[i].key = op[t].key => log[i].id < op[t].id
      /\ \A t \in Thread : op[t].pc = "publish" =>
           /\ op[t].key \in WriteKeys[t]
           /\ \E i \in DOMAIN log : log[i] = [id |-> op[t].id, key |-> op[t].key]
           /\ \A i \in DOMAIN log : log[i].key = op[t].key => log[i].id <= op[t].id
  BY DEF KeysInOrder
<1>1. ASSUME NEW t \in Thread, NEW k \in Key, TakeWriteId(t, k) PROVE KeysInOrder'
  <2>1. /\ k \in WriteKeys[t] /\ op'[t].pc = "append" /\ op'[t].key = k
        /\ op'[t].id = next_write /\ \A u \in Thread \ {t} : op'[u] = op[u]
        /\ log' = log
    BY <1>1, TakeIdFacts
  <2>2. \A i \in DOMAIN log : log[i].id < next_write
    BY DEF WriteIdsOnce
  <2> HIDE DEF log
  <2>3. \A i, j \in DOMAIN log' :
          i < j /\ log'[i].key = log'[j].key => log'[i].id < log'[j].id
    BY <1>0, <2>1
  <2>4. ASSUME NEW w \in Thread, op'[w].pc = "append"
        PROVE  /\ op'[w].key \in WriteKeys[w]
               /\ \A i \in DOMAIN log' : log'[i].key = op'[w].key => log'[i].id < op'[w].id
    BY <1>0, <2>1, <2>2, <2>4
  <2>5. ASSUME NEW w \in Thread, op'[w].pc = "publish"
        PROVE  /\ op'[w].key \in WriteKeys[w]
               /\ \E i \in DOMAIN log' : log'[i] = [id |-> op'[w].id, key |-> op'[w].key]
               /\ \A i \in DOMAIN log' : log'[i].key = op'[w].key => log'[i].id <= op'[w].id
    BY <1>0, <2>1, <2>5
  <2> QED
    BY <2>3, <2>4, <2>5 DEF log, KeysInOrder
<1>2. ASSUME NEW t \in Thread, AppendDirty(t) PROVE KeysInOrder'
  <2> DEFINE r == [id |-> op[t].id, key |-> op[t].key]
             n == Len(log) + 1
  <2>1. /\ op[t].pc = "append" /\ op'[t].pc = "publish"
        /\ op'[t].key = op[t].key /\ op'[t].id = op[t].id
        /\ \A u \in Thread \ {t} : op'[u] = op[u]
        /\ DOMAIN log = 1 .. Len(log) /\ Len(log) \in Nat /\ DOMAIN log' = 1 .. n
        /\ (\A i \in DOMAIN log : log'[i] = log[i]) /\ log'[n] = r
        /\ op[t].id \in Nat
    BY <1>2, AppendFacts
  <2>2. \A i \in DOMAIN log : log[i].id \in Nat
    BY Numbers
  <2> HIDE DEF log
  <2>3. r.id = op[t].id /\ r.key = op[t].key
    OBVIOUS
  <2> HIDE DEF r
  <2>4. n \in DOMAIN log' /\ \A i \in DOMAIN log' : i = n \/ (i \in DOMAIN log /\ i < n)
    BY <2>1
  <2>5. \A i \in DOMAIN log : n > i
    BY <2>1
  <2> HIDE DEF n
  <2>6. ASSUME NEW i \in DOMAIN log', NEW j \in DOMAIN log', i < j, log'[i].key = log'[j].key
        PROVE  log'[i].id < log'[j].id
    <3>1. i \in DOMAIN log
      <4>1. i # n
        <5> SUFFICES ASSUME i = n PROVE FALSE
          OBVIOUS
        <5>1. j = n \/ j < n
          BY <2>4
        <5>2. i \in Int /\ j \in Int
          BY <2>1, <2>4, <2>6 DEF n
        <5> QED
          BY <2>6, <5>1, <5>2
      <4> QED
        BY <2>4, <4>1
    <3>2. CASE j = n
      BY <1>0, <2>1, <2>3, <2>6, <3>1, <3>2
    <3>3. CASE j # n
      BY <1>0, <2>1, <2>4, <2>6, <3>1, <3>3
    <3> QED
      BY <3>2, <3>3
  <2>7. ASSUME NEW w \in Thread \ {t}, op[w].pc \in {"append", "publish"}
        PROVE  op[w].key # r.key
    <3>1. op[t].key \in WriteKeys[t] /\ op[w].key \in WriteKeys[w]
      BY <1>0, <2>1, <2>7
    <3> QED
      BY <2>3, <3>1 DEF OneWriterPerKey
  <2>8. ASSUME NEW w \in Thread, op'[w].pc = "append"
        PROVE  /\ op'[w].key \in WriteKeys[w]
               /\ \A i \in DOMAIN log' : log'[i].key = op'[w].key => log'[i].id < op'[w].id
    <3>1. w # t /\ op'[w] = op[w]
      BY <2>1, <2>8
    <3>2. op[w].key # r.key
      BY <2>7, <2>8, <3>1
    <3> QED
      BY <1>0, <2>1, <2>4, <2>8, <3>1, <3>2
  <2>9. ASSUME NEW w \in Thread, op'[w].pc = "publish"
        PROVE  /\ op'[w].key \in WriteKeys[w]
               /\ \E i \in DOMAIN log' : log'[i] = [id |-> op'[w].id, key |-> op'[w].key]
               /\ \A i \in DOMAIN log' : log'[i].key = op'[w].key => log'[i].id <= op'[w].id
    <3>1. CASE w = t
      <4>1. op'[w].key \in WriteKeys[w]
        BY <1>0, <2>1, <3>1
      <4>2. log'[n] = [id |-> op'[w].id, key |-> op'[w].key]
        BY <2>1, <3>1 DEF r
      <4>3. \A i \in DOMAIN log' : log'[i].key = op'[w].key => log'[i].id <= op'[w].id
        BY <1>0, <2>1, <2>2, <2>3, <2>4, <3>1
      <4> QED
        BY <2>4, <4>1, <4>2, <4>3
    <3>2. CASE w # t
      <4>1. op'[w] = op[w]
        BY <2>1, <3>2
      <4>2. op[w].key # r.key
        BY <2>7, <2>9, <3>2, <4>1
      <4>3. PICK i \in DOMAIN log : log[i] = [id |-> op[w].id, key |-> op[w].key]
        BY <1>0, <2>9, <4>1
      <4>4. i \in DOMAIN log' /\ log'[i] = [id |-> op'[w].id, key |-> op'[w].key]
        <5>1. i \in DOMAIN log'
          BY <2>1 DEF n
        <5> QED
          BY <2>1, <4>1, <4>3, <5>1
      <4>5. \A j \in DOMAIN log' : log'[j].key = op'[w].key => log'[j].id <= op'[w].id
        BY <1>0, <2>1, <2>4, <2>9, <4>1, <4>2
      <4>6. op'[w].key \in WriteKeys[w]
        BY <1>0, <2>9, <4>1
      <4> QED
        BY <4>4, <4>5, <4>6
    <3> QED
      BY <3>1, <3>2
  <2> QED
    BY <2>6, <2>8, <2>9 DEF log, KeysInOrder
<1>3. ASSUME NEW t \in Thread, PublishDirty(t) PROVE KeysInOrder'
  BY <1>3, PublishFacts, OrderFrame
<1>4. CASE /\ Settled
           /\ \A u \in Thread :
                \/ op'[u] = op[u]
                \/ {op[u].pc, op'[u].pc} \cap {"append", "publish"} = {}
  BY <1>4, OrderFrame DEF Settled
<1> QED
  BY <1>1, <1>2, <1>3, <1>4, WriteSteps

(***************************************************************************)
(* What is readable.                                                       *)
(***************************************************************************)

\* A step that settles writes takes no entry of a queued write away: the
\* record of an entry that mark_flushed removes is retired.
LEMMA EntryStays ==
  ASSUME IInv, [Next]_vars, \A t \in Thread : op[t].pc # "cleanup",
         \A u \in Thread : \/ op'[u] = op[u]
                           \/ {op[u].pc, op'[u].pc} \cap {"append", "publish"} = {},
         NEW j \in DOMAIN Dirty!Appended, j > Len(retired),
         NEW k \in Key, visible[k] = DirtyRef(Dirty!Appended[j].id)
  PROVE  visible'[k] = visible[k]
<1> DEFINE log == Dirty!Appended
<1>0. TypeOK /\ WriteIdsOnce /\ HeldBatchKnown
  BY DEF IInv
<1> SUFFICES ASSUME visible'[k] # visible[k] PROVE FALSE
  OBVIOUS
<1>1. visible[k].kind = "Dirty" /\ visible[k].id = log[j].id
  BY DEF DirtyRef
<1>2. ASSUME NEW t \in Thread, PublishDirty(t) PROVE FALSE
  <2>1. op[t].pc = "publish" /\ op'[t].pc = "idle"
    BY <1>0, <1>2, PublishFacts
  <2> QED
    BY <2>1
<1>3. ASSUME NEW t \in Thread, InsertVacant(t), op[t].key = k PROVE FALSE
  BY <1>1, <1>3 DEF InsertVacant, VacantEntry, NoRef
<1>4. ASSUME NEW t \in Thread, op[t].old.key = k, IsOldClean(op[t].old) PROVE FALSE
  BY <1>1, <1>4 DEF IsOldClean, CleanRef
<1>5. ASSUME NEW t \in Thread, EvictClean(t, k) PROVE FALSE
  BY <1>1, <1>5 DEF EvictClean
<1>6. ASSUME NEW t \in Thread, CleanupRemove(t) PROVE FALSE
  BY <1>6 DEF CleanupRemove
<1>7. ASSUME NEW t \in Thread, Unpublish(t), Head(op[t].todo).key = k,
             IsFlushedEntry(Head(op[t].todo))
      PROVE  FALSE
  <2>1. op[t].pc = "unpublish" /\ op[t].todo \in Seq(DirtyRecord) \ {<<>>}
    BY <1>0, <1>7, OpKinds DEF Unpublish, TypeOK
  <2>2. 1 \in DOMAIN op[t].todo /\ Head(op[t].todo) = op[t].todo[1]
    BY <2>1, EmptySeq, HeadTailProperties
  <2>3. log[j].id = op[t].todo[1].id
    BY <1>1, <1>7, <2>2 DEF IsFlushedEntry, DirtyRef
  <2>4. Retired(log[j].id)
    BY <1>0, <2>1, <2>2, <2>3 DEF HeldBatchKnown
  <2>5. PICK i \in DOMAIN retired : retired[i].id = log[j].id
    BY <2>4 DEF Retired
  <2>6. i \in DOMAIN log /\ log[i] = retired[i]
    BY <1>0, LogFront
  <2>7. i # j
    <3>1. retired \in Seq(DirtyRecord)
      BY <1>0, LogSeqs
    <3>2. i \in Nat /\ i <= Len(retired) /\ Len(retired) \in Nat
      BY <3>1
    <3>3. j \in Nat
      BY <1>0, Numbers
    <3> QED
      BY <3>2, <3>3
  <2>8. \A m, n \in DOMAIN log : m # n => log[m].id # log[n].id
    BY <1>0 DEF WriteIdsOnce
  <2>9. j \in DOMAIN log
    OBVIOUS
  <2> HIDE DEF log
  <2> QED
    BY <2>5, <2>6, <2>7, <2>8, <2>9
<1> QED
  BY <1>0, <1>2, <1>3, <1>4, <1>5, <1>6, <1>7, IndexSteps

\* Two threads never publish the same id.
LEMMA PublishingApart ==
  ASSUME OneWriterPerKey, WriteIdsOnce, KeysInOrder,
         NEW t \in Thread, op[t].pc = "publish",
         NEW u \in Thread \ {t}, op[u].pc = "publish"
  PROVE  op[t].id # op[u].id
<1> DEFINE log == Dirty!Appended
<1>1. /\ op[t].key \in WriteKeys[t] /\ op[u].key \in WriteKeys[u]
      /\ \E i \in DOMAIN log : log[i] = [id |-> op[t].id, key |-> op[t].key]
      /\ \E i \in DOMAIN log : log[i] = [id |-> op[u].id, key |-> op[u].key]
  BY DEF KeysInOrder
<1>2. op[t].key # op[u].key
  BY <1>1 DEF OneWriterPerKey
<1>3. \A i, j \in DOMAIN log : i # j => log[i].id # log[j].id
  BY DEF WriteIdsOnce
<1> HIDE DEF log
<1>4. PICK i \in DOMAIN log : log[i] = [id |-> op[t].id, key |-> op[t].key]
  BY <1>1
<1>5. PICK j \in DOMAIN log : log[j] = [id |-> op[u].id, key |-> op[u].key]
  BY <1>1
<1>6. /\ log[i].id = op[t].id /\ log[i].key = op[t].key
      /\ log[j].id = op[u].id /\ log[j].key = op[u].key
  BY <1>4, <1>5
<1> QED
  BY <1>2, <1>3, <1>6

\* Every step keeps the queued, published writes of each key shown.
LEMMA NextShown ==
  ASSUME IInv, TypeOK', KeysInOrder, QueuedShown, [Next]_vars,
         OneWriterPerKey, \A t \in Thread : op[t].pc # "cleanup"
  PROVE  QueuedShown'
<1> DEFINE log == Dirty!Appended
           n == Len(retired)
           Shown(record, newer) ==
             /\ newer.key = record.key /\ record.id <= newer.id
             /\ visible'[record.key] = DirtyRef(newer.id)
<1>0. TypeOK /\ WriteIdsOnce
  BY DEF IInv
<1> SUFFICES ASSUME NEW record, record \in Queued',
                    \A u \in Thread : op'[u].pc = "publish" => op'[u].id # record.id
             PROVE  \E newer \in Queued' :
                      /\ \A u \in Thread : op'[u].pc = "publish" => op'[u].id # newer.id
                      /\ Shown(record, newer)
  BY DEF QueuedShown, PublishedQueued, Published
<1>1. Queued = After(log, n) /\ Queued' = After(log', n')
  BY <1>0, QueuedAfter
<1>2. /\ DOMAIN log = 1 .. Len(log) /\ Len(log) \in Nat
      /\ \A i \in DOMAIN log : log[i].id \in Nat
  BY <1>0, Numbers
<1>3. n \in Nat /\ n' \in Nat
  <2>1. retired \in Seq(DirtyRecord) /\ retired' \in Seq(DirtyRecord)
    BY DEF TypeOK, Dirty!TypeOK, IInv
  <2> QED
    BY <2>1
<1>4. /\ \A i, j \in DOMAIN log : i # j => log[i].id # log[j].id
      /\ \A t \in Thread : op[t].pc = "append" =>
           \A i \in DOMAIN log : log[i].id # op[t].id
  BY <1>0 DEF WriteIdsOnce
<1>5. \A i, j \in DOMAIN log :
        i < j /\ log[i].key = log[j].key => log[i].id < log[j].id
  BY DEF KeysInOrder
<1>6. \A i \in DOMAIN log : log[i].key \in Key
  <2>1. log \in Seq(DirtyRecord)
    BY <1>0, LogSeqs
  <2> HIDE DEF log
  <2>2. \A i \in DOMAIN log : log[i] \in DirtyRecord
    BY <2>1
  <2> QED
    BY <2>2 DEF DirtyRecord
<1>7. visible \in [Key -> VisibleRef]
  BY <1>0 DEF TypeOK
<1>8. ASSUME record \in Queued,
             \A u \in Thread : op[u].pc = "publish" => op[u].id # record.id
      PROVE  \E newer \in Queued :
               /\ \A u \in Thread : op[u].pc = "publish" => op[u].id # newer.id
               /\ newer.key = record.key /\ record.id <= newer.id
               /\ visible[record.key] = DirtyRef(newer.id)
  BY <1>8 DEF QueuedShown, PublishedQueued, Published
<1>9. PICK j \in DOMAIN log' : j > n' /\ log'[j] = record
  BY <1>1 DEF After
<1> HIDE DEF log, n
<1>10. ASSUME NEW t \in Thread, NEW k \in Key, TakeWriteId(t, k)
       PROVE  \E newer \in Queued' :
                /\ \A u \in Thread : op'[u].pc = "publish" => op'[u].id # newer.id
                /\ Shown(record, newer)
  <2>1. /\ log' = log /\ n' = n /\ visible' = visible
        /\ op[t].pc = "idle" /\ op'[t].pc = "append"
        /\ \A u \in Thread \ {t} : op'[u] = op[u]
    BY <1>0, <1>10, TakeIdFacts DEF log, n
  <2>2. Queued' = Queued
    BY <1>1, <2>1
  <2> QED
    BY <1>8, <2>1, <2>2
<1>11. ASSUME NEW t \in Thread, AppendDirty(t)
       PROVE  \E newer \in Queued' :
                /\ \A u \in Thread : op'[u].pc = "publish" => op'[u].id # newer.id
                /\ Shown(record, newer)
  <2> DEFINE r == [id |-> op[t].id, key |-> op[t].key]
  <2>1. /\ op[t].pc = "append" /\ op'[t].pc = "publish" /\ op'[t].id = op[t].id
        /\ \A u \in Thread \ {t} : op'[u] = op[u]
        /\ DOMAIN log' = 1 .. Len(log) + 1
        /\ (\A i \in DOMAIN log : log'[i] = log[i]) /\ log'[Len(log) + 1] = r
        /\ n' = n /\ visible' = visible
    BY <1>0, <1>11, AppendFacts DEF log, n
  <2>2. r.id = op[t].id
    OBVIOUS
  <2> HIDE DEF r
  <2>3. j \in DOMAIN log /\ log[j] = record
    BY <1>2, <1>9, <2>1, <2>2
  <2>4. record \in Queued
    BY <1>1, <1>9, <2>1, <2>3 DEF After
  <2>5. Queued \subseteq Queued'
    <3>1. \A i \in DOMAIN log : i \in DOMAIN log'
      BY <1>2, <2>1
    <3> QED
      BY <1>1, <2>1, <3>1 DEF After
  <2>6. PICK newer \in Queued :
          /\ \A u \in Thread : op[u].pc = "publish" => op[u].id # newer.id
          /\ newer.key = record.key /\ record.id <= newer.id
          /\ visible[record.key] = DirtyRef(newer.id)
    BY <1>8, <2>1, <2>4
  <2>7. newer.id # op[t].id
    <3>1. PICK m \in DOMAIN log : log[m] = newer
      BY <1>1, <2>6 DEF After
    <3> QED
      BY <1>4, <2>1, <3>1
  <2> QED
    BY <2>1, <2>5, <2>6, <2>7
<1>12. ASSUME NEW t \in Thread, PublishDirty(t)
       PROVE  \E newer \in Queued' :
                /\ \A u \in Thread : op'[u].pc = "publish" => op'[u].id # newer.id
                /\ Shown(record, newer)
  <2>1. /\ op[t].pc = "publish" /\ op'[t].pc = "idle"
        /\ \A u \in Thread \ {t} : op'[u] = op[u]
        /\ op[t].key \in Key /\ op[t].id \in Nat
        /\ visible' = [visible EXCEPT ![op[t].key] = DirtyRef(op[t].id)]
        /\ log' = log /\ n' = n
    BY <1>0, <1>12, PublishFacts DEF log, n
  <2>2. Queued' = Queued
    BY <1>1, <2>1
  <2>3. PICK i \in DOMAIN log : log[i] = [id |-> op[t].id, key |-> op[t].key]
    BY <2>1 DEF KeysInOrder, log
  <2>4. log[i].id = op[t].id /\ log[i].key = op[t].key
    BY <2>3
  <2>5. \A m \in DOMAIN log : log[m].key = op[t].key => log[m].id <= op[t].id
    BY <2>1 DEF KeysInOrder, log
  <2>6. CASE record.key = op[t].key
    <3>1. record.id <= log[i].id
      BY <1>9, <2>1, <2>4, <2>5, <2>6
    <3>2. i > n
      <4> SUFFICES ASSUME ~(i > n) PROVE FALSE
        OBVIOUS
      <4>1. i < j
        BY <1>2, <1>3, <1>9, <2>1
      <4>2. log[i].id < record.id
        BY <1>5, <1>9, <2>1, <2>4, <2>6, <4>1
      <4> QED
        BY <1>2, <1>9, <2>1, <3>1, <4>2
    <3>3. log[i] \in Queued'
      BY <1>1, <2>1, <3>2 DEF After
    <3>4. \A u \in Thread : op'[u].pc = "publish" => op'[u].id # log[i].id
      BY <1>0, <1>12, <2>1, <2>4, PublishingApart
    <3>5. visible'[record.key] = DirtyRef(log[i].id)
      BY <1>7, <2>1, <2>4, <2>6
    <3> QED
      BY <2>4, <2>6, <3>1, <3>3, <3>4, <3>5
  <2>7. CASE record.key # op[t].key
    <3>1. op[t].id # record.id
      BY <1>4, <1>9, <2>1, <2>4, <2>7
    <3>2. PICK newer \in Queued :
            /\ \A u \in Thread : op[u].pc = "publish" => op[u].id # newer.id
            /\ newer.key = record.key /\ record.id <= newer.id
            /\ visible[record.key] = DirtyRef(newer.id)
      BY <1>8, <2>1, <2>2, <3>1
    <3>3. visible'[record.key] = visible[record.key]
      BY <1>6, <1>7, <1>9, <2>1, <2>7
    <3> QED
      BY <2>1, <2>2, <3>2, <3>3
  <2> QED
    BY <2>6, <2>7
<1>13. CASE /\ Settled
            /\ \A u \in Thread :
                 \/ op'[u] = op[u]
                 \/ {op[u].pc, op'[u].pc} \cap {"append", "publish"} = {}
  <2>1. log' = log /\ n <= n'
    BY <1>13 DEF Settled, log, n
  <2>2. record \in Queued
    <3>1. j > n
      BY <1>2, <1>3, <1>9, <2>1
    <3> QED
      BY <1>1, <1>9, <2>1, <3>1 DEF After
  <2>3. PICK newer \in Queued :
          /\ \A u \in Thread : op[u].pc = "publish" => op[u].id # newer.id
          /\ newer.key = record.key /\ record.id <= newer.id
          /\ visible[record.key] = DirtyRef(newer.id)
    BY <1>8, <1>13, <2>2
  <2>4. PICK i \in DOMAIN log : i > n /\ log[i] = newer
    BY <1>1, <2>3 DEF After
  <2>5. i > n'
    <3> SUFFICES ASSUME ~(i > n') PROVE FALSE
      OBVIOUS
    <3>1. i < j
      BY <1>2, <1>3, <1>9, <2>1
    <3>2. newer.id < record.id
      BY <1>5, <1>9, <2>1, <2>3, <2>4, <3>1
    <3> QED
      BY <1>2, <1>9, <2>1, <2>3, <2>4, <3>2
  <2>6. newer \in Queued'
    BY <1>1, <2>1, <2>4, <2>5 DEF After
  <2>7. visible'[record.key] = visible[record.key]
    <3>1. record.key \in Key
      BY <1>6, <1>9, <2>1
    <3> QED
      BY <1>13, <2>3, <2>4, <3>1, EntryStays DEF log, n
  <2>8. \A u \in Thread : op'[u].pc = "publish" => op'[u].id # newer.id
    BY <1>13, <2>3
  <2> QED
    BY <2>3, <2>6, <2>7, <2>8
<1> QED
  BY <1>0, <1>10, <1>11, <1>12, <1>13, WriteSteps

\* Every step keeps a dirty entry as new as the published writes of its key.
LEMMA NextVisibleNewest ==
  ASSUME TypeOK, WriteIdsOnce, KeysInOrder, VisibleNewest, [Next]_vars
  PROVE  VisibleNewest'
<1> DEFINE log == Dirty!Appended
<1> SUFFICES ASSUME NEW k \in Key, visible'[k].kind = "Dirty",
                    NEW i \in DOMAIN log', log'[i].key = k,
                    \A u \in Thread : op'[u].pc = "publish" => op'[u].id # log'[i].id
             PROVE  log'[i].id <= visible'[k].id
  BY DEF VisibleNewest, Published
<1>1. ASSUME i \in DOMAIN log, log'[i] = log[i], visible'[k] = visible[k],
             \A u \in Thread : op[u].pc = "publish" => op[u].id # log[i].id
      PROVE  log'[i].id <= visible'[k].id
  BY <1>1 DEF VisibleNewest, Published
<1>2. visible \in [Key -> VisibleRef]
  BY DEF TypeOK
<1>3. \A j \in DOMAIN log : \A m \in DOMAIN log : j # m => log[j].id # log[m].id
  BY DEF WriteIdsOnce
<1>4. DOMAIN log = 1 .. Len(log) /\ Len(log) \in Nat
  BY Numbers
<1>5. ASSUME NEW t \in Thread, op[t].pc = "publish"
      PROVE  /\ \E j \in DOMAIN log : log[j] = [id |-> op[t].id, key |-> op[t].key]
             /\ \A j \in DOMAIN log : log[j].key = op[t].key => log[j].id <= op[t].id
  BY <1>5 DEF KeysInOrder
<1> HIDE DEF log
<1>6. ASSUME NEW t \in Thread, NEW j \in Key, TakeWriteId(t, j)
      PROVE  log'[i].id <= visible'[k].id
  <2>1. /\ log' = log /\ visible' = visible /\ op[t].pc = "idle"
        /\ \A u \in Thread \ {t} : op'[u] = op[u]
    BY <1>6, TakeIdFacts DEF log
  <2> QED
    BY <1>1, <2>1
<1>7. ASSUME NEW t \in Thread, AppendDirty(t) PROVE log'[i].id <= visible'[k].id
  <2> DEFINE r == [id |-> op[t].id, key |-> op[t].key]
  <2>1. /\ op[t].pc = "append" /\ op'[t].pc = "publish" /\ op'[t].id = op[t].id
        /\ \A u \in Thread \ {t} : op'[u] = op[u]
        /\ DOMAIN log' = 1 .. Len(log) + 1
        /\ (\A j \in DOMAIN log : log'[j] = log[j]) /\ log'[Len(log) + 1] = r
        /\ visible' = visible
    BY <1>7, AppendFacts DEF log
  <2>2. r.id = op[t].id
    OBVIOUS
  <2> HIDE DEF r
  <2>3. i # Len(log) + 1
    BY <2>1, <2>2
  <2>4. i \in DOMAIN log
    BY <1>4, <2>1, <2>3
  <2>5. log'[i] = log[i]
    BY <2>1, <2>4
  <2>6. \A u \in Thread : op[u].pc = "publish" => op[u].id # log[i].id
    BY <2>1, <2>5
  <2> QED
    BY <1>1, <2>1, <2>4, <2>5, <2>6
<1>8. ASSUME NEW t \in Thread, PublishDirty(t) PROVE log'[i].id <= visible'[k].id
  <2>1. /\ op[t].pc = "publish" /\ op'[t].pc = "idle"
        /\ \A u \in Thread \ {t} : op'[u] = op[u]
        /\ op[t].key \in Key
        /\ visible' = [visible EXCEPT ![op[t].key] = DirtyRef(op[t].id)]
        /\ log' = log
    BY <1>8, PublishFacts DEF log
  <2>2. CASE k = op[t].key
    <3>1. visible'[k].id = op[t].id
      BY <1>2, <2>1, <2>2 DEF DirtyRef
    <3> QED
      BY <1>5, <2>1, <2>2, <3>1
  <2>3. CASE k # op[t].key
    <3>1. PICK j \in DOMAIN log : log[j] = [id |-> op[t].id, key |-> op[t].key]
      BY <1>5, <2>1
    <3>2. log[j].id = op[t].id /\ log[j].key = op[t].key
      BY <3>1
    <3>3. log[i].id # op[t].id
      BY <1>3, <2>1, <2>3, <3>2
    <3>4. \A u \in Thread : op[u].pc = "publish" => op[u].id # log[i].id
      BY <2>1, <3>3
    <3>5. visible'[k] = visible[k]
      BY <1>2, <2>1, <2>3
    <3> QED
      BY <1>1, <2>1, <3>4, <3>5
  <2> QED
    BY <2>2, <2>3
<1>9. CASE /\ Settled
           /\ \A u \in Thread :
                \/ op'[u] = op[u]
                \/ {op[u].pc, op'[u].pc} \cap {"append", "publish"} = {}
  <2>1. log' = log
    BY <1>9 DEF Settled, log
  <2>2. \A u \in Thread : op[u].pc = "publish" => op[u].id # log[i].id
    BY <1>9, <2>1
  <2>3. visible'[k] = visible[k]
    <3> SUFFICES ASSUME visible'[k] # visible[k] PROVE FALSE
      OBVIOUS
    <3>1. ASSUME NEW t \in Thread, PublishDirty(t) PROVE FALSE
      <4>1. op[t].pc = "publish" /\ op'[t].pc = "idle"
        BY <3>1, PublishFacts
      <4> QED
        BY <1>9, <4>1
    <3>2. ASSUME NEW t \in Thread, InsertVacant(t), op[t].key = k PROVE FALSE
      <4>1. visible'[k] = CleanRef(op[t].id)
        BY <1>2, <3>2 DEF InsertVacant
      <4> QED
        BY <4>1 DEF CleanRef
    <3>3. visible'[k] # NoRef
      BY DEF NoRef
    <3> QED
      BY <3>1, <3>2, <3>3, IndexSteps
  <2> QED
    BY <1>1, <2>1, <2>2, <2>3
<1> QED
  BY <1>6, <1>7, <1>8, <1>9, WriteSteps

(***************************************************************************)
(* What the map keeps of its writes.                                       *)
(***************************************************************************)

\* No step of the map takes a record out of the log, back from retirement, or
\* back from publication.
LEMMA LogGrows ==
  ASSUME IInv, [Next]_vars
  PROVE  /\ \A i \in DOMAIN Dirty!Appended :
              i \in DOMAIN Dirty!Appended' /\ Dirty!Appended'[i] = Dirty!Appended[i]
         /\ Len(retired) <= Len(retired')
         /\ \A i \in DOMAIN Dirty!Appended : \A u \in Thread :
              /\ op'[u].pc = "publish" /\ op'[u].id = Dirty!Appended[i].id
              => op[u].pc = "publish" /\ op[u].id = Dirty!Appended[i].id
<1> DEFINE log == Dirty!Appended
<1>0. /\ TypeOK
      /\ \A t \in Thread : op[t].pc = "append" =>
           \A i \in DOMAIN log : log[i].id # op[t].id
  BY DEF IInv, WriteIdsOnce
<1>1. Len(retired) \in Nat
  BY <1>0, LogSeqs
<1>2. DOMAIN log = 1 .. Len(log) /\ Len(log) \in Nat
  BY <1>0, Numbers
<1> HIDE DEF log
<1>3. ASSUME NEW t \in Thread, NEW k \in Key, TakeWriteId(t, k)
      PROVE  /\ log' = log /\ retired' = retired
             /\ \A u \in Thread : op'[u].pc = "publish" => op'[u] = op[u]
  <2>1. /\ log' = log /\ retired' = retired /\ op'[t].pc = "append"
        /\ \A u \in Thread \ {t} : op'[u] = op[u]
    BY <1>0, <1>3, TakeIdFacts DEF log
  <2> QED
    BY <2>1
<1>4. ASSUME NEW t \in Thread, AppendDirty(t)
      PROVE  /\ \A i \in DOMAIN log : i \in DOMAIN log' /\ log'[i] = log[i]
             /\ retired' = retired
             /\ \A i \in DOMAIN log : op'[t].id # log[i].id
             /\ \A u \in Thread \ {t} : op'[u] = op[u]
  <2>1. /\ op[t].pc = "append" /\ op'[t].id = op[t].id
        /\ \A u \in Thread \ {t} : op'[u] = op[u]
        /\ DOMAIN log' = 1 .. Len(log) + 1
        /\ \A i \in DOMAIN log : log'[i] = log[i]
        /\ retired' = retired
    BY <1>0, <1>4, AppendFacts DEF log
  <2>2. \A i \in DOMAIN log : i \in DOMAIN log'
    BY <1>2, <2>1
  <2> QED
    BY <1>0, <2>1, <2>2
<1>5. ASSUME NEW t \in Thread, PublishDirty(t)
      PROVE  /\ log' = log /\ retired' = retired
             /\ \A u \in Thread : op'[u].pc = "publish" => op'[u] = op[u]
  <2>1. /\ log' = log /\ retired' = retired /\ op'[t].pc = "idle"
        /\ \A u \in Thread \ {t} : op'[u] = op[u]
    BY <1>0, <1>5, PublishFacts DEF log
  <2> QED
    BY <2>1
<1>6. CASE /\ Settled
           /\ \A u \in Thread :
                \/ op'[u] = op[u]
                \/ {op[u].pc, op'[u].pc} \cap {"append", "publish"} = {}
  BY <1>6 DEF Settled, log
<1>7. /\ \A i \in DOMAIN log : i \in DOMAIN log' /\ log'[i] = log[i]
      /\ Len(retired) <= Len(retired')
      /\ \A i \in DOMAIN log : \A u \in Thread :
           op'[u].pc = "publish" /\ op'[u].id = log[i].id
             => op[u].pc = "publish" /\ op[u].id = log[i].id
  <2>1. CASE \E t \in Thread, k \in Key : TakeWriteId(t, k)
    BY <1>1, <1>3, <2>1
  <2>2. CASE \E t \in Thread : AppendDirty(t)
    BY <1>1, <1>4, <2>2
  <2>3. CASE \E t \in Thread : PublishDirty(t)
    BY <1>1, <1>5, <2>3
  <2> QED
    BY <1>0, <1>6, <2>1, <2>2, <2>3, WriteSteps DEF Settled, log
<1> QED
  BY <1>7 DEF log

\* A record of the log is queued or retired, by its place.
LEMMA QueuedOrRetired ==
  ASSUME IInv, NEW i \in DOMAIN Dirty!Appended
  PROVE  IF i > Len(retired) THEN Dirty!Appended[i] \in Queued
                             ELSE Retired(Dirty!Appended[i].id)
<1> DEFINE log == Dirty!Appended
<1>0. TypeOK
  BY DEF IInv
<1>1. /\ retired \in Seq(DirtyRecord) /\ inflight \in Seq(DirtyRecord)
      /\ pending \in Seq(DirtyRecord)
      /\ log = (retired \o inflight) \o pending
  BY <1>0, LogSeqs
<1>2. Queued = After(log, Len(retired))
  <2>1. RecordOf(pending) \cup RecordOf(inflight) = After(log, Len(retired))
    BY <1>1, RecordsAfter
  <2> QED
    BY <2>1 DEF Queued
<1>3. CASE i > Len(retired)
  BY <1>2, <1>3 DEF After
<1>4. CASE ~(i > Len(retired))
  <2>1. i \in Nat /\ i >= 1 /\ Len(retired) \in Nat
    BY <1>0, <1>1, Numbers
  <2>2. i \in DOMAIN retired
    BY <1>1, <1>4, <2>1
  <2>3. log[i] = retired[i]
    BY <1>0, <2>2, LogFront
  <2> QED
    BY <1>4, <2>2, <2>3 DEF Retired
<1> QED
  BY <1>3, <1>4

\* A retired record stays retired.
LEMMA RetiredStays ==
  ASSUME TypeOK, [Next]_vars
  PROVE  \A id : Retired(id) => \E i \in DOMAIN retired' : retired'[i].id = id
<1>1. CASE retired' = retired
  BY <1>1 DEF Retired
<1>2. CASE retired' = retired \o inflight
  <2>1. \A id : Retired(id) => Retired(id)'
    BY <1>2, RetiredGrows
  <2> QED
    BY <2>1 DEF Retired
<1>3. CASE UNCHANGED vars
  BY <1>1, <1>3 DEF vars, logVars
<1>4. ASSUME NEW t \in Thread, NEW k \in Key,
             TakeWriteId(t, k) \/ TakeCacheId(t, k) \/ EvictClean(t, k) \/ CleanupRead(t, k)
      PROVE  retired' = retired
  BY <1>4 DEF TakeWriteId, TakeCacheId, EvictClean, CleanupRead, logVars
<1>5. ASSUME NEW t \in Thread, InsertDirty(t) \/ InsertClean(t)
      PROVE  retired' = retired
  BY <1>5 DEF InsertDirty, AppendDirty, Dirty!AppendRecord, PublishDirty, InsertClean,
     InsertVacant, FindOccupied, CountClean, EnqueuePush, EnqueueFull, EnqueuePop,
     EnqueueDrop, EnqueueUncount, logVars
<1>6. ASSUME NEW t \in Thread,
             EvictUncount(t) \/ CleanupRemove(t) \/ FlushAgain(t) \/ FlushNothing(t) \/ Unpublish(t)
      PROVE  retired' = retired
  BY <1>6 DEF EvictUncount, CleanupRemove, FlushAgain, FlushNothing, Unpublish, logVars
<1>7. ASSUME NEW t \in Thread, NEW limit \in Limit, FlushNew(t, limit)
      PROVE  retired' = retired
  BY <1>7 DEF FlushNew, Dirty!Take
<1>8. ASSUME NEW t \in Thread, MarkFlushed(t) PROVE retired' = retired \o inflight
  BY <1>8 DEF MarkFlushed, Dirty!Retire
<1> QED
  BY <1>1, <1>2, <1>3, <1>4, <1>5, <1>6, <1>7, <1>8, Steps

(***************************************************************************)
(* The invariant and the theorem.                                          *)
(***************************************************************************)

\* A call that cleans up is made by a thread that may.
LEMMA CleanupCalled ==
  ASSUME TypeOK, [Next]_vars, NoCleanup, \A t \in Thread : op[t].pc # "cleanup"
  PROVE  \A t \in Thread : op'[t].pc # "cleanup"
<1> SUFFICES ASSUME NEW t \in Thread, op'[t].pc = "cleanup" PROVE FALSE
  OBVIOUS
<1>0. op \in [Thread -> OpType] /\ op'[t] # op[t]
  BY DEF TypeOK
<1>1. ASSUME NEW u \in Thread, Return(u) PROVE FALSE
  BY <1>0, <1>1, ReturnOp
<1>2. ASSUME NEW u \in Thread, NEW pc, Goto(u, pc), pc # "cleanup", op[u].pc \in Moving
      PROVE  FALSE
  BY <1>0, <1>2, GotoOp
<1>3. ASSUME NEW u \in Thread, NEW o, op' = [op EXCEPT ![u] = o], o.pc # "cleanup"
      PROVE  FALSE
  BY <1>0, <1>3
<1>4. ASSUME op' = op PROVE FALSE
  BY <1>0, <1>4
<1>5. PICK u \in Thread :
         \/ (\E k \in Key : TakeWriteId(u, k)) \/ InsertDirty(u)
         \/ (\E k \in Key : TakeCacheId(u, k)) \/ InsertClean(u)
         \/ \E k \in Key : EvictClean(u, k) \/ CleanupRead(u, k)
         \/ EvictUncount(u) \/ CleanupRemove(u)
         \/ FlushAgain(u) \/ FlushNothing(u) \/ MarkFlushed(u) \/ Unpublish(u)
         \/ \E limit \in Limit : FlushNew(u, limit)
  BY <1>4, Steps DEF vars
<1>6. CASE \/ PublishDirty(u) \/ FindOccupied(u) \/ EnqueuePush(u)
           \/ EvictUncount(u) \/ CleanupRemove(u)
  BY <1>1, <1>6 DEF PublishDirty, FindOccupied, EnqueuePush, EvictUncount, CleanupRemove
<1>7. CASE AppendDirty(u)
  BY <1>2, <1>7 DEF AppendDirty, Moving
<1>8. CASE InsertVacant(u) \/ CountClean(u) \/ EnqueueFull(u) \/ EnqueueUncount(u)
  BY <1>2, <1>8 DEF InsertVacant, CountClean, EnqueueFull, EnqueueUncount, AfterFullQueue, Moving
<1>9. CASE EnqueueDrop(u)
  BY <1>2, <1>9 DEF EnqueueDrop, Moving
<1>10. CASE EnqueuePop(u)
  BY <1>2, <1>3, <1>10 DEF EnqueuePop, Moving
<1>11. ASSUME NEW k \in Key, TakeWriteId(u, k) \/ TakeCacheId(u, k) \/ EvictClean(u, k)
       PROVE  FALSE
  <2>1. CASE TakeWriteId(u, k)
    BY <1>3, <2>1 DEF TakeWriteId
  <2>2. CASE TakeCacheId(u, k)
    BY <1>3, <2>2 DEF TakeCacheId
  <2>3. CASE EvictClean(u, k)
    BY <1>3, <2>3 DEF EvictClean
  <2> QED
    BY <1>11, <2>1, <2>2, <2>3
<1>12. CASE \E k \in Key : CleanupRead(u, k)
  BY <1>12 DEF CleanupRead, NoCleanup
<1>13. CASE FlushAgain(u) \/ FlushNothing(u) \/ \E limit \in Limit : FlushNew(u, limit)
  BY <1>4, <1>13 DEF FlushAgain, FlushNothing, FlushNew
<1>14. CASE MarkFlushed(u)
  BY <1>3, <1>14 DEF MarkFlushed
<1>15. CASE Unpublish(u)
  BY <1>3, <1>15 DEF Unpublish, Idle
<1> QED
  BY <1>5, <1>6, <1>7, <1>8, <1>9, <1>10, <1>11, <1>12, <1>13, <1>14, <1>15
     DEF InsertDirty, InsertClean

\* The map begins in OneWriterInv.
LEMMA InitOneWriter == Init => OneWriterInv
<1> SUFFICES ASSUME Init PROVE OneWriterInv
  OBVIOUS
<1>1. Dirty!Appended = <<>>
  BY DEF Init, Dirty!Init, Dirty!Appended
<1>2. KeysInOrder
  BY <1>1 DEF Init, Idle, KeysInOrder
<1>3. QueuedShown
  BY DEF Init, Dirty!Init, QueuedShown, PublishedQueued, Queued, RecordOf
<1>4. \A t \in Thread : op[t].pc # "cleanup"
  BY DEF Init, Idle
<1>5. VisibleNewest
  BY DEF Init, NoRef, VisibleNewest
<1> QED
  BY <1>2, <1>3, <1>4, <1>5 DEF OneWriterInv

\* Every step preserves OneWriterInv.
LEMMA NextOneWriter ==
  ASSUME OneWriterPerKey, NoCleanup, IInv, IInv', OneWriterInv, [Next]_vars
  PROVE  OneWriterInv'
<1>1. TypeOK /\ TypeOK' /\ WriteIdsOnce
  BY DEF IInv
<1>2. KeysInOrder /\ QueuedShown /\ VisibleNewest /\ \A t \in Thread : op[t].pc # "cleanup"
  BY DEF OneWriterInv
<1>3. KeysInOrder'
  BY <1>1, <1>2, NextOrder
<1>4. QueuedShown'
  BY <1>1, <1>2, NextShown
<1>5. \A t \in Thread : op'[t].pc # "cleanup"
  BY <1>1, <1>2, CleanupCalled
<1>6. VisibleNewest'
  BY <1>1, <1>2, NextVisibleNewest
<1> QED
  BY <1>3, <1>4, <1>5, <1>6 DEF OneWriterInv

\* With one writer per key and no cleanup_stale_visible, the order of each
\* key's writes and what is readable of it are kept by every step.
THEOREM OneWriterInvariance ==
  ASSUME OneWriterPerKey, NoCleanup
  PROVE  Spec => []OneWriterInv
<1>1. Init => OneWriterInv
  BY InitOneWriter
<1>2. IInv /\ IInv' /\ OneWriterInv /\ [Next]_vars => OneWriterInv'
  BY NextOneWriter
<1> QED
  BY <1>1, <1>2, Invariance, PTL DEF Spec

\* The newest of the queued, published writes of a key is the one shown.
LEMMA ShownReadable ==
  ASSUME TypeOK, OneWriterInv
  PROVE  ReadableUntilRetired
<1> SUFFICES ASSUME NEW record \in PublishedQueued,
                    \A other \in PublishedQueued :
                      other.key = record.key => other.id <= record.id
             PROVE  visible[record.key] = DirtyRef(record.id)
  BY DEF ReadableUntilRetired
<1>1. PICK newer \in PublishedQueued :
        /\ newer.key = record.key /\ record.id <= newer.id
        /\ visible[record.key] = DirtyRef(newer.id)
  BY DEF OneWriterInv, QueuedShown
<1>2. newer.id <= record.id
  BY <1>1
<1>3. record \in DirtyRecord /\ newer \in DirtyRecord
  BY QueuedRecords DEF PublishedQueued
<1>4. record.id \in Int /\ newer.id \in Int
  BY <1>3 DEF DirtyRecord, WriteId
<1> QED
  BY <1>1, <1>2, <1>4

\* Then the newest write of a key that insert_dirty has published is readable
\* until mark_flushed retires it, also while the next write is on its way.
THEOREM Readable ==
  ASSUME OneWriterPerKey, NoCleanup
  PROVE  Spec => []ReadableUntilRetired
<1>1. TypeOK /\ OneWriterInv => ReadableUntilRetired
  BY ShownReadable
<1> QED
  BY <1>1, OneWriterInvariance, TypeCorrect, PTL
=============================================================================
