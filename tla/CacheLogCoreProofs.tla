------------------------- MODULE CacheLogCoreProofs -------------------------
(***************************************************************************)
(* Proofs about the deterministic core, for all keys, values and bounds:   *)
(* its type invariant, the inductive invariant IInv, and from it the       *)
(* conditions the code checks, the coherence of reads, the refinement of   *)
(* WriteBehind, and that the form states are compared in loses nothing.    *)
(***************************************************************************)
EXTENDS CacheLogComparable, WellFoundedInduction, TLAPS

USE DEF WriteId, CacheId

\* Every field keeps the shape ModelState::type_ok tests.
LEMMA InitTypeOK == Init => TypeOK
<1> SUFFICES ASSUME Init PROVE TypeOK
  OBVIOUS
<1> USE DEF Init
<1>1. visible \in [Key -> VisibleRef]
  BY DEF VisibleRef
<1>2. dirty_q \in Seq(WriteId) /\ flushed \in Seq(WriteId)
  OBVIOUS
<1>3. next_write \in 0 .. MaxWrite /\ next_cache \in 0 .. MaxCache
  BY MaxWriteAssumption, MaxCacheAssumption
<1> QED
  BY <1>1, <1>2, <1>3 DEF TypeOK

\* No step takes a field out of its type: ids stay below the bounds, and what a
\* record holds are keys and values.
LEMMA NextTypeOK == TypeOK /\ [Next]_vars => TypeOK'
<1> SUFFICES ASSUME TypeOK, [Next]_vars PROVE TypeOK'
  OBVIOUS
<1> USE MaxWriteAssumption, MaxCacheAssumption DEF TypeOK
<1>1. CASE \E k \in Key, v \in Value : WriterWrite(k, v)
  <2> PICK k \in Key, v \in Value : WriterWrite(k, v)
    BY <1>1
  <2> USE DEF WriterWrite
  <2>1. next_write \in WriteId
    OBVIOUS
  <2>2. Record(next_write, k, v) \in DirtyRecord
    BY <2>1 DEF Record, DirtyRecord
  <2>3. DirtyRef(next_write) \in VisibleRef
    BY <2>1 DEF VisibleRef
  <2> QED
    BY <2>1, <2>2, <2>3 DEF Queue
<1>2. CASE FlusherFlushNext
  <2> USE <1>2 DEF FlusherFlushNext
  <2>1. NextToFlush \in WriteId
    BY DEF NextToFlush
  <2>2. write_hist[NextToFlush] \in DirtyRecord
    BY <2>1 DEF Absent
  <2>3. Stored(write_hist[NextToFlush].value, NextToFlush) \in DurableValue
    BY <2>1, <2>2 DEF Stored, DurableValue, DirtyRecord
  <2>4. write_hist[NextToFlush].key \in Key
    BY <2>2 DEF DirtyRecord
  <2>5. durable' \in [Key -> DurableValue \cup {Absent}]
    BY <2>3, <2>4
  <2>6. flushed' \in Seq(WriteId) /\ dirty_q' \in Seq(WriteId)
    BY <2>1
  <2> QED
    BY <2>5, <2>6
<1>3. CASE \E id \in WriteId : FlusherDrop(id)
  BY <1>3 DEF FlusherDrop, WithoutRef, VisibleRef
<1>4. CASE \E k \in Key : CacheInsert(k)
  <2> PICK k \in Key : CacheInsert(k)
    BY <1>4
  <2> USE DEF CacheInsert
  <2>1. next_cache \in CacheId
    OBVIOUS
  <2>2. durable[k] \in DurableValue
    BY DEF Cacheable, Absent
  <2>3. Record(next_cache, k, durable[k].value) \in CleanRecord
    BY <2>1, <2>2 DEF DurableValue, Record, CleanRecord
  <2>4. CleanRef(next_cache) \in VisibleRef
    BY <2>1 DEF VisibleRef
  <2> QED
    BY <2>1, <2>3, <2>4
<1>5. CASE \E id \in CacheId : CacheDropRecord(id)
  BY <1>5 DEF CacheDropRecord
<1>6. CASE \E id \in CacheId : CacheCleanupVisible(id)
  BY <1>6 DEF CacheCleanupVisible, WithoutRef, VisibleRef
<1>7. CASE \E k \in Key : ReaderStep(k)
  BY <1>7 DEF ReaderStep
<1>8. CASE Crash
  BY <1>8 DEF Crash, VisibleRef
<1>9. CASE UNCHANGED vars
  BY <1>9 DEF vars
<1> QED
  BY <1>1, <1>2, <1>3, <1>4, <1>5, <1>6, <1>7, <1>8, <1>9 DEF Next

\* The core keeps its types, whatever the bounds.
THEOREM TypeCorrect == Spec => []TypeOK
BY InitTypeOK, NextTypeOK, PTL DEF Spec

(***************************************************************************)
(* References and records.                                                 *)
(***************************************************************************)

\* The three kinds of visible reference.
LEMMA RefKinds ==
  ASSUME TypeOK, NEW k \in Key
  PROVE  /\ \/ visible[k] = NoRef /\ visible[k].kind = "None"
            \/ /\ visible[k].kind = "Dirty"
               /\ visible[k].id \in WriteId
               /\ visible[k] = DirtyRef(visible[k].id)
            \/ /\ visible[k].kind = "Clean"
               /\ visible[k].id \in CacheId
               /\ visible[k] = CleanRef(visible[k].id)
<1>1. visible[k] \in VisibleRef
  BY DEF TypeOK
<1>2. CASE visible[k] = NoRef
  BY <1>2 DEF NoRef
<1>3. CASE \E id \in WriteId : visible[k] = DirtyRef(id)
  BY <1>3 DEF DirtyRef
<1>4. CASE \E id \in CacheId : visible[k] = CleanRef(id)
  BY <1>4 DEF CleanRef
<1> QED
  BY <1>1, <1>2, <1>3, <1>4 DEF VisibleRef

\* What is present is a record of its type.
LEMMA PresentRecords ==
  ASSUME TypeOK
  PROVE  /\ \A id \in WriteId : write_hist[id].present => write_hist[id] \in DirtyRecord
         /\ \A id \in WriteId : write_store[id].present => write_store[id] \in DirtyRecord
         /\ \A id \in CacheId : cache_store[id].present => cache_store[id] \in CleanRecord
         /\ \A k \in Key : durable[k].present => durable[k] \in DurableValue
<1>1. ASSUME NEW id \in WriteId, write_hist[id].present
      PROVE  write_hist[id] \in DirtyRecord
  BY <1>1 DEF TypeOK, Absent
<1>2. ASSUME NEW id \in WriteId, write_store[id].present
      PROVE  write_store[id] \in DirtyRecord
  BY <1>2 DEF TypeOK, Absent
<1>3. ASSUME NEW id \in CacheId, cache_store[id].present
      PROVE  cache_store[id] \in CleanRecord
  BY <1>3 DEF TypeOK, Absent
<1>4. ASSUME NEW k \in Key, durable[k].present
      PROVE  durable[k] \in DurableValue
  BY <1>4 DEF TypeOK, Absent
<1> QED
  BY <1>1, <1>2, <1>3, <1>4

\* The inductive invariant holds of the empty cache.
LEMMA InitIInv == Init => IInv
<1> SUFFICES ASSUME Init PROVE IInv
  OBVIOUS
<1>1. TypeOK
  BY InitTypeOK
<1>2. LogIsWriteOrder /\ CrashForgets /\ NoBadRead
  BY MaxWriteAssumption DEF Init, LogIsWriteOrder, CrashForgets, NoBadRead
<1>3. HistoryComplete /\ StoreAgreesWithHistory
  BY DEF Init, HistoryComplete, StoreAgreesWithHistory, Absent
<1>4. VisibleDirtyIsLast /\ CleanIsDurable
  BY DEF Init, VisibleDirtyIsLast, CleanIsDurable, NoRef
<1>5. QueuedIsVisible /\ DurableIsLastFlushed
  BY DEF Init, QueuedIsVisible, DurableIsLastFlushed, WroteKey, Absent
<1> QED
  BY <1>1, <1>2, <1>3, <1>4, <1>5 DEF IInv

(***************************************************************************)
(* Each step preserves the inductive invariant.                            *)
(***************************************************************************)

\* A new write is queued last, becomes the last write of its key, and is
\* what its key shows.
LEMMA WriteStep ==
  ASSUME IInv, TypeOK', NEW k \in Key, NEW v \in Value, WriterWrite(k, v)
  PROVE  IInv'
<1> DEFINE n == next_write
<1> USE DEF WriterWrite
<1>0. TypeOK
  BY DEF IInv
<1>1. n \in WriteId /\ n' = n + 1 /\ n \in Nat /\ ~crashed
  BY <1>0, MaxWriteAssumption DEF TypeOK
<1>2. /\ write_hist'[n] = Record(n, k, v) /\ write_store'[n] = Record(n, k, v)
      /\ \A id \in WriteId : id # n =>
           write_hist'[id] = write_hist[id] /\ write_store'[id] = write_store[id]
  BY <1>0, <1>1 DEF TypeOK
<1>3. Record(n, k, v).present /\ Record(n, k, v).id = n /\ Record(n, k, v).key = k
  BY DEF Record
<1>4. \A id \in WriteId, j \in Key :
        WroteKey(id, j)' <=> IF id = n THEN j = k ELSE WroteKey(id, j)
  BY <1>2, <1>3 DEF WroteKey
<1>5. \A id \in WriteId, j \in Key : WroteKey(id, j) => id < n
  BY <1>0 DEF IInv, HistoryComplete, WroteKey, TypeOK
<1>6. LogIsWriteOrder'
  <2>1. dirty_q \in Seq(WriteId) /\ flushed \in Seq(WriteId)
    BY <1>0 DEF TypeOK
  <2>2. Len(flushed) + Len(dirty_q) = n
    BY <1>1 DEF IInv, LogIsWriteOrder
  <2>3. dirty_q' = Append(dirty_q, n) /\ flushed' = flushed
    BY DEF Queue
  <2>4. /\ \A i \in DOMAIN flushed : flushed[i] = i - 1
        /\ \A i \in DOMAIN dirty_q : dirty_q[i] = Len(flushed) + i - 1
    BY DEF IInv, LogIsWriteOrder
  <2>5. ASSUME NEW i \in DOMAIN dirty_q'
        PROVE  dirty_q'[i] = Len(flushed) + i - 1
    <3>1. n \in WriteId /\ Len(flushed) \in Nat /\ Len(dirty_q) \in Nat
      BY <1>1, <2>1
    <3>2. CASE i = Len(dirty_q) + 1
      BY <2>1, <2>2, <2>3, <3>1, <3>2
    <3>3. CASE i \in DOMAIN dirty_q
      BY <2>1, <2>3, <2>4, <3>1, <3>3
    <3> QED
      BY <2>1, <2>3, <3>1, <3>2, <3>3
  <2>6. Len(flushed') + Len(dirty_q') = n'
    <3>1. Len(dirty_q') = Len(dirty_q) + 1
      BY <1>1, <2>1, <2>3
    <3>2. Len(flushed') = Len(flushed) /\ Len(flushed) \in Nat /\ Len(dirty_q) \in Nat
      BY <2>1, <2>3
    <3> QED
      BY <1>1, <2>2, <3>1, <3>2
  <2> QED
    BY <2>3, <2>4, <2>5, <2>6 DEF LogIsWriteOrder
<1>7. HistoryComplete'
  BY <1>0, <1>1, <1>2, <1>3 DEF IInv, HistoryComplete, TypeOK
<1>8. StoreAgreesWithHistory'
  BY <1>0, <1>1, <1>2, <1>3 DEF IInv, StoreAgreesWithHistory, TypeOK
<1>9. VisibleDirtyIsLast'
  <2> SUFFICES ASSUME NEW j \in Key, visible'[j].kind = "Dirty"
               PROVE  LastWrite(visible[j].id, j)' /\ write_store'[visible'[j].id].present
    BY DEF VisibleDirtyIsLast
  <2>1. CASE j = k
    <3>1. visible'[j] = DirtyRef(n) /\ DirtyRef(n).id = n
      BY <2>1, <1>0 DEF TypeOK, DirtyRef
    <3> QED
      BY <2>1, <3>1, <1>1, <1>2, <1>3, <1>4, <1>5 DEF LastWrite
  <2>2. CASE j # k
    <3>1. visible'[j] = visible[j]
      BY <2>2, <1>0 DEF TypeOK
    <3>2. LastWrite(visible[j].id, j) /\ write_store[visible[j].id].present
      BY <3>1 DEF IInv, VisibleDirtyIsLast
    <3>3. visible[j].id \in WriteId /\ visible[j].id # n
      BY <1>0, <1>1, <1>5, <3>1, <3>2, RefKinds DEF LastWrite
    <3> QED
      BY <2>2, <3>1, <3>2, <3>3, <1>1, <1>2, <1>4 DEF LastWrite
  <2> QED
    BY <2>1, <2>2
<1>10. QueuedIsVisible'
  <2>1. visible'[k].kind = "Dirty" /\ \A j \in Key : j # k => visible'[j] = visible[j]
    BY <1>0 DEF TypeOK, DirtyRef
  <2> QED
    BY <1>1, <1>4, <2>1 DEF IInv, QueuedIsVisible
<1>11. DurableIsLastFlushed'
  <2>1. Len(flushed) <= n /\ Len(flushed) \in Nat
    BY <1>0 DEF IInv, CrashForgets, TypeOK
  <2> SUFFICES ASSUME NEW j \in Key
               PROVE  IF durable[j].present
                      THEN LET seq == durable[j].seq IN
                           /\ seq < Len(flushed)
                           /\ WroteKey(seq, j)'
                           /\ durable[j] = Stored(write_hist'[seq].value, seq)
                           /\ \A id \in WriteId :
                                WroteKey(id, j)' /\ id < Len(flushed) => id <= seq
                      ELSE \A id \in WriteId : WroteKey(id, j)' => Len(flushed) <= id
    BY DEF DurableIsLastFlushed
  <2>2. CASE durable[j].present
    <3>1. durable[j].seq \in WriteId
      BY <2>2, <1>0, PresentRecords DEF DurableValue
    <3>2. /\ durable[j].seq < Len(flushed)
          /\ WroteKey(durable[j].seq, j)
          /\ durable[j] = Stored(write_hist[durable[j].seq].value, durable[j].seq)
          /\ \A id \in WriteId :
               WroteKey(id, j) /\ id < Len(flushed) => id <= durable[j].seq
      BY <2>2 DEF IInv, DurableIsLastFlushed
    <3>3. durable[j].seq # n
      BY <2>1, <3>1, <3>2, <1>1
    <3> QED
      BY <2>1, <2>2, <3>1, <3>2, <3>3, <1>1, <1>2, <1>4
  <2>3. CASE ~durable[j].present
    BY <2>1, <2>3, <1>1, <1>4 DEF IInv, DurableIsLastFlushed
  <2> QED
    BY <2>2, <2>3
<1>12. CleanIsDurable'
  <2>1. visible'[k].kind = "Dirty" /\ \A j \in Key : j # k => visible'[j] = visible[j]
    BY <1>0 DEF TypeOK, DirtyRef
  <2> QED
    BY <2>1 DEF IInv, CleanIsDurable
<1>13. CrashForgets' /\ NoBadRead'
  BY <1>0, <1>1 DEF IInv, CrashForgets, NoBadRead, TypeOK
<1> QED
  BY <1>6, <1>7, <1>8, <1>9, <1>10, <1>11, <1>12, <1>13 DEF IInv

\* The flusher makes durable the oldest write that is not.  Its key shows a
\* dirty entry, so no clean copy of the key goes stale.
LEMMA FlushStep ==
  ASSUME IInv, TypeOK', FlusherFlushNext
  PROVE  IInv'
<1> DEFINE id == NextToFlush
           k == write_hist[id].key
           m == Len(flushed)
<1> USE DEF FlusherFlushNext
<1>0. TypeOK /\ ~crashed
  BY DEF IInv
<1>1. /\ dirty_q \in Seq(WriteId) /\ dirty_q # <<>>
      /\ flushed \in Seq(WriteId) /\ m \in Nat
  BY <1>0 DEF TypeOK
<1>2. id = m /\ id \in WriteId
  <2>1. 1 \in DOMAIN dirty_q /\ id = dirty_q[1]
    BY <1>1 DEF NextToFlush
  <2>2. dirty_q[1] = m + 1 - 1
    BY <2>1 DEF IInv, LogIsWriteOrder
  <2>3. id \in WriteId
    BY <1>1, MaxWriteAssumption DEF NextToFlush
  <2> QED
    BY <1>1, <2>1, <2>2, <2>3
<1>3. write_hist[id].present /\ k \in Key
  BY <1>0, <1>2, PresentRecords DEF DirtyRecord
<1>4. /\ flushed' = Append(flushed, m) /\ Len(flushed') = m + 1
      /\ dirty_q' = Tail(dirty_q) /\ Len(dirty_q') = Len(dirty_q) - 1
  BY <1>1, <1>2
<1>5. /\ durable'[k] = Stored(write_hist[id].value, id)
      /\ \A j \in Key : j # k => durable'[j] = durable[j]
  BY <1>0, <1>3 DEF TypeOK
<1>6. WroteKey(id, k)
  BY <1>3 DEF WroteKey
<1>7. \A w \in WriteId, j \in Key : WroteKey(w, j)' <=> WroteKey(w, j)
  BY DEF WroteKey
<1>8. LogIsWriteOrder'
  <2>1. /\ \A i \in DOMAIN flushed : flushed[i] = i - 1
        /\ \A i \in DOMAIN dirty_q : dirty_q[i] = m + i - 1
        /\ m + Len(dirty_q) = next_write
    BY <1>0 DEF IInv, LogIsWriteOrder
  <2>2. ASSUME NEW i \in DOMAIN flushed' PROVE flushed'[i] = i - 1
    <3>1. CASE i = m + 1
      BY <1>1, <1>4, <3>1
    <3>2. CASE i \in DOMAIN flushed
      BY <1>1, <1>4, <2>1, <3>2
    <3> QED
      BY <1>1, <1>2, <1>4, <3>1, <3>2
  <2>3. ASSUME NEW i \in DOMAIN dirty_q' PROVE dirty_q'[i] = Len(flushed') + i - 1
    <3>1. /\ i \in Nat /\ i + 1 \in DOMAIN dirty_q
          /\ dirty_q'[i] = dirty_q[i + 1]
      BY <1>1, <1>4
    <3> QED
      BY <1>1, <1>4, <2>1, <3>1
  <2>4. Len(flushed') + Len(dirty_q') = next_write'
    BY <1>1, <1>4, <2>1
  <2> QED
    BY <2>2, <2>3, <2>4 DEF LogIsWriteOrder
<1>9. HistoryComplete' /\ NoBadRead'
  BY DEF IInv, HistoryComplete, NoBadRead
<1>10. StoreAgreesWithHistory'
  BY <1>0, <1>1, <1>4 DEF IInv, StoreAgreesWithHistory, TypeOK
<1>11. VisibleDirtyIsLast'
  BY <1>7 DEF IInv, VisibleDirtyIsLast, LastWrite, WroteKey
<1>12. QueuedIsVisible'
  BY <1>0, <1>1, <1>4, <1>7 DEF IInv, QueuedIsVisible
<1>13. DurableIsLastFlushed'
  <2> SUFFICES ASSUME NEW j \in Key
               PROVE  IF durable'[j].present
                      THEN LET seq == durable'[j].seq IN
                           /\ seq < m + 1
                           /\ WroteKey(seq, j)
                           /\ durable'[j] = Stored(write_hist[seq].value, seq)
                           /\ \A w \in WriteId : WroteKey(w, j) /\ w < m + 1 => w <= seq
                      ELSE \A w \in WriteId : WroteKey(w, j) => m + 1 <= w
    BY <1>4, <1>7 DEF DurableIsLastFlushed, WroteKey
  <2>1. CASE j = k
    <3>1. durable'[j].present /\ durable'[j].seq = m
      BY <1>2, <1>5, <2>1 DEF Stored
    <3> QED
      BY <1>1, <1>2, <1>5, <1>6, <2>1, <3>1
  <2>2. CASE j # k
    <3>1. durable'[j] = durable[j] /\ ~WroteKey(m, j)
      BY <1>2, <1>5, <2>2 DEF WroteKey
    <3>2. durable[j].present => durable[j].seq \in WriteId
      BY <1>0, PresentRecords DEF DurableValue
    <3>3. CASE durable[j].present
      BY <1>1, <3>1, <3>2, <3>3 DEF IInv, DurableIsLastFlushed
    <3>4. CASE ~durable[j].present
      BY <1>1, <3>1, <3>4 DEF IInv, DurableIsLastFlushed
    <3> QED
      BY <3>3, <3>4
  <2> QED
    BY <2>1, <2>2
<1>14. CleanIsDurable'
  <2>1. visible[k].kind = "Dirty"
    BY <1>0, <1>1, <1>2, <1>3, <1>6 DEF IInv, QueuedIsVisible
  <2> QED
    BY <1>5, <2>1 DEF IInv, CleanIsDurable
<1>15. CrashForgets'
  <2>1. Len(flushed) + Len(dirty_q) = next_write /\ Len(dirty_q) > 0
    BY <1>0, <1>1 DEF IInv, LogIsWriteOrder
  <2> QED
    BY <1>0, <1>1, <1>4, <2>1 DEF CrashForgets
<1> QED
  BY <1>8, <1>9, <1>10, <1>11, <1>12, <1>13, <1>14, <1>15 DEF IInv

\* What WithoutRef leaves of the table.
LEMMA WithoutRefKeeps ==
  ASSUME NEW ref, NEW k \in Key
  PROVE  WithoutRef(ref)[k] = IF visible[k] = ref THEN NoRef ELSE visible[k]
BY DEF WithoutRef

\* The flusher drops a record that is durable: the entry it hides is not
\* the entry of a queued write.
LEMMA DropStep ==
  ASSUME IInv, TypeOK', NEW id \in WriteId, FlusherDrop(id)
  PROVE  IInv'
<1> USE DEF FlusherDrop
<1>0. TypeOK /\ ~crashed
  BY DEF IInv
<1>1. id < Len(flushed) /\ Len(flushed) \in Nat
  <2>1. PICK i \in DOMAIN flushed : flushed[i] = id
    BY DEF Droppable, Contains
  <2>2. flushed[i] = i - 1
    BY DEF IInv, LogIsWriteOrder
  <2> QED
    BY <1>0, <2>1, <2>2 DEF TypeOK
<1>2. /\ write_store'[id] = Absent /\ ~Absent.present
      /\ \A w \in WriteId : w # id => write_store'[w] = write_store[w]
  BY <1>0 DEF TypeOK, Absent
<1>3. \A j \in Key :
        \/ visible'[j] = NoRef /\ visible[j] = DirtyRef(id)
        \/ visible'[j] = visible[j] /\ visible[j] # DirtyRef(id)
  BY WithoutRefKeeps
<1>4. NoRef.kind = "None" /\ DirtyRef(id).id = id
  BY DEF NoRef, DirtyRef
<1>5. \A w \in WriteId, j \in Key : WroteKey(w, j)' <=> WroteKey(w, j)
  BY DEF WroteKey
<1>6. LogIsWriteOrder' /\ HistoryComplete' /\ CrashForgets' /\ NoBadRead'
  BY <1>0 DEF IInv, LogIsWriteOrder, HistoryComplete, CrashForgets, NoBadRead
<1>7. StoreAgreesWithHistory'
  BY <1>0, <1>1, <1>2 DEF IInv, StoreAgreesWithHistory, TypeOK
<1>8. VisibleDirtyIsLast'
  <2> SUFFICES ASSUME NEW j \in Key, visible'[j].kind = "Dirty"
               PROVE  LastWrite(visible'[j].id, j) /\ write_store'[visible'[j].id].present
    BY <1>5 DEF VisibleDirtyIsLast, LastWrite, WroteKey
  <2>1. visible'[j] = visible[j] /\ visible[j] # DirtyRef(id)
    BY <1>3, <1>4
  <2>2. visible[j].id \in WriteId /\ visible[j].id # id
    BY <1>0, <2>1, RefKinds
  <2> QED
    BY <1>2, <2>1, <2>2 DEF IInv, VisibleDirtyIsLast
<1>9. QueuedIsVisible'
  <2> SUFFICES ASSUME NEW j \in Key, NEW w \in WriteId, WroteKey(w, j), Len(flushed) <= w
               PROVE  visible'[j].kind = "Dirty"
    BY <1>5 DEF QueuedIsVisible
  <2>1. visible[j].kind = "Dirty"
    BY <1>0 DEF IInv, QueuedIsVisible
  <2>2. w <= visible[j].id
    BY <2>1 DEF IInv, VisibleDirtyIsLast, LastWrite
  <2>3. visible[j] # DirtyRef(id)
    BY <1>1, <1>4, <2>2
  <2> QED
    BY <1>3, <2>1, <2>3
<1>10. DurableIsLastFlushed'
  BY <1>5 DEF IInv, DurableIsLastFlushed, WroteKey
<1>11. CleanIsDurable'
  BY <1>3, <1>4 DEF IInv, CleanIsDurable
<1> QED
  BY <1>6, <1>7, <1>8, <1>9, <1>10, <1>11 DEF IInv

\* A clean copy is made of the durable value of a key nothing shows, which
\* therefore has no queued write.
LEMMA InsertStep ==
  ASSUME IInv, TypeOK', NEW k \in Key, CacheInsert(k)
  PROVE  IInv'
<1> DEFINE c == next_cache
<1> USE DEF CacheInsert
<1>0. TypeOK /\ ~crashed /\ visible[k] = NoRef /\ durable[k].present
  BY DEF IInv, Cacheable
<1>1. c \in CacheId /\ c \in Nat /\ c' = c + 1
  BY <1>0, MaxCacheAssumption DEF TypeOK
<1>2. /\ cache_store'[c] = Record(c, k, durable[k].value)
      /\ \A id \in CacheId : id # c => cache_store'[id] = cache_store[id]
  BY <1>0, <1>1 DEF TypeOK
<1>3. /\ visible'[k] = CleanRef(c) /\ CleanRef(c).kind = "Clean" /\ CleanRef(c).id = c
      /\ \A j \in Key : j # k => visible'[j] = visible[j]
      /\ NoRef.kind = "None"
  BY <1>0 DEF TypeOK, CleanRef, NoRef
<1>4. \A w \in WriteId, j \in Key : WroteKey(w, j)' <=> WroteKey(w, j)
  BY DEF WroteKey
<1>5. /\ LogIsWriteOrder' /\ HistoryComplete' /\ StoreAgreesWithHistory'
      /\ NoBadRead'
  BY DEF IInv, LogIsWriteOrder, HistoryComplete, StoreAgreesWithHistory, NoBadRead
<1>6. VisibleDirtyIsLast'
  BY <1>3 DEF IInv, VisibleDirtyIsLast, LastWrite, WroteKey
<1>7. QueuedIsVisible'
  <2>1. \A j \in Key : visible[j].kind = "Dirty" => visible'[j].kind = "Dirty"
    BY <1>0, <1>3
  <2> QED
    BY <2>1, <1>4 DEF IInv, QueuedIsVisible
<1>8. DurableIsLastFlushed'
  BY DEF IInv, DurableIsLastFlushed, WroteKey
<1>9. CleanIsDurable'
  <2> SUFFICES ASSUME NEW j \in Key, visible'[j].kind = "Clean"
               PROVE  LET record == cache_store'[visible'[j].id] IN
                      /\ visible'[j].id < c + 1
                      /\ record.present =>
                           /\ record.key = j
                           /\ durable[j].present
                           /\ record.value = durable[j].value
    BY <1>1 DEF CleanIsDurable
  <2>1. CASE j = k
    BY <1>0, <1>1, <1>2, <1>3, <2>1 DEF Record
  <2>2. CASE j # k
    <3>1. visible'[j] = visible[j] /\ visible[j].id \in CacheId
      BY <1>0, <1>3, <2>2, RefKinds
    <3>2. visible[j].id < c
      BY <3>1 DEF IInv, CleanIsDurable
    <3> QED
      BY <1>1, <1>2, <3>1, <3>2 DEF IInv, CleanIsDurable
  <2> QED
    BY <2>1, <2>2
<1>10. CrashForgets'
  BY <1>0 DEF IInv, CrashForgets
<1> QED
  BY <1>5, <1>6, <1>7, <1>8, <1>9, <1>10 DEF IInv

\* Dropping a clean record leaves its reference dangling, no more.
LEMMA DropRecordStep ==
  ASSUME IInv, TypeOK', NEW id \in CacheId, CacheDropRecord(id)
  PROVE  IInv'
<1> USE DEF CacheDropRecord
<1>0. TypeOK
  BY DEF IInv
<1>1. /\ ~cache_store'[id].present
      /\ \A c \in CacheId : c # id => cache_store'[c] = cache_store[c]
  BY <1>0 DEF TypeOK, Absent
<1>2. CleanIsDurable'
  <2> SUFFICES ASSUME NEW j \in Key, visible[j].kind = "Clean"
               PROVE  LET record == cache_store'[visible[j].id] IN
                      /\ visible[j].id < next_cache
                      /\ record.present =>
                           /\ record.key = j
                           /\ durable[j].present
                           /\ record.value = durable[j].value
    BY DEF CleanIsDurable
  <2>1. visible[j].id \in CacheId
    BY <1>0, RefKinds
  <2> QED
    BY <1>1, <2>1 DEF IInv, CleanIsDurable
<1>3. /\ LogIsWriteOrder' /\ HistoryComplete' /\ StoreAgreesWithHistory'
      /\ NoBadRead' /\ CrashForgets'
  BY DEF IInv, LogIsWriteOrder, HistoryComplete, StoreAgreesWithHistory,
         NoBadRead, CrashForgets
<1>4. VisibleDirtyIsLast' /\ QueuedIsVisible' /\ DurableIsLastFlushed'
  BY DEF IInv, VisibleDirtyIsLast, QueuedIsVisible, DurableIsLastFlushed,
         LastWrite, WroteKey
<1> QED
  BY <1>2, <1>3, <1>4 DEF IInv

\* Cleaning up dangling references hides no write.
LEMMA CleanupStep ==
  ASSUME IInv, TypeOK', NEW id \in CacheId, CacheCleanupVisible(id)
  PROVE  IInv'
<1> USE DEF CacheCleanupVisible
<1>0. TypeOK /\ ~crashed
  BY DEF IInv
<1>1. /\ NoRef.kind = "None" /\ CleanRef(id).kind = "Clean"
      /\ \A j \in Key : \/ visible'[j] = NoRef /\ visible[j].kind = "Clean"
                      \/ visible'[j] = visible[j]
  BY WithoutRefKeeps DEF NoRef, CleanRef
<1>2. VisibleDirtyIsLast'
  BY <1>1 DEF IInv, VisibleDirtyIsLast, LastWrite, WroteKey
<1>3. QueuedIsVisible'
  BY <1>1 DEF IInv, QueuedIsVisible, WroteKey
<1>4. CleanIsDurable'
  BY <1>1 DEF IInv, CleanIsDurable
<1>5. /\ LogIsWriteOrder' /\ HistoryComplete' /\ StoreAgreesWithHistory'
      /\ NoBadRead' /\ CrashForgets' /\ DurableIsLastFlushed'
  BY <1>0 DEF IInv, LogIsWriteOrder, HistoryComplete, StoreAgreesWithHistory,
              NoBadRead, CrashForgets, DurableIsLastFlushed, WroteKey
<1> QED
  BY <1>2, <1>3, <1>4, <1>5 DEF IInv

\* No reference is bad.
LEMMA NoBadReference ==
  ASSUME IInv, NEW k \in Key
  PROVE  ~BadReference(k)
<1>0. TypeOK
  BY DEF IInv
<1>1. CASE visible[k].kind = "Dirty"
  <2>1. /\ write_store[visible[k].id].present
        /\ write_hist[visible[k].id].key = k
        /\ visible[k].id \in WriteId
    BY <1>1 DEF IInv, VisibleDirtyIsLast, LastWrite, WroteKey, TypeOK, VisibleRef,
                NoRef, DirtyRef, CleanRef
  <2>2. write_store[visible[k].id].key = k
    BY <2>1 DEF IInv, StoreAgreesWithHistory
  <2> QED
    BY <1>1, <2>1, <2>2 DEF BadReference
<1>2. CASE visible[k].kind = "Clean"
  BY <1>2 DEF BadReference, IInv, CleanIsDurable
<1>3. CASE visible[k].kind # "Dirty" /\ visible[k].kind # "Clean"
  BY <1>3 DEF BadReference
<1> QED
  BY <1>1, <1>2, <1>3

\* A reader changes nothing but bad_read, and no reference it follows is bad.
LEMMA ReadStep ==
  ASSUME IInv, TypeOK', NEW k \in Key, ReaderStep(k)
  PROVE  IInv'
<1> USE DEF ReaderStep
<1>1. NoBadRead'
  BY NoBadReference DEF IInv, NoBadRead
<1>2. /\ LogIsWriteOrder' /\ HistoryComplete' /\ StoreAgreesWithHistory'
      /\ CrashForgets'
  BY DEF IInv, LogIsWriteOrder, HistoryComplete, StoreAgreesWithHistory,
         CrashForgets
<1>3. /\ VisibleDirtyIsLast' /\ QueuedIsVisible' /\ DurableIsLastFlushed'
      /\ CleanIsDurable'
  BY DEF IInv, VisibleDirtyIsLast, QueuedIsVisible, DurableIsLastFlushed,
         CleanIsDurable, LastWrite, WroteKey
<1> QED
  BY <1>1, <1>2, <1>3 DEF IInv

\* A crash keeps the durable store and the history, and nothing else.
LEMMA CrashStep ==
  ASSUME IInv, TypeOK', Crash
  PROVE  IInv'
<1> USE DEF Crash
<1>0. TypeOK /\ NoRef.kind = "None" /\ ~Absent.present
  BY DEF IInv, NoRef, Absent
<1>1. LogIsWriteOrder' /\ HistoryComplete' /\ NoBadRead' /\ CrashForgets'
  BY DEF IInv, LogIsWriteOrder, HistoryComplete, NoBadRead, CrashForgets
<1>2. StoreAgreesWithHistory' /\ VisibleDirtyIsLast' /\ CleanIsDurable'
  BY <1>0 DEF StoreAgreesWithHistory, VisibleDirtyIsLast, CleanIsDurable
<1>3. QueuedIsVisible' /\ DurableIsLastFlushed'
  BY DEF IInv, QueuedIsVisible, DurableIsLastFlushed, WroteKey
<1> QED
  BY <1>1, <1>2, <1>3 DEF IInv

\* Every step preserves the inductive invariant, action by action.
LEMMA NextIInv == IInv /\ [Next]_vars => IInv'
<1> SUFFICES ASSUME IInv, [Next]_vars PROVE IInv'
  OBVIOUS
<1>0. TypeOK'
  BY NextTypeOK DEF IInv
<1>1. CASE Next
  BY <1>0, <1>1, WriteStep, FlushStep, DropStep, InsertStep, DropRecordStep,
     CleanupStep, ReadStep, CrashStep DEF Next
<1>2. CASE UNCHANGED vars
  <2> USE <1>2 DEF vars
  <2>1. /\ LogIsWriteOrder' /\ HistoryComplete' /\ StoreAgreesWithHistory'
        /\ CrashForgets' /\ NoBadRead'
    BY DEF IInv, LogIsWriteOrder, HistoryComplete, StoreAgreesWithHistory,
           CrashForgets, NoBadRead
  <2>2. /\ VisibleDirtyIsLast' /\ QueuedIsVisible' /\ DurableIsLastFlushed'
        /\ CleanIsDurable'
    BY DEF IInv, VisibleDirtyIsLast, QueuedIsVisible, DurableIsLastFlushed,
           CleanIsDurable, LastWrite, WroteKey
  <2> QED
    BY <1>0, <2>1, <2>2 DEF IInv
<1> QED
  BY <1>1, <1>2

\* The inductive invariant holds for every number of keys, values, writes
\* and cache ids.
THEOREM Invariance == Spec => []IInv
BY InitIInv, NextIInv, PTL DEF Spec

(***************************************************************************)
(* What the inductive invariant gives.                                     *)
(***************************************************************************)

\* The flushed ids are those below Len(flushed), the queued ones the others.
LEMMA LogIndices ==
  ASSUME IInv
  PROVE  /\ Len(flushed) \in Nat /\ Len(dirty_q) \in Nat
         /\ DOMAIN flushed = 1 .. Len(flushed)
         /\ DOMAIN dirty_q = 1 .. Len(dirty_q)
         /\ \A i \in DOMAIN flushed : flushed[i] = i - 1
         /\ \A i \in DOMAIN dirty_q : dirty_q[i] = Len(flushed) + i - 1
         /\ Len(flushed) + Len(dirty_q) <= next_write
         /\ next_write \in Nat
         /\ \A i \in DOMAIN dirty_q : dirty_q[i] \in WriteId /\ dirty_q[i] < next_write
<1>1. dirty_q \in Seq(WriteId) /\ flushed \in Seq(WriteId) /\ next_write \in Nat
  BY MaxWriteAssumption DEF IInv, TypeOK
<1>2. Len(flushed) + Len(dirty_q) <= next_write
  <2>1. CASE crashed
    BY <1>1, <2>1 DEF IInv, CrashForgets
  <2>2. CASE ~crashed
    BY <1>1, <2>2 DEF IInv, LogIsWriteOrder
  <2> QED
    BY <2>1, <2>2
<1>3. \A i \in DOMAIN dirty_q : dirty_q[i] = Len(flushed) + i - 1
  BY DEF IInv, LogIsWriteOrder
<1>4. next_write <= MaxWrite
  BY MaxWriteAssumption DEF IInv, TypeOK
<1>5. \A i \in DOMAIN dirty_q : dirty_q[i] \in WriteId /\ dirty_q[i] < next_write
  BY <1>1, <1>2, <1>3, <1>4, MaxWriteAssumption
<1> QED
  BY <1>1, <1>2, <1>3, <1>5 DEF IInv, LogIsWriteOrder

\* The inductive invariant is enough for the ten conditions of check_invariants.
LEMMA IInvReport == IInv => InvariantReportOk
<1> SUFFICES ASSUME IInv PROVE InvariantReportOk
  OBVIOUS
<1>0. TypeOK
  BY DEF IInv
<1>1. DirtyRefsLive
  <2> SUFFICES ASSUME NEW k \in Key, visible[k].kind = "Dirty"
               PROVE  /\ write_store[visible[k].id].present
                      /\ write_store[visible[k].id].id = visible[k].id
                      /\ write_store[visible[k].id].key = k
    BY DEF DirtyRefsLive
  <2>1. visible[k].id \in WriteId
    BY <1>0, RefKinds
  <2>2. /\ write_store[visible[k].id].present
        /\ WroteKey(visible[k].id, k)
    BY DEF IInv, VisibleDirtyIsLast, LastWrite
  <2>3. write_store[visible[k].id] = write_hist[visible[k].id]
    BY <2>1, <2>2 DEF IInv, StoreAgreesWithHistory
  <2>4. write_hist[visible[k].id].id = visible[k].id
    BY <2>1, <2>2 DEF IInv, HistoryComplete, WroteKey
  <2> QED
    BY <2>2, <2>3, <2>4 DEF WroteKey
<1>2. CleanRefsKeyConsistent
  BY DEF IInv, CleanIsDurable, CleanRefsKeyConsistent
<1>3. DirtyQOrdered /\ FlushedOrdered
  BY LogIndices DEF DirtyQOrdered, FlushedOrdered, StrictlyIncreasing
<1>4. QueuedAfterFlushed
  BY LogIndices DEF QueuedAfterFlushed
<1>5. AllIdsLtNextWrite
  BY LogIndices DEF AllIdsLtNextWrite
<1>6. DurableMatchesFlushed
  <2> SUFFICES ASSUME NEW k \in Key PROVE AppliedTo(flushed, k, durable[k])
    BY DEF DurableMatchesFlushed
  <2>0. \A i \in DOMAIN flushed : flushed[i] = i - 1 /\ i - 1 \in WriteId
    <3>1. next_write <= MaxWrite
      BY <1>0, MaxWriteAssumption DEF TypeOK
    <3> QED
      BY <3>1, LogIndices, MaxWriteAssumption
  <2>1. CASE durable[k].present
    <3> DEFINE seq == durable[k].seq
    <3>1. seq \in WriteId
      BY <1>0, <2>1, PresentRecords DEF DurableValue
    <3>2. /\ seq < Len(flushed)
          /\ WroteKey(seq, k)
          /\ durable[k] = Stored(write_hist[seq].value, seq)
          /\ \A id \in WriteId : WroteKey(id, k) /\ id < Len(flushed) => id <= seq
      BY <2>1 DEF IInv, DurableIsLastFlushed
    <3>3. seq + 1 \in DOMAIN flushed /\ flushed[seq + 1] = seq
      BY <3>1, <3>2, LogIndices
    <3>4. FlushesKey(flushed, seq + 1, k)
      BY <3>2, <3>3 DEF FlushesKey, WroteKey
    <3>5. ASSUME NEW j \in DOMAIN flushed, j > seq + 1
          PROVE  ~FlushesKey(flushed, j, k)
      <4>1. j - 1 \in WriteId /\ flushed[j] = j - 1 /\ j - 1 < Len(flushed)
        BY <2>0, LogIndices
      <4>2. ~WroteKey(j - 1, k)
        BY <3>1, <3>2, <3>5, <4>1
      <4> QED
        BY <4>1, <4>2 DEF FlushesKey, WroteKey
    <3> QED
      BY <3>2, <3>3, <3>4, <3>5 DEF AppliedTo
  <2>2. CASE ~durable[k].present
    <3>1. durable[k] = Absent
      BY <1>0, <2>2 DEF TypeOK, DurableValue
    <3>2. ASSUME NEW i \in DOMAIN flushed PROVE ~FlushesKey(flushed, i, k)
      <4>1. i - 1 \in WriteId /\ flushed[i] = i - 1 /\ i - 1 < Len(flushed)
        BY <2>0, LogIndices
      <4>2. \A id \in WriteId : WroteKey(id, k) => Len(flushed) <= id
        BY <2>2 DEF IInv, DurableIsLastFlushed
      <4>3. ~WroteKey(i - 1, k)
        BY <4>1, <4>2, LogIndices
      <4> QED
        BY <4>1, <4>3 DEF FlushesKey, WroteKey
    <3> QED
      BY <3>1, <3>2 DEF AppliedTo
  <2> QED
    BY <2>1, <2>2
<1>7. NoLostDirty
  <2> SUFFICES ASSUME ~crashed, NEW id \in WriteId, created_dirty[id]
               PROVE  Contains(flushed, id) \/ write_store[id].present
    BY DEF NoLostDirty
  <2>1. id < next_write
    BY DEF IInv, HistoryComplete
  <2>2. CASE id < Len(flushed)
    <3>1. id + 1 \in DOMAIN flushed /\ flushed[id + 1] = id
      BY <2>2, LogIndices
    <3> QED
      BY <3>1 DEF Contains
  <2>3. CASE Len(flushed) <= id
    BY <2>1, <2>3 DEF IInv, StoreAgreesWithHistory
  <2> QED
    BY <2>2, <2>3, LogIndices
<1>8. NoBadRead
  BY DEF IInv
<1> QED
  BY <1>0, <1>1, <1>2, <1>3, <1>4, <1>5, <1>6, <1>7, <1>8 DEF InvariantReportOk

\* What a read returns: the write its dirty entry names, or the durable
\* value, whether it comes from the durable store or from a clean copy.
LEMMA ReadValue ==
  ASSUME IInv, NEW k \in Key
  PROVE  ReadThrough(k) = IF visible[k].kind = "Dirty"
                          THEN write_hist[visible[k].id].value ELSE DurableView(k)
<1>0. TypeOK
  BY DEF IInv
<1>1. CASE visible[k].kind = "Dirty"
  <2>1. visible[k].id \in WriteId /\ write_store[visible[k].id].present
    BY <1>0, <1>1, RefKinds DEF IInv, VisibleDirtyIsLast
  <2>2. write_store[visible[k].id] = write_hist[visible[k].id]
    BY <2>1 DEF IInv, StoreAgreesWithHistory
  <2> QED
    BY <1>1, <2>2 DEF ReadThrough, Miss
<1>2. CASE visible[k].kind # "Dirty"
  <2>1. CASE Miss(k)
    BY <1>2, <2>1 DEF ReadThrough
  <2>2. CASE ~Miss(k)
    <3>1. visible[k].kind = "Clean" /\ cache_store[visible[k].id].present
      BY <1>0, <1>2, <2>2, RefKinds DEF Miss
    <3> QED
      BY <1>2, <2>2, <3>1 DEF ReadThrough, DurableView, IInv, CleanIsDurable
  <2> QED
    BY <2>1, <2>2
<1> QED
  BY <1>1, <1>2

\* The same for all keys, so that it can be said of the state after a step.
ReadsByCase ==
  \A k \in Key :
    ReadThrough(k) = IF visible[k].kind = "Dirty"
                     THEN write_hist[visible[k].id].value ELSE DurableView(k)

\* The inductive invariant tells what every read returns.
LEMMA ReadValues == IInv => ReadsByCase
BY ReadValue DEF ReadsByCase

\* The same of the state after a step.
LEMMA ReadValuesAfter ==
  ASSUME IInv', NEW k \in Key
  PROVE  ReadThrough(k)' = IF visible'[k].kind = "Dirty"
                           THEN write_hist'[visible'[k].id].value ELSE DurableView(k)'
<1>1. IInv' => ReadsByCase'
  BY ReadValues, PTL
<1> QED
  BY <1>1 DEF ReadsByCase

\* Where no write of a key is queued, the durable store has its last one.
LEMMA DurableIsLast ==
  ASSUME IInv, NEW k \in Key, NEW id \in WriteId, LastWrite(id, k), id < Len(flushed)
  PROVE  durable[k].present /\ DurableView(k) = write_hist[id].value
<1>1. durable[k].present
  BY LogIndices DEF IInv, DurableIsLastFlushed, LastWrite
<1>2. durable[k].seq \in WriteId
  BY <1>1, PresentRecords DEF IInv, DurableValue
<1>3. /\ WroteKey(durable[k].seq, k)
      /\ durable[k] = Stored(write_hist[durable[k].seq].value, durable[k].seq)
      /\ id <= durable[k].seq
  BY <1>1 DEF IInv, DurableIsLastFlushed, LastWrite
<1>4. durable[k].seq = id
  BY <1>2, <1>3 DEF LastWrite
<1> QED
  BY <1>1, <1>3, <1>4 DEF DurableView, Stored

\* Under the inductive invariant the last write of a key is what its dirty entry
\* names, or, with no dirty entry, what the durable store has.
LEMMA IInvCoherent == IInv => ReadThroughCoherent
<1> SUFFICES ASSUME IInv, ~crashed, NEW k \in Key
             PROVE  \/ \A id \in WriteId : ~WroteKey(id, k) /\ ReadThrough(k) = NoValue
                    \/ \E id \in WriteId :
                         LastWrite(id, k) /\ ReadThrough(k) = write_hist[id].value
  BY DEF ReadThroughCoherent
<1>0. TypeOK
  BY DEF IInv
<1>1. CASE visible[k].kind = "Dirty"
  <2>1. visible[k].id \in WriteId /\ LastWrite(visible[k].id, k)
    BY <1>0, <1>1, RefKinds DEF IInv, VisibleDirtyIsLast
  <2> QED
    BY <1>1, <2>1, ReadValue
<1>2. CASE visible[k].kind # "Dirty" /\ durable[k].present
  <2>1. durable[k].seq \in WriteId /\ durable[k].seq < Len(flushed)
    BY <1>0, <1>2, PresentRecords DEF DurableValue, IInv, DurableIsLastFlushed
  <2>2. LastWrite(durable[k].seq, k)
    BY <1>2, LogIndices DEF IInv, DurableIsLastFlushed, QueuedIsVisible, LastWrite
  <2> QED
    BY <1>2, <2>1, <2>2, ReadValue, DurableIsLast
<1>3. CASE visible[k].kind # "Dirty" /\ ~durable[k].present
  <2>1. \A id \in WriteId : ~WroteKey(id, k)
    BY <1>3, LogIndices DEF IInv, DurableIsLastFlushed, QueuedIsVisible
  <2> QED
    BY <1>3, <2>1, ReadValue DEF DurableView
<1> QED
  BY <1>1, <1>2, <1>3

\* The conditions check_invariants reports on hold in every reachable state.
THEOREM ReportCorrect == Spec => []InvariantReportOk
BY Invariance, IInvReport, PTL

\* Reading through the cache returns the last write of the key.
THEOREM ReadsCoherent == Spec => []ReadThroughCoherent
BY Invariance, IInvCoherent, PTL

\* The log is every write once, in order; what is flushed is a prefix of it.
THEOREM LogCorrect == Spec => []LogIsWriteOrder
<1>1. IInv => LogIsWriteOrder
  BY DEF IInv
<1> QED
  BY <1>1, Invariance, PTL

(***************************************************************************)
(* The durable store only moves forward.                                   *)
(***************************************************************************)
\* A flush gives a key the oldest queued write, which is younger than the
\* flushed one the durable store has; no other step touches the store.
LEMMA StepNeverRegresses ==
  ASSUME IInv, [Next]_vars, NEW k \in Key, durable[k].present
  PROVE  durable'[k].present /\ durable'[k].seq >= durable[k].seq
<1>0. TypeOK
  BY DEF IInv
<1>1. durable[k].seq \in WriteId /\ durable[k].seq < Len(flushed)
  BY <1>0, PresentRecords DEF DurableValue, IInv, DurableIsLastFlushed
<1>2. CASE FlusherFlushNext
  <2> DEFINE id == NextToFlush
  <2>1. 1 \in DOMAIN dirty_q /\ id = dirty_q[1]
    BY <1>0, <1>2, LogIndices DEF FlusherFlushNext, NextToFlush, TypeOK
  <2>2. id = Len(flushed)
    BY <2>1, LogIndices
  <2>3. \/ durable'[k] = Stored(write_hist[id].value, id)
        \/ durable'[k] = durable[k]
    BY <1>0, <1>2 DEF FlusherFlushNext, TypeOK
  <2>4. Stored(write_hist[id].value, id).present /\ Stored(write_hist[id].value, id).seq = id
    BY DEF Stored
  <2>5. CASE durable'[k] = Stored(write_hist[id].value, id)
    BY <1>1, <2>2, <2>4, <2>5, LogIndices
  <2>6. CASE durable'[k] = durable[k]
    BY <1>1, <2>6
  <2> QED
    BY <2>3, <2>5, <2>6
<1>3. CASE UNCHANGED durable
  BY <1>1, <1>3
<1>4. UNCHANGED durable \/ FlusherFlushNext
  BY DEF Next, vars, WriterWrite, FlusherDrop, CacheInsert, CacheDropRecord,
         CacheCleanupVisible, ReaderStep, Crash
<1> QED
  BY <1>2, <1>3, <1>4

\* No step takes the durable store back to an older write of a key.
THEOREM DurableForward == Spec => DurableNeverRegresses
<1>1. IInv /\ [Next]_vars =>
        [\A k \in Key : durable[k].present =>
           /\ durable'[k].present
           /\ durable'[k].seq >= durable[k].seq]_vars
  BY StepNeverRegresses
<1> QED
  BY <1>1, Invariance, PTL DEF Spec, DurableNeverRegresses

(***************************************************************************)
(* The refinement of WriteBehind.                                          *)
(***************************************************************************)
\* The empty cache is the empty write-behind store.
LEMMA InitRefines == Init => WB!Init
<1> SUFFICES ASSUME Init PROVE WB!Init
  OBVIOUS
<1> USE DEF Init
<1>1. ASSUME NEW k \in Key PROVE DurableView(k) = NoValue /\ ReadThrough(k) = NoValue
  BY DEF DurableView, ReadThrough, Miss, NoRef, Absent
<1>2. currentView = [k \in Key |-> NoValue] /\ storedView = [k \in Key |-> NoValue]
  BY <1>1 DEF currentView, storedView
<1>3. backlogView = <<>>
  BY DEF backlogView
<1> QED
  BY <1>2, <1>3 DEF WB!Init

\* Where a step leaves the log, the history and the durable store alone, and
\* every read, WriteBehind stutters.
LEMMA Stutter ==
  ASSUME UNCHANGED <<write_hist, dirty_q, durable, crashed>>,
         \A k \in Key : ReadThrough(k)' = ReadThrough(k)
  PROVE  UNCHANGED WB!vars
<1>1. currentView' = currentView
  BY DEF currentView
<1>2. storedView' = storedView
  BY DEF storedView, DurableView
<1>3. backlogView' = backlogView
  BY DEF backlogView, AsWrite
<1> QED
  BY <1>1, <1>2, <1>3 DEF WB!vars

\* A write is a Put: its key reads as the new value, the other keys as before,
\* and the write is the newest of the backlog.
LEMMA WriteRefines ==
  ASSUME IInv, IInv', NEW k \in Key, NEW v \in Value, WriterWrite(k, v)
  PROVE  WB!Put(k, v)
<1> DEFINE n == next_write
<1> USE DEF WriterWrite
<1>0. TypeOK /\ ~crashed
  BY DEF IInv
<1>1. n \in WriteId /\ n \in Nat
  BY <1>0, MaxWriteAssumption DEF TypeOK
<1>2. /\ write_hist'[n] = Record(n, k, v)
      /\ \A id \in WriteId : id # n => write_hist'[id] = write_hist[id]
  BY <1>0, <1>1 DEF TypeOK
<1>3. storedView' = storedView
  BY DEF storedView, DurableView
<1>4. currentView' = [currentView EXCEPT ![k] = v]
  <2>1. ReadThrough(k)' = v
    <3>1. visible'[k] = DirtyRef(n)
      BY <1>0 DEF TypeOK
    <3>2. visible'[k].kind = "Dirty" /\ visible'[k].id = n
      BY <3>1 DEF DirtyRef
    <3>3. ReadThrough(k)' = write_hist'[n].value
      BY <3>2, ReadValuesAfter
    <3> QED
      BY <3>3, <1>2 DEF Record
  <2>2. ASSUME NEW j \in Key, j # k PROVE ReadThrough(j)' = ReadThrough(j)
    <3>1. visible'[j] = visible[j] /\ DurableView(j)' = DurableView(j)
      BY <1>0, <2>2 DEF TypeOK, DurableView
    <3>2. ReadThrough(j)' = IF visible'[j].kind = "Dirty"
                            THEN write_hist'[visible'[j].id].value ELSE DurableView(j)'
      BY ReadValuesAfter
    <3>3. visible[j].kind = "Dirty" => visible[j].id \in WriteId /\ visible[j].id # n
      <4>1. visible[j].kind = "Dirty" =>
              visible[j].id \in WriteId /\ write_hist[visible[j].id].present
        BY <1>0, RefKinds DEF IInv, VisibleDirtyIsLast, LastWrite, WroteKey
      <4>2. ~write_hist[n].present
        BY <1>1 DEF IInv, HistoryComplete
      <4> QED
        BY <4>1, <4>2
    <3>4. visible[j].kind = "Dirty" =>
            write_hist'[visible[j].id] = write_hist[visible[j].id]
      BY <1>2, <3>3
    <3> QED
      BY <3>1, <3>2, <3>4, ReadValue
  <2> QED
    BY <2>1, <2>2 DEF currentView
<1>5. backlogView' = Append(backlogView, [key |-> k, value |-> v])
  <2> DEFINE len == Len(dirty_q)
             w == [key |-> k, value |-> v]
  <2>1. /\ dirty_q \in Seq(WriteId) /\ len \in Nat
        /\ dirty_q' = Append(dirty_q, n)
    BY <1>0 DEF TypeOK, Queue
  <2>2. Len(dirty_q') = len + 1
    BY <1>1, <2>1
  <2>3. ASSUME NEW i \in 1 .. len + 1
        PROVE  AsWrite(dirty_q[i])' = IF i = len + 1 THEN w ELSE AsWrite(dirty_q[i])
    <3>1. CASE i = len + 1
      <4>1. dirty_q'[i] = n
        BY <1>1, <2>1, <3>1
      <4> QED
        BY <3>1, <4>1, <1>2 DEF AsWrite, Record
    <3>2. CASE i # len + 1
      <4>1. i \in DOMAIN dirty_q /\ dirty_q'[i] = dirty_q[i]
        BY <1>1, <2>1, <3>2
      <4>2. dirty_q[i] \in WriteId /\ dirty_q[i] # n
        BY <1>1, <4>1, LogIndices
      <4> QED
        BY <1>2, <3>2, <4>1, <4>2 DEF AsWrite
    <3> QED
      BY <3>1, <3>2
  <2>4. Append(backlogView, w) =
          [i \in 1 .. len + 1 |-> IF i = len + 1 THEN w ELSE backlogView[i]]
    BY <2>1 DEF backlogView
  <2>5. \A i \in 1 .. len + 1 : i # len + 1 => backlogView[i] = AsWrite(dirty_q[i])
    BY <2>1 DEF backlogView
  <2>6. backlogView' = [i \in 1 .. len + 1 |-> AsWrite(dirty_q[i])']
    BY <2>2 DEF backlogView
  <2> QED
    BY <2>3, <2>4, <2>5, <2>6
<1> QED
  BY <1>0, <1>3, <1>4, <1>5 DEF WB!Put

\* A flush makes the oldest write of the backlog durable and shows nowhere
\* else: a key with a queued write is read from its dirty record.
LEMMA FlushRefines ==
  ASSUME IInv, IInv', FlusherFlushNext
  PROVE  WB!Persist
<1> DEFINE id == NextToFlush
<1> USE DEF FlusherFlushNext
<1>0. TypeOK /\ ~crashed
  BY DEF IInv
<1>1. 1 \in DOMAIN dirty_q /\ id = dirty_q[1] /\ Len(dirty_q) \in Nat
  BY <1>0, LogIndices DEF NextToFlush, TypeOK
<1>2. id \in WriteId /\ id = Len(flushed) /\ write_hist[id].present
  BY <1>1, LogIndices
<1>3. write_hist[id].key \in Key /\ WroteKey(id, write_hist[id].key)
  BY <1>0, <1>2, PresentRecords DEF WroteKey, DirtyRecord
<1>4. Len(backlogView) = Len(dirty_q) /\ backlogView[1] = AsWrite(id)
  BY <1>1 DEF backlogView
<1>5. backlogView # <<>> /\ Head(backlogView) = AsWrite(id)
  BY <1>1, <1>4 DEF backlogView
<1>6. storedView' = [storedView EXCEPT ![AsWrite(id).key] = AsWrite(id).value]
  <2>1. \A k \in Key : durable'[k] = IF k = write_hist[id].key
                                     THEN Stored(write_hist[id].value, id) ELSE durable[k]
    BY <1>0 DEF TypeOK
  <2>2. \A k \in Key : DurableView(k)' = IF k = write_hist[id].key
                                         THEN write_hist[id].value ELSE DurableView(k)
    BY <2>1 DEF DurableView, Stored
  <2> QED
    BY <2>2, <1>3 DEF storedView, AsWrite
<1>7. backlogView' = Tail(backlogView)
  <2>1. /\ dirty_q \in Seq(WriteId)
        /\ dirty_q' = Tail(dirty_q)
        /\ Len(dirty_q') = Len(dirty_q) - 1
        /\ \A i \in 1 .. Len(dirty_q) - 1 : dirty_q'[i] = dirty_q[i + 1]
    BY <1>0, <1>1 DEF TypeOK
  <2>2. backlogView' = [i \in 1 .. Len(dirty_q) - 1 |-> AsWrite(dirty_q[i + 1])]
    BY <1>1, <2>1 DEF backlogView, AsWrite
  <2>3. Tail(backlogView) = [i \in 1 .. Len(dirty_q) - 1 |-> backlogView[i + 1]]
    BY <1>1, <1>4 DEF backlogView
  <2>4. \A i \in 1 .. Len(dirty_q) - 1 : backlogView[i + 1] = AsWrite(dirty_q[i + 1])
    BY <1>1 DEF backlogView
  <2> QED
    BY <2>2, <2>3, <2>4
<1>8. ASSUME NEW k \in Key PROVE ReadThrough(k)' = ReadThrough(k)
  <2>1. visible[k].kind # "Dirty" => k # write_hist[id].key
    BY <1>0, <1>2, <1>3 DEF IInv, QueuedIsVisible, TypeOK
  <2>2. k # write_hist[id].key => DurableView(k)' = DurableView(k)
    BY <1>0 DEF DurableView, TypeOK
  <2> QED
    BY <2>1, <2>2, ReadValue, ReadValuesAfter
<1>9. currentView' = currentView
  BY <1>8 DEF currentView
<1> QED
  BY <1>0, <1>5, <1>6, <1>7, <1>9 DEF WB!Persist

\* Dropping a flushed record moves the reader of its key to the durable
\* store, which has the same value.
LEMMA DropRefines ==
  ASSUME IInv, IInv', NEW id \in WriteId, FlusherDrop(id)
  PROVE  UNCHANGED WB!vars
<1> USE DEF FlusherDrop
<1>0. TypeOK
  BY DEF IInv
<1>1. id < Len(flushed)
  BY LogIndices DEF Droppable, Contains
<1>2. ASSUME NEW k \in Key PROVE ReadThrough(k)' = ReadThrough(k)
  <2>1. visible'[k] = IF visible[k] = DirtyRef(id) THEN NoRef ELSE visible[k]
    BY <1>0 DEF WithoutRef
  <2>2. DurableView(k)' = DurableView(k)
    BY DEF DurableView
  <2>3. CASE visible[k] = DirtyRef(id)
    <3>1. visible[k].kind = "Dirty" /\ visible[k].id = id
      BY <2>3 DEF DirtyRef
    <3>2. visible'[k].kind # "Dirty"
      BY <2>1, <2>3 DEF NoRef
    <3>3. LastWrite(id, k)
      BY <3>1 DEF IInv, VisibleDirtyIsLast
    <3>4. DurableView(k) = write_hist[id].value
      BY <1>1, <3>3, DurableIsLast
    <3> QED
      BY <2>2, <3>1, <3>2, <3>4, ReadValue, ReadValuesAfter
  <2>4. CASE visible[k] # DirtyRef(id)
    BY <2>1, <2>2, <2>4, ReadValue, ReadValuesAfter
  <2> QED
    BY <2>3, <2>4
<1> QED
  BY <1>2, Stutter

\* The steps on clean copies change no read: a clean copy has the durable value.
LEMMA CacheStepRefines ==
  ASSUME IInv, IInv',
         UNCHANGED <<write_hist, dirty_q, durable, crashed>>,
         \A k \in Key : \/ visible'[k] = visible[k]
                        \/ visible[k].kind # "Dirty" /\ visible'[k].kind # "Dirty"
  PROVE  UNCHANGED WB!vars
<1>1. ASSUME NEW k \in Key PROVE ReadThrough(k)' = ReadThrough(k)
  <2>1. DurableView(k)' = DurableView(k)
    BY DEF DurableView
  <2> QED
    BY <2>1, ReadValue, ReadValuesAfter
<1> QED
  BY <1>1, Stutter

\* Making a clean copy of a key nothing shows changes no read.
LEMMA InsertRefines ==
  ASSUME IInv, IInv', NEW k \in Key, CacheInsert(k)
  PROVE  UNCHANGED WB!vars
<1> USE DEF CacheInsert
<1>1. ASSUME NEW j \in Key
      PROVE  \/ visible'[j] = visible[j]
             \/ visible[j].kind # "Dirty" /\ visible'[j].kind # "Dirty"
  <2>1. visible'[j] = IF j = k THEN CleanRef(next_cache) ELSE visible[j]
    BY DEF IInv, TypeOK
  <2> QED
    BY <2>1 DEF Cacheable, NoRef, CleanRef
<1> QED
  BY <1>1, CacheStepRefines

\* Cleaning up a dangling clean reference changes no read.
LEMMA CleanupRefines ==
  ASSUME IInv, IInv', NEW id \in CacheId, CacheCleanupVisible(id)
  PROVE  UNCHANGED WB!vars
<1> USE DEF CacheCleanupVisible
<1>1. ASSUME NEW j \in Key
      PROVE  \/ visible'[j] = visible[j]
             \/ visible[j].kind # "Dirty" /\ visible'[j].kind # "Dirty"
  <2>1. visible'[j] = IF visible[j] = CleanRef(id) THEN NoRef ELSE visible[j]
    BY DEF WithoutRef
  <2> QED
    BY <2>1 DEF NoRef, CleanRef
<1> QED
  BY <1>1, CacheStepRefines

\* After a crash reads return what is durable.
LEMMA CrashRefines ==
  ASSUME IInv, IInv', Crash
  PROVE  WB!Crash
<1> USE DEF Crash
<1>1. ASSUME NEW k \in Key
      PROVE  DurableView(k)' = DurableView(k) /\ ReadThrough(k)' = DurableView(k)
  <2>1. DurableView(k)' = DurableView(k)
    BY DEF DurableView
  <2>2. visible'[k].kind # "Dirty"
    BY DEF NoRef
  <2> QED
    BY <2>1, <2>2, ReadValuesAfter
<1>2. storedView' = storedView /\ currentView' = storedView
  BY <1>1 DEF storedView, currentView
<1>3. backlogView' = <<>>
  BY DEF backlogView
<1> QED
  BY <1>2, <1>3 DEF WB!Crash

\* Every step of the core is a step of WriteBehind, or shows nothing there.
LEMMA StepRefines ==
  ASSUME IInv, IInv', [Next]_vars
  PROVE  [WB!Next]_WB!vars
<1>1. CASE \E k \in Key, v \in Value : WriterWrite(k, v)
  BY <1>1, WriteRefines DEF WB!Next
<1>2. CASE FlusherFlushNext
  BY <1>2, FlushRefines DEF WB!Next
<1>3. CASE \E id \in WriteId : FlusherDrop(id)
  BY <1>3, DropRefines
<1>4. CASE \E k \in Key : CacheInsert(k)
  BY <1>4, InsertRefines
<1>5. CASE \E id \in CacheId : CacheDropRecord(id)
  BY <1>5, CacheStepRefines DEF CacheDropRecord
<1>6. CASE \E id \in CacheId : CacheCleanupVisible(id)
  BY <1>6, CleanupRefines
<1>7. CASE \E k \in Key : ReaderStep(k)
  BY <1>7, CacheStepRefines DEF ReaderStep
<1>8. CASE Crash
  BY <1>8, CrashRefines DEF WB!Next
<1>9. CASE UNCHANGED vars
  BY <1>9, CacheStepRefines DEF vars
<1> QED
  BY <1>1, <1>2, <1>3, <1>4, <1>5, <1>6, <1>7, <1>8, <1>9 DEF Next

\* The core is a write-behind store: its cache, its drops and its evictions
\* show nowhere, whatever the number of keys, values and ids.
THEOREM Refinement == Spec => ImplementsWriteBehind
<1>1. IInv /\ IInv' /\ [Next]_vars => [WB!Next]_WB!vars
  BY StepRefines
<1> QED
  BY <1>1, InitRefines, Invariance, PTL DEF Spec, ImplementsWriteBehind, WB!Spec
(***************************************************************************)
(* The comparison form: its maps are keyed by the ids that records carry,  *)
(* those of a trace state by their places.                                 *)
(***************************************************************************)

\* A record of the clean cache is at the place of its id.
CacheAtPlace ==
  \A id \in CacheId : cache_store[id].present => cache_store[id].id = id

\* The core begins with no cache records.
LEMMA InitPlaces == Init => CacheAtPlace
BY DEF Init, CacheAtPlace, Absent

\* Every step leaves it there.
LEMMA NextPlaces == TypeOK /\ CacheAtPlace /\ [Next]_vars => CacheAtPlace'
<1> SUFFICES ASSUME TypeOK, CacheAtPlace, [Next]_vars PROVE CacheAtPlace'
  OBVIOUS
<1>0. cache_store \in [CacheId -> CleanRecord \cup {Absent}]
  BY DEF TypeOK
<1>1. CASE \E k \in Key : CacheInsert(k)
  <2>1. PICK k \in Key : cache_store' = [cache_store EXCEPT ![next_cache] =
                            Record(next_cache, k, durable[k].value)]
    BY <1>1 DEF CacheInsert
  <2> QED
    BY <1>0, <2>1 DEF CacheAtPlace, Record
<1>2. CASE \E id \in CacheId : CacheDropRecord(id)
  <2>1. PICK id \in CacheId : cache_store' = [cache_store EXCEPT ![id] = Absent]
    BY <1>2 DEF CacheDropRecord
  <2> QED
    BY <1>0, <2>1 DEF CacheAtPlace, Absent
<1>3. CASE Crash
  BY <1>3 DEF Crash, CacheAtPlace, Absent
<1>4. CASE UNCHANGED cache_store
  BY <1>4 DEF CacheAtPlace
<1> QED
  BY <1>1, <1>2, <1>3, <1>4 DEF Next, vars, WriterWrite, FlusherFlushNext, FlusherDrop,
     CacheCleanupVisible, ReaderStep

\* So it is in every reachable state.
LEMMA CachePlaces == Spec => []CacheAtPlace
BY InitPlaces, NextPlaces, TypeCorrect, PTL DEF Spec

\* The records of a store, at their places.
Placed(store) == [i \in Slots(store) |-> store[i]]

\* Where records are at the places of their ids, a map by id is one by place.
LEMMA ByIdIsByPlace ==
  ASSUME NEW store, DOMAIN store \subseteq Int,
         \A i \in DOMAIN store : store[i].present => store[i].id = i
  PROVE  ByRecordId(store) = Placed(store)
<1>1. {store[i].id : i \in Slots(store)} = Slots(store)
  BY DEF Slots
<1>2. ASSUME NEW id \in Slots(store)
      PROVE  Max({i \in Slots(store) : store[i].id = id}) = id
  <2>1. {i \in Slots(store) : store[i].id = id} = {id} /\ id \in Int
    BY <1>2 DEF Slots
  <2>2. Max({id}) = id
    BY <2>1 DEF Max
  <2> QED
    BY <2>1, <2>2
<1>3. ByRecordId(store)
        = [id \in Slots(store) |-> store[Max({i \in Slots(store) : store[i].id = id})]]
  BY <1>1 DEF ByRecordId
<1> QED
  BY <1>2, <1>3 DEF Placed

\* A store is what its map by place and the absence elsewhere make of it.
LEMMA RecordsComeBack ==
  ASSUME NEW R, NEW D, NEW store \in [D -> R \cup {Absent}],
         \A record \in R : record.present = TRUE
  PROVE  RecordsBack(Placed(store), D) = store
<1>1. /\ DOMAIN Placed(store) = Slots(store)
      /\ \A i \in Slots(store) : Placed(store)[i] = store[i]
  BY DEF Placed
<1>2. ASSUME NEW i \in D, i \notin Slots(store) PROVE store[i] = Absent
  BY <1>2 DEF Slots
<1>3. ASSUME NEW i \in D
      PROVE  (IF i \in Slots(store) THEN Placed(store)[i] ELSE Absent) = store[i]
  BY <1>1, <1>2
<1> QED
  BY <1>1, <1>3 DEF RecordsBack

\* What the three stores keep where.
LEMMA StoresByPlace ==
  ASSUME IInv, CacheAtPlace
  PROVE  /\ ByRecordId(write_store) = Placed(write_store)
         /\ ByRecordId(write_hist) = Placed(write_hist)
         /\ ByRecordId(cache_store) = Placed(cache_store)
<1>1. /\ DOMAIN write_store = WriteId /\ DOMAIN write_hist = WriteId
      /\ DOMAIN cache_store = CacheId
  BY DEF IInv, TypeOK
<1>2. \A id \in WriteId : write_hist[id].present => write_hist[id].id = id
  BY DEF IInv, HistoryComplete
<1>3. \A id \in WriteId : write_store[id].present => write_store[id].id = id
  BY <1>2 DEF IInv, StoreAgreesWithHistory
<1>4. ByRecordId(write_store) = Placed(write_store)
  <2>1. DOMAIN write_store \subseteq Int
    BY <1>1
  <2>2. \A i \in DOMAIN write_store : write_store[i].present => write_store[i].id = i
    BY <1>1, <1>3
  <2> QED
    BY <2>1, <2>2, ByIdIsByPlace
<1>5. ByRecordId(write_hist) = Placed(write_hist)
  <2>1. DOMAIN write_hist \subseteq Int
    BY <1>1
  <2>2. \A i \in DOMAIN write_hist : write_hist[i].present => write_hist[i].id = i
    BY <1>1, <1>2
  <2> QED
    BY <2>1, <2>2, ByIdIsByPlace
<1>6. ByRecordId(cache_store) = Placed(cache_store)
  <2>1. DOMAIN cache_store \subseteq Int
    BY <1>1
  <2>2. \A i \in DOMAIN cache_store : cache_store[i].present => cache_store[i].id = i
    BY <1>1 DEF CacheAtPlace
  <2> QED
    BY <2>1, <2>2, ByIdIsByPlace
<1> QED
  BY <1>4, <1>5, <1>6

\* Two states that differ anywhere never compare equal.
THEOREM Exact == Spec => []ComparisonIsExact
<1>1. IInv /\ CacheAtPlace => ComparisonIsExact
  <2> SUFFICES ASSUME IInv, CacheAtPlace PROVE ComparisonIsExact
    OBVIOUS
  <2>0. TypeOK
    BY DEF IInv
  <2>1. visible = [k \in Key |-> IF k \in DOMAIN VisibleByKey(visible)
                                 THEN VisibleByKey(visible)[k] ELSE NoRef]
    BY <2>0 DEF TypeOK, VisibleByKey
  <2>2. /\ write_store = RecordsBack(ByRecordId(write_store), WriteId)
        /\ write_hist = RecordsBack(ByRecordId(write_hist), WriteId)
        /\ cache_store = RecordsBack(ByRecordId(cache_store), CacheId)
    <3>1. /\ \A record \in DirtyRecord : record.present = TRUE
          /\ \A record \in CleanRecord : record.present = TRUE
      BY DEF DirtyRecord, CleanRecord
    <3> QED
      BY <2>0, <3>1, StoresByPlace, RecordsComeBack DEF TypeOK
  <2>3. durable = [k \in Key |-> IF k \in DOMAIN DurableByKey(durable)
                                 THEN Stored(DurableByKey(durable)[k].value,
                                             DurableByKey(durable)[k].seq)
                                 ELSE Absent]
    <3>1. DOMAIN DurableByKey(durable) = Slots(durable)
      BY DEF DurableByKey
    <3>2. ASSUME NEW k \in Key, durable[k].present
          PROVE  Stored(DurableByKey(durable)[k].value, DurableByKey(durable)[k].seq)
                   = durable[k]
      <4>1. k \in Slots(durable) /\ durable[k] \in DurableValue
        BY <2>0, <3>2 DEF TypeOK, Slots, Absent
      <4>2. DurableByKey(durable)[k] = [key |-> k, value |-> durable[k].value,
                                        seq |-> durable[k].seq]
        BY <4>1 DEF DurableByKey
      <4>3. durable[k] = [present |-> TRUE, value |-> durable[k].value,
                          seq |-> durable[k].seq]
        BY <4>1 DEF DurableValue
      <4>4. /\ DurableByKey(durable)[k].value = durable[k].value
            /\ DurableByKey(durable)[k].seq = durable[k].seq
        BY <4>2
      <4> QED
        BY <4>3, <4>4 DEF Stored
    <3>3. ASSUME NEW k \in Key, ~durable[k].present PROVE durable[k] = Absent
      BY <2>0, <3>3 DEF TypeOK, DurableValue
    <3>4. \A k \in Key : k \in Slots(durable) <=> durable[k].present
      BY <2>0 DEF TypeOK, Slots
    <3> QED
      BY <2>0, <3>1, <3>2, <3>3, <3>4 DEF TypeOK
  <2>4. \A id \in WriteId : created_dirty[id] <=> id \in {j \in WriteId : created_dirty[j]}
    OBVIOUS
  <2> QED
    BY <2>1, <2>2, <2>3, <2>4 DEF ComparisonIsExact, Comparable
<1> QED
  BY <1>1, Invariance, CachePlaces, PTL

(***************************************************************************)
(* The two replays of a log.  Both are functions defined step by step, and *)
(* what such a function computes is shown by induction over the length of  *)
(* the log.  The induction theorems of the library take the hypothesis as  *)
(* an operator; SetInduction takes it as a set, and finds the least number *)
(* that is not in it.                                                      *)
(***************************************************************************)

\* Induction over the naturals, without an operator for the hypothesis: a set
\* that has 0 and the successor of each of its elements has every one.
LEMMA SetInduction ==
  ASSUME NEW S, 0 \in S, \A n \in Nat : n \in S => n + 1 \in S
  PROVE  Nat \subseteq S
<1> DEFINE T == Nat \ S
           Less == OpToRel(<, Nat)
<1>1. IsWellFoundedOn(Less, Nat)
  BY Zenon, NatLessThanWellFounded
<1> SUFFICES ASSUME T # {} PROVE FALSE
  OBVIOUS
<1>2. T \subseteq Nat
  OBVIOUS
<1> HIDE DEF T, Less
<1>3. PICK n \in T : \A m \in T : ~(<<m, n>> \in Less)
  BY <1>1, <1>2, WFMin
<1>4. \A m \in T : ~(m < n)
  BY <1>2, <1>3 DEF Less, OpToRel
<1>5. n # 0 /\ n \in Nat /\ n \notin S
  BY <1>3 DEF T
<1>6. n - 1 \in Nat /\ n - 1 < n /\ (n - 1) + 1 = n
  BY <1>5
<1>7. n - 1 \notin T
  BY <1>4, <1>6, <1>2
<1>8. n - 1 \in S
  BY <1>6, <1>7 DEF T
<1> QED
  BY <1>5, <1>6, <1>8

\* The replay of a log is a function defined step by step.
LEMMA ReplayExists ==
  ASSUME NEW ids \in Seq(WriteId)
  PROVE  \E step :
           /\ Replayed(ids) = step[Len(ids)]
           /\ step = [n \in 0 .. Len(ids) |->
                        IF n = 0 THEN [k \in Key |-> Absent]
                        ELSE IF write_hist[ids[n]].present
                             THEN [step[n - 1] EXCEPT ![write_hist[ids[n]].key] =
                                     Stored(write_hist[ids[n]].value, ids[n])]
                             ELSE step[n - 1]]
<1> DEFINE Val(g, n) ==
             IF n = 0 THEN [k \in Key |-> Absent]
             ELSE IF write_hist[ids[n]].present
                  THEN [g[n - 1] EXCEPT ![write_hist[ids[n]].key] =
                          Stored(write_hist[ids[n]].value, ids[n])]
                  ELSE g[n - 1]
           Upto(g, m) == g = [n \in 0 .. m |-> Val(g, n)]
           S == {m \in Nat : \E g : Upto(g, m)}
<1>1. 0 \in S
  <2> DEFINE g == [n \in 0 .. 0 |-> [k \in Key |-> Absent]]
  <2>1. g = [n \in 0 .. 0 |-> Val(g, n)]
    OBVIOUS
  <2> QED
    BY <2>1
<1>2. ASSUME NEW m \in Nat, m \in S PROVE m + 1 \in S
  <2>1. PICK g : Upto(g, m)
    BY <1>2
  <2>2. \A n \in 0 .. m : g[n] = Val(g, n)
    <3> HIDE DEF Val
    <3>1. g = [n \in 0 .. m |-> Val(g, n)]
      BY <2>1
    <3> DEFINE body == [n \in 0 .. m |-> Val(g, n)]
    <3>2. \A n \in 0 .. m : body[n] = Val(g, n)
      OBVIOUS
    <3>3. g = body
      BY <3>1
    <3> HIDE DEF body
    <3> QED
      BY <3>2, <3>3
  <2> HIDE DEF Upto, S
  <2> DEFINE h == [n \in 0 .. m + 1 |-> IF n = m + 1 THEN Val(g, n) ELSE g[n]]
  <2>3. \A n \in 0 .. m : h[n] = g[n]
    <3> HIDE DEF Val
    <3> QED
      OBVIOUS
  <2>4. h[m + 1] = Val(g, m + 1)
    <3> HIDE DEF Val
    <3> QED
      OBVIOUS
  <2>5. h = [n \in 0 .. m + 1 |-> h[n]]
    <3> HIDE DEF Val
    <3> QED
      OBVIOUS
  <2> HIDE DEF h
  <2>6. ASSUME NEW n \in 0 .. m + 1 PROVE Val(g, n) = Val(h, n)
    <3>1. n = 0 \/ (n - 1 \in 0 .. m /\ h[n - 1] = g[n - 1])
      BY <2>3
    <3> QED
      BY <3>1 DEF Val
  <2> HIDE DEF Val
  <2>7. \A n \in 0 .. m + 1 : h[n] = Val(h, n)
    BY <2>2, <2>3, <2>4, <2>6
  <2>8. [n \in 0 .. m + 1 |-> h[n]] = [n \in 0 .. m + 1 |-> Val(h, n)]
    BY <2>7
  <2>9. Upto(h, m + 1)
    BY <2>5, <2>8 DEF Upto
  <2> QED
    BY <2>9 DEF S
<1>3. Len(ids) \in S
  <2> HIDE DEF S
  <2>1. Nat \subseteq S
    BY <1>1, <1>2, SetInduction
  <2> QED
    BY <2>1
<1>4. \E g : Upto(g, Len(ids))
  BY <1>3
<1> DEFINE step == CHOOSE g : Upto(g, Len(ids))
<1>5. Upto(step, Len(ids))
  <2> HIDE DEF Upto
  <2> QED
    BY <1>4
<1>6. Replayed(ids) = step[Len(ids)]
  BY DEF Replayed
<1> HIDE DEF step
<1> QED
  BY <1>5, <1>6

\* The search of a log from its end is a function defined step by step too.
LEMMA SearchExists ==
  ASSUME NEW ids \in Seq(WriteId), NEW k \in Key
  PROVE  \E from :
           /\ apply_flushed_at(ids, k) = from[Len(ids)]
           /\ from = [n \in 0 .. Len(ids) |->
                        IF n = 0 THEN Absent
                        ELSE IF FlushesKey(ids, n, k)
                             THEN Stored(write_hist[ids[n]].value, ids[n])
                             ELSE from[n - 1]]
<1> DEFINE Val(g, n) ==
             IF n = 0 THEN Absent
             ELSE IF FlushesKey(ids, n, k)
                  THEN Stored(write_hist[ids[n]].value, ids[n])
                  ELSE g[n - 1]
           Upto(g, m) == g = [n \in 0 .. m |-> Val(g, n)]
           S == {m \in Nat : \E g : Upto(g, m)}
<1>1. 0 \in S
  <2> DEFINE g == [n \in 0 .. 0 |-> Absent]
  <2>1. g = [n \in 0 .. 0 |-> Val(g, n)]
    OBVIOUS
  <2> QED
    BY <2>1
<1>2. ASSUME NEW m \in Nat, m \in S PROVE m + 1 \in S
  <2>1. PICK g : Upto(g, m)
    BY <1>2
  <2>2. \A n \in 0 .. m : g[n] = Val(g, n)
    <3> HIDE DEF Val
    <3>1. g = [n \in 0 .. m |-> Val(g, n)]
      BY <2>1
    <3> DEFINE body == [n \in 0 .. m |-> Val(g, n)]
    <3>2. \A n \in 0 .. m : body[n] = Val(g, n)
      OBVIOUS
    <3>3. g = body
      BY <3>1
    <3> HIDE DEF body
    <3> QED
      BY <3>2, <3>3
  <2> HIDE DEF Upto, S
  <2> DEFINE h == [n \in 0 .. m + 1 |-> IF n = m + 1 THEN Val(g, n) ELSE g[n]]
  <2>3. \A n \in 0 .. m : h[n] = g[n]
    <3> HIDE DEF Val
    <3> QED
      OBVIOUS
  <2>4. h[m + 1] = Val(g, m + 1)
    <3> HIDE DEF Val
    <3> QED
      OBVIOUS
  <2>5. h = [n \in 0 .. m + 1 |-> h[n]]
    <3> HIDE DEF Val
    <3> QED
      OBVIOUS
  <2> HIDE DEF h
  <2>6. ASSUME NEW n \in 0 .. m + 1 PROVE Val(g, n) = Val(h, n)
    <3>1. n = 0 \/ (n - 1 \in 0 .. m /\ h[n - 1] = g[n - 1])
      BY <2>3
    <3> QED
      BY <3>1 DEF Val
  <2> HIDE DEF Val
  <2>7. \A n \in 0 .. m + 1 : h[n] = Val(h, n)
    BY <2>2, <2>3, <2>4, <2>6
  <2>8. [n \in 0 .. m + 1 |-> h[n]] = [n \in 0 .. m + 1 |-> Val(h, n)]
    BY <2>7
  <2>9. Upto(h, m + 1)
    BY <2>5, <2>8 DEF Upto
  <2> QED
    BY <2>9 DEF S
<1>3. Len(ids) \in S
  <2> HIDE DEF S
  <2>1. Nat \subseteq S
    BY <1>1, <1>2, SetInduction
  <2> QED
    BY <2>1
<1>4. \E g : Upto(g, Len(ids))
  BY <1>3
<1> DEFINE from == CHOOSE g : Upto(g, Len(ids))
<1>5. Upto(from, Len(ids))
  <2> HIDE DEF Upto
  <2> QED
    BY <1>4
<1>6. apply_flushed_at(ids, k) = from[Len(ids)]
  BY DEF apply_flushed_at
<1> HIDE DEF from
<1> QED
  BY <1>5, <1>6

\* The replay leaves at every key the last record of the key in the log.
LEMMA ReplayApplies ==
  ASSUME NEW ids \in Seq(WriteId),
         write_hist \in [WriteId -> DirtyRecord \cup {Absent}]
  PROVE  /\ Replayed(ids) \in [Key -> DurableValue \cup {Absent}]
         /\ \A k \in Key : AppliedTo(ids, k, Replayed(ids)[k])
<1>1. PICK step :
        /\ Replayed(ids) = step[Len(ids)]
        /\ step = [n \in 0 .. Len(ids) |->
                     IF n = 0 THEN [x \in Key |-> Absent]
                     ELSE IF write_hist[ids[n]].present
                          THEN [step[n - 1] EXCEPT ![write_hist[ids[n]].key] =
                                  Stored(write_hist[ids[n]].value, ids[n])]
                          ELSE step[n - 1]]
  BY ReplayExists
<1> DEFINE Last(n, k, stored) ==
             \/ stored = Absent /\ \A i \in 1 .. n : ~FlushesKey(ids, i, k)
             \/ \E i \in 1 .. n :
                  /\ FlushesKey(ids, i, k)
                  /\ \A j \in 1 .. n : j > i => ~FlushesKey(ids, j, k)
                  /\ stored = Stored(write_hist[ids[i]].value, ids[i])
           S == {n \in Nat : n <= Len(ids) =>
                   /\ step[n] \in [Key -> DurableValue \cup {Absent}]
                   /\ \A k \in Key : Last(n, k, step[n][k])}
<1>2. step[0] = [x \in Key |-> Absent]
  BY <1>1
<1>3. ASSUME NEW n \in 1 .. Len(ids)
      PROVE  step[n] = IF write_hist[ids[n]].present
                       THEN [step[n - 1] EXCEPT ![write_hist[ids[n]].key] =
                               Stored(write_hist[ids[n]].value, ids[n])]
                       ELSE step[n - 1]
  <2> DEFINE Val(g, m) ==
               IF m = 0 THEN [x \in Key |-> Absent]
               ELSE IF write_hist[ids[m]].present
                    THEN [g[m - 1] EXCEPT ![write_hist[ids[m]].key] =
                            Stored(write_hist[ids[m]].value, ids[m])]
                    ELSE g[m - 1]
             body == [m \in 0 .. Len(ids) |-> Val(step, m)]
  <2>1. step = body
    BY <1>1
  <2>2. body[n] = Val(step, n)
    <3> HIDE DEF Val
    <3> QED
      OBVIOUS
  <2>3. step[n] = Val(step, n)
    <3> HIDE DEF Val, body
    <3> QED
      BY <2>1, <2>2
  <2> QED
    BY <2>3
<1>4. 0 \in S
  <2>1. step[0] \in [Key -> DurableValue \cup {Absent}]
    BY <1>2
  <2>2. \A k \in Key : Last(0, k, step[0][k])
    BY <1>2
  <2> HIDE DEF Last
  <2> QED
    BY <2>1, <2>2
<1>5. ASSUME NEW m \in Nat, m \in S PROVE m + 1 \in S
  <2> SUFFICES ASSUME m + 1 <= Len(ids)
               PROVE  /\ step[m + 1] \in [Key -> DurableValue \cup {Absent}]
                      /\ \A k \in Key : Last(m + 1, k, step[m + 1][k])
    OBVIOUS
  <2>1. m + 1 \in 1 .. Len(ids) /\ (m + 1) - 1 = m /\ m <= Len(ids)
    OBVIOUS
  <2>2. /\ step[m] \in [Key -> DurableValue \cup {Absent}]
        /\ \A k \in Key : Last(m, k, step[m][k])
    BY <1>5, <2>1
  <2> DEFINE record == write_hist[ids[m + 1]]
  <2>3. ids[m + 1] \in WriteId /\ record \in DirtyRecord \cup {Absent}
    <3> HIDE DEF WriteId
    <3>1. ids[m + 1] \in WriteId
      BY <2>1
    <3> QED
      BY <3>1
  <2>4. step[m + 1] = IF record.present
                      THEN [step[m] EXCEPT ![record.key] = Stored(record.value, ids[m + 1])]
                      ELSE step[m]
    BY <1>3, <2>1
  <2> HIDE DEF Last, S
  <2>5. step[m + 1] \in [Key -> DurableValue \cup {Absent}]
    <3>1. ASSUME record.present
          PROVE  Stored(record.value, ids[m + 1]) \in DurableValue
      <4>1. record \in DirtyRecord
        <5> HIDE DEF record
        <5> QED
          BY <2>3, <3>1 DEF Absent
      <4>2. record.value \in Value
        BY <4>1 DEF DirtyRecord
      <4> QED
        BY <2>3, <4>2 DEF DurableValue, Stored
    <3> HIDE DEF record
    <3> QED
      BY <2>2, <2>4, <3>1
  <2>6. ASSUME NEW k \in Key, FlushesKey(ids, m + 1, k)
        PROVE  Last(m + 1, k, step[m + 1][k])
    <3>1. step[m + 1][k] = Stored(record.value, ids[m + 1])
      BY <2>2, <2>4, <2>6 DEF FlushesKey
    <3>2. \A j \in 1 .. m + 1 : ~(j > m + 1)
      OBVIOUS
    <3> QED
      BY <2>1, <2>6, <3>1, <3>2 DEF Last
  <2>7. ASSUME NEW k \in Key, ~FlushesKey(ids, m + 1, k)
        PROVE  Last(m + 1, k, step[m + 1][k])
    <3>1. step[m + 1][k] = step[m][k]
      BY <2>2, <2>4, <2>7 DEF FlushesKey
    <3>2. \A j \in 1 .. m + 1 : j \in 1 .. m \/ j = m + 1
      OBVIOUS
    <3>3. CASE step[m][k] = Absent /\ \A i \in 1 .. m : ~FlushesKey(ids, i, k)
      BY <2>7, <3>1, <3>2, <3>3 DEF Last
    <3>4. CASE \E i \in 1 .. m :
                 /\ FlushesKey(ids, i, k)
                 /\ \A j \in 1 .. m : j > i => ~FlushesKey(ids, j, k)
                 /\ step[m][k] = Stored(write_hist[ids[i]].value, ids[i])
      <4>1. PICK i \in 1 .. m :
                 /\ FlushesKey(ids, i, k)
                 /\ \A j \in 1 .. m : j > i => ~FlushesKey(ids, j, k)
                 /\ step[m][k] = Stored(write_hist[ids[i]].value, ids[i])
        BY <3>4
      <4>2. i \in 1 .. m + 1
        OBVIOUS
      <4> QED
        BY <2>7, <3>1, <3>2, <4>1, <4>2 DEF Last
    <3> QED
      BY <2>2, <3>3, <3>4 DEF Last
  <2> QED
    BY <2>5, <2>6, <2>7
<1>6. Len(ids) \in S
  <2> HIDE DEF S
  <2>1. Nat \subseteq S
    BY <1>4, <1>5, SetInduction
  <2> QED
    BY <2>1
<1>7. /\ step[Len(ids)] \in [Key -> DurableValue \cup {Absent}]
      /\ \A k \in Key : Last(Len(ids), k, step[Len(ids)][k])
  BY <1>6
<1>8. DOMAIN ids = 1 .. Len(ids)
  OBVIOUS
<1> QED
  BY <1>1, <1>7, <1>8 DEF AppliedTo

\* So does the search from the end of the log, key by key.
LEMMA SearchApplies ==
  ASSUME NEW ids \in Seq(WriteId), NEW k \in Key
  PROVE  AppliedTo(ids, k, apply_flushed_at(ids, k))
<1>1. PICK from :
        /\ apply_flushed_at(ids, k) = from[Len(ids)]
        /\ from = [n \in 0 .. Len(ids) |->
                     IF n = 0 THEN Absent
                     ELSE IF FlushesKey(ids, n, k)
                          THEN Stored(write_hist[ids[n]].value, ids[n])
                          ELSE from[n - 1]]
  BY SearchExists
<1> DEFINE Last(n, stored) ==
             \/ stored = Absent /\ \A i \in 1 .. n : ~FlushesKey(ids, i, k)
             \/ \E i \in 1 .. n :
                  /\ FlushesKey(ids, i, k)
                  /\ \A j \in 1 .. n : j > i => ~FlushesKey(ids, j, k)
                  /\ stored = Stored(write_hist[ids[i]].value, ids[i])
           S == {n \in Nat : n <= Len(ids) => Last(n, from[n])}
<1>2. from[0] = Absent
  BY <1>1
<1>3. ASSUME NEW n \in 1 .. Len(ids)
      PROVE  from[n] = IF FlushesKey(ids, n, k)
                       THEN Stored(write_hist[ids[n]].value, ids[n])
                       ELSE from[n - 1]
  BY <1>1
<1>4. 0 \in S
  BY <1>2
<1>5. ASSUME NEW m \in Nat, m \in S PROVE m + 1 \in S
  <2> SUFFICES ASSUME m + 1 <= Len(ids)
               PROVE  Last(m + 1, from[m + 1])
    OBVIOUS
  <2>1. m + 1 \in 1 .. Len(ids) /\ (m + 1) - 1 = m /\ m <= Len(ids)
    OBVIOUS
  <2>2. Last(m, from[m])
    BY <1>5, <2>1
  <2>3. from[m + 1] = IF FlushesKey(ids, m + 1, k)
                      THEN Stored(write_hist[ids[m + 1]].value, ids[m + 1])
                      ELSE from[m]
    BY <1>3, <2>1
  <2> HIDE DEF Last, S
  <2>4. CASE FlushesKey(ids, m + 1, k)
    <3>1. \A j \in 1 .. m + 1 : ~(j > m + 1)
      OBVIOUS
    <3> QED
      BY <2>1, <2>3, <2>4, <3>1 DEF Last
  <2>5. CASE ~FlushesKey(ids, m + 1, k)
    <3>1. from[m + 1] = from[m]
      BY <2>3, <2>5
    <3>2. \A j \in 1 .. m + 1 : j \in 1 .. m \/ j = m + 1
      OBVIOUS
    <3>3. CASE from[m] = Absent /\ \A i \in 1 .. m : ~FlushesKey(ids, i, k)
      BY <2>5, <3>1, <3>2, <3>3 DEF Last
    <3>4. CASE \E i \in 1 .. m :
                 /\ FlushesKey(ids, i, k)
                 /\ \A j \in 1 .. m : j > i => ~FlushesKey(ids, j, k)
                 /\ from[m] = Stored(write_hist[ids[i]].value, ids[i])
      <4>1. PICK i \in 1 .. m :
                 /\ FlushesKey(ids, i, k)
                 /\ \A j \in 1 .. m : j > i => ~FlushesKey(ids, j, k)
                 /\ from[m] = Stored(write_hist[ids[i]].value, ids[i])
        BY <3>4
      <4>2. i \in 1 .. m + 1
        OBVIOUS
      <4> QED
        BY <2>5, <3>1, <3>2, <4>1, <4>2 DEF Last
    <3> QED
      BY <2>2, <3>3, <3>4 DEF Last
  <2> QED
    BY <2>4, <2>5
<1>6. Len(ids) \in S
  <2> HIDE DEF S
  <2>1. Nat \subseteq S
    BY <1>4, <1>5, SetInduction
  <2> QED
    BY <2>1
<1>7. Last(Len(ids), from[Len(ids)])
  BY <1>6
<1>8. DOMAIN ids = 1 .. Len(ids)
  OBVIOUS
<1> QED
  BY <1>1, <1>7, <1>8 DEF AppliedTo

\* There is one record a log leaves at a key.
LEMMA AppliedUnique ==
  ASSUME NEW ids \in Seq(WriteId), NEW k \in Key, NEW a, NEW b,
         AppliedTo(ids, k, a), AppliedTo(ids, k, b)
  PROVE  a = b
<1>1. DOMAIN ids = 1 .. Len(ids)
  OBVIOUS
<1>2. CASE \A i \in DOMAIN ids : ~FlushesKey(ids, i, k)
  BY <1>2 DEF AppliedTo
<1>3. CASE \E i \in DOMAIN ids : FlushesKey(ids, i, k)
  <2>1. PICK i \in DOMAIN ids :
          /\ FlushesKey(ids, i, k)
          /\ \A j \in DOMAIN ids : j > i => ~FlushesKey(ids, j, k)
          /\ a = Stored(write_hist[ids[i]].value, ids[i])
    BY <1>3 DEF AppliedTo
  <2>2. PICK j \in DOMAIN ids :
          /\ FlushesKey(ids, j, k)
          /\ \A n \in DOMAIN ids : n > j => ~FlushesKey(ids, n, k)
          /\ b = Stored(write_hist[ids[j]].value, ids[j])
    BY <1>3 DEF AppliedTo
  <2>3. i = j
    BY <1>1, <2>1, <2>2
  <2> QED
    BY <2>1, <2>2, <2>3
<1> QED
  BY <1>2, <1>3

\* In every state that has the invariant, the durable store is a replay of the
\* flushed ids, and both replays of either log are the same.
LEMMA IInvReplays == IInv => ReplaysAgree
<1> SUFFICES ASSUME IInv PROVE ReplaysAgree
  OBVIOUS
<1>1. /\ write_hist \in [WriteId -> DirtyRecord \cup {Absent}]
      /\ flushed \in Seq(WriteId) /\ dirty_q \in Seq(WriteId)
      /\ durable \in [Key -> DurableValue \cup {Absent}]
  BY DEF IInv, TypeOK
<1>2. \A ids \in Seq(WriteId) : \A k \in Key :
        apply_flushed_at(ids, k) = Replayed(ids)[k]
  BY <1>1, ReplayApplies, SearchApplies, AppliedUnique
<1>3. flushed \o dirty_q \in Seq(WriteId)
  BY <1>1
<1>4. \A k \in Key : AppliedTo(flushed, k, durable[k])
  BY IInvReport DEF InvariantReportOk, DurableMatchesFlushed
<1>5. \A k \in Key : durable[k] = Replayed(flushed)[k]
  BY <1>1, <1>4, ReplayApplies, AppliedUnique
<1>6. Replayed(flushed) \in [Key -> DurableValue \cup {Absent}]
  BY <1>1, ReplayApplies
<1>7. durable = Replayed(flushed)
  BY <1>1, <1>5, <1>6
<1> QED
  BY <1>1, <1>2, <1>3, <1>7 DEF ReplaysAgree

\* durable_replay_equivalence: in every reachable state the durable store is
\* what replaying the flushed ids builds, from either end of the log.
THEOREM ReplaysEqual == Spec => []ReplaysAgree
BY Invariance, IInvReplays, PTL
=============================================================================
