------------------------- MODULE DirtyLogMutexProofs -------------------------
(***************************************************************************)
(* Proofs about the loom build of the dirty log, for any threads, limits   *)
(* and bound: the order of the log, that a stale mark retires nothing, and *)
(* the refinement of OrderedLog.                                           *)
(***************************************************************************)
EXTENDS DirtyLogMutex, ProofLemmas

\* The batch in flight is none, or a batch that is not empty.
LEMMA InflightKinds ==
  ASSUME TypeOK
  PROVE  \/ ~inflight.some /\ inflight = NoBatch /\ Entries(inflight) = <<>>
         \/ /\ inflight.some /\ inflight # NoBatch
            /\ inflight.batch \in Seq(DirtyRecord) \ {<<>>}
            /\ Entries(inflight) = inflight.batch
<1>1. CASE inflight = NoBatch
  BY <1>1 DEF Entries, NoBatch
<1>2. CASE inflight \in [some : {TRUE}, batch : Seq(DirtyRecord) \ {<<>>}]
  <2>1. inflight.some = TRUE /\ inflight.batch \in Seq(DirtyRecord) \ {<<>>}
    BY <1>2
  <2> QED
    BY <2>1 DEF Entries, NoBatch
<1> QED
  BY <1>1, <1>2 DEF TypeOK

\* The parts of the log, and where each of their records is in it.
LEMMA LogParts ==
  ASSUME TypeOK
  PROVE  /\ Entries(inflight) \in Seq(DirtyRecord)
         /\ retired \o Entries(inflight) \in Seq(DirtyRecord)
         /\ Log \in Seq(DirtyRecord)
         /\ Len(Log) = Len(retired) + Len(Entries(inflight)) + Len(entries)
         /\ \A i \in 1 .. Len(retired) : Log[i] = retired[i]
         /\ \A i \in 1 .. Len(Entries(inflight)) :
              Log[Len(retired) + i] = Entries(inflight)[i]
<1> DEFINE I == Entries(inflight)
<1>1. I \in Seq(DirtyRecord)
  <2>1. CASE Entries(inflight) = <<>>
    BY <2>1
  <2>2. CASE inflight.batch \in Seq(DirtyRecord) /\ I = inflight.batch
    BY <2>2
  <2> QED
    BY <2>1, <2>2, InflightKinds
<1>2. retired \in Seq(DirtyRecord) /\ entries \in Seq(DirtyRecord)
  BY DEF TypeOK
<1> HIDE DEF I
<1>3. /\ retired \o I \in Seq(DirtyRecord)
      /\ Len(retired \o I) = Len(retired) + Len(I)
      /\ \A i \in 1 .. Len(retired) + Len(I) :
           (retired \o I)[i] = IF i <= Len(retired) THEN retired[i]
                               ELSE I[i - Len(retired)]
  BY <1>1, <1>2, ConcatProperties
<1>4. /\ (retired \o I) \o entries \in Seq(DirtyRecord)
      /\ Len((retired \o I) \o entries) = Len(retired \o I) + Len(entries)
      /\ \A i \in 1 .. Len(retired \o I) :
           ((retired \o I) \o entries)[i] = (retired \o I)[i]
  BY <1>2, <1>3, ConcatProperties, LenProperties
<1>5. Log = (retired \o I) \o entries
  BY DEF Log, I
<1>6. Len(retired) \in Nat /\ Len(I) \in Nat
  BY <1>1, <1>2
<1>7. \A i \in 1 .. Len(retired) : Log[i] = retired[i]
  BY <1>3, <1>4, <1>5, <1>6
<1>8. ASSUME NEW i \in 1 .. Len(I)
      PROVE  Log[Len(retired) + i] = I[i]
  <2>1. /\ Len(retired) + i \in 1 .. Len(retired) + Len(I)
        /\ ~(Len(retired) + i <= Len(retired))
        /\ (Len(retired) + i) - Len(retired) = i
    BY <1>6
  <2> QED
    BY <2>1, <1>3, <1>4, <1>5
<1> QED
  BY <1>1, <1>3, <1>4, <1>5, <1>7, <1>8 DEF I

\* The batch that flush_batch takes out and the records it leaves.
LEMMA DrainParts ==
  ASSUME TypeOK, NEW limit \in Limit
  PROVE  LET n == IF Len(entries) <= limit THEN Len(entries) ELSE limit
             batch == SubSeq(entries, 1, n)
             rest == SubSeq(entries, n + 1, Len(entries))
         IN  /\ n \in 0 .. Len(entries)
             /\ batch \in Seq(DirtyRecord) /\ rest \in Seq(DirtyRecord)
             /\ Len(batch) = n
             /\ batch \o rest = entries
<1> DEFINE n == IF Len(entries) <= limit THEN Len(entries) ELSE limit
<1>1. entries \in Seq(DirtyRecord) /\ limit \in Nat
  BY LimitAssumption DEF TypeOK
<1>2. n \in 0 .. Len(entries)
  BY <1>1
<1> HIDE DEF n
<1>3. /\ SubSeq(entries, 1, n) \in Seq(DirtyRecord)
      /\ SubSeq(entries, n + 1, Len(entries)) \in Seq(DirtyRecord)
      /\ Len(SubSeq(entries, 1, n)) = n
      /\ SubSeq(entries, 1, n) \o SubSeq(entries, n + 1, Len(entries)) = entries
  BY <1>1, <1>2, SplitAt
<1> QED
  BY <1>2, <1>3 DEF n

\* After a drain the batch in flight is the one that was drained, none if it
\* is empty.
LEMMA InstalledBatch ==
  ASSUME NEW batch, NEW option, ~option.some
  PROVE  Entries(Installed(option, batch)) = batch
<1>1. CASE batch = <<>>
  BY <1>1 DEF Entries, Installed
<1>2. CASE batch # <<>>
  BY <1>2 DEF Entries, Installed, Some
<1> QED
  BY <1>1, <1>2

\* The log starts out with its types.
LEMMA InitTypeOK == Init => TypeOK
BY MaxWriteAssumption DEF Init, TypeOK

\* No call takes a variable out of its type.
LEMMA NextTypeOK == TypeOK /\ [Next]_vars => TypeOK'
<1> SUFFICES ASSUME TypeOK, [Next]_vars PROVE TypeOK'
  OBVIOUS
<1> USE DEF TypeOK
<1>1. ASSUME NEW w \in Writer, AppendRecord(w) PROVE TypeOK'
  <2>1. [id |-> next_id, by |-> w] \in DirtyRecord
    BY <1>1, MaxWriteAssumption DEF AppendRecord, DirtyRecord, WriteId
  <2>2. next_id' \in 0 .. MaxWrite
    BY <1>1, MaxWriteAssumption DEF AppendRecord
  <2>3. entries' \in Seq(DirtyRecord)
    BY <1>1, <2>1 DEF AppendRecord, Push
  <2> QED
    BY <1>1, <2>2, <2>3 DEF AppendRecord
<1>2. ASSUME NEW f \in Flusher, FlushAgain(f) PROVE TypeOK'
  <2>1. inflight.batch \in Seq(DirtyRecord)
    BY <1>2, InflightKinds DEF FlushAgain
  <2> QED
    BY <1>2, <2>1 DEF FlushAgain
<1>3. ASSUME NEW f \in Flusher, NEW limit \in Limit, FlushNew(f, limit)
      PROVE  TypeOK'
  <2> DEFINE n == IF Len(entries) <= limit THEN Len(entries) ELSE limit
             batch == SubSeq(entries, 1, n)
             rest == SubSeq(entries, n + 1, Len(entries))
  <2>1. batch \in Seq(DirtyRecord) /\ rest \in Seq(DirtyRecord)
    BY DrainParts
  <2>2. /\ entries' = rest /\ inflight' = Installed(inflight, batch)
        /\ held' = [held EXCEPT ![f] = batch]
        /\ UNCHANGED <<next_id, retired>>
    BY <1>3 DEF FlushNew
  <2> HIDE DEF batch, rest
  <2>3. \/ inflight' = NoBatch
        \/ inflight' \in [some : {TRUE}, batch : Seq(DirtyRecord) \ {<<>>}]
    BY <2>1, <2>2 DEF Installed, Some
  <2> QED
    BY <2>1, <2>2, <2>3
<1>4. ASSUME NEW f \in Flusher, MarkFlushed(f) PROVE TypeOK'
  <2>1. inflight.batch \in Seq(DirtyRecord)
    BY <1>4, InflightKinds DEF MarkFlushed
  <2>2. retired \o inflight.batch \in Seq(DirtyRecord)
    BY <2>1, ConcatProperties
  <2> QED
    BY <1>4, <2>2 DEF MarkFlushed
<1>5. CASE UNCHANGED vars
  BY <1>5 DEF vars
<1> QED
  BY <1>1, <1>2, <1>3, <1>4, <1>5 DEF Next

\* The loom build keeps its types, whatever the threads and the bounds.
THEOREM TypeCorrect == Spec => []TypeOK
BY InitTypeOK, NextTypeOK, PTL DEF Spec

(***************************************************************************)
(* The log, and the batches the flushers hold.                             *)
(***************************************************************************)

\* An append adds the next id at the end of the log.
LEMMA AppendStep ==
  ASSUME IInv, TypeOK', NEW w \in Writer, AppendRecord(w)
  PROVE  IInv'
<1> DEFINE r == [id |-> next_id, by |-> w]
<1> USE DEF AppendRecord
<1>0. TypeOK
  BY DEF IInv
<1>1. r \in DirtyRecord /\ next_id \in Nat
  BY <1>0, MaxWriteAssumption DEF TypeOK, DirtyRecord, WriteId
<1>2. Log \in Seq(DirtyRecord) /\ retired \o Entries(inflight) \in Seq(DirtyRecord)
  BY <1>0, LogParts
<1>3. Log' = Append(Log, r)
  <2> DEFINE front == retired \o Entries(inflight)
  <2>1. entries \in Seq(DirtyRecord)
    BY <1>0 DEF TypeOK
  <2>2. Log' = front \o Append(entries, r) /\ Log = front \o entries
    BY DEF Log, Push
  <2>3. front \in Seq(DirtyRecord)
    BY <1>2
  <2> HIDE DEF r, front
  <2>4. front \o Append(entries, r) = Append(front \o entries, r)
    BY <1>1, <2>1, <2>3, ConcatAppend
  <2> QED
    BY <2>2, <2>4
<1>4. LogInWriteOrder'
  <2>1. Len(Log) = next_id /\ \A i \in 1 .. Len(Log) : Log[i].id = i - 1
    BY <1>2 DEF IInv, LogInWriteOrder
  <2>2. Len(Log') = next_id'
    BY <1>1, <1>2, <1>3, <2>1, AppendProperties
  <2>3. ASSUME NEW i \in DOMAIN Log' PROVE Log'[i].id = i - 1
    <3>1. i \in 1 .. Len(Log) + 1
      BY <1>1, <1>2, <1>3
    <3>2. CASE i = Len(Log) + 1
      BY <1>1, <1>2, <1>3, <2>1, <3>2
    <3>3. CASE i \in 1 .. Len(Log)
      BY <1>1, <1>2, <1>3, <2>1, <3>3
    <3> QED
      BY <1>1, <2>1, <3>1, <3>2, <3>3
  <2> QED
    BY <2>2, <2>3 DEF LogInWriteOrder
<1>5. HeldBatchKnown'
  BY DEF IInv, HeldBatchKnown
<1> QED
  BY <1>4, <1>5 DEF IInv

\* A step that moves records from one part of the log to the next keeps their
\* order.
LEMMA SameLog ==
  ASSUME LogInWriteOrder, Log' = Log, next_id' = next_id
  PROVE  LogInWriteOrder'
BY DEF LogInWriteOrder

\* Handing out the batch in flight again changes nothing but what the
\* flusher holds.
LEMMA FlushAgainStep ==
  ASSUME IInv, TypeOK', NEW f \in Flusher, FlushAgain(f)
  PROVE  IInv'
<1> USE DEF FlushAgain
<1>0. TypeOK
  BY DEF IInv
<1>1. LogInWriteOrder'
  BY SameLog DEF IInv, Log
<1>2. ASSUME NEW g \in Flusher
      PROVE  \/ held'[g] = held[g]
             \/ inflight.some /\ held'[g] = inflight.batch
  BY <1>0 DEF TypeOK
<1>3. HeldBatchKnown'
  BY <1>2 DEF IInv, HeldBatchKnown
<1> QED
  BY <1>1, <1>3 DEF IInv

\* A drain cuts the queue in two, and the flusher that made it holds the
\* batch it put in flight.
LEMMA FlushNewStep ==
  ASSUME IInv, TypeOK', NEW f \in Flusher, NEW limit \in Limit, FlushNew(f, limit)
  PROVE  IInv'
<1> DEFINE n == IF Len(entries) <= limit THEN Len(entries) ELSE limit
           batch == SubSeq(entries, 1, n)
           rest == SubSeq(entries, n + 1, Len(entries))
<1>0. TypeOK
  BY DEF IInv
<1>1. /\ ~inflight.some
      /\ entries' = rest /\ inflight' = Installed(inflight, batch)
      /\ held' = [held EXCEPT ![f] = batch]
      /\ UNCHANGED <<next_id, retired>>
  BY DEF FlushNew, MayDrain
<1>2. /\ batch \in Seq(DirtyRecord) /\ rest \in Seq(DirtyRecord)
      /\ batch \o rest = entries
  BY <1>0, DrainParts
<1> HIDE DEF batch, rest, n
<1>3. Entries(inflight) = <<>> /\ Entries(inflight') = batch
  BY <1>0, <1>1, InflightKinds, InstalledBatch
<1>4. retired \in Seq(DirtyRecord)
  BY <1>0 DEF TypeOK
<1>5. Log' = Log
  <2>1. Log' = (retired \o batch) \o rest
    BY <1>1, <1>3 DEF Log
  <2>2. (retired \o batch) \o rest = retired \o (batch \o rest)
    <3>1. batch \in Seq(DirtyRecord) /\ rest \in Seq(DirtyRecord)
      BY <1>2
    <3> QED
      BY <3>1, <1>4, ConcatAssociative
  <2>3. Log = retired \o entries
    BY <1>3, <1>4, ConcatEmptySeq DEF Log
  <2> QED
    BY <1>2, <2>1, <2>2, <2>3
<1>6. LogInWriteOrder'
  BY <1>1, <1>5, SameLog DEF IInv
<1>7. ASSUME NEW g \in Flusher
      PROVE  \/ held'[g] = <<>>
             \/ inflight'.some /\ held'[g] = inflight'.batch
             \/ \E i \in DOMAIN retired : retired[i].id = last_id(held'[g])
  <2>1. CASE g = f
    <3>1. held'[g] = batch
      BY <1>0, <1>1, <2>1 DEF TypeOK
    <3>2. batch # <<>> => inflight'.some /\ inflight'.batch = batch
      BY <1>1 DEF Installed, Some
    <3> QED
      BY <3>1, <3>2
  <2>2. CASE g # f
    BY <1>1, <2>2 DEF IInv, HeldBatchKnown, TypeOK
  <2> QED
    BY <2>1, <2>2
<1>8. HeldBatchKnown'
  BY <1>1, <1>7 DEF HeldBatchKnown
<1> QED
  BY <1>6, <1>8 DEF IInv

\* A mark retires the batch in flight: what was held of it is now retired to
\* its last record.
LEMMA MarkStep ==
  ASSUME IInv, TypeOK', NEW f \in Flusher, MarkFlushed(f)
  PROVE  IInv'
<1> DEFINE B == inflight.batch
<1> USE DEF MarkFlushed
<1>0. TypeOK
  BY DEF IInv
<1>1. /\ B \in Seq(DirtyRecord) \ {<<>>} /\ Entries(inflight) = B
      /\ retired \in Seq(DirtyRecord) /\ entries \in Seq(DirtyRecord)
  BY <1>0, InflightKinds DEF TypeOK
<1>2. retired' = retired \o B /\ Entries(inflight') = <<>>
  BY DEF Entries, NoBatch
<1> HIDE DEF B
<1>3. /\ retired \o B \in Seq(DirtyRecord)
      /\ Len(retired \o B) = Len(retired) + Len(B)
      /\ \A i \in 1 .. Len(retired) + Len(B) :
           (retired \o B)[i] = IF i <= Len(retired) THEN retired[i]
                               ELSE B[i - Len(retired)]
  BY <1>1, ConcatProperties
<1>4. Log' = Log
  BY <1>1, <1>2, <1>3, ConcatEmptySeq DEF Log
<1>5. LogInWriteOrder'
  BY <1>4, SameLog DEF IInv
<1>6. /\ Len(retired) \in Nat /\ Len(B) \in Nat \ {0}
      /\ DOMAIN retired = 1 .. Len(retired)
      /\ DOMAIN retired' = 1 .. Len(retired) + Len(B)
  BY <1>1, <1>2, <1>3, EmptySeq, LenProperties
<1>7. \A i \in DOMAIN retired : i \in DOMAIN retired' /\ retired'[i] = retired[i]
  BY <1>2, <1>3, <1>6
<1>8. /\ Len(retired) + Len(B) \in DOMAIN retired'
      /\ retired'[Len(retired) + Len(B)].id = last_id(B)
  <2>1. (Len(retired) + Len(B)) - Len(retired) = Len(B)
    BY <1>6
  <2>2. retired'[Len(retired) + Len(B)] = B[Len(B)]
    BY <1>2, <1>3, <1>6, <2>1
  <2> QED
    BY <1>1, <1>6, <2>2 DEF last_id
<1>9. HeldBatchKnown'
  BY <1>7, <1>8 DEF IInv, HeldBatchKnown, B
<1> QED
  BY <1>5, <1>9 DEF IInv

\* The empty log.
LEMMA InitIInv == Init => IInv
<1> SUFFICES ASSUME Init PROVE IInv
  OBVIOUS
<1>1. TypeOK
  BY InitTypeOK
<1>2. Log = <<>>
  BY DEF Init, Log, Entries, NoBatch
<1>3. LogInWriteOrder
  BY <1>2 DEF Init, LogInWriteOrder
<1>4. HeldBatchKnown
  BY DEF Init, HeldBatchKnown
<1> QED
  BY <1>1, <1>3, <1>4 DEF IInv

\* Every call preserves the inductive invariant.
LEMMA NextIInv == IInv /\ [Next]_vars => IInv'
<1> SUFFICES ASSUME IInv, [Next]_vars PROVE IInv'
  OBVIOUS
<1>0. TypeOK'
  BY NextTypeOK DEF IInv
<1>1. ASSUME NEW w \in Writer, AppendRecord(w) PROVE IInv'
  BY <1>0, <1>1, AppendStep
<1>2. ASSUME NEW f \in Flusher, FlushAgain(f) PROVE IInv'
  BY <1>0, <1>2, FlushAgainStep
<1>3. ASSUME NEW f \in Flusher, NEW limit \in Limit, FlushNew(f, limit)
      PROVE  IInv'
  BY <1>0, <1>3, FlushNewStep
<1>4. ASSUME NEW f \in Flusher, MarkFlushed(f) PROVE IInv'
  BY <1>0, <1>4, MarkStep
<1>5. CASE UNCHANGED vars
  BY <1>0, <1>5 DEF vars, IInv, LogInWriteOrder, HeldBatchKnown, Log
<1> QED
  BY <1>1, <1>2, <1>3, <1>4, <1>5 DEF Next

\* In the loom build retired, in-flight and queued records are all the ids
\* handed out, in order, and every batch still held is known.
THEOREM Invariance == Spec => []IInv
BY InitIInv, NextIInv, PTL DEF Spec

\* The log is in write order, as the loom tests assert of a snapshot.
THEOREM WriteOrder == Spec => []LogInWriteOrder
<1>1. IInv => LogInWriteOrder
  BY DEF IInv
<1> QED
  BY <1>1, Invariance, PTL

\* A batch still held is in flight or retired to its last record.
THEOREM HeldBatches == Spec => []HeldBatchKnown
<1>1. IInv => HeldBatchKnown
  BY DEF IInv
<1> QED
  BY <1>1, Invariance, PTL

\* The comparison mark_flushed makes, length and last id, tells the batch in
\* flight from every other batch a flusher may hold: the ids of the batch in
\* flight are those of no retired record.
LEMMA HeldOrStale ==
  ASSUME IInv, NEW f \in Flusher, MarkFlushed(f)
  PROVE  held[f] = inflight.batch
<1> DEFINE B == inflight.batch
<1>0. TypeOK
  BY DEF IInv
<1>1. /\ B \in Seq(DirtyRecord) \ {<<>>} /\ Entries(inflight) = B
      /\ SameBatch(B, held[f])
  BY <1>0, InflightKinds DEF MarkFlushed
<1>2. /\ retired \in Seq(DirtyRecord) /\ entries \in Seq(DirtyRecord)
      /\ held[f] \in Seq(DirtyRecord)
  BY <1>0 DEF TypeOK
<1> HIDE DEF B
<1>3. Len(retired) \in Nat /\ Len(B) \in Nat \ {0} /\ Len(entries) \in Nat
  BY <1>1, <1>2, EmptySeq
<1>4. last_id(B) = last_id(held[f]) /\ held[f] # <<>>
  BY <1>1, <1>3 DEF SameBatch
<1>5. DOMAIN Log = 1 .. Len(retired) + Len(B) + Len(entries)
  BY <1>0, <1>1, LogParts, LenProperties
<1>6. last_id(B) = Len(retired) + Len(B) - 1
  <2>1. Log[Len(retired) + Len(B)] = B[Len(B)]
    BY <1>0, <1>1, <1>3, LogParts
  <2>2. Log[Len(retired) + Len(B)].id = Len(retired) + Len(B) - 1
    BY <1>3, <1>5 DEF IInv, LogInWriteOrder
  <2> QED
    BY <1>1, <2>1, <2>2 DEF last_id
<1>7. ASSUME NEW i \in DOMAIN retired PROVE retired[i].id # last_id(B)
  <2>1. i \in 1 .. Len(retired)
    BY <1>2
  <2>2. Log[i] = retired[i] /\ Log[i].id = i - 1
    BY <1>0, <1>3, <1>5, <2>1, LogParts DEF IInv, LogInWriteOrder
  <2> QED
    BY <1>3, <1>6, <2>1, <2>2
<1> QED
  BY <1>4, <1>7 DEF IInv, HeldBatchKnown, B

\* In the loom build a stale or repeated mark changes nothing.
THEOREM StaleMarks == Spec => MarkRetiresWhatWasHeld
<1>1. IInv => [\A f \in Flusher : MarkFlushed(f) => held[f] = inflight.batch]_vars
  BY HeldOrStale
<1> QED
  BY <1>1, Invariance, PTL DEF MarkRetiresWhatWasHeld

(***************************************************************************)
(* The refinement of OrderedLog.                                           *)
(***************************************************************************)

\* The abstract log's records are those of Log.
LEMMA AbstractLog == OL!Appended = Log
BY DEF OL!Appended, Log, inflightView

\* The empty log maps to the empty log.
LEMMA InitRefines == Init => OL!Init
BY DEF Init, OL!Init, inflightView, Entries, NoBatch

\* An append is an append: its id is past those of the log.
LEMMA AppendRefines ==
  ASSUME IInv, NEW w \in Writer, AppendRecord(w)
  PROVE  \E r \in DirtyRecord : OL!AppendRecord(r)
<1> DEFINE r == [id |-> next_id, by |-> w]
<1>0. TypeOK
  BY DEF IInv
<1>1. r \in DirtyRecord /\ next_id \in Nat
  BY <1>0, MaxWriteAssumption DEF AppendRecord, TypeOK, DirtyRecord, WriteId
<1>2. ASSUME NEW i \in DOMAIN Log PROVE Log[i] # r
  <2>1. Log[i].id = i - 1 /\ i \in 1 .. next_id
    BY <1>0, LogParts DEF IInv, LogInWriteOrder
  <2>2. Log[i].id # next_id
    BY <1>1, <2>1
  <2>3. r.id = next_id
    OBVIOUS
  <2> QED
    BY <2>2, <2>3
<1>3. OL!AppendRecord(r)
  BY <1>2, AbstractLog DEF AppendRecord, Push, OL!AppendRecord, inflightView
<1> QED
  BY <1>1, <1>3

\* A drain takes the oldest records, or finds none to take.
LEMMA FlushNewRefines ==
  ASSUME IInv, NEW f \in Flusher, NEW limit \in Limit, FlushNew(f, limit)
  PROVE  (\E n \in 1 .. Len(entries) : OL!Take(n)) \/ UNCHANGED OL!vars
<1> DEFINE n == IF Len(entries) <= limit THEN Len(entries) ELSE limit
           batch == SubSeq(entries, 1, n)
           rest == SubSeq(entries, n + 1, Len(entries))
<1>0. TypeOK
  BY DEF IInv
<1>1. /\ ~inflight.some
      /\ entries' = rest /\ inflight' = Installed(inflight, batch)
      /\ UNCHANGED retired
  BY DEF FlushNew, MayDrain
<1>2. /\ n \in 0 .. Len(entries) /\ Len(batch) = n
      /\ batch \in Seq(DirtyRecord) /\ rest \in Seq(DirtyRecord)
      /\ batch \o rest = entries
  BY <1>0, DrainParts
<1>3. inflightView = <<>> /\ inflightView' = batch
  BY <1>0, <1>1, InflightKinds, InstalledBatch DEF inflightView
<1>4. CASE n = 0
  <2>1. batch = <<>>
    BY <1>2, <1>4
  <2>2. rest = entries
    BY <1>2, <2>1, ConcatEmptySeq
  <2> QED
    BY <1>1, <1>3, <2>1, <2>2 DEF OL!vars
<1>5. CASE n # 0
  <2>1. n \in 1 .. Len(entries)
    BY <1>0, <1>2, <1>5 DEF TypeOK
  <2>2. OL!Take(n)
    BY <1>1, <1>3, <2>1 DEF OL!Take
  <2> HIDE DEF n
  <2> QED
    BY <2>1, <2>2
<1> QED
  BY <1>4, <1>5

\* A mark retires the batch in flight.
LEMMA MarkRefines ==
  ASSUME IInv, NEW f \in Flusher, MarkFlushed(f)
  PROVE  OL!Retire
<1>1. inflight.batch # <<>> /\ Entries(inflight) = inflight.batch
  BY InflightKinds DEF IInv, MarkFlushed
<1>2. Entries(inflight') = <<>>
  BY DEF MarkFlushed, Entries, NoBatch
<1> QED
  BY <1>1, <1>2 DEF MarkFlushed, OL!Retire, inflightView

\* Every call is a step of OrderedLog, or changes nothing there.
LEMMA StepRefines == IInv /\ [Next]_vars => [OL!Next]_OL!vars
<1> SUFFICES ASSUME IInv, [Next]_vars PROVE [OL!Next]_OL!vars
  OBVIOUS
<1>1. ASSUME NEW w \in Writer, AppendRecord(w) PROVE OL!Next
  BY <1>1, AppendRefines DEF OL!Next
<1>2. ASSUME NEW f \in Flusher, FlushAgain(f) PROVE UNCHANGED OL!vars
  BY <1>2 DEF FlushAgain, OL!vars, inflightView
<1>3. ASSUME NEW f \in Flusher, NEW limit \in Limit, FlushNew(f, limit)
      PROVE  [OL!Next]_OL!vars
  BY <1>3, FlushNewRefines DEF OL!Next
<1>4. ASSUME NEW f \in Flusher, MarkFlushed(f) PROVE OL!Next
  BY <1>4, MarkRefines DEF OL!Next
<1>5. CASE UNCHANGED vars
  BY <1>5 DEF vars, OL!vars, inflightView
<1> QED
  BY <1>1, <1>2, <1>3, <1>4, <1>5 DEF Next

\* The loom build is a FIFO log with atomic appends, batches and retirements,
\* for any threads, limits and bound.
THEOREM Refinement == Spec => ImplementsOrderedLog
BY InitRefines, StepRefines, Invariance, PTL DEF Spec, ImplementsOrderedLog, OL!Spec
=============================================================================
