------------------------- MODULE CacheLogSystemProofs -------------------------
(***************************************************************************)
(* Proofs about the map in its application, from restart to restart, for   *)
(* any threads, keys, limits and bounds: with one writer per key, one      *)
(* thread that makes the calls of the loop and no cleanup_stale_visible,   *)
(* completed writes are readable, reads never go back, and the store       *)
(* follows the log.                                                        *)
(***************************************************************************)
EXTENDS CacheLogSystem, CacheLogMapProofs, WellFoundedInduction

(***************************************************************************)
(* The last write of a key in a part of the log.                           *)
(***************************************************************************)

\* Integers below a bound have a greatest one.
LEMMA Greatest ==
  ASSUME NEW B \in Int, NEW S, S \subseteq Int, S # {}, \A x \in S : x <= B
  PROVE  \E m \in S : \A x \in S : x <= m
<1> DEFINE T == {B - x : x \in S}
           R == OpToRel(<, Nat)
<1>1. \A x \in S : B - x \in T
  OBVIOUS
<1>2. T \subseteq Nat
  OBVIOUS
<1>3. IsWellFoundedOn(R, Nat)
  BY Zenon, NatLessThanWellFounded
<1>4. \A y \in T : \E m \in S : y = B - m
  OBVIOUS
<1> HIDE DEF T, R
<1>5. T # {}
  BY <1>1
<1>6. PICK y \in T : \A z \in T : ~(<<z, y>> \in R)
  BY <1>2, <1>3, <1>5, WFMin
<1>7. \A z \in T : ~(z < y)
  BY <1>2, <1>6 DEF R, OpToRel
<1>8. PICK m \in S : y = B - m
  BY <1>4
<1> QED
  BY <1>1, <1>7, <1>8

\* LastOf, of any log: the value of the last write of k among the first n
\* records, in a run that began after b writes and found d.
LastIn(log, k, n, b, d) ==
  LET ids == {b + log[i].id : i \in {j \in 1 .. n : log[j].key = k}}
  IN  IF ids = {} THEN d ELSE CHOOSE id \in ids : \A other \in ids : other <= id

\* LastOf is LastIn of the log of this state, and of the next.
LEMMA LastOfIn ==
  /\ \A k, n : LastOf(k, n) = LastIn(Dirty!Appended, k, n, before, found[k])
  /\ \A k, n : LastOf(k, n)' = LastIn(Dirty!Appended', k, n, before', found'[k])
BY DEF LastOf, LastIn, Written

\* It is what the run found, if the part has no write of k, or the value of a
\* write of k in it that none is newer than.
LEMMA LastFacts ==
  ASSUME NEW log, NEW k, NEW n \in Nat, NEW b \in Nat, NEW d, NEW B \in Nat,
         \A i \in 1 .. n : log[i].id \in Nat /\ log[i].id < B
  PROVE  \/ /\ LastIn(log, k, n, b, d) = d
            /\ \A i \in 1 .. n : log[i].key # k
         \/ /\ \E j \in 1 .. n : log[j].key = k /\ LastIn(log, k, n, b, d) = b + log[j].id
            /\ \A i \in 1 .. n : log[i].key = k => b + log[i].id <= LastIn(log, k, n, b, d)
<1> DEFINE Of == {j \in 1 .. n : log[j].key = k}
           ids == {b + log[i].id : i \in Of}
<1>1. LastIn(log, k, n, b, d)
        = IF ids = {} THEN d ELSE CHOOSE id \in ids : \A other \in ids : other <= id
  BY DEF LastIn
<1>2. \A i \in Of : b + log[i].id \in ids
  OBVIOUS
<1>3. \A id \in ids : \E i \in Of : id = b + log[i].id
  OBVIOUS
<1> HIDE DEF ids
<1>4. CASE ids = {}
  BY <1>1, <1>2, <1>4
<1>5. CASE ids # {}
  <2>1. ids \subseteq Int /\ \A x \in ids : x <= b + B
    BY <1>3
  <2>2. b + B \in Int
    OBVIOUS
  <2>3. \E id \in ids : \A other \in ids : other <= id
    BY <1>5, <2>1, <2>2, Greatest
  <2> DEFINE last == CHOOSE id \in ids : \A other \in ids : other <= id
  <2>4. last \in ids /\ \A other \in ids : other <= last
    BY <2>3
  <2>5. LastIn(log, k, n, b, d) = last
    BY <1>1, <1>5
  <2> HIDE DEF last
  <2> QED
    BY <1>2, <1>3, <2>4, <2>5
<1> QED
  BY <1>4, <1>5

\* One more record: a write of k that is newer than those before it is the
\* last; a write of another key changes nothing.
GoesOn(log, k, n, b, d) ==
  /\ log[n + 1].key # k => LastIn(log, k, n + 1, b, d) = LastIn(log, k, n, b, d)
  /\ /\ log[n + 1].key = k
     /\ \A i \in 1 .. n : log[i].key = k => log[i].id <= log[n + 1].id
     => LastIn(log, k, n + 1, b, d) = b + log[n + 1].id

\* One record more: the last write is that record if it is of the key, and
\* the one before it otherwise.
LEMMA LastNext ==
  ASSUME NEW log, NEW k, NEW n \in Nat, NEW b \in Nat, NEW d, NEW B \in Nat,
         \A i \in 1 .. n + 1 : log[i].id \in Nat /\ log[i].id < B
  PROVE  GoesOn(log, k, n, b, d)
<1>1. ASSUME log[n + 1].key # k
      PROVE  LastIn(log, k, n + 1, b, d) = LastIn(log, k, n, b, d)
  <2> DEFINE more == {b + log[i].id : i \in {j \in 1 .. n + 1 : log[j].key = k}}
             ids  == {b + log[i].id : i \in {j \in 1 .. n : log[j].key = k}}
  <2>1. {j \in 1 .. n + 1 : log[j].key = k} = {j \in 1 .. n : log[j].key = k}
    BY <1>1
  <2>2. more = ids
    BY <2>1
  <2>3. /\ LastIn(log, k, n + 1, b, d)
             = IF more = {} THEN d ELSE CHOOSE id \in more : \A other \in more : other <= id
        /\ LastIn(log, k, n, b, d)
             = IF ids = {} THEN d ELSE CHOOSE id \in ids : \A other \in ids : other <= id
    BY DEF LastIn
  <2> HIDE DEF more, ids
  <2> QED
    BY <2>2, <2>3
<1>2. ASSUME log[n + 1].key = k,
             \A i \in 1 .. n : log[i].key = k => log[i].id <= log[n + 1].id
      PROVE  LastIn(log, k, n + 1, b, d) = b + log[n + 1].id
  <2>1. n + 1 \in Nat /\ n + 1 \in 1 .. n + 1
    OBVIOUS
  <2> DEFINE last == LastIn(log, k, n + 1, b, d)
  <2>2. \/ last = d /\ \A i \in 1 .. n + 1 : log[i].key # k
        \/ /\ \E j \in 1 .. n + 1 : log[j].key = k /\ last = b + log[j].id
           /\ \A i \in 1 .. n + 1 : log[i].key = k => b + log[i].id <= last
    BY <2>1, LastFacts
  <2> HIDE DEF last
  <2>3. PICK j \in 1 .. n + 1 : log[j].key = k /\ last = b + log[j].id
    BY <1>2, <2>1, <2>2
  <2>4. b + log[n + 1].id <= last
    BY <1>2, <2>1, <2>2
  <2>5. log[j].id \in Nat /\ log[n + 1].id \in Nat
    BY <2>1
  <2>6. log[j].id <= log[n + 1].id
    <3>1. CASE j \in 1 .. n
      BY <1>2, <2>3, <3>1
    <3>2. CASE j \notin 1 .. n
      <4>1. j = n + 1
        BY <3>2
      <4> QED
        BY <2>5, <4>1
    <3> QED
      BY <3>1, <3>2
  <2> QED
    BY <2>3, <2>4, <2>5, <2>6 DEF last
<1> QED
  BY <1>1, <1>2 DEF GoesOn

\* Logs that agree on the part agree on it.
LEMMA LastSame ==
  ASSUME NEW log, NEW more, NEW k, NEW n \in Nat, NEW b, NEW d,
         \A i \in 1 .. n : more[i] = log[i]
  PROVE  LastIn(more, k, n, b, d) = LastIn(log, k, n, b, d)
<1> DEFINE new == {b + more[i].id : i \in {j \in 1 .. n : more[j].key = k}}
           ids == {b + log[i].id : i \in {j \in 1 .. n : log[j].key = k}}
<1>1. {j \in 1 .. n : more[j].key = k} = {j \in 1 .. n : log[j].key = k}
  OBVIOUS
<1>2. new = ids
  <2>1. \A i \in {j \in 1 .. n : log[j].key = k} : b + more[i].id = b + log[i].id
    OBVIOUS
  <2> QED
    BY <1>1, <2>1
<1>3. /\ LastIn(more, k, n, b, d)
           = IF new = {} THEN d ELSE CHOOSE id \in new : \A other \in new : other <= id
      /\ LastIn(log, k, n, b, d)
           = IF ids = {} THEN d ELSE CHOOSE id \in ids : \A other \in ids : other <= id
  BY DEF LastIn
<1> HIDE DEF new, ids
<1> QED
  BY <1>2, <1>3

(***************************************************************************)
(* The steps.                                                              *)
(***************************************************************************)

\* A step of the map alone: a call of its own, or the next step of one.
Alone(t) ==
  /\ UNCHANGED appVars
  /\ \/ Free(t) /\ \E k \in Key : TakeWriteId(t, k) \/ EvictClean(t, k)
     \/ Continue(t)

\* The steps of the system, by what they do to the store.
LEMMA SysSteps ==
  ASSUME [SysNext]_sysVars
  PROVE  \/ Restart
         \/ \E t \in Thread :
              \/ Alone(t) \/ TakeBatch(t) \/ Persist(t) \/ Mark(t) \/ Fill(t)
              \/ \E k \in Key : Fetch(t, k)
         \/ (\E k \in Key : ReadMiss(k)) \/ ReadStore
         \/ UNCHANGED sysVars
BY DEF SysNext, MapCall, Alone

\* What a thread has read from the store.
LEMMA FetchedType ==
  ASSUME SysTypeOK, NEW t \in Thread, fetched[t].some
  PROVE  fetched[t].key \in Key /\ fetched[t].value \in Int
<1>1. fetched[t] \in {Nothing} \cup [some : {TRUE}, key : Key, value : Int]
  BY DEF SysTypeOK
<1>2. fetched[t] # Nothing
  BY DEF Nothing
<1>3. fetched[t] \in [some : {TRUE}, key : Key, value : Int]
  BY <1>1, <1>2
<1> QED
  BY <1>3

\* A step is a restart, or one that the map makes, or leaves it alone.
LEMMA SysIsMap ==
  ASSUME SysTypeOK, [SysNext]_sysVars
  PROVE  Restart \/ [Next]_vars
<1>1. ASSUME NEW t \in Thread, Alone(t) PROVE Next
  BY <1>1 DEF Alone, Next, Call
<1>2. ASSUME NEW t \in Thread, TakeBatch(t) PROVE Next
  BY <1>2 DEF TakeBatch, Next, Call
<1>3. ASSUME NEW t \in Thread, Mark(t) PROVE Next
  BY <1>3 DEF Mark, Next, Call
<1>4. ASSUME NEW t \in Thread, Persist(t) PROVE UNCHANGED vars
  BY <1>4 DEF Persist
<1>5. ASSUME NEW t \in Thread, NEW k \in Key, Fetch(t, k) PROVE UNCHANGED vars
  BY <1>5 DEF Fetch
<1>6. ASSUME NEW k \in Key, ReadMiss(k) PROVE UNCHANGED vars
  BY <1>6 DEF ReadMiss
<1>7. ASSUME ReadStore PROVE UNCHANGED vars
  BY <1>7 DEF ReadStore
<1>8. ASSUME UNCHANGED sysVars PROVE UNCHANGED vars
  BY <1>8 DEF sysVars
<1>9. ASSUME NEW t \in Thread, Fill(t) PROVE Next
  <2>1. fetched[t].key \in Key
    BY <1>9, FetchedType DEF Fill
  <2> QED
    BY <1>9, <2>1 DEF Fill, Next, Call
<1> QED
  BY <1>1, <1>2, <1>3, <1>4, <1>5, <1>6, <1>7, <1>8, <1>9, SysSteps

\* The next step of a call is not one of the loop.
LEMMA ContinueFacts ==
  ASSUME TypeOK, NEW t \in Thread, Continue(t)
  PROVE  /\ op[t].pc # "idle" /\ \A u \in Thread \ {t} : op'[u] = op[u]
         /\ op'[t].pc # "entry" /\ (op'[t].pc = "unpublish" => op[t].pc = "unpublish")
         /\ retired' = retired /\ inflight' = inflight /\ next_cache' = next_cache
<1>0. op \in [Thread -> OpType]
  BY DEF TypeOK
<1>1. CASE \/ PublishDirty(t) \/ FindOccupied(t) \/ EnqueuePush(t)
           \/ EvictUncount(t) \/ CleanupRemove(t)
  <2>1. Return(t) /\ op[t].pc \in {"publish", "entry", "push", "uncount", "cleanup"}
    BY <1>1 DEF PublishDirty, FindOccupied, EnqueuePush, EvictUncount, CleanupRemove
  <2>2. UNCHANGED logVars /\ next_cache' = next_cache
    BY <1>1 DEF PublishDirty, FindOccupied, EnqueuePush, EvictUncount, CleanupRemove, cleanVars
  <2> QED
    BY <2>1, <2>2, ReturnOp DEF logVars
<1>2. CASE \/ AppendDirty(t) \/ InsertVacant(t) \/ CountClean(t) \/ EnqueueFull(t)
           \/ EnqueueUncount(t) \/ EnqueueDrop(t)
  <2>1. /\ op[t].pc \in Moving
        /\ \E pc \in {"publish", "count", "push", "pop", "uncount_old"} : Goto(t, pc)
    BY <1>2 DEF AppendDirty, InsertVacant, CountClean, EnqueueFull, EnqueueUncount,
                EnqueueDrop, AfterFullQueue, Moving
  <2>2. retired' = retired /\ inflight' = inflight /\ next_cache' = next_cache
    BY <1>2 DEF AppendDirty, InsertVacant, CountClean, EnqueueFull, EnqueueUncount,
                EnqueueDrop, Dirty!AppendRecord, logVars, cleanVars
  <2>3. PICK pc \in {"publish", "count", "push", "pop", "uncount_old"} : Goto(t, pc)
    BY <2>1
  <2>4. op'[t].pc = pc /\ \A u \in Thread \ {t} : op'[u] = op[u]
    BY <2>1, <2>3, GotoOp
  <2> QED
    BY <2>1, <2>2, <2>4 DEF Moving
<1>3. CASE EnqueuePop(t)
  <2>1. op[t].pc = "pop" /\ UNCHANGED logVars /\ next_cache' = next_cache
    BY <1>3 DEF EnqueuePop
  <2>2. op'[t].pc \in {"push", "drop"} /\ \A u \in Thread \ {t} : op'[u] = op[u]
    <3>1. CASE Goto(t, "push")
      BY <2>1, <3>1, GotoOp DEF Moving
    <3>2. CASE op' = [op EXCEPT ![t] = [pc |-> "drop", key |-> op[t].key, id |-> op[t].id,
                                        old |-> Head(clean_fifo)]]
      BY <1>0, <3>2
    <3> QED
      BY <1>3, <3>1, <3>2 DEF EnqueuePop
  <2> QED
    BY <2>1, <2>2 DEF logVars
<1>4. CASE Unpublish(t)
  BY <1>0, <1>4 DEF Unpublish, Idle, logVars, cleanVars
<1> QED
  BY <1>1, <1>2, <1>3, <1>4 DEF Continue, InsertDirty, InsertClean

\* A step of the map alone leaves the loop where it is.
LEMMA AloneFacts ==
  ASSUME TypeOK, OneAtATime, NEW t \in Thread, Alone(t)
  PROVE  /\ to_persist[t] = <<>> /\ ~fetched[t].some
         /\ \A u \in Thread \ {t} : op'[u] = op[u]
         /\ op'[t].pc # "entry" /\ (op'[t].pc = "unpublish" => op[t].pc = "unpublish")
         /\ retired' = retired /\ inflight' = inflight /\ next_cache' = next_cache
<1>0. op \in [Thread -> OpType]
  BY DEF TypeOK
<1>1. CASE Continue(t)
  BY <1>1, ContinueFacts DEF OneAtATime
<1>2. ASSUME Free(t), NEW k \in Key, TakeWriteId(t, k)
      PROVE  /\ op'[t].pc = "append" /\ \A u \in Thread \ {t} : op'[u] = op[u]
             /\ UNCHANGED logVars /\ next_cache' = next_cache
  BY <1>0, <1>2 DEF TakeWriteId, cleanVars
<1>3. ASSUME Free(t), NEW k \in Key, EvictClean(t, k)
      PROVE  /\ op'[t].pc = "uncount" /\ \A u \in Thread \ {t} : op'[u] = op[u]
             /\ UNCHANGED logVars /\ next_cache' = next_cache
  BY <1>0, <1>3 DEF EvictClean, cleanVars
<1>4. CASE Free(t) /\ \E k \in Key : TakeWriteId(t, k) \/ EvictClean(t, k)
  BY <1>2, <1>3, <1>4 DEF Free, logVars
<1> QED
  BY <1>1, <1>4 DEF Alone

(***************************************************************************)
(* Types, and who does what.                                               *)
(***************************************************************************)

\* The completed writes of a key are writes of the log, and numbers.
LEMMA CompletedWrites ==
  ASSUME TypeOK, SysTypeOK, NEW k \in Key
  PROVE  /\ \A w \in Completed(k) : w \in Int /\ w <= before + MaxWrite
         /\ \A w \in Completed(k) : \E i \in DOMAIN Dirty!Appended :
              /\ Dirty!Appended[i].key = k /\ Published(Dirty!Appended[i])
              /\ w = before + Dirty!Appended[i].id
         /\ \A i \in DOMAIN Dirty!Appended :
              Dirty!Appended[i].key = k /\ Published(Dirty!Appended[i])
                => before + Dirty!Appended[i].id \in Completed(k)
<1> DEFINE log == Dirty!Appended
<1>1. Completed(k) = {before + record.id : record \in
                        {r \in RecordOf(log) : r.key = k /\ Published(r)}}
  BY DEF Completed, Written
<1>2. log \in Seq(DirtyRecord)
  BY LogSeqs
<1> HIDE DEF log
<1>3. RecordOf(log) \subseteq DirtyRecord
  BY <1>2 DEF RecordOf
<1>4. \A r \in RecordOf(log) : r.id \in Nat /\ r.id <= MaxWrite
  BY <1>3, BoundAssumption DEF DirtyRecord, WriteId
<1>5. before \in Nat /\ MaxWrite \in Nat
  BY BoundAssumption DEF SysTypeOK
<1>6. \A w \in Completed(k) : w \in Int /\ w <= before + MaxWrite
  BY <1>1, <1>4, <1>5
<1>7. ASSUME NEW w \in Completed(k)
      PROVE  \E i \in DOMAIN log : log[i].key = k /\ Published(log[i]) /\ w = before + log[i].id
  <2>1. PICK r \in RecordOf(log) : r.key = k /\ Published(r) /\ w = before + r.id
    BY <1>1
  <2>2. PICK i \in DOMAIN log : r = log[i]
    BY <2>1 DEF RecordOf
  <2> QED
    BY <2>1, <2>2
<1>8. ASSUME NEW i \in DOMAIN log, log[i].key = k, Published(log[i])
      PROVE  before + log[i].id \in Completed(k)
  <2>1. log[i] \in RecordOf(log)
    BY DEF RecordOf
  <2> QED
    BY <1>1, <1>8, <2>1
<1> QED
  BY <1>6, <1>7, <1>8 DEF log

\* The floor of a read is a completed write or what the run found, and none
\* of them is newer.
LEMMA FloorFacts ==
  ASSUME TypeOK, SysTypeOK, NEW k \in Key
  PROVE  /\ Floor(k) \in Completed(k) \cup {found[k]} /\ Floor(k) \in Int
         /\ \A w \in Completed(k) \cup {found[k]} : w <= Floor(k)
<1> DEFINE ids == Completed(k) \cup {found[k]}
           B   == IF found[k] <= before + MaxWrite THEN before + MaxWrite ELSE found[k]
<1>1. found[k] \in Int /\ before + MaxWrite \in Int
  BY BoundAssumption DEF SysTypeOK
<1>2. \A w \in Completed(k) : w \in Int /\ w <= before + MaxWrite
  BY CompletedWrites
<1>3. B \in Int /\ ids # {} /\ ids \subseteq Int /\ \A w \in ids : w <= B
  BY <1>1, <1>2
<1>4. Floor(k) = CHOOSE id \in ids : \A other \in ids : other <= id
  BY DEF Floor
<1> HIDE DEF ids, B
<1>5. \E id \in ids : \A other \in ids : other <= id
  BY <1>3, Greatest
<1>6. Floor(k) \in ids /\ \A other \in ids : other <= Floor(k)
  BY <1>4, <1>5
<1>7. Floor(k) \in Int
  BY <1>3, <1>6
<1> QED
  BY <1>6, <1>7 DEF ids

\* What is persisted next.
LEMMA NextFacts ==
  ASSUME SysTypeOK, NEW t \in Thread, Persist(t)
  PROVE  LET P == to_persist[t] IN
         /\ P \in Seq(DirtyRecord) /\ Len(P) \in Nat /\ Len(P) >= 1
         /\ DOMAIN P = 1 .. Len(P)
         /\ P[1] \in DirtyRecord /\ P[1].key \in Key /\ P[1].id \in Nat
         /\ store' = [store EXCEPT ![P[1].key] = before + P[1].id]
         /\ to_persist' = [to_persist EXCEPT ![t] = Tail(P)]
         /\ to_persist'[t] = Tail(P)
         /\ \A u \in Thread \ {t} : to_persist'[u] = to_persist[u] /\ retrying'[u] = retrying[u]
         /\ retrying' \in [Thread -> BOOLEAN]
         /\ retrying'[t] <=> retrying[t] /\ Tail(P) # <<>>
         /\ Tail(P) \in Seq(DirtyRecord) /\ Len(Tail(P)) = Len(P) - 1
         /\ \A i \in 1 .. Len(P) - 1 : Tail(P)[i] = P[i + 1]
         /\ UNCHANGED <<vars, found, before, fetched, copied, missed>>
<1> DEFINE P == to_persist[t]
<1>1. P \in Seq(DirtyRecord) /\ P # <<>> /\ to_persist \in [Thread -> Seq(DirtyRecord)]
  BY DEF SysTypeOK, Persist
<1>2. /\ NextEntry(P).entry = Head(P) /\ NextEntry(P).rest = Tail(P)
  BY DEF NextEntry
<1>3. /\ store' = [store EXCEPT ![Head(P).key] = before + Head(P).id]
      /\ to_persist' = [to_persist EXCEPT ![t] = Tail(P)]
      /\ retrying' = [retrying EXCEPT ![t] = retrying[t] /\ Tail(P) # <<>>]
      /\ UNCHANGED <<vars, found, before, fetched, copied, missed>>
  BY <1>2 DEF Persist, Written, runVars
<1> HIDE DEF P
<1>4. /\ Len(P) \in Nat /\ Len(P) >= 1 /\ Head(P) = P[1] /\ DOMAIN P = 1 .. Len(P)
      /\ Tail(P) \in Seq(DirtyRecord) /\ Len(Tail(P)) = Len(P) - 1
      /\ \A i \in 1 .. Len(P) - 1 : Tail(P)[i] = P[i + 1]
  BY <1>1, HeadTailProperties, EmptySeq
<1>5. P[1] \in DirtyRecord
  BY <1>1, <1>4
<1>6. P[1].key \in Key /\ P[1].id \in Nat
  BY <1>5 DEF DirtyRecord, WriteId
<1>7. retrying \in [Thread -> BOOLEAN]
  BY DEF SysTypeOK
<1>8. /\ retrying' \in [Thread -> BOOLEAN]
      /\ retrying'[t] <=> retrying[t] /\ Tail(P) # <<>>
      /\ \A u \in Thread \ {t} : retrying'[u] = retrying[u]
  BY <1>3, <1>7
<1>9. /\ to_persist'[t] = Tail(P)
      /\ \A u \in Thread \ {t} : to_persist'[u] = to_persist[u]
  BY <1>1, <1>3
<1> QED
  BY <1>1, <1>3, <1>4, <1>5, <1>6, <1>8, <1>9 DEF P

\* What is taken.
LEMMA TakeFacts ==
  ASSUME TypeOK, TypeOK', SysTypeOK, NEW t \in Thread, TakeBatch(t)
  PROVE  /\ op[t].pc = "idle" /\ "flush" \in Calls[t] /\ ~fetched[t].some /\ op' = op
         /\ UNCHANGED <<store, found, before, fetched, copied, missed, next_cache, visible>>
         /\ Dirty!Appended' = Dirty!Appended /\ retired' = retired
         /\ to_persist' \in [Thread -> Seq(DirtyRecord)]
         /\ retrying' \in [Thread -> BOOLEAN]
         /\ \A u \in Thread \ {t} : to_persist'[u] = to_persist[u] /\ retrying'[u] = retrying[u]
         /\ to_persist'[t] = inflight'
         /\ \/ inflight # <<>> /\ inflight' = inflight /\ retrying'[t]
            \/ inflight = <<>> /\ ~retrying'[t]
<1>1. /\ retrying \in [Thread -> BOOLEAN] /\ to_persist \in [Thread -> Seq(DirtyRecord)]
      /\ held \in [Thread -> Seq(DirtyRecord)] /\ held' \in [Thread -> Seq(DirtyRecord)]
  BY DEF SysTypeOK, TypeOK
<1>2. /\ ~fetched[t].some /\ to_persist' = [to_persist EXCEPT ![t] = held'[t]]
      /\ UNCHANGED <<store, found, before, fetched, copied, missed>>
  BY DEF TakeBatch, runVars
<1>3. /\ to_persist' \in [Thread -> Seq(DirtyRecord)] /\ to_persist'[t] = held'[t]
      /\ \A u \in Thread \ {t} : to_persist'[u] = to_persist[u]
  BY <1>1, <1>2
<1>4. CASE FlushAgain(t) /\ retrying' = [retrying EXCEPT ![t] = TRUE]
  <2>1. /\ op[t].pc = "idle" /\ "flush" \in Calls[t] /\ inflight # <<>>
        /\ held' = [held EXCEPT ![t] = inflight]
        /\ UNCHANGED <<op, visible, next_cache>> /\ UNCHANGED logVars
    BY <1>4 DEF FlushAgain, cleanVars
  <2>2. held'[t] = inflight
    BY <1>1, <2>1
  <2>3. /\ retrying' \in [Thread -> BOOLEAN] /\ retrying'[t]
        /\ \A u \in Thread \ {t} : retrying'[u] = retrying[u]
    BY <1>1, <1>4
  <2>4. Dirty!Appended' = Dirty!Appended /\ retired' = retired /\ inflight' = inflight
    BY <2>1, SameLog
  <2> QED
    BY <1>2, <1>3, <2>1, <2>2, <2>3, <2>4
<1>5. CASE retrying' = [retrying EXCEPT ![t] = FALSE]
           /\ (FlushNothing(t) \/ \E limit \in Limit : FlushNew(t, limit))
  <2>1. /\ retrying' \in [Thread -> BOOLEAN] /\ ~retrying'[t]
        /\ \A u \in Thread \ {t} : retrying'[u] = retrying[u]
    BY <1>1, <1>5
  <2>2. CASE FlushNothing(t)
    <3>1. /\ op[t].pc = "idle" /\ "flush" \in Calls[t] /\ inflight = <<>>
          /\ held' = [held EXCEPT ![t] = <<>>]
          /\ UNCHANGED <<op, visible, next_cache>> /\ UNCHANGED logVars
      BY <2>2 DEF FlushNothing, cleanVars
    <3>2. held'[t] = <<>>
      BY <1>1, <3>1
    <3>3. Dirty!Appended' = Dirty!Appended /\ retired' = retired /\ inflight' = inflight
      BY <3>1, SameLog
    <3> QED
      BY <1>2, <1>3, <2>1, <3>1, <3>2, <3>3
  <2>3. ASSUME NEW limit \in Limit, FlushNew(t, limit)
        PROVE  /\ op[t].pc = "idle" /\ "flush" \in Calls[t] /\ inflight = <<>>
               /\ held'[t] = inflight' /\ UNCHANGED <<op, visible, next_cache>>
               /\ Dirty!Appended' = Dirty!Appended /\ retired' = retired
    <3>1. /\ op[t].pc = "idle" /\ "flush" \in Calls[t]
          /\ Dirty!Take(IF Len(pending) < limit THEN Len(pending) ELSE limit)
          /\ held' = [held EXCEPT ![t] = inflight']
          /\ UNCHANGED <<op, visible, next_cache>>
      BY <2>3 DEF FlushNew, cleanVars
    <3>2. held'[t] = inflight'
      BY <1>1, <3>1
    <3> QED
      BY <3>1, <3>2, TakeLog
  <2> QED
    BY <1>2, <1>3, <1>5, <2>1, <2>2, <2>3
<1> QED
  BY <1>4, <1>5 DEF TakeBatch

\* What is marked.
LEMMA MarkFacts ==
  ASSUME TypeOK, NEW t \in Thread, Mark(t)
  PROVE  /\ Free(t) /\ "flush" \in Calls[t] /\ UNCHANGED appVars
         /\ op'[t].pc = "unpublish" /\ \A u \in Thread \ {t} : op'[u] = op[u]
         /\ Dirty!Appended' = Dirty!Appended /\ visible' = visible /\ next_cache' = next_cache
         /\ retired' = retired \o inflight /\ inflight' = <<>>
<1>1. op \in [Thread -> OpType]
  BY DEF TypeOK
<1> QED
  BY <1>1, RetireLog DEF Mark, MarkFlushed, cleanVars

\* What is filled.
LEMMA FillFacts ==
  ASSUME TypeOK, SysTypeOK, NEW t \in Thread, Fill(t)
  PROVE  /\ fetched[t].some /\ fetched[t].key \in Key /\ op[t].pc = "idle"
         /\ "fill" \in Calls[t] /\ next_cache \in CacheId /\ next_cache' = next_cache + 1
         /\ op'[t].pc = "entry" /\ op'[t].key = fetched[t].key /\ op'[t].id = next_cache
         /\ \A u \in Thread \ {t} : op'[u] = op[u]
         /\ copied' = [copied EXCEPT ![next_cache] = fetched[t].value]
         /\ fetched' = [fetched EXCEPT ![t] = Nothing]
         /\ UNCHANGED <<store, found, before, to_persist, retrying, missed, visible>>
         /\ UNCHANGED logVars
<1>1. op \in [Thread -> OpType] /\ next_cache \in 0 .. MaxCache
  BY DEF TypeOK
<1>2. next_cache \in CacheId
  BY <1>1, BoundAssumption DEF Fill, TakeCacheId, CacheId
<1>3. fetched[t].key \in Key
  BY FetchedType DEF Fill
<1> QED
  BY <1>1, <1>2, <1>3 DEF Fill, TakeCacheId, runVars

\* Every step but a restart keeps the types of the application.
LEMMA NextSysTypeOK ==
  ASSUME TypeOK, TypeOK', SysTypeOK, [SysNext]_sysVars, ~Restart
  PROVE  SysTypeOK'
<1>0. /\ store \in [Key -> Int] /\ found \in [Key -> Int] /\ before \in Nat
      /\ to_persist \in [Thread -> Seq(DirtyRecord)]
      /\ fetched \in [Thread -> {Nothing} \cup [some : {TRUE}, key : Key, value : Int]]
      /\ copied \in [CacheId -> Int]
  BY DEF SysTypeOK
<1>1. ASSUME UNCHANGED appVars PROVE SysTypeOK'
  BY <1>1 DEF appVars, runVars, SysTypeOK
<1>2. ASSUME NEW t \in Thread, TakeBatch(t) PROVE SysTypeOK'
  BY <1>2, TakeFacts DEF SysTypeOK
<1>3. ASSUME NEW t \in Thread, Persist(t) PROVE SysTypeOK'
  <2> DEFINE P == to_persist[t]
  <2>1. /\ P[1].key \in Key /\ P[1].id \in Nat /\ Tail(P) \in Seq(DirtyRecord)
        /\ store' = [store EXCEPT ![P[1].key] = before + P[1].id]
        /\ to_persist' = [to_persist EXCEPT ![t] = Tail(P)]
        /\ retrying' \in [Thread -> BOOLEAN]
        /\ UNCHANGED <<found, before, fetched, copied, missed>>
    BY <1>3, NextFacts
  <2> HIDE DEF P
  <2>2. before + P[1].id \in Int
    BY <1>0, <2>1
  <2>3. store' \in [Key -> Int]
    BY <1>0, <2>1, <2>2
  <2>4. to_persist' \in [Thread -> Seq(DirtyRecord)]
    BY <1>0, <2>1
  <2> QED
    BY <2>1, <2>3, <2>4 DEF SysTypeOK
<1>4. ASSUME NEW t \in Thread, NEW k \in Key, Fetch(t, k) PROVE SysTypeOK'
  <2>1. /\ fetched' = [fetched EXCEPT ![t] = [some |-> TRUE, key |-> k, value |-> store[k]]]
        /\ UNCHANGED <<store, found, before, to_persist, retrying, copied, missed>>
    BY <1>4 DEF Fetch, Fetched, runVars
  <2>2. [some |-> TRUE, key |-> k, value |-> store[k]]
          \in [some : {TRUE}, key : Key, value : Int]
    BY <1>0
  <2>3. fetched' \in [Thread -> {Nothing} \cup [some : {TRUE}, key : Key, value : Int]]
    BY <1>0, <2>1, <2>2
  <2> QED
    BY <2>1, <2>3 DEF SysTypeOK
<1>5. ASSUME NEW t \in Thread, Fill(t) PROVE SysTypeOK'
  <2>1. /\ fetched[t].some /\ copied' = [copied EXCEPT ![next_cache] = fetched[t].value]
        /\ fetched' = [fetched EXCEPT ![t] = Nothing]
        /\ UNCHANGED <<store, found, before, to_persist, retrying, missed>>
    BY <1>5, FillFacts
  <2>2. fetched[t].value \in Int
    BY <2>1, FetchedType
  <2>3. copied' \in [CacheId -> Int]
    BY <1>0, <2>1, <2>2
  <2>4. fetched' \in [Thread -> {Nothing} \cup [some : {TRUE}, key : Key, value : Int]]
    BY <1>0, <2>1
  <2> QED
    BY <2>1, <2>3, <2>4 DEF SysTypeOK
<1>6. ASSUME NEW k \in Key, ReadMiss(k) PROVE SysTypeOK'
  <2>1. /\ missed' = [some |-> TRUE, key |-> k, floor |-> Floor(k)]
        /\ UNCHANGED <<store, found, before, to_persist, retrying, fetched, copied>>
    BY <1>6 DEF ReadMiss, runVars
  <2>2. Floor(k) \in Int
    BY FloorFacts
  <2>3. missed' \in [some : {TRUE}, key : Key, floor : Int]
    BY <2>1, <2>2
  <2> QED
    BY <2>1, <2>3 DEF SysTypeOK
<1>7. CASE ReadStore
  BY <1>7 DEF ReadStore, runVars, SysTypeOK
<1> QED
  BY <1>1, <1>2, <1>3, <1>4, <1>5, <1>6, <1>7, SysSteps DEF Alone, Mark, sysVars

\* Only the thread of the loop has something to persist or to fill with.
LEMMA OneThread ==
  ASSUME OneLoop, OneAtATime, NEW t \in Thread, "flush" \in Calls[t] \/ "fill" \in Calls[t]
  PROVE  \A u \in Thread \ {t} :
           to_persist[u] = <<>> /\ ~fetched[u].some /\ op[u].pc \notin {"entry", "unpublish"}
<1> SUFFICES ASSUME NEW u \in Thread \ {t},
                    ~(to_persist[u] = <<>> /\ ~fetched[u].some
                      /\ op[u].pc \notin {"entry", "unpublish"})
             PROVE  FALSE
  OBVIOUS
<1>1. "flush" \in Calls[u] \/ "fill" \in Calls[u]
  BY DEF OneAtATime
<1>2. Calls[t] \cap {"flush", "fill"} # {} /\ Calls[u] \cap {"flush", "fill"} # {}
  BY <1>1
<1> QED
  BY <1>2 DEF OneLoop

\* Every step but a restart leaves each thread with one thing to do.
LEMMA NextOneAtATime ==
  ASSUME TypeOK, TypeOK', SysTypeOK, OneAtATime, [SysNext]_sysVars, ~Restart
  PROVE  OneAtATime'
<1> DEFINE Good(u) ==
             /\ to_persist'[u] # <<>> =>
                  "flush" \in Calls[u] /\ op'[u].pc = "idle" /\ ~fetched'[u].some
             /\ fetched'[u].some => "fill" \in Calls[u] /\ op'[u].pc = "idle"
             /\ op'[u].pc = "entry" => "fill" \in Calls[u]
             /\ op'[u].pc = "unpublish" => "flush" \in Calls[u]
             /\ retrying'[u] => to_persist'[u] # <<>>
<1> SUFFICES ASSUME NEW u \in Thread PROVE Good(u)
  BY DEF OneAtATime
<1>0. /\ to_persist[u] # <<>> =>
           "flush" \in Calls[u] /\ op[u].pc = "idle" /\ ~fetched[u].some
      /\ fetched[u].some => "fill" \in Calls[u] /\ op[u].pc = "idle"
      /\ op[u].pc = "entry" => "fill" \in Calls[u]
      /\ op[u].pc = "unpublish" => "flush" \in Calls[u]
      /\ retrying[u] => to_persist[u] # <<>>
  BY DEF OneAtATime
<1>1. ASSUME op'[u] = op[u], to_persist'[u] = to_persist[u], fetched'[u] = fetched[u],
             retrying'[u] = retrying[u]
      PROVE  Good(u)
  BY <1>0, <1>1
<1>2. ASSUME NEW t \in Thread, Alone(t) PROVE Good(u)
  <2>1. UNCHANGED <<to_persist, retrying, fetched>>
    BY <1>2 DEF Alone, appVars
  <2>2. /\ to_persist[t] = <<>> /\ ~fetched[t].some
        /\ \A v \in Thread \ {t} : op'[v] = op[v]
        /\ op'[t].pc # "entry" /\ (op'[t].pc = "unpublish" => op[t].pc = "unpublish")
    BY <1>2, AloneFacts
  <2> QED
    BY <1>0, <1>1, <2>1, <2>2
<1>3. ASSUME NEW t \in Thread, TakeBatch(t) PROVE Good(u)
  <2>1. /\ op[t].pc = "idle" /\ "flush" \in Calls[t] /\ ~fetched[t].some
        /\ UNCHANGED <<op, fetched>>
        /\ \A v \in Thread \ {t} : to_persist'[v] = to_persist[v] /\ retrying'[v] = retrying[v]
        /\ retrying'[t] => to_persist'[t] # <<>>
    BY <1>3, TakeFacts
  <2> QED
    BY <1>1, <2>1
<1>4. ASSUME NEW t \in Thread, Persist(t) PROVE Good(u)
  <2>1. /\ \A v \in Thread \ {t} : to_persist'[v] = to_persist[v] /\ retrying'[v] = retrying[v]
        /\ retrying'[t] => to_persist'[t] # <<>>
        /\ UNCHANGED <<op, fetched>>
    BY <1>4, NextFacts DEF vars
  <2>2. to_persist[t] # <<>>
    BY <1>4 DEF Persist
  <2> QED
    BY <1>0, <1>1, <2>1, <2>2
<1>5. ASSUME NEW t \in Thread, Mark(t) PROVE Good(u)
  <2>1. /\ Free(t) /\ "flush" \in Calls[t] /\ op'[t].pc = "unpublish"
        /\ \A v \in Thread \ {t} : op'[v] = op[v]
        /\ UNCHANGED <<to_persist, retrying, fetched>>
    BY <1>5, MarkFacts DEF appVars
  <2> QED
    BY <1>0, <1>1, <2>1 DEF Free
<1>6. ASSUME NEW t \in Thread, Fill(t) PROVE Good(u)
  <2>1. /\ fetched[t].some /\ "fill" \in Calls[t] /\ op'[t].pc = "entry"
        /\ \A v \in Thread \ {t} : op'[v] = op[v]
        /\ fetched' = [fetched EXCEPT ![t] = Nothing]
        /\ UNCHANGED <<to_persist, retrying>>
    BY <1>6, FillFacts
  <2>2. /\ ~fetched'[t].some /\ \A v \in Thread \ {t} : fetched'[v] = fetched[v]
    BY <2>1 DEF SysTypeOK, Nothing
  <2> QED
    BY <1>0, <1>1, <2>1, <2>2
<1>7. ASSUME NEW t \in Thread, NEW k \in Key, Fetch(t, k) PROVE Good(u)
  <2>1. /\ Free(t) /\ "fill" \in Calls[t] /\ UNCHANGED <<op, to_persist, retrying>>
        /\ fetched' = [fetched EXCEPT ![t] = Fetched(k)]
    BY <1>7 DEF Fetch, vars
  <2>2. \A v \in Thread \ {t} : fetched'[v] = fetched[v]
    BY <2>1 DEF SysTypeOK
  <2> QED
    BY <1>0, <1>1, <2>1, <2>2 DEF Free
<1>8. ASSUME UNCHANGED <<op, to_persist, retrying, fetched>> PROVE Good(u)
  BY <1>1, <1>8
<1>9. ASSUME (\E k \in Key : ReadMiss(k)) \/ ReadStore \/ UNCHANGED sysVars
      PROVE  UNCHANGED <<op, to_persist, retrying, fetched>>
  BY <1>9 DEF ReadMiss, ReadStore, sysVars, appVars, vars
<1> QED
  BY <1>2, <1>3, <1>4, <1>5, <1>6, <1>7, <1>8, <1>9, SysSteps

(***************************************************************************)
(* The store.                                                              *)
(***************************************************************************)

\* StoreInPlace, of any log of which r records are retired and f in flight,
\* before a step or after it.
InPlace(log, r, f, P, again, st, b, fd) ==
  /\ \A k \in Key : fd[k] < b
  /\ (\A t \in Thread : P[t] = <<>>) =>
       \A k \in Key : st[k] = LastIn(log, k, r + f, b, fd[k])
  /\ \A t \in Thread : P[t] # <<>> =>
       /\ Len(P[t]) <= f
       /\ \A i \in DOMAIN P[t] : P[t][i] = log[((r + f) - Len(P[t])) + i]
       /\ \A k \in Key : \E n \in (r + f) - Len(P[t]) .. r + f :
            st[k] = LastIn(log, k, n, b, fd[k])
       /\ ~again[t] => \A k \in Key : st[k] = LastIn(log, k, (r + f) - Len(P[t]), b, fd[k])

\* StoreInPlace is InPlace of the variables of this state, and of the next.
LEMMA InPlaceDef ==
  /\ StoreInPlace <=> InPlace(Dirty!Appended, Len(retired), Len(inflight), to_persist,
                              retrying, store, before, found)
  /\ StoreInPlace' <=> InPlace(Dirty!Appended', Len(retired'), Len(inflight'), to_persist',
                               retrying', store', before', found')
BY DEF StoreInPlace, InPlace, Handed, PersistedTo, LastOf, LastIn, Written

\* The log and its parts, by number.
LEMMA LogNumbers ==
  ASSUME TypeOK
  PROVE  /\ DOMAIN Dirty!Appended = 1 .. Len(Dirty!Appended) /\ Len(Dirty!Appended) \in Nat
         /\ Len(retired) \in Nat /\ Len(inflight) \in Nat
         /\ Len(retired) + Len(inflight) <= Len(Dirty!Appended)
         /\ \A i \in DOMAIN Dirty!Appended :
              /\ Dirty!Appended[i].id \in Nat /\ Dirty!Appended[i].id < MaxWrite
              /\ Dirty!Appended[i].key \in Key
<1> DEFINE log == Dirty!Appended
           front == retired \o inflight
<1>1. /\ retired \in Seq(DirtyRecord) /\ inflight \in Seq(DirtyRecord)
      /\ pending \in Seq(DirtyRecord) /\ front \in Seq(DirtyRecord)
      /\ log \in Seq(DirtyRecord) /\ log = front \o pending
  BY LogSeqs
<1>2. Len(front) = Len(retired) + Len(inflight)
  BY <1>1, ConcatProperties
<1> HIDE DEF front
<1>3. Len(front \o pending) = Len(front) + Len(pending)
  BY <1>1, ConcatProperties
<1> HIDE DEF log
<1>4. \A i \in DOMAIN log : log[i] \in DirtyRecord
  BY <1>1
<1>5. \A i \in DOMAIN log : log[i].id \in Nat /\ log[i].id < MaxWrite /\ log[i].key \in Key
  BY <1>4, BoundAssumption DEF DirtyRecord, WriteId
<1>6. /\ DOMAIN log = 1 .. Len(log) /\ Len(log) \in Nat
      /\ Len(retired) \in Nat /\ Len(inflight) \in Nat /\ Len(pending) \in Nat
  BY <1>1
<1> QED
  BY <1>1, <1>2, <1>3, <1>5, <1>6 DEF log

\* It holds of any log that agrees as far as it is handed out.
LEMMA InPlaceSame ==
  ASSUME NEW log, NEW more, NEW r \in Nat, NEW f \in Nat, NEW s \in Nat, NEW g \in Nat,
         NEW P, NEW again, NEW st, NEW b, NEW fd,
         \A t \in Thread : P[t] \in Seq(DirtyRecord),
         InPlace(log, r, f, P, again, st, b, fd),
         \A i \in 1 .. r + f : more[i] = log[i],
         s + g = r + f, g = f \/ \A t \in Thread : P[t] = <<>>
  PROVE  InPlace(more, s, g, P, again, st, b, fd)
<1>1. \A k \in Key : fd[k] < b
  BY DEF InPlace
<1>2. ASSUME NEW k, NEW n \in 0 .. r + f
      PROVE  LastIn(more, k, n, b, fd[k]) = LastIn(log, k, n, b, fd[k])
  <2>1. n \in Nat /\ \A i \in 1 .. n : more[i] = log[i]
    OBVIOUS
  <2> QED
    BY <2>1, LastSame
<1>3. ASSUME \A t \in Thread : P[t] = <<>>, NEW k \in Key
      PROVE  st[k] = LastIn(more, k, s + g, b, fd[k])
  <2>1. st[k] = LastIn(log, k, r + f, b, fd[k])
    BY <1>3 DEF InPlace
  <2>2. r + f \in 0 .. r + f
    OBVIOUS
  <2> QED
    BY <1>2, <2>1, <2>2
<1>4. ASSUME NEW t \in Thread, P[t] # <<>>
      PROVE  /\ Len(P[t]) <= g
             /\ \A i \in DOMAIN P[t] : P[t][i] = more[((s + g) - Len(P[t])) + i]
             /\ \A k \in Key : \E n \in (s + g) - Len(P[t]) .. s + g :
                  st[k] = LastIn(more, k, n, b, fd[k])
             /\ ~again[t] =>
                  \A k \in Key : st[k] = LastIn(more, k, (s + g) - Len(P[t]), b, fd[k])
  <2> DEFINE m == Len(P[t])
  <2>1. g = f
    BY <1>4
  <2>2. /\ m <= f
        /\ \A i \in DOMAIN P[t] : P[t][i] = log[((r + f) - m) + i]
        /\ \A k \in Key : \E n \in (r + f) - m .. r + f : st[k] = LastIn(log, k, n, b, fd[k])
        /\ ~again[t] => \A k \in Key : st[k] = LastIn(log, k, (r + f) - m, b, fd[k])
    BY <1>4 DEF InPlace
  <2>3. m \in Nat /\ DOMAIN P[t] = 1 .. m
    OBVIOUS
  <2> HIDE DEF m
  <2>4. (r + f) - m \in 0 .. r + f
    BY <2>2, <2>3
  <2>5. \A i \in DOMAIN P[t] : P[t][i] = more[((s + g) - m) + i]
    <3> SUFFICES ASSUME NEW i \in DOMAIN P[t]
                 PROVE  P[t][i] = more[((s + g) - m) + i]
      OBVIOUS
    <3>1. ((r + f) - m) + i \in 1 .. r + f /\ ((s + g) - m) + i = ((r + f) - m) + i
      BY <2>2, <2>3
    <3>2. more[((r + f) - m) + i] = log[((r + f) - m) + i]
      BY <3>1
    <3> QED
      BY <2>2, <3>1, <3>2
  <2>6. \A k \in Key : \E n \in (s + g) - m .. s + g : st[k] = LastIn(more, k, n, b, fd[k])
    <3> SUFFICES ASSUME NEW k \in Key
                 PROVE  \E n \in (s + g) - m .. s + g : st[k] = LastIn(more, k, n, b, fd[k])
      OBVIOUS
    <3>1. PICK n \in (r + f) - m .. r + f : st[k] = LastIn(log, k, n, b, fd[k])
      BY <2>2
    <3>2. n \in 0 .. r + f
      BY <2>4, <3>1
    <3>3. LastIn(more, k, n, b, fd[k]) = LastIn(log, k, n, b, fd[k])
      BY <1>2, <3>2
    <3> QED
      BY <3>1, <3>3
  <2>7. ASSUME ~again[t], NEW k \in Key
        PROVE  st[k] = LastIn(more, k, (s + g) - m, b, fd[k])
    BY <1>2, <2>2, <2>4, <2>7
  <2> QED
    BY <2>1, <2>2, <2>5, <2>6, <2>7 DEF m
<1> QED
  BY <1>1, <1>3, <1>4 DEF InPlace

\* What follows r in r \o f \o p is f.
LEMMA FrontOf ==
  ASSUME NEW S, NEW r \in Seq(S), NEW f \in Seq(S), NEW p \in Seq(S), NEW j \in DOMAIN f
  PROVE  ((r \o f) \o p)[Len(r) + j] = f[j]
<1>1. r \o f \in Seq(S) /\ Len(r \o f) = Len(r) + Len(f)
  BY ConcatProperties
<1>2. j \in 1 .. Len(f) /\ Len(r) \in Nat /\ Len(f) \in Nat
  OBVIOUS
<1>3. Len(r) + j \in 1 .. Len(r \o f)
  BY <1>1, <1>2
<1>4. ((r \o f) \o p)[Len(r) + j] = (r \o f)[Len(r) + j]
  BY <1>1, <1>3, ConcatProperties
<1>5. (r \o f)[Len(r) + j] = f[j]
  BY <1>2, ConcatProperties
<1> QED
  BY <1>4, <1>5

\* A batch that is taken starts at the end of what is retired.
LEMMA TakeInPlace ==
  ASSUME TypeOK, TypeOK', SysTypeOK, OneLoop, OneAtATime, StoreInPlace,
         NEW t \in Thread, TakeBatch(t)
  PROVE  StoreInPlace'
<1> DEFINE log == Dirty!Appended
           r == Len(retired)
           f == Len(inflight)
           g == Len(inflight')
           Last(k, n) == LastIn(log, k, n, before, found[k])
<1>1. InPlace(log, r, f, to_persist, retrying, store, before, found)
  BY InPlaceDef
<1>2. /\ "flush" \in Calls[t] /\ UNCHANGED <<store, found, before>>
      /\ Dirty!Appended' = Dirty!Appended /\ retired' = retired
      /\ to_persist'[t] = inflight'
      /\ \A u \in Thread \ {t} : to_persist'[u] = to_persist[u]
      /\ \/ inflight # <<>> /\ inflight' = inflight /\ retrying'[t]
         \/ inflight = <<>> /\ ~retrying'[t]
  BY TakeFacts
<1>3. \A u \in Thread \ {t} : to_persist[u] = <<>> /\ to_persist'[u] = <<>>
  BY <1>2, OneThread
<1>4. /\ r \in Nat /\ f \in Nat /\ g \in Nat
      /\ inflight' = <<>> <=> g = 0
      /\ inflight = <<>> <=> f = 0
  <2>1. inflight \in Seq(DirtyRecord) /\ inflight' \in Seq(DirtyRecord) /\ r \in Nat
    BY LogNumbers DEF TypeOK, Dirty!TypeOK
  <2> QED
    BY <2>1, EmptySeq
<1>5. \A j \in DOMAIN inflight' : inflight'[j] = log[r + j]
  <2>1. /\ retired' \in Seq(DirtyRecord) /\ inflight' \in Seq(DirtyRecord)
        /\ pending' \in Seq(DirtyRecord)
    BY DEF TypeOK, Dirty!TypeOK
  <2>2. log = (retired' \o inflight') \o pending'
    BY <1>2 DEF Dirty!Appended
  <2> HIDE DEF log
  <2> QED
    BY <1>2, <2>1, <2>2, FrontOf
<1>6. /\ Len(to_persist[t]) \in Nat /\ to_persist[t] # <<>> => Len(to_persist[t]) > 0
  BY EmptySeq DEF SysTypeOK
<1> HIDE DEF log, r, f
<1>7. \A k \in Key : \E n \in r .. r + f : store[k] = Last(k, n)
  <2>1. CASE to_persist[t] = <<>>
    <3>1. \A u \in Thread : to_persist[u] = <<>>
      BY <1>3, <2>1
    <3>2. \A k \in Key : store[k] = Last(k, r + f)
      BY <1>1, <3>1 DEF InPlace
    <3> QED
      BY <1>4, <3>2
  <2>2. CASE to_persist[t] # <<>>
    <3> DEFINE m == Len(to_persist[t])
    <3>1. m <= f /\ \A k \in Key : \E n \in (r + f) - m .. r + f : store[k] = Last(k, n)
      BY <1>1, <2>2 DEF InPlace
    <3>2. \A n \in (r + f) - m .. r + f : n \in r .. r + f
      BY <1>4, <1>6, <3>1
    <3> HIDE DEF m, Last
    <3> QED
      BY <3>1, <3>2
  <2> QED
    BY <2>1, <2>2
<1>8. \A k \in Key : found[k] < before
  BY <1>1 DEF InPlace
<1>9. InPlace(log, r, g, to_persist', retrying', store, before, found)
  <2>1. CASE inflight # <<>> /\ inflight' = inflight /\ retrying'[t]
    <3>1. g = f /\ to_persist'[t] # <<>> /\ Len(to_persist'[t]) = f
      BY <1>2, <2>1 DEF f
    <3>2. DOMAIN to_persist'[t] = DOMAIN inflight' /\ (r + f) - f = r
      BY <1>2, <1>4
    <3>3. \A i \in DOMAIN to_persist'[t] : to_persist'[t][i] = log[r + i]
      BY <1>2, <1>5
    <3>4. ~(\A u \in Thread : to_persist'[u] = <<>>) /\ f <= g /\ r + g = r + f
      BY <3>1
    <3>5. ASSUME NEW u \in Thread, to_persist'[u] # <<>>
          PROVE  /\ u = t /\ Len(to_persist'[u]) <= g
                 /\ \A i \in DOMAIN to_persist'[u] :
                      to_persist'[u][i] = log[((r + g) - Len(to_persist'[u])) + i]
                 /\ \A k \in Key : \E n \in (r + g) - Len(to_persist'[u]) .. r + g :
                      store[k] = Last(k, n)
      <4>1. u = t
        BY <1>3, <3>5
      <4>2. (r + g) - Len(to_persist'[t]) = r
        BY <3>1, <3>2
      <4> HIDE DEF Last
      <4> QED
        BY <1>4, <1>7, <3>1, <3>3, <3>4, <4>1, <4>2
    <3> QED
      BY <1>8, <2>1, <3>4, <3>5 DEF InPlace
  <2>2. CASE inflight = <<>> /\ ~retrying'[t]
    <3>1. f = 0 /\ \A k \in Key : store[k] = Last(k, r)
      <4>1. f = 0
        BY <1>4, <2>2
      <4>2. \A n \in r .. r + f : n = r
        BY <1>4, <4>1
      <4> HIDE DEF Last
      <4> QED
        BY <1>7, <4>1, <4>2
    <3>2. CASE g = 0
      <4>1. \A u \in Thread : to_persist'[u] = <<>>
        BY <1>2, <1>3, <1>4, <3>2
      <4>2. r + g = r
        BY <1>4, <3>2
      <4> QED
        BY <1>8, <3>1, <4>1, <4>2 DEF InPlace
    <3>3. CASE g # 0
      <4>1. to_persist'[t] # <<>> /\ Len(to_persist'[t]) = g
        BY <1>2, <1>4, <3>3
      <4>2. (r + g) - g = r /\ r \in r .. r + g /\ g <= g
        BY <1>4
      <4>3. \A i \in DOMAIN to_persist'[t] : to_persist'[t][i] = log[r + i]
        BY <1>2, <1>5
      <4> QED
        BY <1>3, <1>8, <3>1, <4>1, <4>2, <4>3 DEF InPlace
    <3> QED
      BY <3>2, <3>3
  <2> QED
    BY <1>2, <2>1, <2>2
<1>10. /\ Dirty!Appended' = log /\ Len(retired') = r
  BY <1>2 DEF log, r
<1> QED
  BY <1>2, <1>9, <1>10, InPlaceDef

\* With one writer per key, the next record of the log is the last of its key;
\* for another key nothing changes.
LEMMA LastInLog ==
  ASSUME TypeOK, KeysInOrder, SysTypeOK, NEW n \in Nat, n + 1 <= Len(Dirty!Appended),
         NEW k \in Key
  PROVE  LET next == Dirty!Appended[n + 1] IN
         LastIn(Dirty!Appended, k, n + 1, before, found[k])
           = IF next.key = k THEN before + next.id
                             ELSE LastIn(Dirty!Appended, k, n, before, found[k])
<1> DEFINE log == Dirty!Appended
<1>1. /\ DOMAIN log = 1 .. Len(log) /\ Len(log) \in Nat
      /\ \A i \in DOMAIN log : log[i].id \in Nat /\ log[i].id < MaxWrite
  BY LogNumbers
<1>2. \A i, j \in DOMAIN log : i < j /\ log[i].key = log[j].key => log[i].id < log[j].id
  BY DEF KeysInOrder
<1>0. n + 1 <= Len(log)
  OBVIOUS
<1> HIDE DEF log
<1>3. \A i \in 1 .. n + 1 : log[i].id \in Nat /\ log[i].id < MaxWrite
  BY <1>0, <1>1
<1>4. ASSUME log[n + 1].key = k
      PROVE  \A i \in 1 .. n : log[i].key = k => log[i].id <= log[n + 1].id
  <2> SUFFICES ASSUME NEW i \in 1 .. n, log[i].key = k PROVE log[i].id <= log[n + 1].id
    OBVIOUS
  <2>1. i \in DOMAIN log /\ n + 1 \in DOMAIN log /\ i < n + 1
    BY <1>0, <1>1
  <2>2. log[i].id < log[n + 1].id
    BY <1>2, <1>4, <2>1
  <2> QED
    BY <1>1, <2>1, <2>2
<1>5. before \in Nat /\ MaxWrite \in Nat
  BY BoundAssumption DEF SysTypeOK
<1>6. /\ log[n + 1].key # k => LastIn(log, k, n + 1, before, found[k])
                                  = LastIn(log, k, n, before, found[k])
      /\ /\ log[n + 1].key = k
         /\ \A i \in 1 .. n : log[i].key = k => log[i].id <= log[n + 1].id
         => LastIn(log, k, n + 1, before, found[k]) = before + log[n + 1].id
  <2> DEFINE b == before
             d == found[k]
             B == MaxWrite
  <2>1. b \in Nat /\ B \in Nat /\ \A i \in 1 .. n + 1 : log[i].id \in Nat /\ log[i].id < B
    BY <1>3, <1>5
  <2> HIDE DEF b, d, B
  <2>2. GoesOn(log, k, n, b, d)
    BY <2>1, LastNext
  <2> QED
    BY <2>2 DEF GoesOn, b, d
<1> QED
  BY <1>4, <1>6 DEF log

\* A record that is persisted brings its key one record on.
LEMMA PersistInPlace ==
  ASSUME TypeOK, KeysInOrder, SysTypeOK, OneLoop, OneAtATime, StoreInPlace,
         NEW t \in Thread, Persist(t)
  PROVE  StoreInPlace'
<1> DEFINE log == Dirty!Appended
           r == Len(retired)
           f == Len(inflight)
           P == to_persist[t]
           m == Len(P)
           s == (r + f) - m
           Last(k, n) == LastIn(log, k, n, before, found[k])
<1>1. InPlace(log, r, f, to_persist, retrying, store, before, found)
  BY InPlaceDef
<1>2. /\ DOMAIN P = 1 .. m /\ m \in Nat /\ m >= 1 /\ P # <<>>
      /\ store' = [store EXCEPT ![P[1].key] = before + P[1].id]
      /\ to_persist'[t] = Tail(P) /\ Tail(P) \in Seq(DirtyRecord)
      /\ Len(Tail(P)) = m - 1 /\ \A i \in 1 .. m - 1 : Tail(P)[i] = P[i + 1]
      /\ \A u \in Thread \ {t} : to_persist'[u] = to_persist[u]
      /\ retrying'[t] <=> retrying[t] /\ Tail(P) # <<>>
      /\ UNCHANGED <<found, before>> /\ UNCHANGED vars
  BY NextFacts DEF Persist
<1>3. \A u \in Thread \ {t} : to_persist[u] = <<>> /\ to_persist'[u] = <<>>
  <2>1. "flush" \in Calls[t]
    BY <1>2 DEF OneAtATime
  <2> QED
    BY <1>2, <2>1, OneThread
<1>4. /\ r \in Nat /\ f \in Nat /\ r + f <= Len(log) /\ Len(log) \in Nat
  BY LogNumbers
<1>5. store \in [Key -> Int]
  BY DEF SysTypeOK
<1>6. ASSUME NEW n \in Nat, n + 1 <= Len(log), NEW k \in Key
      PROVE  Last(k, n + 1) = IF log[n + 1].key = k THEN before + log[n + 1].id
                                                    ELSE Last(k, n)
  BY <1>6, LastInLog
<1>7. DOMAIN Tail(P) = 1 .. m - 1 /\ (Tail(P) = <<>> <=> m = 1)
  <2> HIDE DEF P, m
  <2>1. DOMAIN Tail(P) = 1 .. m - 1
    BY <1>2
  <2>2. Tail(P) = <<>> <=> Len(Tail(P)) = 0
    BY <1>2, EmptySeq
  <2> QED
    BY <1>2, <2>1, <2>2
<1> HIDE DEF log, r, f, P
<1>8. /\ m <= f
      /\ \A i \in 1 .. m : P[i] = log[s + i]
      /\ \A k \in Key : \E n \in s .. r + f : store[k] = Last(k, n)
      /\ ~retrying[t] => \A k \in Key : store[k] = Last(k, s)
  BY <1>1, <1>2 DEF InPlace, P
<1>9. /\ s \in Nat /\ s + 1 <= Len(log) /\ s + 1 <= r + f /\ P[1] = log[s + 1]
  BY <1>2, <1>4, <1>8
<1> HIDE DEF m, s, Last
<1>10. ASSUME NEW k \in Key, store[k] = Last(k, s) PROVE store'[k] = Last(k, s + 1)
  <2>1. Last(k, s + 1) = IF P[1].key = k THEN before + P[1].id ELSE Last(k, s)
    BY <1>6, <1>9
  <2>2. store'[k] = IF P[1].key = k THEN before + P[1].id ELSE store[k]
    BY <1>2, <1>5
  <2> QED
    BY <1>10, <2>1, <2>2
<1>11. \A k \in Key : \E n \in s + 1 .. r + f : store'[k] = Last(k, n)
  <2> SUFFICES ASSUME NEW k \in Key PROVE \E n \in s + 1 .. r + f : store'[k] = Last(k, n)
    OBVIOUS
  <2>1. s + 1 \in s + 1 .. r + f
    BY <1>4, <1>9
  <2>2. CASE P[1].key = k
    <3>1. Last(k, s + 1) = before + log[s + 1].id
      BY <1>6, <1>9, <2>2
    <3>2. store'[k] = before + P[1].id
      BY <1>2, <1>5, <2>2
    <3>3. store'[k] = Last(k, s + 1)
      BY <1>9, <3>1, <3>2
    <3> QED
      BY <2>1, <3>3
  <2>3. CASE P[1].key # k
    <3>1. store'[k] = store[k]
      BY <1>2, <1>5, <2>3
    <3>2. PICK n \in s .. r + f : store[k] = Last(k, n)
      BY <1>8
    <3>3. CASE n = s
      BY <1>10, <2>1, <3>2, <3>3
    <3>4. CASE n # s
      <4>1. n \in s + 1 .. r + f
        BY <1>4, <1>9, <3>4
      <4> QED
        BY <3>1, <3>2, <4>1
    <3> QED
      BY <3>3, <3>4
  <2> QED
    BY <2>2, <2>3
<1>12. \A k \in Key : found[k] < before
  BY <1>1 DEF InPlace
<1>13. InPlace(log, r, f, to_persist', retrying', store', before, found)
  <2>1. CASE m = 1
    <3>1. \A u \in Thread : to_persist'[u] = <<>>
      BY <1>2, <1>3, <1>7, <2>1
    <3>2. s + 1 = r + f
      BY <1>4, <2>1 DEF s
    <3>3. \A n \in s + 1 .. r + f : n = r + f
      BY <1>4, <1>9, <3>2
    <3>4. \A k \in Key : store'[k] = Last(k, r + f)
      BY <1>11, <3>3
    <3> QED
      BY <1>12, <3>1, <3>4 DEF InPlace, Last
  <2>2. CASE m # 1
    <3>1. to_persist'[t] # <<>> /\ Len(to_persist'[t]) = m - 1 /\ m - 1 <= f
      BY <1>2, <1>4, <1>7, <1>8, <2>2
    <3>2. (r + f) - Len(to_persist'[t]) = s + 1
      <4>1. s = (r + f) - m
        BY DEF s
      <4>2. r \in Nat /\ f \in Nat /\ m \in Nat
        BY <1>2, <1>4
      <4> HIDE DEF s
      <4> QED
        BY <3>1, <4>1, <4>2
    <3>3. \A i \in DOMAIN to_persist'[t] : to_persist'[t][i] = log[(s + 1) + i]
      <4> SUFFICES ASSUME NEW i \in 1 .. m - 1 PROVE Tail(P)[i] = log[(s + 1) + i]
        BY <1>2, <1>7
      <4>1. i + 1 \in 1 .. m /\ s + (i + 1) = (s + 1) + i
        BY <1>2, <1>9
      <4>2. P[i + 1] = log[s + (i + 1)]
        BY <1>8, <4>1
      <4> QED
        BY <1>2, <4>1, <4>2
    <3>4. ~retrying'[t] => \A k \in Key : store'[k] = Last(k, s + 1)
      BY <1>2, <1>7, <1>8, <1>10, <2>2
    <3>5. ASSUME NEW u \in Thread, to_persist'[u] # <<>>
          PROVE  /\ u = t /\ Len(to_persist'[u]) <= f
                 /\ \A i \in DOMAIN to_persist'[u] :
                      to_persist'[u][i] = log[((r + f) - Len(to_persist'[u])) + i]
                 /\ \A k \in Key : \E n \in (r + f) - Len(to_persist'[u]) .. r + f :
                      store'[k] = Last(k, n)
                 /\ ~retrying'[u] =>
                      \A k \in Key : store'[k] = Last(k, (r + f) - Len(to_persist'[u]))
      <4>1. u = t
        BY <1>3, <3>5
      <4> QED
        BY <1>11, <3>1, <3>2, <3>3, <3>4, <4>1
    <3> QED
      BY <1>12, <3>1, <3>5 DEF InPlace, Last
  <2> QED
    BY <2>1, <2>2
<1>14. Dirty!Appended' = log /\ Len(retired') = r /\ Len(inflight') = f
  BY <1>2 DEF vars, logVars, Dirty!Appended, log, r, f
<1> QED
  BY <1>2, <1>13, <1>14, InPlaceDef

\* Every step but a restart keeps the store in place.
LEMMA NextStoreInPlace ==
  ASSUME IInv, TypeOK', KeysInOrder, SysTypeOK, OneLoop, OneAtATime, StoreInPlace,
         [SysNext]_sysVars, ~Restart
  PROVE  StoreInPlace'
<1> DEFINE log == Dirty!Appended
           r == Len(retired)
           f == Len(inflight)
<1>0. TypeOK
  BY DEF IInv
<1>1. InPlace(log, r, f, to_persist, retrying, store, before, found)
  BY InPlaceDef
<1>2. \A t \in Thread : to_persist[t] \in Seq(DirtyRecord)
  BY DEF SysTypeOK
<1>3. /\ r \in Nat /\ f \in Nat /\ r + f <= Len(log) /\ Len(log) \in Nat
      /\ DOMAIN log = 1 .. Len(log)
  BY <1>0, LogNumbers
<1>4. \A i \in 1 .. r + f : log'[i] = log[i]
  <2>1. [Next]_vars
    BY SysIsMap
  <2>2. \A i \in DOMAIN log : log'[i] = log[i]
    BY <2>1, LogGrows
  <2> HIDE DEF log, r, f
  <2> QED
    BY <1>3, <2>2
<1>5. ASSUME retired' = retired, inflight' = inflight,
             UNCHANGED <<to_persist, retrying, store, before, found>>
      PROVE  StoreInPlace'
  <2>1. InPlace(log', r, f, to_persist, retrying, store, before, found)
    <3> HIDE DEF log, r, f
    <3> QED
      BY <1>1, <1>2, <1>3, <1>4, InPlaceSame
  <2> QED
    BY <1>5, <2>1, InPlaceDef
<1>6. ASSUME NEW t \in Thread, Alone(t) PROVE StoreInPlace'
  <2>1. UNCHANGED <<to_persist, retrying, store, before, found>>
    BY <1>6 DEF Alone, appVars, runVars
  <2> QED
    BY <1>0, <1>5, <1>6, <2>1, AloneFacts
<1>7. ASSUME NEW t \in Thread, Mark(t) PROVE StoreInPlace'
  <2>1. /\ Free(t) /\ "flush" \in Calls[t] /\ UNCHANGED appVars
        /\ retired' = retired \o inflight /\ inflight' = <<>>
    BY <1>0, <1>7, MarkFacts
  <2>2. \A u \in Thread : to_persist[u] = <<>>
    BY <2>1, OneThread DEF Free
  <2>3. Len(retired') = r + f /\ Len(inflight') = 0
    <3>1. retired \in Seq(DirtyRecord) /\ inflight \in Seq(DirtyRecord)
      BY <1>0, LogSeqs
    <3> QED
      BY <2>1, <3>1, ConcatProperties, EmptySeq
  <2>4. InPlace(log', r + f, 0, to_persist, retrying, store, before, found)
    <3>1. r + f \in Nat /\ (r + f) + 0 = r + f
      BY <1>3
    <3> HIDE DEF log, r, f
    <3> QED
      BY <1>1, <1>2, <1>3, <1>4, <2>2, <3>1, InPlaceSame
  <2> QED
    BY <2>1, <2>3, <2>4, InPlaceDef DEF appVars, runVars
<1>8. ASSUME NEW t \in Thread, TakeBatch(t) PROVE StoreInPlace'
  BY <1>0, <1>8, TakeInPlace
<1>9. ASSUME NEW t \in Thread, Persist(t) PROVE StoreInPlace'
  BY <1>0, <1>9, PersistInPlace
<1>10. ASSUME NEW t \in Thread, Fill(t) PROVE StoreInPlace'
  <2>1. UNCHANGED <<store, found, before, to_persist, retrying>> /\ UNCHANGED logVars
    BY <1>0, <1>10, FillFacts
  <2> QED
    BY <1>5, <2>1 DEF logVars
<1>11. ASSUME NEW t \in Thread, NEW k \in Key, Fetch(t, k) PROVE StoreInPlace'
  BY <1>5, <1>11 DEF Fetch, vars, logVars, runVars
<1>12. ASSUME (\E k \in Key : ReadMiss(k)) \/ ReadStore \/ UNCHANGED sysVars
       PROVE  StoreInPlace'
  <2>1. /\ UNCHANGED <<retired, inflight>>
        /\ UNCHANGED <<to_persist, retrying, store, before, found>>
    BY <1>12 DEF ReadMiss, ReadStore, sysVars, appVars, vars, logVars, runVars
  <2> QED
    BY <1>5, <2>1
<1> QED
  BY <1>6, <1>7, <1>8, <1>9, <1>10, <1>11, <1>12, SysSteps

(***************************************************************************)
(* What the invariants say of the store and of reads.                      *)
(***************************************************************************)

\* Key by key, the store has a part of the log, with all that is retired.
LEMMA StorePlace ==
  ASSUME TypeOK, SysTypeOK, StoreInPlace, NEW k \in Key
  PROVE  \E n \in Len(retired) .. Len(Dirty!Appended) :
           store[k] = LastIn(Dirty!Appended, k, n, before, found[k])
<1> DEFINE log == Dirty!Appended
           r == Len(retired)
           f == Len(inflight)
           Has(n) == store[k] = LastIn(log, k, n, before, found[k])
<1>1. InPlace(log, r, f, to_persist, retrying, store, before, found)
  BY InPlaceDef
<1>2. r \in Nat /\ f \in Nat /\ r + f <= Len(log) /\ Len(log) \in Nat
  BY LogNumbers
<1> SUFFICES \E n \in r .. Len(log) : Has(n)
  OBVIOUS
<1> HIDE DEF log, r, f
<1>3. CASE \A t \in Thread : to_persist[t] = <<>>
  <2>1. r + f \in r .. Len(log) /\ Has(r + f)
    BY <1>1, <1>2, <1>3 DEF InPlace
  <2> QED
    BY <2>1
<1>4. ASSUME NEW t \in Thread, to_persist[t] # <<>>
      PROVE  \E n \in r .. Len(log) : Has(n)
  <2>1. Len(to_persist[t]) \in Nat
    BY DEF SysTypeOK
  <2>2. /\ Len(to_persist[t]) <= f
        /\ \E n \in (r + f) - Len(to_persist[t]) .. r + f : Has(n)
    BY <1>1, <1>4 DEF InPlace
  <2> HIDE DEF Has
  <2> QED
    BY <1>2, <2>1, <2>2
<1> QED
  BY <1>3, <1>4

\* So it has no less than what the run found, nor than what is retired.
LEMMA StoreHas ==
  ASSUME TypeOK, SysTypeOK, StoreInPlace, NEW k \in Key
  PROVE  /\ found[k] <= store[k]
         /\ \A i \in DOMAIN Dirty!Appended :
              i <= Len(retired) /\ Dirty!Appended[i].key = k
                => before + Dirty!Appended[i].id <= store[k]
<1> DEFINE log == Dirty!Appended
           b == before
           d == found[k]
           B == MaxWrite
<1>1. PICK n \in Len(retired) .. Len(log) : store[k] = LastIn(log, k, n, b, d)
  BY StorePlace
<1>2. /\ DOMAIN log = 1 .. Len(log) /\ Len(log) \in Nat /\ Len(retired) \in Nat
      /\ \A i \in DOMAIN log : log[i].id \in Nat /\ log[i].id < B
  BY LogNumbers
<1>3. b \in Nat /\ B \in Nat /\ d \in Int /\ store[k] \in Int
  BY BoundAssumption DEF SysTypeOK
<1>4. d < b
  BY DEF StoreInPlace
<1> HIDE DEF log, b, d, B
<1>5. n \in Nat /\ \A i \in 1 .. n : log[i].id \in Nat /\ log[i].id < B
  BY <1>2
<1> DEFINE last == LastIn(log, k, n, b, d)
<1>6. \/ /\ last = d
         /\ \A i \in 1 .. n : log[i].key # k
      \/ /\ \E j \in 1 .. n : log[j].key = k /\ last = b + log[j].id
         /\ \A i \in 1 .. n : log[i].key = k => b + log[i].id <= last
  BY <1>3, <1>5, LastFacts
<1>7. last = store[k]
  BY <1>1
<1> HIDE DEF last
<1>8. d <= store[k]
  BY <1>3, <1>4, <1>5, <1>6, <1>7
<1>9. ASSUME NEW i \in DOMAIN log, i <= Len(retired), log[i].key = k
      PROVE  b + log[i].id <= store[k]
  <2>1. i \in 1 .. n
    BY <1>2, <1>9
  <2> QED
    BY <1>6, <1>7, <1>9, <2>1
<1> QED
  BY <1>8, <1>9 DEF log, b, d

\* If the key shows no dirty entry, its completed writes are retired.
LEMMA CompletedRetired ==
  ASSUME IInv, QueuedShown, SysTypeOK, NEW k \in Key, visible[k].kind # "Dirty",
         NEW w \in Completed(k)
  PROVE  \E i \in DOMAIN retired : retired[i].key = k /\ w = before + retired[i].id
<1> DEFINE log == Dirty!Appended
<1>0. TypeOK
  BY DEF IInv
<1>1. PICK i \in DOMAIN log :
        log[i].key = k /\ Published(log[i]) /\ w = before + log[i].id
  BY <1>0, CompletedWrites
<1>2. i \in Nat /\ i >= 1 /\ Len(retired) \in Nat /\ DOMAIN retired = 1 .. Len(retired)
  BY <1>0, LogNumbers, LogSeqs
<1>3. CASE i > Len(retired)
  <2>1. log[i] \in Queued
    BY <1>3, QueuedOrRetired
  <2>2. log[i] \in PublishedQueued
    BY <1>1, <2>1 DEF PublishedQueued
  <2>3. \E newer \in PublishedQueued : visible[log[i].key] = DirtyRef(newer.id)
    BY <2>2 DEF QueuedShown
  <2>4. visible[k].kind = "Dirty"
    BY <1>1, <2>3 DEF DirtyRef
  <2> QED
    BY <2>4
<1>4. CASE ~(i > Len(retired))
  <2>1. i \in DOMAIN retired
    BY <1>2, <1>4
  <2>2. log[i] = retired[i]
    BY <1>0, <2>1, LogFront
  <2> QED
    BY <1>1, <2>1, <2>2
<1> QED
  BY <1>3, <1>4

\* Then the store has no less than they wrote.
LEMMA StoreCurrent ==
  ASSUME IInv, QueuedShown, SysTypeOK, StoreInPlace, NEW k \in Key, visible[k].kind # "Dirty"
  PROVE  found[k] <= store[k] /\ \A w \in Completed(k) : w <= store[k]
<1>0. TypeOK
  BY DEF IInv
<1>1. ASSUME NEW w \in Completed(k) PROVE w <= store[k]
  <2>1. PICK i \in DOMAIN retired : retired[i].key = k /\ w = before + retired[i].id
    BY CompletedRetired
  <2>2. i <= Len(retired)
    BY <1>0, LogSeqs
  <2>3. i \in DOMAIN Dirty!Appended /\ Dirty!Appended[i] = retired[i]
    BY <1>0, LogFront
  <2> QED
    BY <1>0, <2>1, <2>2, <2>3, StoreHas
<1> QED
  BY <1>0, <1>1, StoreHas

\* A visible dirty entry is newer than what the run found, and no older than
\* the completed writes of its key.
LEMMA DirtyCurrent ==
  ASSUME TypeOK, VisibleNewest, SysTypeOK, StoreInPlace, CopiesFresh,
         NEW k \in Key, visible[k].kind = "Dirty"
  PROVE  /\ visible[k].id \in Nat /\ found[k] < before + visible[k].id
         /\ \A w \in Completed(k) : w <= before + visible[k].id
<1> DEFINE log == Dirty!Appended
<1>1. PICK j \in DOMAIN log : log[j] = [id |-> visible[k].id, key |-> k]
  BY DEF CopiesFresh
<1>2. \A i \in DOMAIN log : log[i].id \in Nat
  BY LogNumbers
<1>3. visible[k].id \in Nat
  BY <1>1, <1>2
<1>4. found[k] < before /\ found[k] \in Int /\ before \in Nat
  BY DEF StoreInPlace, SysTypeOK
<1>5. ASSUME NEW w \in Completed(k) PROVE w <= before + visible[k].id
  <2>1. PICK i \in DOMAIN log :
          log[i].key = k /\ Published(log[i]) /\ w = before + log[i].id
    BY CompletedWrites
  <2>2. log[i].id <= visible[k].id
    BY <2>1 DEF VisibleNewest
  <2> HIDE DEF log
  <2> QED
    BY <1>2, <1>3, <1>4, <2>1, <2>2
<1> QED
  BY <1>3, <1>4, <1>5

\* A visible clean entry has a copy, a number.
LEMMA CleanCopy ==
  ASSUME TypeOK, SysTypeOK, NEW k \in Key, visible[k].kind = "Clean"
  PROVE  visible[k].id \in CacheId /\ copied[visible[k].id] \in Int
<1>1. visible[k] \in VisibleRef
  BY DEF TypeOK
<1>2. visible[k].id \in CacheId
  BY <1>1 DEF VisibleRef, NoRef, DirtyRef, CleanRef
<1> QED
  BY <1>2 DEF SysTypeOK

\* So reads find the completed writes.
LEMMA InvReadable ==
  ASSUME IInv, OneWriterInv, SysInv
  PROVE  CompletedWritesReadable
<1>0. /\ TypeOK /\ QueuedShown /\ VisibleNewest
      /\ SysTypeOK /\ StoreInPlace /\ CopiesFresh /\ MissedRetired
  BY DEF IInv, OneWriterInv, SysInv
<1>1. ASSUME NEW k \in Key PROVE ReadThrough(k) >= Floor(k)
  <2>1. /\ Floor(k) \in Completed(k) \cup {found[k]} /\ Floor(k) \in Int
    BY <1>0, FloorFacts
  <2>2. ASSUME NEW value \in Int, found[k] <= value, \A w \in Completed(k) : w <= value
        PROVE  value >= Floor(k)
    BY <2>1, <2>2
  <2>3. before \in Nat /\ found[k] \in Int /\ store[k] \in Int
    BY <1>0 DEF SysTypeOK
  <2>4. CASE visible[k].kind = "Dirty"
    <3>1. /\ visible[k].id \in Nat /\ found[k] < before + visible[k].id
          /\ \A w \in Completed(k) : w <= before + visible[k].id
      BY <1>0, <2>4, DirtyCurrent
    <3>2. before + visible[k].id \in Int /\ found[k] <= before + visible[k].id
      BY <2>3, <3>1
    <3> QED
      BY <2>2, <2>4, <3>1, <3>2 DEF ReadThrough, Written
  <2>5. CASE visible[k].kind = "Clean"
    <3> DEFINE value == copied[visible[k].id]
    <3>1. /\ found[k] <= value /\ \A w \in Completed(k) : w <= value
      BY <1>0, <2>5 DEF CopiesFresh
    <3>2. value \in Int
      BY <1>0, <2>5, CleanCopy
    <3>3. ReadThrough(k) = value
      BY <2>5 DEF ReadThrough
    <3> HIDE DEF value
    <3> QED
      BY <2>2, <3>1, <3>2, <3>3
  <2>6. CASE visible[k].kind \notin {"Dirty", "Clean"}
    <3>1. found[k] <= store[k] /\ \A w \in Completed(k) : w <= store[k]
      BY <1>0, <2>6, StoreCurrent
    <3> QED
      BY <2>2, <2>3, <2>6, <3>1 DEF ReadThrough
  <2> QED
    BY <2>4, <2>5, <2>6
<1>2. ASSUME missed.some PROVE store[missed.key] >= missed.floor
  <2> DEFINE k == missed.key
  <2>1. k \in Key /\ missed.floor \in Int
    <3>1. missed \in {Nothing} \cup [some : {TRUE}, key : Key, floor : Int]
      BY <1>0 DEF SysTypeOK
    <3>2. missed # Nothing
      BY <1>2 DEF Nothing
    <3> QED
      BY <3>1, <3>2
  <2>2. store[k] \in Int /\ found[k] \in Int /\ before \in Nat
    BY <1>0, <2>1 DEF SysTypeOK
  <2>3. CASE missed.floor <= found[k]
    <3>1. found[k] <= store[k]
      BY <1>0, <2>1, StoreHas
    <3> QED
      BY <2>1, <2>2, <2>3, <3>1
  <2>4. ASSUME NEW i \in DOMAIN retired, retired[i].key = k,
               missed.floor <= before + retired[i].id
        PROVE  store[k] >= missed.floor
    <3> DEFINE log == Dirty!Appended
    <3>1. i \in DOMAIN log /\ log[i] = retired[i]
      BY <1>0, LogFront
    <3>2. i <= Len(retired) /\ retired[i].id \in Nat
      BY <1>0, <3>1, LogSeqs, LogNumbers
    <3>3. before + retired[i].id <= store[k]
      BY <1>0, <2>1, <2>4, <3>1, <3>2, StoreHas
    <3> QED
      BY <2>1, <2>2, <2>4, <3>2, <3>3
  <2> QED
    BY <1>0, <1>2, <2>3, <2>4 DEF MissedRetired, Written
<1> QED
  BY <1>1, <1>2 DEF CompletedWritesReadable

\* And the store follows the log.
LEMMA InvFollowsLog ==
  ASSUME TypeOK, SysTypeOK, OneAtATime, OneLoop, StoreInPlace
  PROVE  StoreFollowsLog
<1> DEFINE log == Dirty!Appended
           r == Len(retired)
           f == Len(inflight)
           Last(k, n) == LastIn(log, k, n, before, found[k])
<1>1. InPlace(log, r, f, to_persist, retrying, store, before, found)
  BY InPlaceDef
<1>2. r \in Nat /\ f \in Nat /\ r + f <= Len(log) /\ Len(log) \in Nat
  BY LogNumbers
<1>3. \A k, n : LastOf(k, n) = Last(k, n)
  BY LastOfIn
<1>4. \A k \in Key : \E n \in r .. Len(log) : store[k] = Last(k, n)
  BY StorePlace
<1> HIDE DEF log, r, f, Last
<1>5. ASSUME \A t \in Thread : ~retrying[t]
      PROVE  \E n \in r .. Len(log) : \A k \in Key : store[k] = Last(k, n)
  <2>1. CASE \A t \in Thread : to_persist[t] = <<>>
    <3>1. r + f \in r .. Len(log) /\ \A k \in Key : store[k] = Last(k, r + f)
      BY <1>1, <1>2, <2>1 DEF InPlace, Last
    <3> QED
      BY <3>1
  <2>2. ASSUME NEW t \in Thread, to_persist[t] # <<>>
        PROVE  \E n \in r .. Len(log) : \A k \in Key : store[k] = Last(k, n)
    <3> DEFINE n == (r + f) - Len(to_persist[t])
    <3>1. Len(to_persist[t]) \in Nat
      BY DEF SysTypeOK
    <3>2. /\ Len(to_persist[t]) <= f /\ ~retrying[t]
          /\ ~retrying[t] => \A k \in Key : store[k] = Last(k, n)
      BY <1>1, <1>5, <2>2 DEF InPlace, Last
    <3>3. n \in r .. Len(log)
      BY <1>2, <3>1, <3>2
    <3> HIDE DEF n
    <3> QED
      BY <3>2, <3>3
  <2> QED
    BY <2>1, <2>2
<1> QED
  BY <1>3, <1>4, <1>5 DEF StoreFollowsLog, log, r

(***************************************************************************)
(* Copies and reads.                                                       *)
(***************************************************************************)

\* A write is completed by the step that publishes it.
LEMMA CompletedGrows ==
  ASSUME TypeOK, WriteIdsOnce, KeysInOrder, [Next]_vars, before' = before, NEW k \in Key,
         NEW w \in Completed(k)'
  PROVE  \/ w \in Completed(k)
         \/ \E t \in Thread : PublishDirty(t) /\ op[t].key = k
<1> DEFINE log == Dirty!Appended
<1>1. PICK i \in DOMAIN log' :
        /\ log'[i].key = k /\ w = before + log'[i].id
        /\ \A u \in Thread : op'[u].pc = "publish" => op'[u].id # log'[i].id
  BY DEF Completed, Written, RecordOf, Published
<1>2. ASSUME i \in DOMAIN log, log'[i] = log[i], Published(log[i])
      PROVE  w \in Completed(k)
  BY <1>1, <1>2 DEF Completed, Written, RecordOf
<1>3. ASSUME log' = log, \A u \in Thread : op[u].pc = "publish" => op'[u] = op[u]
      PROVE  w \in Completed(k)
  <2>1. Published(log[i])
    BY <1>1, <1>3 DEF Published
  <2> QED
    BY <1>2, <1>3, <2>1
<1>4. ASSUME NEW t \in Thread, NEW l \in Key, TakeWriteId(t, l) PROVE w \in Completed(k)
  BY <1>3, <1>4, TakeIdFacts
<1>5. ASSUME NEW t \in Thread, AppendDirty(t) PROVE w \in Completed(k)
  <2>1. /\ op[t].pc = "append" /\ op'[t].pc = "publish" /\ op'[t].id = op[t].id
        /\ \A u \in Thread \ {t} : op'[u] = op[u]
        /\ DOMAIN log = 1 .. Len(log) /\ Len(log) \in Nat
        /\ DOMAIN log' = 1 .. Len(log) + 1
        /\ \A j \in DOMAIN log : log'[j] = log[j]
        /\ log'[Len(log) + 1] = [id |-> op[t].id, key |-> op[t].key]
    BY <1>5, AppendFacts
  <2> HIDE DEF log
  <2>2. i # Len(log) + 1
    BY <1>1, <2>1
  <2>3. i \in DOMAIN log
    BY <2>1, <2>2
  <2>4. Published(log[i])
    BY <1>1, <2>1, <2>3 DEF Published
  <2> QED
    BY <1>2, <2>1, <2>3, <2>4
<1>6. ASSUME NEW t \in Thread, PublishDirty(t)
      PROVE  w \in Completed(k) \/ op[t].key = k
  <2>1. /\ op[t].pc = "publish" /\ \A u \in Thread \ {t} : op'[u] = op[u]
        /\ log' = log
    BY <1>6, PublishFacts
  <2>2. PICK j \in DOMAIN log : log[j] = [id |-> op[t].id, key |-> op[t].key]
    BY <2>1 DEF KeysInOrder
  <2>3. CASE log[i].id = op[t].id
    <3>1. i = j
      BY <2>1, <2>2, <2>3 DEF WriteIdsOnce
    <3> QED
      BY <1>1, <2>1, <2>2, <3>1
  <2>4. CASE log[i].id # op[t].id
    <3>1. Published(log[i])
      BY <1>1, <2>1, <2>4 DEF Published
    <3> QED
      BY <1>2, <2>1, <3>1
  <2> QED
    BY <2>3, <2>4
<1>7. ASSUME Settled, \A u \in Thread : \/ op'[u] = op[u]
                                        \/ {op[u].pc, op'[u].pc} \cap {"append", "publish"} = {}
      PROVE  w \in Completed(k)
  <2>1. log' = log
    BY <1>7 DEF Settled
  <2> QED
    BY <1>3, <1>7, <2>1
<1> QED
  BY <1>4, <1>5, <1>6, <1>7, WriteSteps

\* A step that leaves the store and the copies alone keeps what is visible
\* fresh: what it inserts is vacant, so that the store is current.
LEMMA NextEntriesFresh ==
  ASSUME IInv, OneWriterInv, SysTypeOK, StoreInPlace, CopiesFresh, [Next]_vars,
         UNCHANGED <<found, before, store>>, next_cache' >= next_cache, next_cache' \in Nat,
         \A id \in CacheId : id < next_cache => copied'[id] = copied[id],
         NEW k \in Key
  PROVE  /\ visible'[k].kind = "Clean" =>
              LET value == copied'[visible'[k].id] IN
              /\ visible'[k].id < next_cache'
              /\ found[k] <= value /\ value <= store[k]
              /\ \A w \in Completed(k)' : w <= value
         /\ visible'[k].kind = "Dirty" =>
              \E i \in DOMAIN Dirty!Appended' :
                Dirty!Appended'[i] = [id |-> visible'[k].id, key |-> k]
<1> DEFINE log == Dirty!Appended
           Fresh(value) == /\ found[k] <= value /\ value <= store[k]
                           /\ \A w \in Completed(k) : w <= value
<1>0. /\ TypeOK /\ WriteIdsOnce /\ KeysInOrder /\ QueuedShown
      /\ next_cache \in Nat /\ CacheId \subseteq Int
  BY DEF IInv, OneWriterInv, TypeOK, CacheId
<1>1. \A i \in DOMAIN log : i \in DOMAIN log' /\ log'[i] = log[i]
  BY LogGrows
<1>2. \A t \in Thread : PublishDirty(t) /\ op[t].key = k =>
        /\ visible'[k].kind = "Dirty" /\ visible'[k].id = op[t].id
        /\ \E i \in DOMAIN log : log[i] = [id |-> op[t].id, key |-> k]
  <2> SUFFICES ASSUME NEW t \in Thread, PublishDirty(t), op[t].key = k
               PROVE  /\ visible'[k].kind = "Dirty" /\ visible'[k].id = op[t].id
                      /\ \E i \in DOMAIN log : log[i] = [id |-> op[t].id, key |-> k]
    OBVIOUS
  <2>1. op[t].pc = "publish" /\ visible' = [visible EXCEPT ![k] = DirtyRef(op[t].id)]
    BY <1>0, PublishFacts
  <2>2. visible \in [Key -> VisibleRef]
    BY <1>0 DEF TypeOK
  <2>3. visible'[k] = DirtyRef(op[t].id)
    BY <2>1, <2>2
  <2> QED
    BY <1>0, <2>1, <2>3 DEF KeysInOrder, DirtyRef
<1>3. ASSUME visible'[k].kind = "Clean" PROVE Completed(k)' \subseteq Completed(k)
  <2> SUFFICES ASSUME NEW w \in Completed(k)' PROVE w \in Completed(k)
    OBVIOUS
  <2>1. before' = before
    OBVIOUS
  <2>2. \/ w \in Completed(k)
        \/ \E t \in Thread : PublishDirty(t) /\ op[t].key = k
    BY <1>0, <2>1, CompletedGrows
  <2>3. ASSUME NEW t \in Thread, PublishDirty(t), op[t].key = k PROVE FALSE
    BY <1>2, <1>3, <2>3
  <2> QED
    BY <2>2, <2>3
<1>4. ASSUME NEW id \in CacheId, visible'[k] = CleanRef(id), id < next_cache,
             Fresh(copied[id])
      PROVE  /\ visible'[k].id < next_cache' /\ Fresh(copied'[visible'[k].id])
             /\ \A w \in Completed(k)' : w <= copied'[visible'[k].id]
             /\ visible'[k].kind = "Clean"
  <2>1. visible'[k].id = id /\ visible'[k].kind = "Clean" /\ id < next_cache'
    BY <1>0, <1>4 DEF CleanRef
  <2>2. copied'[id] = copied[id]
    BY <1>4
  <2> QED
    BY <1>3, <1>4, <2>1, <2>2
<1>5. ASSUME visible'[k] = visible[k], visible[k].kind = "Clean"
      PROVE  /\ visible'[k].id < next_cache' /\ Fresh(copied'[visible'[k].id])
             /\ \A w \in Completed(k)' : w <= copied'[visible'[k].id]
  <2>1. visible[k].id \in CacheId /\ visible[k] = CleanRef(visible[k].id)
    <3>1. visible[k] \in VisibleRef
      BY <1>0 DEF TypeOK
    <3> QED
      BY <1>5, <3>1 DEF VisibleRef, NoRef, DirtyRef, CleanRef
  <2>2. visible[k].id < next_cache /\ Fresh(copied[visible[k].id])
    BY <1>5 DEF CopiesFresh
  <2> HIDE DEF Fresh
  <2> QED
    BY <1>4, <1>5, <2>1, <2>2
<1>6. ASSUME visible'[k] = visible[k], visible[k].kind = "Dirty"
      PROVE  \E i \in DOMAIN log' : log'[i] = [id |-> visible'[k].id, key |-> k]
  <2>1. PICK i \in DOMAIN log : log[i] = [id |-> visible[k].id, key |-> k]
    BY <1>6 DEF CopiesFresh
  <2> QED
    BY <1>1, <1>6, <2>1
<1>7. ASSUME NEW t \in Thread, PublishDirty(t), op[t].key = k
      PROVE  /\ visible'[k].kind = "Dirty"
             /\ \E i \in DOMAIN log' : log'[i] = [id |-> visible'[k].id, key |-> k]
  BY <1>1, <1>2, <1>7
<1>8. ASSUME NEW t \in Thread, InsertVacant(t), op[t].key = k
      PROVE  /\ visible'[k].id < next_cache' /\ Fresh(copied'[visible'[k].id])
             /\ \A w \in Completed(k)' : w <= copied'[visible'[k].id]
             /\ visible'[k].kind = "Clean"
  <2>1. /\ op[t].pc = "entry" /\ visible[k] = NoRef
        /\ visible' = [visible EXCEPT ![k] = CleanRef(op[t].id)]
    BY <1>8 DEF InsertVacant, VacantEntry
  <2>2. visible'[k] = CleanRef(op[t].id)
    BY <1>0, <2>1 DEF TypeOK
  <2>3. op[t].id \in CacheId
    <3>1. op[t] \in OpType
      BY <1>0 DEF TypeOK
    <3> QED
      BY <2>1, <3>1, Enqueues
  <2>4. op[t].id < next_cache /\ copied[op[t].id] = store[k]
    BY <1>8, <2>1 DEF CopiesFresh
  <2>5. visible[k].kind # "Dirty"
    BY <2>1 DEF NoRef
  <2>6. found[k] <= store[k] /\ \A w \in Completed(k) : w <= store[k]
    BY <1>0, <2>5, StoreCurrent
  <2>7. store[k] <= store[k]
    BY DEF SysTypeOK
  <2>8. Fresh(copied[op[t].id])
    BY <2>4, <2>6, <2>7
  <2> HIDE DEF Fresh
  <2> QED
    BY <1>4, <2>2, <2>3, <2>4, <2>8
<1>9. CASE visible'[k] = NoRef
  BY <1>9 DEF NoRef
<1>10. CASE visible'[k] = visible[k]
  <2> HIDE DEF log
  <2> QED
    BY <1>5, <1>6, <1>10 DEF log
<1>11. CASE visible'[k] # visible[k]
  <2>1. \/ \E t \in Thread : PublishDirty(t) /\ op[t].key = k
        \/ \E t \in Thread : InsertVacant(t) /\ op[t].key = k
        \/ visible'[k] = NoRef
    BY <1>0, <1>11, IndexSteps
  <2>2. ASSUME NEW t \in Thread, PublishDirty(t), op[t].key = k
        PROVE  /\ visible'[k].kind # "Clean"
               /\ \E i \in DOMAIN log' : log'[i] = [id |-> visible'[k].id, key |-> k]
    BY <1>7, <2>2
  <2>3. ASSUME NEW t \in Thread, InsertVacant(t), op[t].key = k
        PROVE  /\ visible'[k].id < next_cache' /\ Fresh(copied'[visible'[k].id])
               /\ \A w \in Completed(k)' : w <= copied'[visible'[k].id]
               /\ visible'[k].kind # "Dirty"
    BY <1>8, <2>3
  <2> QED
    BY <1>9, <2>1, <2>2, <2>3
<1> QED
  BY <1>10, <1>11

\* What the store has is what the run found, or a write of the log.
LEMMA StoreOf ==
  ASSUME TypeOK, SysTypeOK, StoreInPlace, NEW k \in Key
  PROVE  \/ store[k] = found[k]
         \/ \E j \in DOMAIN Dirty!Appended :
              Dirty!Appended[j].key = k /\ store[k] = before + Dirty!Appended[j].id
<1> DEFINE log == Dirty!Appended
           b == before
           d == found[k]
           B == MaxWrite
<1>1. PICK n \in Len(retired) .. Len(log) : store[k] = LastIn(log, k, n, b, d)
  BY StorePlace
<1>2. /\ DOMAIN log = 1 .. Len(log) /\ Len(log) \in Nat /\ Len(retired) \in Nat
      /\ \A i \in DOMAIN log : log[i].id \in Nat /\ log[i].id < B
  BY LogNumbers
<1>3. b \in Nat /\ B \in Nat
  BY BoundAssumption DEF SysTypeOK
<1> HIDE DEF log, b, d, B
<1>4. n \in Nat /\ \A i \in 1 .. n : i \in DOMAIN log /\ log[i].id \in Nat /\ log[i].id < B
  BY <1>2
<1> DEFINE last == LastIn(log, k, n, b, d)
<1>5. \/ /\ last = d
         /\ \A i \in 1 .. n : log[i].key # k
      \/ /\ \E j \in 1 .. n : log[j].key = k /\ last = b + log[j].id
         /\ \A i \in 1 .. n : log[i].key = k => b + log[i].id <= last
  BY <1>3, <1>4, LastFacts
<1>6. last = store[k]
  BY <1>1
<1> HIDE DEF last
<1> QED
  BY <1>4, <1>5, <1>6 DEF log, b, d

\* A record that is persisted while its key shows no dirty entry is the newest
\* of its key, and has yet to be published: it makes the store newer.
LEMMA PersistNewer ==
  ASSUME IInv, OneWriterInv, SysTypeOK, StoreInPlace, NEW t \in Thread, Persist(t),
         visible[to_persist[t][1].key].kind # "Dirty"
  PROVE  \A k \in Key : store[k] <= store'[k]
<1> DEFINE log == Dirty!Appended
           e == to_persist[t][1]
           n == PersistedTo(t) + 1
<1>0. /\ TypeOK /\ KeysInOrder /\ QueuedShown /\ WriteIdsOnce
  BY DEF IInv, OneWriterInv
<1>1. /\ DOMAIN to_persist[t] = 1 .. Len(to_persist[t]) /\ Len(to_persist[t]) \in Nat
      /\ Len(to_persist[t]) >= 1 /\ to_persist[t] # <<>>
      /\ e.key \in Key /\ e.id \in Nat
      /\ store' = [store EXCEPT ![e.key] = before + e.id]
  BY NextFacts DEF Persist
<1>2. /\ DOMAIN log = 1 .. Len(log) /\ Len(log) \in Nat
      /\ Len(retired) \in Nat /\ Len(inflight) \in Nat
      /\ Len(retired) + Len(inflight) <= Len(log)
      /\ \A i \in DOMAIN log : log[i].id \in Nat
  BY <1>0, LogNumbers
<1>3. /\ Len(to_persist[t]) <= Len(inflight)
      /\ \A i \in DOMAIN to_persist[t] : to_persist[t][i] = log[PersistedTo(t) + i]
  BY <1>1 DEF StoreInPlace
<1> HIDE DEF log
<1>4. n \in DOMAIN log /\ n > Len(retired) /\ e = log[n]
  <2>1. 1 \in DOMAIN to_persist[t]
    BY <1>1
  <2>2. e = log[n]
    BY <1>3, <2>1
  <2>3. n = ((Len(retired) + Len(inflight)) - Len(to_persist[t])) + 1
    BY DEF PersistedTo, Handed
  <2> HIDE DEF n, e
  <2>4. n \in Nat /\ n > Len(retired) /\ n <= Len(log)
    <3> DEFINE m == Len(to_persist[t])
               r == Len(retired)
               f == Len(inflight)
    <3>1. /\ m \in Nat /\ m >= 1 /\ m <= f /\ r \in Nat /\ f \in Nat
          /\ r + f <= Len(log) /\ Len(log) \in Nat
      BY <1>1, <1>2, <1>3
    <3>2. n = ((r + f) - m) + 1
      BY <2>3
    <3> HIDE DEF m, r, f
    <3>3. n \in Nat /\ n > r /\ n <= Len(log)
      BY <3>1, <3>2
    <3> QED
      BY <3>3 DEF r
  <2> QED
    BY <1>2, <2>2, <2>4
<1> HIDE DEF n, e
<1>5. e \in Queued
  <2>1. IF n > Len(retired) THEN log[n] \in Queued ELSE Retired(log[n].id)
    BY <1>4, QueuedOrRetired DEF log
  <2> QED
    BY <1>4, <2>1
<1>6. ~Published(e)
  <2> SUFFICES ASSUME Published(e) PROVE FALSE
    OBVIOUS
  <2>1. e \in PublishedQueued
    BY <1>5 DEF PublishedQueued
  <2>2. \E newer \in PublishedQueued : visible[e.key] = DirtyRef(newer.id)
    BY <1>0, <2>1 DEF QueuedShown
  <2>3. visible[e.key].kind = "Dirty"
    BY <2>2 DEF DirtyRef
  <2> QED
    BY <2>3 DEF e
<1>7. PICK u \in Thread : op[u].pc = "publish" /\ op[u].id = e.id
  BY <1>6 DEF Published
<1>8. \A i \in DOMAIN log : log[i].key = e.key => log[i].id <= e.id
  <2>1. /\ \E j \in DOMAIN log : log[j] = [id |-> op[u].id, key |-> op[u].key]
        /\ \A i \in DOMAIN log : log[i].key = op[u].key => log[i].id <= op[u].id
    BY <1>0, <1>7 DEF KeysInOrder, log
  <2>2. PICK j \in DOMAIN log : log[j] = [id |-> op[u].id, key |-> op[u].key]
    BY <2>1
  <2>3. log[j].id = log[n].id
    BY <1>4, <1>7, <2>2
  <2>4. j = n
    BY <1>0, <1>4, <2>3 DEF WriteIdsOnce, log
  <2>5. op[u].key = e.key
    BY <1>4, <2>2, <2>4
  <2> QED
    BY <1>7, <2>1, <2>5
<1>9. /\ store \in [Key -> Int] /\ found \in [Key -> Int] /\ before \in Nat
      /\ found[e.key] < before
  BY <1>1 DEF SysTypeOK, StoreInPlace
<1>10. store[e.key] <= before + e.id
  <2>1. \/ store[e.key] = found[e.key]
        \/ \E j \in DOMAIN log : log[j].key = e.key /\ store[e.key] = before + log[j].id
    BY <1>0, <1>1, StoreOf DEF log
  <2>2. CASE store[e.key] = found[e.key]
    BY <1>1, <1>9, <2>2
  <2>3. ASSUME NEW j \in DOMAIN log, log[j].key = e.key, store[e.key] = before + log[j].id
        PROVE  store[e.key] <= before + e.id
    <3>1. log[j].id <= e.id /\ log[j].id \in Nat
      BY <1>2, <1>8, <2>3
    <3> QED
      BY <1>1, <1>9, <2>3, <3>1
  <2> QED
    BY <2>1, <2>2, <2>3
<1> QED
  BY <1>1, <1>9, <1>10

\* Every step but a restart keeps what is on its way into the clean cache fresh.
LEMMA NextFills ==
  ASSUME TypeOK, TypeOK', SysTypeOK, OneLoop, OneAtATime, CopiesFresh, [SysNext]_sysVars, ~Restart,
         NEW u \in Thread
  PROVE  /\ fetched'[u].some => fetched'[u].value = store'[fetched'[u].key]
         /\ op'[u].pc = "entry" =>
              op'[u].id < next_cache' /\ copied'[op'[u].id] = store'[op'[u].key]
<1> DEFINE Good == /\ fetched'[u].some => fetched'[u].value = store'[fetched'[u].key]
                   /\ op'[u].pc = "entry" =>
                        op'[u].id < next_cache' /\ copied'[op'[u].id] = store'[op'[u].key]
<1>0. /\ fetched[u].some => fetched[u].value = store[fetched[u].key]
      /\ op[u].pc = "entry" => op[u].id < next_cache /\ copied[op[u].id] = store[op[u].key]
  BY DEF CopiesFresh
<1>1. ASSUME fetched'[u] = fetched[u], store' = store, copied' = copied,
             next_cache' = next_cache, op'[u].pc = "entry" => op'[u] = op[u]
      PROVE  Good
  BY <1>0, <1>1
<1>2. ASSUME NEW t \in Thread, Alone(t) PROVE Good
  <2>1. UNCHANGED <<fetched, store, copied>>
    BY <1>2 DEF Alone, appVars
  <2>2. /\ \A v \in Thread \ {t} : op'[v] = op[v]
        /\ op'[t].pc # "entry" /\ next_cache' = next_cache
    BY <1>2, AloneFacts
  <2> QED
    BY <1>1, <2>1, <2>2
<1>3. ASSUME NEW t \in Thread, TakeBatch(t) PROVE Good
  BY <1>1, <1>3, TakeFacts
<1>4. ASSUME NEW t \in Thread, Mark(t) PROVE Good
  <2>1. /\ UNCHANGED <<fetched, store, copied>> /\ next_cache' = next_cache
        /\ op'[t].pc = "unpublish" /\ \A v \in Thread \ {t} : op'[v] = op[v]
    BY <1>4, MarkFacts DEF appVars
  <2> QED
    BY <1>1, <2>1
<1>5. ASSUME NEW t \in Thread, Persist(t) PROVE Good
  <2>1. "flush" \in Calls[t] /\ op[t].pc = "idle" /\ ~fetched[t].some
    BY <1>5 DEF Persist, OneAtATime
  <2>2. \A v \in Thread \ {t} : ~fetched[v].some /\ op[v].pc # "entry"
    BY <2>1, OneThread
  <2>3. fetched' = fetched /\ op' = op
    BY <1>5, NextFacts DEF vars
  <2> QED
    BY <2>1, <2>2, <2>3
<1>6. ASSUME NEW t \in Thread, NEW k \in Key, Fetch(t, k) PROVE Good
  <2>1. /\ fetched' = [fetched EXCEPT ![t] = [some |-> TRUE, key |-> k, value |-> store[k]]]
        /\ UNCHANGED <<store, copied, next_cache, op>>
    BY <1>6 DEF Fetch, Fetched, vars, cleanVars
  <2>2. CASE u = t
    <3>1. fetched'[u] = [some |-> TRUE, key |-> k, value |-> store[k]]
      BY <2>1, <2>2 DEF SysTypeOK
    <3>2. fetched'[u].value = store'[fetched'[u].key]
      BY <2>1, <3>1
    <3> QED
      BY <1>0, <2>1, <3>2
  <2>3. CASE u # t
    <3>1. fetched'[u] = fetched[u]
      BY <2>1, <2>3 DEF SysTypeOK
    <3> QED
      BY <1>1, <2>1, <3>1
  <2> QED
    BY <2>2, <2>3
<1>7. ASSUME NEW t \in Thread, Fill(t) PROVE Good
  <2>1. /\ fetched[t].some /\ next_cache \in CacheId /\ next_cache' = next_cache + 1
        /\ "fill" \in Calls[t]
        /\ op'[t].pc = "entry" /\ op'[t].key = fetched[t].key /\ op'[t].id = next_cache
        /\ \A v \in Thread \ {t} : op'[v] = op[v]
        /\ copied' = [copied EXCEPT ![next_cache] = fetched[t].value]
        /\ fetched' = [fetched EXCEPT ![t] = Nothing]
        /\ store' = store
    BY <1>7, FillFacts
  <2>2. CASE u = t
    <3>1. ~fetched'[t].some
      BY <2>1 DEF SysTypeOK, Nothing
    <3>2. copied'[next_cache] = fetched[t].value
      BY <2>1 DEF SysTypeOK
    <3>3. next_cache < next_cache'
      BY <2>1 DEF CacheId
    <3>4. fetched[t].value = store[fetched[t].key]
      BY <1>0, <2>1, <2>2
    <3> QED
      BY <2>1, <2>2, <3>1, <3>2, <3>3, <3>4
  <2>3. CASE u # t
    <3>1. ~fetched[u].some /\ op[u].pc # "entry"
      BY <2>1, <2>3, OneThread
    <3>2. fetched'[u] = fetched[u] /\ op'[u] = op[u]
      BY <2>1, <2>3 DEF SysTypeOK
    <3> QED
      BY <3>1, <3>2
  <2> QED
    BY <2>2, <2>3
<1>8. ASSUME (\E k \in Key : ReadMiss(k)) \/ ReadStore \/ UNCHANGED sysVars
      PROVE  Good
  <2>1. UNCHANGED <<fetched, store, copied, next_cache, op>>
    BY <1>8 DEF ReadMiss, ReadStore, sysVars, appVars, vars, cleanVars
  <2> QED
    BY <1>1, <2>1
<1> QED
  BY <1>2, <1>3, <1>4, <1>5, <1>6, <1>7, <1>8, SysSteps

\* A record that is persisted leaves what is visible fresh.
LEMMA PersistFresh ==
  ASSUME IInv, OneWriterInv, SysTypeOK, StoreInPlace, CopiesFresh,
         NEW t \in Thread, Persist(t), NEW k \in Key, visible[k].kind = "Clean"
  PROVE  LET value == copied'[visible'[k].id] IN
         /\ visible'[k].id < next_cache'
         /\ found'[k] <= value /\ value <= store'[k]
         /\ \A w \in Completed(k)' : w <= value
<1> DEFINE value == copied[visible[k].id]
           e == to_persist[t][1]
<1>0. TypeOK
  BY DEF IInv
<1>1. /\ e.key \in Key /\ e.id \in Nat
      /\ store' = [store EXCEPT ![e.key] = before + e.id]
      /\ UNCHANGED <<found, before, copied>> /\ UNCHANGED vars
  BY NextFacts
<1>2. Completed(k)' = Completed(k)
  BY <1>1 DEF Completed, Written, Published, RecordOf, Dirty!Appended, vars, logVars
<1>3. /\ visible[k].id < next_cache /\ found[k] <= value /\ value <= store[k]
      /\ \A w \in Completed(k) : w <= value
  BY DEF CopiesFresh
<1>4. value \in Int /\ store \in [Key -> Int] /\ before \in Nat
  BY <1>0, CleanCopy DEF SysTypeOK
<1> HIDE DEF value, e
<1>5. value <= store'[k]
  <2>1. CASE e.key = k
    <3>1. store[k] <= store'[k]
      BY <2>1, PersistNewer DEF e
    <3>2. store'[k] \in Int /\ store[k] \in Int
      BY <1>1, <1>4
    <3> QED
      BY <1>3, <1>4, <3>1, <3>2
  <2>2. CASE e.key # k
    BY <1>1, <1>3, <1>4, <2>2
  <2> QED
    BY <2>1, <2>2
<1>6. visible' = visible /\ next_cache' = next_cache /\ copied' = copied /\ found' = found
  BY <1>1 DEF vars, cleanVars
<1> QED
  BY <1>2, <1>3, <1>5, <1>6 DEF value

\* Every step but a restart keeps the copies fresh.
LEMMA NextCopiesFresh ==
  ASSUME IInv, OneWriterInv, TypeOK', SysTypeOK, OneLoop, OneAtATime, StoreInPlace,
         CopiesFresh, [SysNext]_sysVars, ~Restart
  PROVE  CopiesFresh'
<1> DEFINE EntryFresh(k) ==
             /\ visible'[k].kind = "Clean" =>
                  LET value == copied'[visible'[k].id] IN
                  /\ visible'[k].id < next_cache'
                  /\ found'[k] <= value /\ value <= store'[k]
                  /\ \A w \in Completed(k)' : w <= value
             /\ visible'[k].kind = "Dirty" =>
                  \E i \in DOMAIN Dirty!Appended' :
                    Dirty!Appended'[i] = [id |-> visible'[k].id, key |-> k]
<1>0. TypeOK /\ next_cache \in Nat /\ next_cache' \in Nat
  BY DEF IInv, TypeOK
<1>1. ASSUME UNCHANGED <<found, before, store>>, next_cache' >= next_cache,
             \A id \in CacheId : id < next_cache => copied'[id] = copied[id], NEW k \in Key
      PROVE  EntryFresh(k)
  <2>1. [Next]_vars
    BY SysIsMap
  <2> QED
    BY <1>0, <1>1, <2>1, NextEntriesFresh
<1>2. ASSUME UNCHANGED <<found, before, store, copied>>, next_cache' = next_cache, NEW k \in Key
      PROVE  EntryFresh(k)
  <2>1. next_cache' >= next_cache
    BY <1>0, <1>2
  <2> HIDE DEF EntryFresh
  <2> QED
    BY <1>1, <1>2, <2>1
<1>3. ASSUME NEW t \in Thread, Fill(t), NEW k \in Key PROVE EntryFresh(k)
  <2>1. /\ next_cache \in CacheId /\ next_cache' = next_cache + 1
        /\ copied' = [copied EXCEPT ![next_cache] = fetched[t].value]
        /\ UNCHANGED <<found, before, store>>
    BY <1>0, <1>3, FillFacts
  <2>2. next_cache' >= next_cache
    BY <1>0, <2>1
  <2>3. ASSUME NEW id \in CacheId, id < next_cache PROVE copied'[id] = copied[id]
    <3>1. id # next_cache
      BY <1>0, <2>3 DEF CacheId
    <3> QED
      BY <2>1, <3>1 DEF SysTypeOK
  <2> HIDE DEF EntryFresh
  <2> QED
    BY <1>1, <2>1, <2>2, <2>3
<1>4. ASSUME NEW t \in Thread, Persist(t), NEW k \in Key PROVE EntryFresh(k)
  <2>1. UNCHANGED vars
    BY <1>4 DEF Persist
  <2>2. visible' = visible /\ Dirty!Appended' = Dirty!Appended
    BY <2>1, SameLog DEF vars
  <2>3. visible[k].kind = "Dirty" =>
          \E i \in DOMAIN Dirty!Appended :
            Dirty!Appended[i] = [id |-> visible[k].id, key |-> k]
    BY DEF CopiesFresh
  <2>4. ASSUME visible[k].kind = "Clean"
        PROVE  LET value == copied'[visible'[k].id] IN
               /\ visible'[k].id < next_cache'
               /\ found'[k] <= value /\ value <= store'[k]
               /\ \A w \in Completed(k)' : w <= value
    BY <1>4, <2>4, PersistFresh
  <2> QED
    BY <2>2, <2>3, <2>4
<1> HIDE DEF EntryFresh
<1>5. ASSUME NEW k \in Key PROVE EntryFresh(k)
  <2>1. ASSUME NEW t \in Thread, Alone(t) PROVE EntryFresh(k)
    <3>1. UNCHANGED <<found, before, store, copied>> /\ next_cache' = next_cache
      BY <1>0, <2>1, AloneFacts DEF Alone, appVars, runVars
    <3> QED
      BY <1>2, <3>1
  <2>2. ASSUME NEW t \in Thread, TakeBatch(t) PROVE EntryFresh(k)
    BY <1>0, <1>2, <2>2, TakeFacts
  <2>3. ASSUME NEW t \in Thread, Mark(t) PROVE EntryFresh(k)
    <3>1. UNCHANGED <<found, before, store, copied>> /\ next_cache' = next_cache
      BY <1>0, <2>3, MarkFacts DEF appVars, runVars
    <3> QED
      BY <1>2, <3>1
  <2>4. ASSUME NEW t \in Thread, NEW l \in Key, Fetch(t, l) PROVE EntryFresh(k)
    <3>1. UNCHANGED <<found, before, store, copied>> /\ next_cache' = next_cache
      BY <2>4 DEF Fetch, vars, cleanVars, runVars
    <3> QED
      BY <1>2, <3>1
  <2>5. ASSUME (\E l \in Key : ReadMiss(l)) \/ ReadStore \/ UNCHANGED sysVars
        PROVE  EntryFresh(k)
    <3>1. UNCHANGED <<found, before, store, copied>> /\ next_cache' = next_cache
      BY <2>5 DEF ReadMiss, ReadStore, sysVars, appVars, vars, cleanVars, runVars
    <3> QED
      BY <1>2, <3>1
  <2> QED
    BY <1>3, <1>4, <2>1, <2>2, <2>3, <2>4, <2>5, SysSteps
<1>6. \A u \in Thread :
        /\ fetched'[u].some => fetched'[u].value = store'[fetched'[u].key]
        /\ op'[u].pc = "entry" =>
             op'[u].id < next_cache' /\ copied'[op'[u].id] = store'[op'[u].key]
  BY <1>0, NextFills
<1>7. \A k \in Key : EntryFresh(k)
  BY <1>5
<1> QED
  BY <1>6, <1>7 DEF CopiesFresh, EntryFresh

\* Every step but a restart keeps the floor of a read that missed retired: a
\* read misses a key whose completed writes are.
LEMMA NextMissedRetired ==
  ASSUME IInv, OneWriterInv, TypeOK', SysTypeOK, OneAtATime, MissedRetired,
         [SysNext]_sysVars, ~Restart
  PROVE  MissedRetired'
<1>0. TypeOK /\ QueuedShown
  BY DEF IInv, OneWriterInv
<1>1. ASSUME missed' = missed, UNCHANGED <<found, before>>,
             \A i \in DOMAIN retired : i \in DOMAIN retired' /\ retired'[i] = retired[i]
      PROVE  MissedRetired'
  <2>1. CASE missed.some /\ missed.floor <= found[missed.key]
    BY <1>1, <2>1 DEF MissedRetired
  <2>2. ASSUME NEW i \in DOMAIN retired,
               retired[i].key = missed.key, missed.floor <= before + retired[i].id
        PROVE  MissedRetired'
    BY <1>1, <2>2 DEF MissedRetired, Written
  <2>3. CASE ~missed.some
    BY <1>1, <2>3 DEF MissedRetired
  <2> QED
    BY <2>1, <2>2, <2>3 DEF MissedRetired, Written
<1>2. ASSUME NEW t \in Thread, Alone(t) PROVE MissedRetired'
  <2>1. /\ missed' = missed /\ UNCHANGED <<found, before>> /\ retired' = retired
    BY <1>0, <1>2, AloneFacts DEF Alone, appVars, runVars
  <2> QED
    BY <1>1, <2>1
<1>3. ASSUME NEW t \in Thread, TakeBatch(t) PROVE MissedRetired'
  <2>1. /\ missed' = missed /\ UNCHANGED <<found, before>> /\ retired' = retired
    BY <1>0, <1>3, TakeFacts
  <2> QED
    BY <1>1, <2>1
<1>4. ASSUME NEW t \in Thread, Mark(t) PROVE MissedRetired'
  <2>1. /\ UNCHANGED appVars /\ retired' = retired \o inflight
    BY <1>0, <1>4, MarkFacts
  <2>2. retired \in Seq(DirtyRecord) /\ inflight \in Seq(DirtyRecord)
    BY <1>0, LogSeqs
  <2>3. \A i \in DOMAIN retired : i \in DOMAIN retired' /\ retired'[i] = retired[i]
    BY <2>1, <2>2, ConcatProperties
  <2> QED
    BY <1>1, <2>1, <2>3 DEF appVars, runVars
<1>5. ASSUME NEW k \in Key, ReadMiss(k) PROVE MissedRetired'
  <2>1. /\ visible[k] = NoRef /\ missed' = [some |-> TRUE, key |-> k, floor |-> Floor(k)]
        /\ UNCHANGED <<found, before, retired>>
    BY <1>5 DEF ReadMiss, vars, logVars, runVars
  <2>2. /\ Floor(k) \in Completed(k) \cup {found[k]} /\ Floor(k) \in Int
    BY <1>0, FloorFacts
  <2>3. visible[k].kind # "Dirty"
    BY <2>1 DEF NoRef
  <2>4. CASE Floor(k) = found[k]
    <3>1. Floor(k) <= found[k]
      BY <2>2, <2>4
    <3> QED
      BY <2>1, <3>1 DEF MissedRetired
  <2>5. CASE Floor(k) \in Completed(k)
    <3>1. PICK i \in DOMAIN retired : retired[i].key = k /\ Floor(k) = before + retired[i].id
      BY <1>0, <2>3, <2>5, CompletedRetired
    <3>2. Floor(k) <= before + retired[i].id
      BY <2>2, <3>1
    <3> QED
      BY <2>1, <3>1, <3>2 DEF MissedRetired, Written
  <2> QED
    BY <2>2, <2>4, <2>5
<1>6. CASE ReadStore
  BY <1>6 DEF ReadStore, MissedRetired, Nothing
<1>7. ASSUME UNCHANGED <<missed, found, before, retired>> PROVE MissedRetired'
  BY <1>1, <1>7
<1>8. ASSUME NEW t \in Thread, Persist(t) PROVE UNCHANGED <<missed, found, before, retired>>
  BY <1>8 DEF Persist, vars, logVars, runVars
<1>9. ASSUME NEW t \in Thread, Fill(t) PROVE UNCHANGED <<missed, found, before, retired>>
  BY <1>0, <1>9, FillFacts DEF logVars
<1>10. ASSUME NEW t \in Thread, NEW k \in Key, Fetch(t, k)
       PROVE  UNCHANGED <<missed, found, before, retired>>
  BY <1>10 DEF Fetch, vars, logVars, runVars
<1>11. ASSUME UNCHANGED sysVars PROVE UNCHANGED <<missed, found, before, retired>>
  BY <1>11 DEF sysVars, appVars, vars, logVars, runVars
<1> QED
  BY <1>2, <1>3, <1>4, <1>5, <1>6, <1>7, <1>8, <1>9, <1>10, <1>11, SysSteps

\* What may become of an entry: a write publishes another, a vacant one is
\* inserted, or it goes.  No step of the application has a part in it.
LEMMA EntrySteps ==
  ASSUME TypeOK, TypeOK', SysTypeOK, OneAtATime, [SysNext]_sysVars, ~Restart,
         NEW k \in Key, visible'[k] # visible[k]
  PROVE  /\ UNCHANGED <<store, found, before, copied>>
         /\ \/ \E t \in Thread : PublishDirty(t) /\ op[t].key = k
            \/ \E t \in Thread : InsertVacant(t) /\ op[t].key = k
            \/ visible'[k] = NoRef
<1>1. [Next]_vars
  BY SysIsMap
<1>2. \/ \E t \in Thread : PublishDirty(t) /\ op[t].key = k
      \/ \E t \in Thread : InsertVacant(t) /\ op[t].key = k
      \/ visible'[k] = NoRef
  BY <1>1, IndexSteps
<1>3. ASSUME NEW t \in Thread, Alone(t) PROVE UNCHANGED <<store, found, before, copied>>
  BY <1>3 DEF Alone, appVars, runVars
<1>4. ASSUME NEW t \in Thread, TakeBatch(t) PROVE FALSE
  BY <1>4, TakeFacts
<1>5. ASSUME NEW t \in Thread, Mark(t) PROVE FALSE
  BY <1>5, MarkFacts
<1>6. ASSUME NEW t \in Thread, Fill(t) PROVE FALSE
  BY <1>6, FillFacts
<1>7. ASSUME UNCHANGED visible PROVE FALSE
  BY <1>7
<1>8. ASSUME NEW t \in Thread, Persist(t) PROVE UNCHANGED visible
  BY <1>8 DEF Persist, vars
<1>9. ASSUME NEW t \in Thread, NEW l \in Key, Fetch(t, l) PROVE UNCHANGED visible
  BY <1>9 DEF Fetch, vars
<1>10. ASSUME (\E l \in Key : ReadMiss(l)) \/ ReadStore \/ UNCHANGED sysVars
       PROVE  UNCHANGED visible
  BY <1>10 DEF ReadMiss, ReadStore, sysVars, vars
<1> QED
  BY <1>2, <1>3, <1>4, <1>5, <1>6, <1>7, <1>8, <1>9, <1>10, SysSteps

\* While an entry stays, the store gets older than it was only below a dirty
\* entry, and a copy stays what it is.
LEMMA SameEntry ==
  ASSUME IInv, OneWriterInv, TypeOK', SysTypeOK, StoreInPlace, CopiesFresh, OneAtATime,
         [SysNext]_sysVars, ~Restart, NEW k \in Key
  PROVE  /\ before' = before
         /\ visible[k].kind # "Dirty" => store[k] <= store'[k]
         /\ visible[k].kind = "Clean" => copied'[visible[k].id] = copied[visible[k].id]
<1> DEFINE Good == /\ before' = before
                   /\ visible[k].kind # "Dirty" => store[k] <= store'[k]
                   /\ visible[k].kind = "Clean" => copied'[visible[k].id] = copied[visible[k].id]
<1>0. TypeOK /\ store \in [Key -> Int]
  BY DEF IInv, SysTypeOK
<1>1. ASSUME UNCHANGED <<store, before, copied>> PROVE Good
  <2>1. store[k] <= store[k]
    BY <1>0
  <2> QED
    BY <1>1, <2>1
<1>2. ASSUME NEW t \in Thread, Alone(t) PROVE Good
  BY <1>1, <1>2 DEF Alone, appVars, runVars
<1>3. ASSUME NEW t \in Thread, TakeBatch(t) PROVE Good
  BY <1>0, <1>1, <1>3, TakeFacts
<1>4. ASSUME NEW t \in Thread, Mark(t) PROVE Good
  BY <1>0, <1>1, <1>4, MarkFacts DEF appVars, runVars
<1>5. ASSUME NEW t \in Thread, Persist(t) PROVE Good
  <2> DEFINE e == to_persist[t][1]
  <2>1. /\ store' = [store EXCEPT ![e.key] = before + e.id]
        /\ UNCHANGED <<before, copied>>
    BY <1>5, NextFacts
  <2>2. ASSUME visible[k].kind # "Dirty" PROVE store[k] <= store'[k]
    <3>1. CASE e.key = k
      BY <1>5, <2>2, <3>1, PersistNewer
    <3>2. CASE e.key # k
      <4> HIDE DEF e
      <4>1. store'[k] = store[k]
        BY <1>0, <2>1, <3>2
      <4> QED
        BY <1>0, <4>1
    <3> QED
      BY <3>1, <3>2
  <2> QED
    BY <2>1, <2>2
<1>6. ASSUME NEW t \in Thread, NEW l \in Key, Fetch(t, l) PROVE Good
  BY <1>1, <1>6 DEF Fetch, runVars
<1>7. ASSUME NEW t \in Thread, Fill(t) PROVE Good
  <2>1. /\ UNCHANGED <<store, before>> /\ next_cache \in CacheId
        /\ copied' = [copied EXCEPT ![next_cache] = fetched[t].value]
    BY <1>0, <1>7, FillFacts
  <2>2. ASSUME visible[k].kind = "Clean"
        PROVE  copied'[visible[k].id] = copied[visible[k].id]
    <3>1. visible[k].id \in CacheId
      BY <1>0, <2>2, CleanCopy
    <3>2. visible[k].id < next_cache
      BY <2>2 DEF CopiesFresh
    <3>3. visible[k].id # next_cache
      BY <2>1, <3>1, <3>2 DEF CacheId
    <3> QED
      BY <2>1, <3>1, <3>3 DEF SysTypeOK
  <2>3. store[k] <= store'[k]
    BY <1>0, <2>1
  <2> QED
    BY <2>1, <2>2, <2>3
<1>8. ASSUME (\E l \in Key : ReadMiss(l)) \/ ReadStore \/ UNCHANGED sysVars PROVE Good
  BY <1>1, <1>8 DEF ReadMiss, ReadStore, sysVars, appVars, runVars
<1> QED
  BY <1>2, <1>3, <1>4, <1>5, <1>6, <1>7, <1>8, SysSteps

\* What is readable of a key never goes back.
LEMMA ReadsGoOn ==
  ASSUME IInv, TypeOK', OneWriterInv, SysInv, [SysNext]_sysVars, ~Restart, NEW k \in Key
  PROVE  ReadThrough(k)' >= ReadThrough(k)
<1> DEFINE log == Dirty!Appended
<1>0. /\ TypeOK /\ WriteIdsOnce /\ KeysInOrder /\ \A t \in Thread : op[t].pc # "cleanup"
      /\ SysTypeOK /\ OneAtATime /\ StoreInPlace /\ CopiesFresh
  BY DEF IInv, OneWriterInv, SysInv
<1>1. /\ before' = before
      /\ visible[k].kind # "Dirty" => store[k] <= store'[k]
      /\ visible[k].kind = "Clean" => copied'[visible[k].id] = copied[visible[k].id]
  BY <1>0, SameEntry
<1>2. before \in Nat /\ store[k] \in Int /\ found[k] \in Int /\ found[k] < before
  BY <1>0 DEF SysTypeOK, StoreInPlace
<1>3. visible[k].kind = "Clean" =>
        copied[visible[k].id] \in Int /\ copied[visible[k].id] <= store[k]
  BY <1>0, CleanCopy DEF CopiesFresh
<1>4. visible[k].kind = "Dirty" =>
        /\ visible[k].id \in Nat
        /\ \E j \in DOMAIN log : log[j] = [id |-> visible[k].id, key |-> k]
  BY <1>0, DirtyCurrent DEF CopiesFresh, OneWriterInv
<1>5. \A i \in DOMAIN log : log[i].id \in Nat
  BY <1>0, LogNumbers
<1>6. CASE visible'[k] = visible[k]
  <2>1. CASE visible[k].kind = "Dirty"
    <3>1. ReadThrough(k)' = before + visible[k].id /\ ReadThrough(k) = before + visible[k].id
      BY <1>1, <1>6, <2>1 DEF ReadThrough, Written
    <3> QED
      BY <1>2, <1>4, <2>1, <3>1
  <2>2. CASE visible[k].kind = "Clean"
    <3>1. /\ ReadThrough(k)' = copied[visible[k].id]
          /\ ReadThrough(k) = copied[visible[k].id]
      BY <1>1, <1>6, <2>2 DEF ReadThrough
    <3> QED
      BY <1>3, <2>2, <3>1
  <2>3. CASE visible[k].kind \notin {"Dirty", "Clean"}
    <3>1. ReadThrough(k)' = store'[k] /\ ReadThrough(k) = store[k]
      BY <1>6, <2>3 DEF ReadThrough
    <3> QED
      BY <1>1, <2>3, <3>1
  <2> QED
    BY <2>1, <2>2, <2>3
<1>7. CASE visible'[k] # visible[k]
  <2>1. /\ UNCHANGED <<store, found, before, copied>>
        /\ \/ \E t \in Thread : PublishDirty(t) /\ op[t].key = k
           \/ \E t \in Thread : InsertVacant(t) /\ op[t].key = k
           \/ visible'[k] = NoRef
    BY <1>0, <1>7, EntrySteps
  <2>2. ASSUME NEW t \in Thread, PublishDirty(t), op[t].key = k
        PROVE  ReadThrough(k)' >= ReadThrough(k)
    <3>1. /\ op[t].pc = "publish" /\ op[t].id \in Nat
          /\ visible' = [visible EXCEPT ![k] = DirtyRef(op[t].id)]
      BY <1>0, <2>2, PublishFacts
    <3>2. visible'[k] = DirtyRef(op[t].id)
      BY <1>0, <3>1 DEF TypeOK
    <3>3. ReadThrough(k)' = before + op[t].id
      BY <2>1, <3>2 DEF ReadThrough, Written, DirtyRef
    <3>4. \A i \in DOMAIN log : log[i].key = k => log[i].id <= op[t].id
      BY <1>0, <2>2, <3>1 DEF KeysInOrder
    <3>5. store[k] <= before + op[t].id
      <4>1. \/ store[k] = found[k]
            \/ \E j \in DOMAIN log : log[j].key = k /\ store[k] = before + log[j].id
        BY <1>0, StoreOf
      <4> HIDE DEF log
      <4> QED
        BY <1>2, <1>5, <3>1, <3>4, <4>1
    <3>6. CASE visible[k].kind = "Dirty"
      <4>1. visible[k].id <= op[t].id
        BY <1>4, <3>4, <3>6
      <4>2. ReadThrough(k) = before + visible[k].id
        BY <3>6 DEF ReadThrough, Written
      <4> QED
        BY <1>2, <1>4, <3>1, <3>3, <3>6, <4>1, <4>2
    <3>7. CASE visible[k].kind = "Clean"
      <4>1. ReadThrough(k) = copied[visible[k].id]
        BY <3>7 DEF ReadThrough
      <4> QED
        BY <1>2, <1>3, <3>1, <3>3, <3>5, <3>7, <4>1
    <3>8. CASE visible[k].kind \notin {"Dirty", "Clean"}
      <4>1. ReadThrough(k) = store[k]
        BY <3>8 DEF ReadThrough
      <4> QED
        BY <1>2, <3>1, <3>3, <3>5, <4>1
    <3> QED
      BY <3>6, <3>7, <3>8
  <2>3. ASSUME NEW t \in Thread, InsertVacant(t), op[t].key = k
        PROVE  ReadThrough(k)' >= ReadThrough(k)
    <3>1. /\ op[t].pc = "entry" /\ visible[k] = NoRef
          /\ visible' = [visible EXCEPT ![k] = CleanRef(op[t].id)]
      BY <2>3 DEF InsertVacant, VacantEntry
    <3>2. visible'[k] = CleanRef(op[t].id)
      BY <1>0, <3>1 DEF TypeOK
    <3>3. copied[op[t].id] = store[k]
      BY <1>0, <2>3, <3>1 DEF CopiesFresh
    <3>4. ReadThrough(k)' = store[k]
      BY <2>1, <3>2, <3>3 DEF ReadThrough, CleanRef
    <3>5. ReadThrough(k) = store[k]
      BY <3>1 DEF ReadThrough, NoRef
    <3> QED
      BY <1>2, <3>4, <3>5
  <2>4. CASE visible'[k] = NoRef
    <3>1. ReadThrough(k)' = store[k]
      BY <2>1, <2>4 DEF ReadThrough, NoRef
    <3>2. CASE visible[k].kind = "Dirty"
      <4>1. [Next]_vars
        BY <1>0, SysIsMap
      <4>2. ~CleanedUp(k)
        BY <1>0 DEF CleanedUp
      <4>3. Retired(visible[k].id)
        BY <1>7, <2>4, <3>2, <4>1, <4>2, DirtyStep DEF NoRef
      <4>4. PICK i \in DOMAIN retired : retired[i].id = visible[k].id
        BY <4>3 DEF Retired
      <4>5. i \in DOMAIN log /\ log[i] = retired[i] /\ i <= Len(retired)
        BY <1>0, LogFront, LogSeqs
      <4>6. PICK j \in DOMAIN log : log[j] = [id |-> visible[k].id, key |-> k]
        BY <1>4, <3>2
      <4>7. i = j
        BY <1>0, <4>4, <4>5, <4>6 DEF WriteIdsOnce
      <4>8. log[i].key = k /\ log[i].id = visible[k].id
        BY <4>6, <4>7
      <4>9. before + log[i].id <= store[k]
        BY <1>0, <4>5, <4>8, StoreHas
      <4>10. ReadThrough(k) = before + visible[k].id
        BY <3>2 DEF ReadThrough, Written
      <4> QED
        BY <1>2, <1>4, <3>1, <3>2, <4>8, <4>9, <4>10
    <3>3. CASE visible[k].kind = "Clean"
      <4>1. ReadThrough(k) = copied[visible[k].id]
        BY <3>3 DEF ReadThrough
      <4> QED
        BY <1>2, <1>3, <3>1, <3>3, <4>1
    <3>4. CASE visible[k].kind \notin {"Dirty", "Clean"}
      <4>1. ReadThrough(k) = store[k]
        BY <3>4 DEF ReadThrough
      <4> QED
        BY <1>2, <3>1, <4>1
    <3> QED
      BY <3>2, <3>3, <3>4
  <2> QED
    BY <2>1, <2>2, <2>3, <2>4
<1> QED
  BY <1>6, <1>7

(***************************************************************************)
(* The invariant, from restart to restart, and the theorems.               *)
(***************************************************************************)

\* How a run starts: with a new map, on the store it finds.
Started ==
  /\ Init
  /\ store \in [Key -> Int] /\ found = store /\ before \in Nat
  /\ \A k \in Key : store[k] < before
  /\ to_persist = [t \in Thread |-> <<>>]
  /\ retrying = [t \in Thread |-> FALSE]
  /\ fetched = [t \in Thread |-> Nothing]
  /\ copied = [id \in CacheId |-> NoId]
  /\ missed = Nothing

\* What the map, the discipline and the application keep.
AppInv == IInv /\ OneWriterInv /\ SysInv

\* The first run is one that starts on an empty store.
LEMMA SysInitStarts == SysInit => Started
BY DEF SysInit, Started, NoId

\* A restart starts another run: what the store has is older than its writes.
LEMMA RestartStarts ==
  ASSUME AppInv, Restart
  PROVE  Started'
<1>0. /\ TypeOK /\ WriteIdsOnce /\ SysTypeOK /\ StoreInPlace
  BY DEF AppInv, IInv, SysInv
<1>1. /\ next_write \in Nat /\ before \in Nat /\ store \in [Key -> Int]
      /\ store' = store /\ found' = store /\ before' = before + next_write
  BY <1>0 DEF Restart, Written, SysTypeOK, TypeOK
<1>2. ASSUME NEW k \in Key PROVE store[k] < before + next_write
  <2> DEFINE log == Dirty!Appended
  <2>1. found[k] < before /\ found[k] \in Int
    BY <1>0 DEF StoreInPlace, SysTypeOK
  <2>2. \/ store[k] = found[k]
        \/ \E j \in DOMAIN log : log[j].key = k /\ store[k] = before + log[j].id
    BY <1>0, StoreOf
  <2>3. \A j \in DOMAIN log : log[j].id \in Nat /\ log[j].id < next_write
    BY <1>0, LogNumbers DEF WriteIdsOnce
  <2> HIDE DEF log
  <2> QED
    BY <1>1, <2>1, <2>2, <2>3
<1>3. Init'
  BY DEF Restart, Init, Dirty!Init
<1>4. before' \in Nat /\ \A k \in Key : store'[k] < before'
  BY <1>1, <1>2
<1> QED
  BY <1>1, <1>3, <1>4 DEF Restart, Started

\* A run that starts has the invariant.
LEMMA StartedInv ==
  ASSUME Started
  PROVE  AppInv
<1> USE DEF Started
<1>1. IInv /\ OneWriterInv
  BY InitIInv, InitOneWriter
<1>2. TypeOK
  BY <1>1 DEF IInv
<1>3. SysTypeOK
  BY DEF SysTypeOK, NoId
<1>4. OneAtATime
  BY DEF OneAtATime, Init, Idle, Nothing
<1>5. StoreInPlace
  <2>1. Len(retired) = 0 /\ Len(inflight) = 0
    BY DEF Init, Dirty!Init
  <2>2. ASSUME NEW k \in Key
        PROVE  LastIn(Dirty!Appended, k, 0 + 0, before, found[k]) = found[k]
    <3> DEFINE log == Dirty!Appended
               b == before
               d == found[k]
    <3>1. b \in Nat /\ \A i \in 1 .. 0 : log[i].id \in Nat /\ log[i].id < 0
      OBVIOUS
    <3>2. 0 \in Nat /\ 0 + 0 = 0
      OBVIOUS
    <3> HIDE DEF log, b, d
    <3>3. \/ LastIn(log, k, 0, b, d) = d /\ \A i \in 1 .. 0 : log[i].key # k
          \/ /\ \E j \in 1 .. 0 : log[j].key = k /\ LastIn(log, k, 0, b, d) = b + log[j].id
             /\ \A i \in 1 .. 0 : log[i].key = k => b + log[i].id <= LastIn(log, k, 0, b, d)
      BY <3>1, <3>2, LastFacts
    <3>4. LastIn(log, k, 0, b, d) = d
      BY <3>3
    <3> QED
      BY <3>2, <3>4 DEF log, b, d
  <2>3. \A t \in Thread : to_persist[t] = <<>>
    OBVIOUS
  <2>4. InPlace(Dirty!Appended, 0, 0, to_persist, retrying, store, before, found)
    BY <2>2, <2>3 DEF InPlace
  <2> QED
    BY <2>1, <2>4, InPlaceDef
<1>6. CopiesFresh
  BY DEF CopiesFresh, Init, Idle, Nothing, NoRef
<1>7. MissedRetired
  BY DEF MissedRetired, Nothing
<1> QED
  BY <1>1, <1>3, <1>4, <1>5, <1>6, <1>7 DEF AppInv, SysInv

\* Every step but a restart keeps it.
LEMMA NextAppInv ==
  ASSUME OneWriterPerKey, NoCleanup, OneLoop, AppInv, [SysNext]_sysVars, ~Restart
  PROVE  AppInv'
<1>1. IInv /\ OneWriterInv /\ TypeOK /\ KeysInOrder
  BY DEF AppInv, IInv, OneWriterInv
<1>2. SysTypeOK /\ OneAtATime /\ StoreInPlace /\ CopiesFresh /\ MissedRetired
  BY DEF AppInv, SysInv
<1>3. [Next]_vars
  BY <1>2, SysIsMap
<1>4. IInv'
  BY <1>1, <1>3, NextIInv
<1>5. TypeOK'
  BY <1>4 DEF IInv
<1>6. OneWriterInv'
  BY <1>1, <1>3, <1>4, NextOneWriter
<1>7. SysTypeOK'
  BY <1>1, <1>2, <1>5, NextSysTypeOK
<1>8. OneAtATime'
  BY <1>1, <1>2, <1>5, NextOneAtATime
<1>9. StoreInPlace'
  BY <1>1, <1>2, <1>5, NextStoreInPlace
<1>10. CopiesFresh'
  BY <1>1, <1>2, <1>5, NextCopiesFresh
<1>11. MissedRetired'
  BY <1>1, <1>2, <1>5, NextMissedRetired
<1> QED
  BY <1>4, <1>6, <1>7, <1>8, <1>9, <1>10, <1>11 DEF AppInv, SysInv

\* They hold in every state: a restart leads to the start of a run, and the
\* other steps keep them.
LEMMA AppInvLasts ==
  ASSUME OneWriterPerKey, NoCleanup, OneLoop
  PROVE  SysSpec => []AppInv
<1>1. SysInit => Started
  BY SysInitStarts
<1>2. Started => AppInv
  BY StartedInv
<1>3. AppInv /\ Restart => Started'
  BY RestartStarts
<1>4. AppInv /\ [SysNext]_sysVars /\ ~Restart => AppInv'
  BY NextAppInv
<1> QED
  BY <1>1, <1>2, <1>3, <1>4, PTL DEF SysSpec

\* With one writer per key, one thread for the loop and no cleanup, the three
\* invariants hold together, from restart to restart: what the map keeps, what
\* the discipline adds, and where store, batch and fills are between them.
THEOREM AppInvariance ==
  ASSUME OneWriterPerKey, NoCleanup, OneLoop
  PROVE  SysSpec => [](IInv /\ OneWriterInv /\ SysInv)
<1>1. AppInv => IInv /\ OneWriterInv /\ SysInv
  BY DEF AppInv
<1> QED
  BY <1>1, AppInvLasts, PTL

\* So a write is readable, through the map or from the store, from the moment
\* insert_dirty returns until the process stops; and what was durable when it
\* started, from then on.
THEOREM WritesReadable ==
  ASSUME OneWriterPerKey, NoCleanup, OneLoop
  PROVE  SysSpec => []CompletedWritesReadable
<1>1. AppInv => CompletedWritesReadable
  BY InvReadable DEF AppInv
<1> QED
  BY <1>1, AppInvLasts, PTL

\* The store follows the log: wherever the process stops, it leaves for each
\* key what a prefix of the log writes, with all that was marked; the same
\* prefix for all keys unless a batch is being persisted again.
THEOREM FollowsLog ==
  ASSUME OneWriterPerKey, NoCleanup, OneLoop
  PROVE  SysSpec => []StoreFollowsLog
<1>1. AppInv => StoreFollowsLog
  BY InvFollowsLog DEF AppInv, IInv, SysInv
<1> QED
  BY <1>1, AppInvLasts, PTL

\* Between restarts, reads of a key never go back to an older write.
THEOREM NeverGoBack ==
  ASSUME OneWriterPerKey, NoCleanup, OneLoop
  PROVE  SysSpec => ReadsNeverGoBack
<1>1. AppInv /\ AppInv' /\ [SysNext]_sysVars =>
        [~Restart => \A k \in Key : ReadThrough(k)' >= ReadThrough(k)]_sysVars
  BY ReadsGoOn DEF AppInv, IInv
<1> QED
  BY <1>1, AppInvLasts, PTL DEF SysSpec, ReadsNeverGoBack
===============================================================================
