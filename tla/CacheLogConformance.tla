------------------------- MODULE CacheLogConformance -------------------------
(***************************************************************************)
(* The conformance tests of map.rs: a harness makes a call of the live map *)
(* (CacheLogMap, here with the harness as its only thread), applies to the *)
(* deterministic core (CacheLogCore) the ModelSteps the call stands for,   *)
(* and asserts that the two agree.  The tests run seven fixed sequences of *)
(* calls; here the harness makes any of its calls at any time, until an    *)
(* assertion fails and ends the test.  The ids are those the core has room *)
(* for (max_write and max_cache of its ModelConfig): the map has no such   *)
(* bound, and a write or a fill beyond it would be in the map only.        *)
(*                                                                         *)
(* A call of the live map is the steps of CacheLogMap; the core's steps    *)
(* wait in todo until it has returned.  Every insert_dirty is given a      *)
(* value of its own, named like the id the write gets.                     *)
(***************************************************************************)
EXTENDS CacheLogCore, FiniteSets

CONSTANTS
  harness,        \* the thread that makes the calls
  Limit,          \* the limits flush_batch is called with
  Capacity,       \* clean_capacity: no call is to evict what the core keeps
  CountModulus

ASSUME ValueIsWriteId == Value = WriteId
ASSUME LimitAssumption == Limit \subseteq Nat
ASSUME RoomAssumption == MaxCache <= Capacity /\ Capacity \in Nat
ASSUME WidthAssumption == CountModulus \in Nat /\ MaxCache < CountModulus

VARIABLES
  live_visible, live_next_write, live_pending, live_inflight, live_retired,
  live_fifo, live_clean_count, live_next_cache, live_op, live_held, live_leaked,
  copied,         \* copied[id]: the value given to the clean record id
  todo,           \* the ModelSteps the core has yet to take
  batch,          \* ConformanceHarness.inflight: ids of the batch in flight
  misuse          \* history: if the last call is one the tests avoid, which

Live == INSTANCE CacheLogMap WITH
  Thread <- {harness},
  WriteKeys <- [t \in {harness} |-> Key],
  Calls <- [t \in {harness} |-> {"flush", "fill", "evict"}],
  visible <- live_visible, next_write <- live_next_write,
  pending <- live_pending, inflight <- live_inflight, retired <- live_retired,
  clean_fifo <- live_fifo, clean_count <- live_clean_count,
  next_cache <- live_next_cache, op <- live_op, held <- live_held,
  leaked <- live_leaked

liveVars == <<live_visible, live_next_write, live_pending, live_inflight,
              live_retired, live_fifo, live_clean_count, live_next_cache,
              live_op, live_held, live_leaked>>
confVars == <<vars, liveVars, copied, todo, batch, misuse>>

ConfInit ==
  /\ Init
  /\ Live!Init
  /\ copied = [id \in CacheId |-> 0]
  /\ todo = <<>>
  /\ batch = <<>>
  /\ misuse = "none"

Quiet == Live!Quiet /\ todo = <<>>

(***************************************************************************)
(* The comparison: debug_snapshot of the live map and ComparableState of   *)
(* the core.  A record of the live map has an id and a key; its value is   *)
(* its id if it is dirty, copied[id] if it is clean.                       *)
(***************************************************************************)
Ids(records) == [i \in DOMAIN records |-> records[i].id]

LiveQueue == live_inflight \o live_pending

VisibleDirty ==
  {[id |-> live_visible[k].id, key |-> k] :
     k \in {key \in Key : live_visible[key].kind = "Dirty"}}

LiveDirtyRecords ==
  {Record(r.id, r.key, r.id) : r \in VisibleDirty \cup Live!RecordOf(LiveQueue)}

LiveCleanRecords ==
  {Record(live_visible[k].id, k, copied[live_visible[k].id]) :
     k \in Live!VisibleClean}

\* The entries of a ComparableState map: the records that are present.
Present(records) == {records[id] : id \in DOMAIN records} \ {Absent}

\* The comparison, but for the batch in flight and the next clean id.
SameState ==
  /\ live_visible = visible
  /\ LiveDirtyRecords = Present(write_store)
  /\ Ids(LiveQueue) = dirty_q
  /\ LiveCleanRecords = Present(cache_store)
  /\ live_next_write = next_write
  /\ live_clean_count = Cardinality(LiveCleanRecords)

\* What read(k) gives: a value, and whether it is dirty or clean.
LiveRead(k) ==
  LET ref == live_visible[k] IN
  IF ref = NoRef THEN NoRef
  ELSE [kind |-> ref.kind, id |-> ref.id,
        value |-> IF ref.kind = "Dirty" THEN ref.id ELSE copied[ref.id]]

CoreRead(k) ==
  LET ref == visible[k] IN
  IF ref = NoRef THEN NoRef
  ELSE [kind |-> ref.kind, id |-> ref.id,
        value |-> IF ref.kind = "Dirty" THEN write_store[ref.id].value
                  ELSE cache_store[ref.id].value]

SameReads == \A k \in Key : LiveRead(k) = CoreRead(k)

\* assert_matches_model, at the end of every call.  (Of a mark_flushed that
\* finds a new batch, the assertion that it is the one in flight.)
AssertsPass ==
  /\ SameState
  /\ Ids(live_inflight) = batch
  /\ live_next_cache = next_cache
  /\ SameReads

\* The harness can make a call: the assertions of the last one have passed.
Ready == Quiet /\ AssertsPass

(***************************************************************************)
(* The ModelSteps a call stands for.                                       *)
(***************************************************************************)
WriteOf(k, v) == [action |-> "WriterWrite", key |-> k, value |-> v]
InsertOf(k) == [action |-> "CacheInsert", key |-> k]

\* What becomes of a clean entry the call replaces or evicts.
Forget(ref) ==
  IF ref.kind = "Clean"
  THEN <<[action |-> "CacheDropRecord", id |-> ref.id],
         [action |-> "CacheCleanupVisible", id |-> ref.id]>>
  ELSE <<>>

\* Each id of the batch is flushed, then dropped.
FlushAndDrop(ids) ==
  [i \in 1 .. 2 * Len(ids) |->
     IF i % 2 = 1 THEN [action |-> "FlusherFlushNext"]
     ELSE [action |-> "FlusherDrop", id |-> ids[i \div 2]]]

\* cache_insert of the core changes nothing when there is nothing to insert.
InsertIfCacheable(k) == CacheInsert(k) \/ (~Cacheable(k) /\ UNCHANGED vars)

ApplyStep(step) ==
  \/ step.action = "WriterWrite" /\ WriterWrite(step.key, step.value)
  \/ step.action = "FlusherFlushNext" /\ FlusherFlushNext
  \/ step.action = "FlusherDrop" /\ FlusherDrop(step.id)
  \/ step.action = "CacheInsert" /\ InsertIfCacheable(step.key)
  \/ step.action = "CacheDropRecord" /\ CacheDropRecord(step.id)
  \/ step.action = "CacheCleanupVisible" /\ CacheCleanupVisible(step.id)

(***************************************************************************)
(* The calls of ConformanceHarness.                                        *)
(***************************************************************************)
InsertDirty(k) ==
  /\ Ready
  /\ Live!TakeWriteId(harness, k)
  /\ todo' = <<WriteOf(k, next_write)>> \o Forget(visible[k])
  /\ misuse' = "none"
  /\ UNCHANGED <<vars, copied, batch>>

\* The harness asserts that the value is durable, not that the key has no
\* entry.  If it has one the live map takes an id all the same.
InsertCleanFromDurable(k) ==
  /\ Ready
  /\ durable[k].present
  /\ Live!TakeCacheId(harness, k)
  /\ copied' = [copied EXCEPT ![live_next_cache] = durable[k].value]
  /\ todo' = <<InsertOf(k)>>
  /\ misuse' = IF visible[k] = NoRef THEN "none" ELSE "fill"
  /\ UNCHANGED <<vars, batch>>

\* Of an entry that is not clean it changes nothing.
EvictClean(k) ==
  /\ Ready
  /\ Live!EvictClean(harness, k)
  /\ todo' = Forget(visible[k])
  /\ misuse' = "none"
  /\ UNCHANGED <<vars, copied, batch>>

\* (mutant) a new batch takes one record more than its limit
FlushOneMore(limit) ==
  \/ Live!FlushAgain(harness)
  \/ Live!FlushNew(harness, limit + 1)
  \/ live_pending = <<>> /\ Live!FlushNothing(harness)

\* flush_batch of the live map.
LiveFlush(limit) ==
  \/ Live!FlushAgain(harness)
  \/ Live!FlushNew(harness, limit)
  \/ (limit = 0 \/ live_pending = <<>>) /\ Live!FlushNothing(harness)

FlushBatch(limit) ==
  /\ Ready
  /\ LiveFlush(limit)
  /\ batch' = Ids(live_held'[harness])
  /\ misuse' = "none"
  /\ UNCHANGED <<vars, copied, todo>>

\* With a batch in flight its flush_batch only returns that one again.
MarkInFlight ==
  /\ Ready
  /\ batch # <<>>
  /\ Live!MarkFlushed(harness)
  /\ todo' = FlushAndDrop(Ids(live_held[harness]))
  /\ batch' = <<>>
  /\ misuse' = "none"
  /\ UNCHANGED <<vars, copied>>

\* Without one, its flush_batch may find a new batch, which is not the empty
\* one the harness has; an empty batch marks nothing.
MarkNothing(limit) ==
  /\ Ready
  /\ batch = <<>>
  /\ LiveFlush(limit)
  /\ misuse' = IF live_held'[harness] = <<>> THEN "none" ELSE "mark"
  /\ UNCHANGED <<vars, copied, todo, batch>>

MarkFlushed(limit) == MarkInFlight \/ MarkNothing(limit)

\* An assertion has failed, and the test is over.
Panicked ==
  /\ Quiet
  /\ ~AssertsPass
  /\ UNCHANGED confVars

LiveStep ==
  /\ Live!Continue(harness)
  /\ UNCHANGED <<vars, copied, todo, batch, misuse>>

CoreStep ==
  /\ Live!Quiet
  /\ todo # <<>>
  /\ ApplyStep(Head(todo))
  /\ todo' = Tail(todo)
  /\ UNCHANGED <<liveVars, copied, batch, misuse>>

ConfNext ==
  \/ \E k \in Key :
       \/ InsertDirty(k)
       \/ InsertCleanFromDurable(k)
       \/ EvictClean(k)
  \/ \E limit \in Limit : FlushBatch(limit) \/ MarkFlushed(limit)
  \/ LiveStep
  \/ CoreStep
  \/ Panicked

ConfSpec == ConfInit /\ [][ConfNext]_confVars

(***************************************************************************)
(* What the steps preserve together: how far the live map and the core are *)
(* apart, in each phase of a call.                                         *)
(***************************************************************************)
LiveOp == live_op[harness]
LiveLog == live_retired \o LiveQueue
LiveRecord == [id : WriteId, key : Key]

LiveOpType ==
  [pc : {"idle", "uncount"}]
    \cup [pc : {"append", "publish"}, key : Key, id : WriteId]
    \cup [pc : {"entry", "count", "push"}, key : Key, id : CacheId]
    \cup [pc : {"unpublish"}, todo : Seq(LiveRecord) \ {<<>>}]

LiveTypeOK ==
  /\ live_visible \in [Key -> VisibleRef]
  /\ live_next_write \in Nat /\ live_next_cache \in Nat
  /\ live_pending \in Seq(LiveRecord)
  /\ live_inflight \in Seq(LiveRecord)
  /\ live_retired \in Seq(LiveRecord)
  /\ live_fifo \in Seq([id : CacheId, key : Key])
  /\ live_clean_count \in Int
  /\ live_op \in [{harness} -> LiveOpType]
  /\ live_held \in [{harness} -> Seq(LiveRecord)]
  /\ copied \in [CacheId -> Int]

\* The records of the live log are numbered from 0, and the core has written
\* the same, each with its id for a value.
SameHistory ==
  /\ \A i \in DOMAIN LiveLog : LiveLog[i].id = i - 1
  /\ next_write <= Len(LiveLog)
  /\ \A id \in 0 .. next_write - 1 :
       write_hist[id] = Record(id, LiveLog[id + 1].key, id)

\* The harness holds the batch in flight, unless a mark has just found it.
BatchHeld ==
  /\ batch = IF misuse = "mark" THEN <<>> ELSE Ids(live_inflight)
  /\ misuse = "mark" => live_inflight # <<>>
  /\ live_inflight # <<>> => live_held[harness] = live_inflight

Upcoming(step) == todo # <<>> /\ Head(todo) = step
DropRecord(id) == [action |-> "CacheDropRecord", id |-> id]
Cleanup(id) == [action |-> "CacheCleanupVisible", id |-> id]

\* The core holds the clean records that are visible, but for the one whose
\* drop or whose cleanup is the next step.
SameClean ==
  \A id \in CacheId :
    /\ cache_store[id].present =>
         /\ cache_store[id].value = copied[id]
         /\ id < next_cache
         /\ Upcoming(DropRecord(id)) \/ \E k \in Key : visible[k] = CleanRef(id)
    /\ ~cache_store[id].present =>
         Upcoming(Cleanup(id)) \/ \A k \in Key : visible[k] # CleanRef(id)

\* The live counter, the FIFO and the clean ids account for the clean entries.
CleanAccounts ==
  LET clean == Cardinality(Live!VisibleClean)
      at(pcs) == IF LiveOp.pc \in pcs THEN 1 ELSE 0
  IN  /\ IsFiniteSet(Live!VisibleClean)
      /\ live_clean_count = clean + at({"uncount"}) - at({"count"})
      /\ clean + at({"entry"}) <= live_next_cache
      /\ Len(live_fifo) + at({"entry", "count", "push"}) <= live_next_cache
      /\ live_next_cache <= MaxCache

SameCounters == live_next_write = next_write /\ live_next_cache = next_cache

\* The core has flushed n of the retired records and dropped the first m.
CoreHas(n, m) ==
  /\ Len(flushed) = n
  /\ 0 <= m
  /\ \A id \in WriteId : write_store[id].present => m <= id

CaughtUp == CoreHas(Len(live_retired), Len(live_retired))

\* What is left of the steps of a mark when there are n of them.
MarkSteps(n) ==
  [i \in 1 .. n |->
     IF (n - i) % 2 = 1 THEN [action |-> "FlusherFlushNext"]
     ELSE [action |-> "FlusherDrop", id |-> Len(live_retired) - 1 - (n - i) \div 2]]

WithoutOlder(n) ==
  [k \in Key |-> IF visible[k].kind = "Dirty" /\ visible[k].id < n THEN NoRef
                 ELSE visible[k]]

\* At rest (n = 0), or in a mark: the live map unpublishes the batch, then
\* the core flushes and drops it.
Marking(n) ==
  LET R == Len(live_retired)
      unpublished == IF LiveOp.pc = "unpublish" THEN R - Len(LiveOp.todo) ELSE R
  IN  /\ todo = MarkSteps(n)
      /\ LiveOp.pc \in {"idle", "unpublish"}
      /\ LiveOp.pc = "unpublish" =>
           unpublished >= 0 /\ LiveOp.todo = SubSeq(live_retired, unpublished + 1, R)
      /\ CoreHas(R - n \div 2, R - (n + 1) \div 2)
      /\ live_visible = WithoutOlder(unpublished)
      /\ SameCounters
      /\ Len(LiveLog) = next_write

Writing(k) ==
  /\ todo = <<WriteOf(k, next_write)>> \o Forget(visible[k])
  /\ CaughtUp
  /\ live_next_write = next_write + 1 /\ live_next_cache = next_cache
  /\ next_write < MaxWrite
  /\ \/ /\ LiveOp = [pc |-> "append", key |-> k, id |-> next_write]
        /\ Len(LiveLog) = next_write
        /\ live_visible = visible
     \/ /\ Len(LiveLog) = next_write + 1
        /\ LiveLog[next_write + 1].key = k
        /\ \/ /\ LiveOp = [pc |-> "publish", key |-> k, id |-> next_write]
              /\ live_visible = visible
           \/ /\ LiveOp = [pc |-> "idle"]
              /\ live_visible = [visible EXCEPT ![k] = DirtyRef(next_write)]

Filling(k) ==
  /\ todo = <<InsertOf(k)>>
  /\ CaughtUp
  /\ live_next_write = next_write /\ live_next_cache = next_cache + 1
  /\ Len(LiveLog) = next_write
  /\ Cacheable(k)
  /\ copied[next_cache] = durable[k].value
  /\ LiveOp.pc # "idle" => LiveOp = [pc |-> LiveOp.pc, key |-> k, id |-> next_cache]
  /\ \/ LiveOp.pc = "entry" /\ live_visible = visible
     \/ /\ LiveOp.pc \in {"count", "push", "idle"}
        /\ live_visible = [visible EXCEPT ![k] = CleanRef(next_cache)]

Forgetting(id) ==
  /\ todo = <<DropRecord(id), Cleanup(id)>> \/ todo = <<Cleanup(id)>>
  /\ CaughtUp
  /\ SameCounters
  /\ Len(LiveLog) = next_write
  /\ LiveOp.pc \in {"idle", "uncount"}
  /\ live_visible = WithoutRef(CleanRef(id))

\* A fill of a key that has an entry: nothing goes in, on either side, but
\* the live map has taken an id.
Refused(k) ==
  /\ visible[k] # NoRef
  /\ \/ /\ todo = <<InsertOf(k)>>
        /\ LiveOp = [pc |-> "entry", key |-> k, id |-> next_cache]
     \/ /\ todo \in {<<InsertOf(k)>>, <<>>}
        /\ LiveOp = [pc |-> "idle"]
  /\ CaughtUp
  /\ live_next_write = next_write /\ live_next_cache = next_cache + 1
  /\ Len(LiveLog) = next_write
  /\ live_visible = visible

\* Whatever the phase.
Together ==
  /\ ~crashed
  /\ LiveTypeOK
  /\ SameHistory
  /\ BatchHeld
  /\ SameClean
  /\ CleanAccounts

InStep ==
  /\ Together
  /\ \/ Marking(Len(todo))
     \/ \E k \in Key : Writing(k) \/ Filling(k)
     \/ \E id \in CacheId : Forgetting(id)

\* The core is a clean id behind, and no call will follow.
Behind ==
  /\ Together
  /\ \E k \in Key : Refused(k)

\* All of it: inductive with the invariant of the core.
ConfInv ==
  /\ misuse \in {"none", "fill", "mark"}
  /\ IF misuse = "fill" THEN Behind ELSE InStep

(***************************************************************************)
(* Properties: the assertions of the harness.                              *)
(***************************************************************************)

\* assert_matches_model, and the reads it makes of every key, pass after
\* every call but two (as long as the core has ids), and then exactly one
\* thing they compare differs: a fill of a key that has an entry leaves the
\* live map one clean id ahead, and a mark_flushed with nothing in flight
\* finds a batch the harness has not asked for.
AssertMatchesModel ==
  Quiet =>
    /\ SameState
    /\ SameReads
    /\ live_next_cache = next_cache + (IF misuse = "fill" THEN 1 ELSE 0)
    /\ misuse = "mark" <=> Ids(live_inflight) # batch
    /\ misuse = "mark" => batch = <<>>
    /\ misuse = "none" <=> AssertsPass

\* A flush_batch returns the oldest ids of the core's queue, as many as the
\* limit allows, or the batch in flight again.
FlushReturnsQueue ==
  [][\A limit \in Limit : FlushBatch(limit) =>
       batch' = IF batch # <<>> THEN batch
                ELSE SubSeq(dirty_q, 1,
                            IF limit < Len(dirty_q) THEN limit ELSE Len(dirty_q))
    ]_confVars

\* While the core catches up with a mark, the id at the head of its queue is
\* the next one of the batch, and each drop finds its record flushed.
MarkFollowsQueue ==
  todo # <<>> =>
    /\ Head(todo).action = "FlusherFlushNext" =>
         dirty_q # <<>> /\ Head(dirty_q) = todo[2].id
    /\ Head(todo).action = "FlusherDrop" => Contains(flushed, Head(todo).id)
=============================================================================
