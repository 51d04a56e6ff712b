---------------------------- MODULE CacheLogCore ----------------------------
(***************************************************************************)
(* The deterministic core of cachelog-core/src/model.rs: a state machine   *)
(* with one step per ModelStep.  A cache keeps a table of visible          *)
(* references in front of a durable store; writes go to a log that a       *)
(* flusher drains in order, clean copies of durable values are cached.     *)
(*                                                                         *)
(* Every step of the code is one call on `&mut self`, so each action is a  *)
(* whole method.  A call the method answers with `return Ok(())` or with a *)
(* ModelError leaves the state alone: it is a stuttering step, and the     *)
(* action is not enabled.  Keys, values and ids range over the valid ones  *)
(* of ModelConfig; the checks of the others reject them without a change.  *)
(***************************************************************************)
EXTENDS Integers, Sequences

CONSTANTS
  Key,          \* config.key_count keys
  Value,        \* config.value_count values
  MaxWrite,     \* config.max_write: write ids are 0 .. MaxWrite - 1
  MaxCache      \* config.max_cache: cache ids are 0 .. MaxCache - 1

ASSUME MaxWriteAssumption == MaxWrite \in Nat
ASSUME MaxCacheAssumption == MaxCache \in Nat

VARIABLES
  visible,        \* visible[k]: the reference a reader of k follows
  write_store,    \* the dirty records the cache still holds
  write_hist,     \* every dirty record ever written
  dirty_q,        \* ids not yet flushed, oldest first
  cache_store,    \* the clean records the cache still holds
  durable,        \* the durable store, with the id that wrote each value
  flushed,        \* ids flushed, oldest first
  created_dirty,  \* created_dirty[id]: id has been written
  next_write,
  next_cache,
  crashed,
  bad_read        \* a reader followed a reference to a wrong record

vars == <<visible, write_store, write_hist, dirty_q, cache_store, durable,
          flushed, created_dirty, next_write, next_cache, crashed, bad_read>>

WriteId == 0 .. MaxWrite - 1
CacheId == 0 .. MaxCache - 1

NoRef == [kind |-> "None"]
DirtyRef(id) == [kind |-> "Dirty", id |-> id]
CleanRef(id) == [kind |-> "Clean", id |-> id]

VisibleRef ==
  {NoRef} \cup {DirtyRef(id) : id \in WriteId}
          \cup {CleanRef(id) : id \in CacheId}

Absent == [present |-> FALSE]
Record(id, k, v) == [present |-> TRUE, id |-> id, key |-> k, value |-> v]
Stored(v, id) == [present |-> TRUE, value |-> v, seq |-> id]

DirtyRecord == [present : {TRUE}, id : WriteId, key : Key, value : Value]
CleanRecord == [present : {TRUE}, id : CacheId, key : Key, value : Value]
DurableValue == [present : {TRUE}, value : Value, seq : WriteId]

Init ==
  /\ visible = [k \in Key |-> NoRef]
  /\ write_store = [id \in WriteId |-> Absent]
  /\ write_hist = [id \in WriteId |-> Absent]
  /\ dirty_q = <<>>
  /\ cache_store = [id \in CacheId |-> Absent]
  /\ durable = [k \in Key |-> Absent]
  /\ flushed = <<>>
  /\ created_dirty = [id \in WriteId |-> FALSE]
  /\ next_write = 0
  /\ next_cache = 0
  /\ crashed = FALSE
  /\ bad_read = FALSE

\* contains_id
Contains(ids, id) == \E i \in DOMAIN ids : ids[i] = id

\* (mutant) the references stay
KeepRef(ref) == visible

\* Every reference equal to ref is taken out of the table.
WithoutRef(ref) ==
  [k \in Key |-> IF visible[k] = ref THEN NoRef ELSE visible[k]]

\* (mutant) the newest id goes to the front of the queue
QueueFirst(id) == <<id>> \o dirty_q

Queue(id) == Append(dirty_q, id)

\* (mutant) the newest queued write is flushed first
NewestQueued == dirty_q[Len(dirty_q)]

NextToFlush == Head(dirty_q)

\* (mutant) a record is dropped before it is durable
Held(id) == write_store[id].present

\* A record leaves the cache only when it is durable.
Droppable(id) == Contains(flushed, id) /\ write_store[id].present

\* (mutant) a clean copy replaces whatever is visible
Durable(k) == durable[k].present

\* A clean copy is made only of a durable value, and of a key nobody sees.
Cacheable(k) == durable[k].present /\ visible[k] = NoRef

(***************************************************************************)
(* The steps.                                                              *)
(***************************************************************************)
WriterWrite(k, v) ==
  /\ ~crashed
  /\ next_write < MaxWrite
  /\ write_store' = [write_store EXCEPT ![next_write] = Record(next_write, k, v)]
  /\ write_hist' = [write_hist EXCEPT ![next_write] = Record(next_write, k, v)]
  /\ dirty_q' = Queue(next_write)
  /\ visible' = [visible EXCEPT ![k] = DirtyRef(next_write)]
  /\ created_dirty' = [created_dirty EXCEPT ![next_write] = TRUE]
  /\ next_write' = next_write + 1
  /\ UNCHANGED <<cache_store, durable, flushed, next_cache, crashed, bad_read>>

FlusherFlushNext ==
  /\ ~crashed
  /\ dirty_q # <<>>
  /\ LET id == NextToFlush
         record == write_hist[id]
     IN  /\ record.present
         /\ durable' = [durable EXCEPT ![record.key] = Stored(record.value, id)]
         /\ flushed' = Append(flushed, id)
  /\ dirty_q' = Tail(dirty_q)
  /\ UNCHANGED <<visible, write_store, write_hist, cache_store, created_dirty,
                 next_write, next_cache, crashed, bad_read>>

FlusherDrop(id) ==
  /\ ~crashed
  /\ Droppable(id)
  /\ write_store' = [write_store EXCEPT ![id] = Absent]
  /\ visible' = WithoutRef(DirtyRef(id))
  /\ UNCHANGED <<write_hist, dirty_q, cache_store, durable, flushed,
                 created_dirty, next_write, next_cache, crashed, bad_read>>

CacheInsert(k) ==
  /\ ~crashed
  /\ next_cache < MaxCache
  /\ Cacheable(k)
  /\ cache_store' = [cache_store EXCEPT ![next_cache] =
                       Record(next_cache, k, durable[k].value)]
  /\ visible' = [visible EXCEPT ![k] = CleanRef(next_cache)]
  /\ next_cache' = next_cache + 1
  /\ UNCHANGED <<write_store, write_hist, dirty_q, durable, flushed,
                 created_dirty, next_write, crashed, bad_read>>

CacheDropRecord(id) ==
  /\ ~crashed
  /\ cache_store[id].present
  /\ cache_store' = [cache_store EXCEPT ![id] = Absent]
  /\ UNCHANGED <<visible, write_store, write_hist, dirty_q, durable, flushed,
                 created_dirty, next_write, next_cache, crashed, bad_read>>

CacheCleanupVisible(id) ==
  /\ ~crashed
  /\ ~cache_store[id].present
  /\ visible' = WithoutRef(CleanRef(id))
  /\ UNCHANGED <<write_store, write_hist, dirty_q, cache_store, durable,
                 flushed, created_dirty, next_write, next_cache, crashed,
                 bad_read>>

\* A dirty reference has to lead to a record of the key; a clean one may
\* dangle (the record was dropped, the reference not yet cleaned up).
BadReference(k) ==
  LET ref == visible[k] IN
  \/ /\ ref.kind = "Dirty"
     /\ ~write_store[ref.id].present \/ write_store[ref.id].key # k
  \/ /\ ref.kind = "Clean"
     /\ cache_store[ref.id].present /\ cache_store[ref.id].key # k

ReaderStep(k) ==
  /\ ~crashed
  /\ bad_read' = (bad_read \/ BadReference(k))
  /\ UNCHANGED <<visible, write_store, write_hist, dirty_q, cache_store,
                 durable, flushed, created_dirty, next_write, next_cache,
                 crashed>>

Crash ==
  /\ ~crashed
  /\ visible' = [k \in Key |-> NoRef]
  /\ write_store' = [id \in WriteId |-> Absent]
  /\ dirty_q' = <<>>
  /\ cache_store' = [id \in CacheId |-> Absent]
  /\ crashed' = TRUE
  /\ UNCHANGED <<write_hist, durable, flushed, created_dirty, next_write,
                 next_cache, bad_read>>

Next ==
  \/ \E k \in Key, v \in Value : WriterWrite(k, v)
  \/ FlusherFlushNext
  \/ \E id \in WriteId : FlusherDrop(id)
  \/ \E k \in Key : CacheInsert(k)
  \/ \E id \in CacheId : CacheDropRecord(id)
  \/ \E id \in CacheId : CacheCleanupVisible(id)
  \/ \E k \in Key : ReaderStep(k)
  \/ Crash

Spec == Init /\ [][Next]_vars

(***************************************************************************)
(* The invariants the code itself checks (check_invariants).               *)
(***************************************************************************)

\* Every field of ModelState keeps the shape type_ok tests.
TypeOK ==
  /\ visible \in [Key -> VisibleRef]
  /\ write_store \in [WriteId -> DirtyRecord \cup {Absent}]
  /\ write_hist \in [WriteId -> DirtyRecord \cup {Absent}]
  /\ dirty_q \in Seq(WriteId)
  /\ cache_store \in [CacheId -> CleanRecord \cup {Absent}]
  /\ durable \in [Key -> DurableValue \cup {Absent}]
  /\ flushed \in Seq(WriteId)
  /\ created_dirty \in [WriteId -> BOOLEAN]
  /\ next_write \in 0 .. MaxWrite
  /\ next_cache \in 0 .. MaxCache
  /\ crashed \in BOOLEAN
  /\ bad_read \in BOOLEAN

\* A visible dirty reference leads to a record the cache still holds, of
\* that id and of that key: no reader finds a dirty entry dangling.
DirtyRefsLive ==
  \A k \in Key : visible[k].kind = "Dirty" =>
    LET record == write_store[visible[k].id] IN
    record.present /\ record.id = visible[k].id /\ record.key = k

\* A clean reference may dangle, but it never leads to another key's record.
CleanRefsKeyConsistent ==
  \A k \in Key : visible[k].kind = "Clean" =>
    LET record == cache_store[visible[k].id] IN
    record.present => record.key = k

\* strictly_increasing
StrictlyIncreasing(ids) ==
  \A i, j \in DOMAIN ids : i < j => ids[i] < ids[j]

DirtyQOrdered == StrictlyIncreasing(dirty_q)

FlushedOrdered == StrictlyIncreasing(flushed)

\* Everything already flushed is older than everything still queued.
QueuedAfterFlushed ==
  \A i \in DOMAIN flushed, j \in DOMAIN dirty_q : flushed[i] < dirty_q[j]

AllIdsLtNextWrite ==
  /\ \A i \in DOMAIN dirty_q : dirty_q[i] < next_write
  /\ \A i \in DOMAIN flushed : flushed[i] < next_write

\* apply_flushed in closed form: replaying ids over an empty store leaves
\* at k the last record of k among them.
FlushesKey(ids, i, k) ==
  write_hist[ids[i]].present /\ write_hist[ids[i]].key = k

AppliedTo(ids, k, stored) ==
  \/ /\ stored = Absent
     /\ \A i \in DOMAIN ids : ~FlushesKey(ids, i, k)
  \/ \E i \in DOMAIN ids :
       /\ FlushesKey(ids, i, k)
       /\ \A j \in DOMAIN ids : j > i => ~FlushesKey(ids, j, k)
       /\ stored = Stored(write_hist[ids[i]].value, ids[i])

\* The durable store is what replaying the flushed records builds.
DurableMatchesFlushed == \A k \in Key : AppliedTo(flushed, k, durable[k])

\* Until a crash, a write is queued, flushed, visible or still held.
NoLostDirty ==
  ~crashed => \A id \in WriteId : created_dirty[id] =>
    \/ Contains(dirty_q, id)
    \/ Contains(flushed, id)
    \/ \E k \in Key : visible[k] = DirtyRef(id)
    \/ write_store[id].present

\* No reader has followed a reference to a missing or foreign record.
NoBadRead == ~bad_read
=============================================================================
