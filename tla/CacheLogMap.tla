---------------------------- MODULE CacheLogMap -----------------------------
(***************************************************************************)
(* CacheLogMap of map.rs: the concurrent index of visible entries, the     *)
(* dirty log behind it and the bounded FIFO of clean entries, with the     *)
(* calls of several threads interleaved.                                   *)
(*                                                                         *)
(* The index (an scc::HashMap) runs each operation on one key under the    *)
(* lock of that key's bucket, the FIFO (a BoundedQueue) and the counters   *)
(* are atomic, and the dirty log is the OrderedLog that both its builds    *)
(* implement.  A call is one step for each of these operations it makes,   *)
(* in the order it makes them; between any two of them other threads run.  *)
(* Reads (read, contains, visible_ref, get_cloned) change nothing: what    *)
(* they see of k is visible[k].  Ids stand for the values.                 *)
(***************************************************************************)
EXTENDS FlushBatches, FiniteSets

CONSTANTS
  Thread,
  Key,
  WriteKeys,    \* WriteKeys[t]: the keys t calls insert_dirty with
  Calls,        \* Calls[t]: which of "flush", "fill", "evict", "cleanup" t calls
  Limit,        \* the limits flush_batch is called with
  Capacity,     \* clean_capacity, at least 1 (BoundedQueue::new)
  MaxWrite,     \* bound: how many insert_dirty calls a behaviour has
  MaxCache,     \* bound: how many insert_clean_if_absent calls it has
  CountModulus  \* 2^w for the width w of clean_count

ASSUME WriteKeysAssumption == WriteKeys \in [Thread -> SUBSET Key]
ASSUME CapacityAssumption == Capacity \in Nat \ {0}
ASSUME LimitAssumption == Limit \subseteq Nat
ASSUME FiniteThreadsAssumption == IsFiniteSet(Thread)
ASSUME BoundAssumption == MaxWrite \in Nat /\ MaxCache \in Nat
ASSUME CountModulusAssumption == CountModulus \in Nat \ {0}

VARIABLES
  visible,        \* visible[k]: the entry of k, NoRef if it has none
  next_write,     \* next_id of the dirty log
  pending,        \* the dirty log: sent and not yet in a batch,
  inflight,       \*   in the batch in flight,
  retired,        \*   and (history) in a batch marked as flushed
  clean_fifo,
  clean_count,
  next_cache,
  op,             \* op[t]: the call t is in, with its pc and its locals
  held,           \* held[t]: the batch flush_batch last returned to t
  leaked          \* history: clean entries removed by cleanup_stale_visible

logVars == <<pending, inflight, retired>>
cleanVars == <<clean_fifo, clean_count, next_cache, leaked>>
vars == <<visible, next_write, logVars, cleanVars, op, held>>

WriteId == 0 .. MaxWrite - 1
CacheId == 0 .. MaxCache - 1

DirtyRecord == [id : WriteId, key : Key]
CleanRecord == [id : CacheId, key : Key]

NoRef == [kind |-> "None"]
DirtyRef(id) == [kind |-> "Dirty", id |-> id]
CleanRef(id) == [kind |-> "Clean", id |-> id]

VisibleRef ==
  {NoRef} \cup {DirtyRef(id) : id \in WriteId}
          \cup {CleanRef(id) : id \in CacheId}

Dirty == INSTANCE OrderedLog WITH Rec <- DirtyRecord

Wrap(n) == n % CountModulus

Idle == [pc |-> "idle"]

Init ==
  /\ visible = [k \in Key |-> NoRef]
  /\ next_write = 0
  /\ Dirty!Init
  /\ clean_fifo = <<>>
  /\ clean_count = 0
  /\ next_cache = 0
  /\ op = [t \in Thread |-> Idle]
  /\ held = [t \in Thread |-> <<>>]
  /\ leaked = 0

\* The call of t goes on at pc, or returns.
Goto(t, pc) == op' = [op EXCEPT ![t].pc = pc]
Return(t) == op' = [op EXCEPT ![t] = Idle]

\* remove_if_sync(k, is_match): is_match is the test on the entry of k.
RemoveIf(k, is_match) ==
  visible' = IF is_match THEN [visible EXCEPT ![k] = NoRef] ELSE visible

(***************************************************************************)
(* insert_dirty: append to the log (an id, then the record), then publish. *)
(***************************************************************************)
TakeWriteId(t, k) ==
  /\ op[t].pc = "idle"
  /\ k \in WriteKeys[t]
  /\ next_write < MaxWrite
  /\ next_write' = next_write + 1
  /\ op' = [op EXCEPT ![t] = [pc |-> "append", key |-> k, id |-> next_write]]
  /\ UNCHANGED <<visible, logVars, cleanVars, held>>

AppendDirty(t) ==
  /\ op[t].pc = "append"
  /\ Dirty!AppendRecord([id |-> op[t].id, key |-> op[t].key])
  /\ Goto(t, "publish")
  /\ UNCHANGED <<visible, next_write, cleanVars, held>>

\* (mutant) the clean entry a dirty one replaces stays counted
KeepCount(k) == clean_count

CountAfterReplacing(k) ==
  IF visible[k].kind = "Clean" THEN Wrap(clean_count - 1) ELSE clean_count

\* publish_dirty_record, under the bucket's lock: the new entry replaces any
\* other, and a clean one it replaces is uncounted.
PublishDirty(t) ==
  /\ op[t].pc = "publish"
  /\ clean_count' = CountAfterReplacing(op[t].key)
  /\ visible' = [visible EXCEPT ![op[t].key] = DirtyRef(op[t].id)]
  /\ Return(t)
  /\ UNCHANGED <<next_write, logVars, clean_fifo, next_cache, leaked, held>>

(***************************************************************************)
(* insert_clean_if_absent: an id, then a vacant entry under the bucket's   *)
(* lock, then, without it, the counter and the FIFO.                       *)
(***************************************************************************)
TakeCacheId(t, k) ==
  /\ op[t].pc = "idle"
  /\ "fill" \in Calls[t]
  /\ next_cache < MaxCache
  /\ next_cache' = next_cache + 1
  /\ op' = [op EXCEPT ![t] = [pc |-> "entry", key |-> k, id |-> next_cache]]
  /\ UNCHANGED <<visible, next_write, logVars, clean_fifo, clean_count, leaked,
                 held>>

\* (mutant) whatever is visible, the clean entry goes in
AnyEntry(k) == TRUE

VacantEntry(k) == visible[k] = NoRef

InsertVacant(t) ==
  /\ op[t].pc = "entry"
  /\ VacantEntry(op[t].key)
  /\ visible' = [visible EXCEPT ![op[t].key] = CleanRef(op[t].id)]
  /\ Goto(t, "count")
  /\ UNCHANGED <<next_write, logVars, cleanVars, held>>

FindOccupied(t) ==
  /\ op[t].pc = "entry"
  /\ ~VacantEntry(op[t].key)
  /\ Return(t)
  /\ UNCHANGED <<visible, next_write, logVars, cleanVars, held>>

CountClean(t) ==
  /\ op[t].pc = "count"
  /\ clean_count' = Wrap(clean_count + 1)
  /\ Goto(t, "push")
  /\ UNCHANGED <<visible, next_write, logVars, clean_fifo, next_cache, leaked,
                 held>>

(***************************************************************************)
(* enqueue_clean: push; while the FIFO is full, pop the oldest, remove its *)
(* entry if it is still the one that was pushed, and try again.            *)
(***************************************************************************)
\* (mutant) the FIFO takes one entry too many
OneTooMany == Len(clean_fifo) > Capacity

QueueFull == Len(clean_fifo) >= Capacity

\* BoundedQueue::push, when there is room; it answers Err and changes
\* nothing when there is none.
PushSlot(slot) ==
  /\ ~QueueFull
  /\ clean_fifo' = Append(clean_fifo, slot)

\* BoundedQueue::pop of a queue that is not empty.
PopSlot ==
  /\ clean_fifo # <<>>
  /\ clean_fifo' = Tail(clean_fifo)

EnqueuePush(t) ==
  /\ op[t].pc = "push"
  /\ PushSlot([id |-> op[t].id, key |-> op[t].key])
  /\ Return(t)
  /\ UNCHANGED <<visible, next_write, logVars, clean_count, next_cache, leaked,
                 held>>

\* (mutant) a push that fails is tried again, and nothing makes room
RetryAt == "push"

AfterFullQueue == "pop"

EnqueueFull(t) ==
  /\ op[t].pc = "push"
  /\ QueueFull
  /\ Goto(t, AfterFullQueue)
  /\ UNCHANGED <<visible, next_write, logVars, cleanVars, held>>

EnqueuePop(t) ==
  /\ op[t].pc = "pop"
  /\ \/ /\ clean_fifo = <<>>
        /\ Goto(t, "push")
        /\ UNCHANGED clean_fifo
     \/ /\ PopSlot
        /\ op' = [op EXCEPT ![t] =
             [pc |-> "drop", key |-> op[t].key, id |-> op[t].id,
              old |-> Head(clean_fifo)]]
  /\ UNCHANGED <<visible, next_write, logVars, clean_count, next_cache, leaked,
                 held>>

\* (mutant) the entry of the slot that was popped stays
KeepOld(old) == FALSE

\* (mutant) any clean entry of the key is taken for the old one
IsClean(old) == visible[old.key].kind = "Clean"

IsOldClean(old) == visible[old.key] = CleanRef(old.id)

EnqueueDrop(t) ==
  LET old == op[t].old IN
  /\ op[t].pc = "drop"
  /\ RemoveIf(old.key, IsOldClean(old))
  /\ Goto(t, IF IsOldClean(old) THEN "uncount_old" ELSE "push")
  /\ UNCHANGED <<next_write, logVars, cleanVars, held>>

EnqueueUncount(t) ==
  /\ op[t].pc = "uncount_old"
  /\ clean_count' = Wrap(clean_count - 1)
  /\ Goto(t, "push")
  /\ UNCHANGED <<visible, next_write, logVars, clean_fifo, next_cache, leaked,
                 held>>

(***************************************************************************)
(* evict_clean: remove the entry if it is clean, then uncount it.          *)
(***************************************************************************)
EvictClean(t, k) ==
  /\ op[t].pc = "idle"
  /\ "evict" \in Calls[t]
  /\ visible[k].kind = "Clean"
  /\ RemoveIf(k, TRUE)
  /\ op' = [op EXCEPT ![t] = [pc |-> "uncount"]]
  /\ UNCHANGED <<next_write, logVars, cleanVars, held>>

EvictUncount(t) ==
  /\ op[t].pc = "uncount"
  /\ clean_count' = Wrap(clean_count - 1)
  /\ Return(t)
  /\ UNCHANGED <<visible, next_write, logVars, clean_fifo, next_cache, leaked,
                 held>>

(***************************************************************************)
(* cleanup_stale_visible: read the reference, then remove the entry if it  *)
(* still has that reference, dirty or clean, without touching the counter. *)
(***************************************************************************)
CleanupRead(t, k) ==
  /\ op[t].pc = "idle"
  /\ "cleanup" \in Calls[t]
  /\ visible[k] # NoRef
  /\ op' = [op EXCEPT ![t] = [pc |-> "cleanup", key |-> k, ref |-> visible[k]]]
  /\ UNCHANGED <<visible, next_write, logVars, cleanVars, held>>

SameRef(k, ref) == visible[k] = ref

CleanupRemove(t) ==
  LET same == SameRef(op[t].key, op[t].ref) IN
  /\ op[t].pc = "cleanup"
  /\ RemoveIf(op[t].key, same)
  /\ leaked' = IF same /\ op[t].ref.kind = "Clean" THEN leaked + 1 ELSE leaked
  /\ Return(t)
  /\ UNCHANGED <<next_write, logVars, clean_fifo, clean_count, next_cache, held>>

(***************************************************************************)
(* flush_batch, as OrderedLog sees it: the batch in flight again, or a new *)
(* one of at most limit records.                                           *)
(***************************************************************************)
FlushAgain(t) ==
  /\ op[t].pc = "idle"
  /\ "flush" \in Calls[t]
  /\ inflight # <<>>
  /\ held' = [held EXCEPT ![t] = inflight]
  /\ UNCHANGED <<visible, next_write, logVars, cleanVars, op>>

FlushNew(t, limit) ==
  /\ op[t].pc = "idle"
  /\ "flush" \in Calls[t]
  /\ Dirty!Take(IF Len(pending) < limit THEN Len(pending) ELSE limit)
  /\ held' = [held EXCEPT ![t] = inflight']
  /\ UNCHANGED <<visible, next_write, cleanVars, op>>

\* An empty batch: nothing pending and nothing in flight.
FlushNothing(t) ==
  /\ op[t].pc = "idle"
  /\ "flush" \in Calls[t]
  /\ inflight = <<>>
  /\ held' = [held EXCEPT ![t] = <<>>]
  /\ pending = <<>> \/ 0 \in Limit
  /\ UNCHANGED <<visible, next_write, logVars, cleanVars, op>>

(***************************************************************************)
(* mark_flushed: retire the batch, then, record by record, remove the      *)
(* visible entry if it is still that record's.                             *)
(***************************************************************************)
MarkFlushed(t) ==
  /\ op[t].pc = "idle"
  /\ "flush" \in Calls[t]
  /\ SameBatch(inflight, held[t])
  /\ Dirty!Retire
  /\ op' = [op EXCEPT ![t] = [pc |-> "unpublish", todo |-> held[t]]]
  /\ UNCHANGED <<visible, next_write, cleanVars, held>>

\* (mutant) any dirty entry of the key is taken for the flushed one
IsDirty(record) == visible[record.key].kind = "Dirty"

IsFlushedEntry(record) == visible[record.key] = DirtyRef(record.id)

Unpublish(t) ==
  LET record == Head(op[t].todo) IN
  /\ op[t].pc = "unpublish"
  /\ RemoveIf(record.key, IsFlushedEntry(record))
  /\ op' = [op EXCEPT ![t] = IF Len(op[t].todo) = 1 THEN Idle
                             ELSE [pc |-> "unpublish", todo |-> Tail(op[t].todo)]]
  /\ UNCHANGED <<next_write, logVars, cleanVars, held>>

InsertDirty(t) == AppendDirty(t) \/ PublishDirty(t)

InsertClean(t) ==
  \/ InsertVacant(t)
  \/ FindOccupied(t)
  \/ CountClean(t)
  \/ EnqueuePush(t)
  \/ EnqueueFull(t)
  \/ EnqueuePop(t)
  \/ EnqueueDrop(t)
  \/ EnqueueUncount(t)

\* The next step of a call t is in.
Continue(t) ==
  \/ InsertDirty(t)
  \/ InsertClean(t)
  \/ EvictUncount(t)
  \/ CleanupRemove(t)
  \/ Unpublish(t)

Call(t) ==
  \/ \E k \in Key :
       \/ TakeWriteId(t, k)
       \/ TakeCacheId(t, k)
       \/ EvictClean(t, k)
       \/ CleanupRead(t, k)
  \/ FlushAgain(t)
  \/ \E limit \in Limit : FlushNew(t, limit)
  \/ FlushNothing(t)
  \/ MarkFlushed(t)

Next == \E t \in Thread : Call(t) \/ Continue(t)

Spec == Init /\ [][Next]_vars

\* A thread in a call goes on with it.
FairSpec == Spec /\ \A t \in Thread : WF_vars(Continue(t))
(***************************************************************************)
(* Properties.                                                             *)
(***************************************************************************)
Entering == {t \in Thread : op[t].pc = "entry"}
Counting == {t \in Thread : op[t].pc = "count"}
Uncounting == {t \in Thread : op[t].pc \in {"uncount", "uncount_old"}}
Enqueueing == {t \in Thread :
                 op[t].pc \in {"count", "push", "pop", "drop", "uncount_old"}}
Dropping == {t \in Thread : op[t].pc = "drop"}
VisibleClean == {k \in Key : visible[k].kind = "Clean"}

Quiet == \A t \in Thread : op[t].pc = "idle"

RecordOf(seq) == {seq[i] : i \in DOMAIN seq}
Queued == RecordOf(pending) \cup RecordOf(inflight)

Retired(id) == \E i \in DOMAIN retired : retired[i].id = id

PoppedByName(k) ==
  \E t \in Thread :
    op[t].pc = "drop" /\ op[t].old = [id |-> visible[k].id, key |-> k]

OpType ==
  {Idle} \cup [pc : {"uncount"}]
         \cup [pc : {"append", "publish"}, key : Key, id : WriteId]
         \cup [pc : {"entry", "count", "push", "pop"}, key : Key, id : CacheId]
         \cup [pc : {"drop", "uncount_old", "push", "pop"}, key : Key,
               id : CacheId, old : CleanRecord]
         \cup [pc : {"cleanup"}, key : Key, ref : VisibleRef \ {NoRef}]
         \cup [pc : {"unpublish"}, todo : Seq(DirtyRecord) \ {<<>>}]

\* Each variable keeps its type, and the FIFO its capacity.
TypeOK ==
  /\ visible \in [Key -> VisibleRef]
  /\ next_write \in 0 .. MaxWrite
  /\ Dirty!TypeOK
  /\ clean_fifo \in Seq(CleanRecord) /\ Len(clean_fifo) <= Capacity
  /\ clean_count \in 0 .. CountModulus - 1
  /\ next_cache \in 0 .. MaxCache
  /\ op \in [Thread -> OpType]
  /\ held \in [Thread -> Seq(DirtyRecord)]
  /\ leaked \in 0 .. MaxCache

\* The counter follows the index with a delay: it is off by the insertions
\* not yet counted and the removals not yet uncounted, so that it wraps
\* below zero when an entry is removed before it is counted; and it keeps
\* for ever the clean entries cleanup_stale_visible has removed.
CleanCountAccounts ==
  clean_count = Wrap(Cardinality(VisibleClean) + leaked
                     + Cardinality(Uncounting) - Cardinality(Counting))

\* No clean entry escapes the FIFO that bounds the cache: it is in the FIFO,
\* or the thread that inserted it has yet to push it, or a thread that made
\* room has popped it and is about to remove it.
CleanEntriesTracked ==
  \A k \in VisibleClean :
    \/ \E i \in DOMAIN clean_fifo :
         clean_fifo[i] = [id |-> visible[k].id, key |-> k]
    \/ \E t \in Enqueueing : op[t].key = k /\ op[t].id = visible[k].id
    \/ PoppedByName(k)

\* The clean cache is bounded: it exceeds its capacity by at most the
\* insertions that are still making room, counted twice while they hold an
\* entry they popped: another thread may have taken its place in the FIFO.
CleanCacheBounded ==
  Cardinality(VisibleClean)
    <= Capacity + Cardinality(Enqueueing) + Cardinality(Dropping)

CleanedUp(k) ==
  \E t \in Thread :
    op[t].pc = "cleanup" /\ op[t].key = k /\ op[t].ref = visible[k]

\* A clean id is spent once: on a call that still looks for a vacant entry, on
\* a visible entry, or on one that cleanup_stale_visible has removed.
CleanIdsSpent ==
  /\ IsFiniteSet(VisibleClean)
  /\ Cardinality(VisibleClean) + leaked + Cardinality(Entering) <= next_cache

\* A write id is in one place: with the thread that has yet to append it, or
\* once in the log.
WriteIdsOnce ==
  LET log == Dirty!Appended IN
  /\ \A i \in DOMAIN log : log[i].id < next_write
  /\ \A i, j \in DOMAIN log : i # j => log[i].id # log[j].id
  /\ \A t \in Thread : op[t].pc = "append" =>
       /\ op[t].id < next_write
       /\ \A i \in DOMAIN log : log[i].id # op[t].id
       /\ \A u \in Thread \ {t} : op[u].pc = "append" => op[u].id # op[t].id

\* A batch a thread still holds is the one in flight, or it is retired as far
\* as its last record; and mark_flushed unpublishes retired records only.
HeldBatchKnown ==
  \A t \in Thread :
    /\ held[t] = <<>> \/ held[t] = inflight \/ Retired(last_id(held[t]))
    /\ op[t].pc = "unpublish" =>
         \A i \in DOMAIN op[t].todo : Retired(op[t].todo[i].id)

\* What the steps preserve together.
IInv ==
  /\ TypeOK
  /\ CleanIdsSpent
  /\ CleanCountAccounts
  /\ CleanEntriesTracked
  /\ WriteIdsOnce
  /\ HeldBatchKnown

\* Dirty always wins: a dirty entry gives way to another dirty entry only,
\* and goes only once its own record is retired (or by a call of
\* cleanup_stale_visible that read that very entry); no flush of an older
\* record, no clean insertion and no eviction takes it away.
DirtyEntryStays ==
  [][\A k \in Key :
       visible[k].kind = "Dirty" /\ visible'[k] # visible[k] =>
         \/ visible'[k].kind = "Dirty"
         \/ visible'[k] = NoRef /\ Retired(visible[k].id)
         \/ visible'[k] = NoRef /\ CleanedUp(k)]_vars

\* A clean entry gives way to a dirty one, to its own turn in the FIFO, to
\* an eviction of its key or to a cleanup that read it; a stale FIFO slot of
\* an older entry of the key does not take it away.
CleanEntryStays ==
  [][\A k \in Key :
       visible[k].kind = "Clean" /\ visible'[k] # visible[k] =>
         \/ visible'[k].kind = "Dirty"
         \/ visible'[k] = NoRef /\ PoppedByName(k)
         \/ visible'[k] = NoRef /\ CleanedUp(k)
         \/ \E t \in Thread : EvictClean(t, k)]_vars

Published(record) ==
  \A t \in Thread : op[t].pc = "publish" => op[t].id # record.id

PublishedQueued == {record \in Queued : Published(record)}

\* The newest published write of a key is readable until it is retired, or a
\* newer one is published.  It takes OneWriterPerKey and NoCleanup.
ReadableUntilRetired ==
  \A record \in PublishedQueued :
    (\A other \in PublishedQueued :
       other.key = record.key => other.id <= record.id)
      => visible[record.key] = DirtyRef(record.id)

OneWriterPerKey ==
  \A t, u \in Thread : t # u => WriteKeys[t] \cap WriteKeys[u] = {}

NoCleanup == \A t \in Thread : "cleanup" \notin Calls[t]

\* With one writer per key, the log has the writes of a key in the order of
\* their ids, and the write a thread is about to append or to publish is the
\* newest of its key.
KeysInOrder ==
  LET log == Dirty!Appended IN
  /\ \A i, j \in DOMAIN log :
       i < j /\ log[i].key = log[j].key => log[i].id < log[j].id
  /\ \A t \in Thread : op[t].pc = "append" =>
       /\ op[t].key \in WriteKeys[t]
       /\ \A i \in DOMAIN log : log[i].key = op[t].key => log[i].id < op[t].id
  /\ \A t \in Thread : op[t].pc = "publish" =>
       /\ op[t].key \in WriteKeys[t]
       /\ \E i \in DOMAIN log : log[i] = [id |-> op[t].id, key |-> op[t].key]
       /\ \A i \in DOMAIN log : log[i].key = op[t].key => log[i].id <= op[t].id

\* The key of a queued, published write shows it, or a newer one that is queued
\* and published too.
QueuedShown ==
  \A record \in PublishedQueued : \E newer \in PublishedQueued :
    /\ newer.key = record.key /\ record.id <= newer.id
    /\ visible[record.key] = DirtyRef(newer.id)

\* A dirty entry is never older than a published write of its key, queued or
\* retired.
VisibleNewest ==
  LET log == Dirty!Appended IN
  \A k \in Key : visible[k].kind = "Dirty" =>
    \A i \in DOMAIN log :
      log[i].key = k /\ Published(log[i]) => log[i].id <= visible[k].id

\* What the steps preserve, with IInv, under OneWriterPerKey and NoCleanup.
OneWriterInv ==
  /\ KeysInOrder
  /\ \A t \in Thread : op[t].pc # "cleanup"
  /\ QueuedShown
  /\ VisibleNewest

\* An insert_clean_if_absent that has to make room returns: the FIFO cannot
\* keep it in the loop of enqueue_clean.
EnqueueReturns ==
  \A t \in Thread : op[t].pc = "push" ~> op[t].pc = "idle"

(***************************************************************************)
(* What the tests and the README say, and the code does not do.            *)
(***************************************************************************)

\* tests/loom_support.rs: "clean_count must match visible clean entries".
CleanCountMatches == Quiet => clean_count = Wrap(Cardinality(VisibleClean))

\* tests/loom_support.rs: "visible dirty id {} must still be pending or
\* inflight".
VisibleDirtyQueued ==
  Quiet => \A k \in Key : visible[k].kind = "Dirty" =>
    \E record \in Queued : record.id = visible[k].id

\* README.md: "Writes go into an ordered log and become immediately readable"
\* and "newer writes are never lost": as long as a write waits to be flushed,
\* its key has a dirty entry, its own or another write's.
QueuedWritesReadable ==
  Quiet => \A record \in Queued : visible[record.key].kind = "Dirty"
=============================================================================
