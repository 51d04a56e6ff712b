------------------------- MODULE CacheLogCoreReads --------------------------
(***************************************************************************)
(* What an application sees of the core, and what it can rely on: the      *)
(* read-through view (visible entry first, durable store on a miss), and   *)
(* the refinement of WriteBehind by that view.                             *)
(***************************************************************************)
EXTENDS CacheLogCore

CONSTANT NoValue

ASSUME NoValueIsNoValue == NoValue \notin Value

DurableView(k) == IF durable[k].present THEN durable[k].value ELSE NoValue

Miss(k) ==
  \/ visible[k].kind = "None"
  \/ visible[k].kind = "Clean" /\ ~cache_store[visible[k].id].present

\* The value of k for a reader that follows the visible reference and reads
\* the durable store when there is none, or when it leads to no record.
ReadThrough(k) ==
  IF Miss(k) THEN DurableView(k)
  ELSE IF visible[k].kind = "Dirty" THEN write_store[visible[k].id].value
  ELSE cache_store[visible[k].id].value

WroteKey(id, k) == write_hist[id].present /\ write_hist[id].key = k

\* id is the last write of k.
LastWrite(id, k) ==
  WroteKey(id, k) /\ \A later \in WriteId : WroteKey(later, k) => later <= id

\* All ten conditions check_invariants reports on.
InvariantReportOk ==
  /\ TypeOK
  /\ DirtyRefsLive
  /\ CleanRefsKeyConsistent
  /\ DirtyQOrdered
  /\ FlushedOrdered
  /\ QueuedAfterFlushed
  /\ AllIdsLtNextWrite
  /\ DurableMatchesFlushed
  /\ NoLostDirty
  /\ NoBadRead

\* Until a crash, reading through the cache returns the last write of the
\* key, whatever was flushed, dropped, cached, evicted or left dangling in
\* between: a clean copy is never older than the durable value it hides, and
\* a dirty entry is never dropped while its value is not durable.
ReadThroughCoherent ==
  ~crashed => \A k \in Key :
    \/ \A id \in WriteId : ~WroteKey(id, k) /\ ReadThrough(k) = NoValue
    \/ \E id \in WriteId :
         LastWrite(id, k) /\ ReadThrough(k) = write_hist[id].value

\* What is flushed, followed by what is queued, is every write once, in the
\* order of the writes; after a crash the flushed ones are a prefix of it.
LogIsWriteOrder ==
  /\ \A i \in DOMAIN flushed : flushed[i] = i - 1
  /\ \A i \in DOMAIN dirty_q : dirty_q[i] = Len(flushed) + i - 1
  /\ ~crashed => Len(flushed) + Len(dirty_q) = next_write

\* The durable store never goes back to an older write of a key.
DurableNeverRegresses ==
  [][\A k \in Key : durable[k].present =>
       /\ durable'[k].present
       /\ durable'[k].seq >= durable[k].seq]_vars

(***************************************************************************)
(* The inductive invariant: what relates the log, the records, the table   *)
(* and the durable store, and makes reads coherent.                        *)
(***************************************************************************)

\* An id below next_write has its record in the history, and no other has.
HistoryComplete ==
  \A id \in WriteId :
    IF id < next_write
    THEN write_hist[id].present /\ write_hist[id].id = id
    ELSE ~write_hist[id].present /\ ~created_dirty[id]

\* The cache holds a record of the history or nothing, and it holds every
\* record that is not flushed yet.
StoreAgreesWithHistory ==
  \A id \in WriteId :
    /\ write_store[id].present => write_store[id] = write_hist[id]
    /\ ~crashed /\ Len(flushed) <= id /\ id < next_write
         => write_store[id].present

\* A visible dirty reference is the last write of its key, and is held.
VisibleDirtyIsLast ==
  \A k \in Key : visible[k].kind = "Dirty" =>
    LastWrite(visible[k].id, k) /\ write_store[visible[k].id].present

\* A key with a queued write has a dirty reference.
QueuedIsVisible ==
  ~crashed => \A k \in Key, id \in WriteId :
    WroteKey(id, k) /\ Len(flushed) <= id => visible[k].kind = "Dirty"

\* The durable value of a key is that of its last flushed write.
DurableIsLastFlushed ==
  \A k \in Key :
    IF durable[k].present
    THEN LET seq == durable[k].seq IN
         /\ seq < Len(flushed)
         /\ WroteKey(seq, k)
         /\ durable[k] = Stored(write_hist[seq].value, seq)
         /\ \A id \in WriteId : WroteKey(id, k) /\ id < Len(flushed) => id <= seq
    ELSE \A id \in WriteId : WroteKey(id, k) => Len(flushed) <= id

\* A clean reference leads to a copy of the durable value, or dangles.
CleanIsDurable ==
  \A k \in Key : visible[k].kind = "Clean" =>
    LET record == cache_store[visible[k].id] IN
    /\ visible[k].id < next_cache
    /\ record.present =>
         record.key = k /\ durable[k].present /\ record.value = durable[k].value

\* A crash leaves nothing visible and nothing queued.
CrashForgets ==
  /\ Len(flushed) <= next_write
  /\ crashed => dirty_q = <<>> /\ \A k \in Key : visible[k] = NoRef

\* All of it: inductive, and enough for every property of the module.
IInv ==
  /\ TypeOK
  /\ LogIsWriteOrder
  /\ HistoryComplete
  /\ StoreAgreesWithHistory
  /\ VisibleDirtyIsLast
  /\ QueuedIsVisible
  /\ DurableIsLastFlushed
  /\ CleanIsDurable
  /\ CrashForgets
  /\ NoBadRead

(***************************************************************************)
(* The refinement: WriteBehind's current values are what reads return, its *)
(* backlog the records of the queue.  Flusher drops, cache inserts, drops  *)
(* and cleanups, and reads, are stuttering steps of it.                    *)
(***************************************************************************)
AsWrite(id) == [key |-> write_hist[id].key, value |-> write_hist[id].value]

currentView == [k \in Key |-> ReadThrough(k)]
storedView == [k \in Key |-> DurableView(k)]
backlogView == [i \in 1 .. Len(dirty_q) |-> AsWrite(dirty_q[i])]

WB == INSTANCE WriteBehind
        WITH current <- currentView, stored <- storedView,
             backlog <- backlogView, down <- crashed

\* The core is a write-behind store: nothing it does to its cache shows.
ImplementsWriteBehind == WB!Spec
=============================================================================
