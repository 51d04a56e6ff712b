--------------------------- MODULE DirtyLogMutex ----------------------------
(***************************************************************************)
(* OrderedFifoDirty of dirty_mode.rs as the `loom` feature builds it: one  *)
(* mutex around the id counter, the queue and the batch in flight, held    *)
(* for the whole of every call, so that every call is one step.  This is   *)
(* the log the loom tests exercise; DirtyLog is the one that ships.        *)
(***************************************************************************)
EXTENDS FlushBatches

CONSTANTS
  Writer, Flusher,
  Limit,        \* the limits flush_batch is called with
  MaxWrite      \* bound: how many records are appended in a behaviour

ASSUME MaxWriteAssumption == MaxWrite \in Nat
ASSUME LimitAssumption == Limit \subseteq Nat

VARIABLES
  next_id,
  entries,
  inflight,
  held,         \* held[f]: the batch flush_batch last returned to f
  retired       \* history: the records of the retired batches, in order

vars == <<next_id, entries, inflight, held, retired>>

WriteId == 0 .. MaxWrite - 1
DirtyRecord == [id : WriteId, by : Writer]

Init ==
  /\ next_id = 0
  /\ entries = <<>>
  /\ inflight = NoBatch
  /\ held = [f \in Flusher |-> <<>>]
  /\ retired = <<>>

\* (mutant) the record goes in front of the others
Prepend(records, r) == <<r>> \o records

\* push_back
Push(records, r) == Append(records, r)

AppendRecord(w) ==
  /\ next_id < MaxWrite
  /\ next_id' = next_id + 1
  /\ entries' = Push(entries, [id |-> next_id, by |-> w])
  /\ UNCHANGED <<inflight, held, retired>>

FlushAgain(f) ==
  /\ inflight.some
  /\ held' = [held EXCEPT ![f] = inflight.batch]
  /\ UNCHANGED <<next_id, entries, inflight, retired>>

\* (mutant) a batch in flight is replaced by the next one
AlwaysDrain == TRUE

MayDrain == ~inflight.some

FlushNew(f, limit) ==
  LET n == IF Len(entries) <= limit THEN Len(entries) ELSE limit
      batch == SubSeq(entries, 1, n)
  IN  /\ MayDrain
      /\ entries' = SubSeq(entries, n + 1, Len(entries))
      /\ inflight' = Installed(inflight, batch)
      /\ held' = [held EXCEPT ![f] = batch]
      /\ UNCHANGED <<next_id, retired>>

MarkFlushed(f) ==
  /\ inflight.some
  /\ SameBatch(inflight.batch, held[f])
  /\ inflight' = NoBatch
  /\ retired' = retired \o inflight.batch
  /\ UNCHANGED <<next_id, entries, held>>

Next ==
  \/ \E w \in Writer : AppendRecord(w)
  \/ \E f \in Flusher :
       \/ FlushAgain(f)
       \/ \E limit \in Limit : FlushNew(f, limit)
       \/ MarkFlushed(f)

Spec == Init /\ [][Next]_vars

(***************************************************************************)
(* Properties.                                                             *)
(***************************************************************************)
Log == retired \o Entries(inflight) \o entries

\* Each variable keeps its type.
TypeOK ==
  /\ next_id \in 0 .. MaxWrite
  /\ entries \in Seq(DirtyRecord)
  /\ inflight = NoBatch \/ inflight \in [some : {TRUE}, batch : Seq(DirtyRecord) \ {<<>>}]
  /\ held \in [Flusher -> Seq(DirtyRecord)]
  /\ retired \in Seq(DirtyRecord)

\* Retired, in flight and queued records are all the ids handed out, in the
\* order they were handed out: what the loom tests assert of a snapshot
\* (dirty_pending and dirty_inflight increasing, disjoint and in sequence).
LogInWriteOrder ==
  /\ Len(Log) = next_id
  /\ \A i \in DOMAIN Log : Log[i].id = i - 1

\* A batch a flusher still holds is the one in flight, or it is retired as
\* far as its last record: no batch is handed out and then dropped, nor a
\* batch in flight replaced by the next.
HeldBatchKnown ==
  \A f \in Flusher :
    \/ held[f] = <<>>
    \/ inflight.some /\ held[f] = inflight.batch
    \/ \E i \in DOMAIN retired : retired[i].id = last_id(held[f])

\* What the calls preserve together: the order of the log, and which batches
\* can still be marked.
IInv == TypeOK /\ LogInWriteOrder /\ HeldBatchKnown

\* A stale or repeated mark changes nothing.
MarkRetiresWhatWasHeld ==
  [][\A f \in Flusher : MarkFlushed(f) => held[f] = inflight.batch]_vars

inflightView == Entries(inflight)

OL == INSTANCE OrderedLog
        WITH Rec <- DirtyRecord, pending <- entries, inflight <- inflightView

\* The loom build is a FIFO log with atomic appends, batches, retirements.
ImplementsOrderedLog == OL!Spec
=============================================================================
