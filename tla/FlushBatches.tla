----------------------------- MODULE FlushBatches ----------------------------
(***************************************************************************)
(* FlushBatch of entry.rs: the sequence of records a flush_batch call      *)
(* returns, and the comparison by which mark_flushed recognises the batch  *)
(* in flight.  A record is a function or record with a field "id".         *)
(***************************************************************************)
EXTENDS Integers, Sequences

NoId == -1        \* the None of last_id

last_id(batch) == IF batch = <<>> THEN NoId ELSE batch[Len(batch)].id

\* (mutant) batches of the same length are the same
SameLength(current, batch) == Len(current) = Len(batch)

\* The batches mark_flushed does not tell apart.
SameBatch(current, batch) ==
  /\ Len(current) = Len(batch)
  /\ last_id(current) = last_id(batch)

\* The Option<FlushBatch> of the batch in flight.
NoBatch == [some |-> FALSE]
Some(batch) == [some |-> TRUE, batch |-> batch]

\* Its records, none if there is no batch.
Entries(option) == IF option.some THEN option.batch ELSE <<>>

\* (mutant) an empty batch is put in flight
AlwaysInstalled(option, batch) == Some(batch)

\* The batch in flight after a drain: an empty batch is not put in flight.
Installed(option, batch) == IF batch # <<>> THEN Some(batch) ELSE option
=============================================================================
