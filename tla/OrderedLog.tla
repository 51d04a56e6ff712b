----------------------------- MODULE OrderedLog -----------------------------
(***************************************************************************)
(* What the dirty log promises to the map that uses it: a FIFO of records  *)
(* each of which is appended once, handed out in batches one batch at a    *)
(* time, and retired with its batch.  Nothing is lost, repeated or         *)
(* reordered between append and retirement.                                *)
(*                                                                         *)
(* No code is modelled here: DirtyLog and DirtyLogMutex, the two builds of *)
(* dirty_mode.rs, are shown to implement it, and CacheLogMap is built on   *)
(* it.                                                                     *)
(***************************************************************************)
EXTENDS Integers, Sequences

CONSTANT Rec      \* the records that can be appended

VARIABLES
  pending,        \* appended and not handed out, oldest first
  inflight,       \* the batch handed out and not retired; <<>> if none
  retired         \* every retired record, oldest first

vars == <<pending, inflight, retired>>

\* Every record ever appended, in order.
Appended == retired \o inflight \o pending

TypeOK ==
  /\ pending \in Seq(Rec)
  /\ inflight \in Seq(Rec)
  /\ retired \in Seq(Rec)

Init ==
  /\ pending = <<>>
  /\ inflight = <<>>
  /\ retired = <<>>

AppendRecord(r) ==
  /\ \A i \in DOMAIN Appended : Appended[i] # r
  /\ pending' = Append(pending, r)
  /\ UNCHANGED <<inflight, retired>>

\* The n oldest records become the batch in flight.
Take(n) ==
  /\ inflight = <<>>
  /\ n \in 1 .. Len(pending)
  /\ inflight' = SubSeq(pending, 1, n)
  /\ pending' = SubSeq(pending, n + 1, Len(pending))
  /\ UNCHANGED retired

Retire ==
  /\ inflight # <<>>
  /\ retired' = retired \o inflight
  /\ inflight' = <<>>
  /\ UNCHANGED pending

Next ==
  \/ \E r \in Rec : AppendRecord(r)
  \/ \E n \in 1 .. Len(pending) : Take(n)
  \/ Retire

Spec == Init /\ [][Next]_vars
=============================================================================
