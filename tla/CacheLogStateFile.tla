-------------------------- MODULE CacheLogStateFile --------------------------
(***************************************************************************)
(* The command line of model-cachelog (main.rs): a ModelState lives in a   *)
(* file, check-state says whether it is a good one, and apply-step reads   *)
(* it, applies one ModelStep and writes the state that results.  The same  *)
(* is what the contracts of the methods say (requires inv, ensures inv):   *)
(* they speak of every state that satisfies the ten invariants, not only   *)
(* of those that steps from the initial state reach.                       *)
(***************************************************************************)
EXTENDS CacheLogCoreReads

valid_config == Key # {} /\ Value # {} /\ MaxWrite > 0 /\ MaxCache > 0

\* Queues of the ids there are.  A queue that is accepted is increasing, so
\* that none of them is longer.
Queues == UNION {[1 .. n -> WriteId] : n \in 0 .. MaxWrite}

\* A file with every field in range, as serde reads it.
WellFormed ==
  /\ visible \in [Key -> VisibleRef]
  /\ write_store \in [WriteId -> DirtyRecord \cup {Absent}]
  /\ write_hist \in [WriteId -> DirtyRecord \cup {Absent}]
  /\ dirty_q \in Queues
  /\ cache_store \in [CacheId -> CleanRecord \cup {Absent}]
  /\ durable \in [Key -> DurableValue \cup {Absent}]
  /\ flushed \in Queues
  /\ created_dirty \in [WriteId -> BOOLEAN]
  /\ next_write \in 0 .. MaxWrite
  /\ next_cache \in 0 .. MaxCache
  /\ crashed \in BOOLEAN
  /\ bad_read \in BOOLEAN

\* The condition of the contracts, and of check-state.
inv == InvariantReportOk

CheckState == inv

\* emit-initial-state writes the state of Init; any file check-state accepts
\* may be stepped.
LoadState == valid_config /\ WellFormed /\ CheckState

FileSpec == LoadState /\ [][Next]_vars

(***************************************************************************)
(* What the contracts say, and the code does not do.                       *)
(***************************************************************************)

\* model.rs: "requires(crate::proofs::inv(*self, config))" and
\* "ensures(crate::proofs::inv(^self, config))" of every step: from a file
\* that check-state accepts, steps lead to files it accepts.
StepsPreserveReport == CheckState
=============================================================================
