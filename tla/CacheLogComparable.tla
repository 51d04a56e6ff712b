------------------------- MODULE CacheLogComparable --------------------------
(***************************************************************************)
(* What the tools around the core compute from a ModelState.               *)
(*                                                                         *)
(* ComparableState (model.rs, and the same code in model-cachelog's        *)
(* lib.rs) is the form two states are compared in: maps that leave out     *)
(* what is absent, keyed by the id a record carries.  apply_flushed        *)
(* replays a log from its start, apply_flushed_at (proofs.rs) reads it     *)
(* from its end.                                                           *)
(***************************************************************************)
EXTENDS CacheLogCoreReads, FiniteSetsExt

(***************************************************************************)
(* The comparison form.                                                    *)
(***************************************************************************)
Slots(store) == {i \in DOMAIN store : store[i].present}

\* (mutant) records are numbered after the absent ones are left out
ByPlace(store) ==
  [n \in 0 .. Cardinality(Slots(store)) - 1 |->
     store[CHOOSE i \in Slots(store) :
             Cardinality({j \in Slots(store) : j < i}) = n]]

\* Of records that carry the same id, the map keeps the last.
ByRecordId(store) ==
  [id \in {store[i].id : i \in Slots(store)} |->
     store[Max({i \in Slots(store) : store[i].id = id})]]

DurableByKey(store) ==
  [k \in Slots(store) |->
     [key |-> k, value |-> store[k].value, seq |-> store[k].seq]]

VisibleByKey(refs) == [k \in {key \in Key : refs[key] # NoRef} |-> refs[k]]

Comparable ==
  [visible       |-> VisibleByKey(visible),
   write_store   |-> ByRecordId(write_store),
   write_hist    |-> ByRecordId(write_hist),
   dirty_q       |-> dirty_q,
   cache_store   |-> ByRecordId(cache_store),
   durable       |-> DurableByKey(durable),
   flushed       |-> flushed,
   created_dirty |-> {id \in WriteId : created_dirty[id]},
   next_write    |-> next_write,
   next_cache    |-> next_cache,
   crashed       |-> crashed,
   bad_read      |-> bad_read]

(***************************************************************************)
(* The two replays of a log.                                               *)
(***************************************************************************)
Replayed(ids) ==
  LET step[n \in 0 .. Len(ids)] ==
        IF n = 0 THEN [k \in Key |-> Absent]
        ELSE LET record == write_hist[ids[n]] IN
             IF record.present
             THEN [step[n - 1] EXCEPT ![record.key] = Stored(record.value, ids[n])]
             ELSE step[n - 1]
  IN  step[Len(ids)]

\* (mutant) the log is searched from its start
FirstMatch(ids, k) ==
  LET matches == {i \in DOMAIN ids : FlushesKey(ids, i, k)} IN
  IF matches = {} THEN Absent
  ELSE Stored(write_hist[ids[Min(matches)]].value, ids[Min(matches)])

apply_flushed_at(ids, k) ==
  LET from[n \in 0 .. Len(ids)] ==
        IF n = 0 THEN Absent
        ELSE IF FlushesKey(ids, n, k) THEN Stored(write_hist[ids[n]].value, ids[n])
        ELSE from[n - 1]
  IN  from[Len(ids)]

(***************************************************************************)
(* Properties.                                                             *)
(***************************************************************************)

\* The comparison form says everything about a state: two states that differ
\* anywhere never compare equal, although the maps are keyed by the ids the
\* records carry and not by their places.
RecordsBack(map, ids) == [id \in ids |-> IF id \in DOMAIN map THEN map[id] ELSE Absent]

ComparisonIsExact ==
  LET c == Comparable IN
  /\ visible = [k \in Key |-> IF k \in DOMAIN c.visible THEN c.visible[k] ELSE NoRef]
  /\ write_store = RecordsBack(c.write_store, WriteId)
  /\ write_hist = RecordsBack(c.write_hist, WriteId)
  /\ cache_store = RecordsBack(c.cache_store, CacheId)
  /\ durable = [k \in Key |-> IF k \in DOMAIN c.durable
                              THEN Stored(c.durable[k].value, c.durable[k].seq)
                              ELSE Absent]
  /\ \A id \in WriteId : created_dirty[id] <=> id \in c.created_dirty

\* The durable store is what both replays of the flushed ids give, and a
\* flusher that went on to the end of the queue would leave the same store
\* whichever way the whole log is replayed (durable_replay_equivalence).
ReplaysAgree ==
  /\ durable = Replayed(flushed)
  /\ \A log \in {flushed, flushed \o dirty_q} :
       \A k \in Key : apply_flushed_at(log, k) = Replayed(log)[k]
=============================================================================
