---------------------------- MODULE CacheLogScan ----------------------------
(***************************************************************************)
(* A prefix scan of CacheLogMap (for_each_prefix, for_each_prefix_key and  *)
(* list_prefix, which differ in what the reader gets) while other threads  *)
(* change the index under it.  It walks the index with scc's iter_sync,    *)
(* which sees each entry under its bucket's lock and the index as a whole  *)
(* at no one moment (external): it passes the place of every key once, it  *)
(* visits what is there then, and it may come back to an entry it has      *)
(* visited when the table is resized.                                      *)
(***************************************************************************)
EXTENDS CacheLogMap

CONSTANTS
  Matching,     \* the keys that start with the prefix
  ScanLimit     \* the limits scans are called with

ASSUME MatchingAssumption == Matching \subseteq Key
ASSUME ScanLimitAssumption == ScanLimit \subseteq Nat

VARIABLE
  scan          \* the scan's progress, its limit and what it has reported;
                \* history: the writes complete and queued when it began

scanVars == <<vars, scan>>

NoScan ==
  [pc |-> "idle", limit |-> 0, left |-> {}, reported |-> <<>>, began |-> {}]

ScanInit == Init /\ scan = NoScan

\* (mutant) the limit is checked after the next match
OneMore(reported, limit) == Len(reported) <= limit

\* matched < limit
Wants(reported, limit) == Len(reported) < limit

\* A limit of 0 returns before it looks at the index.
ScanStart(limit) ==
  /\ scan.pc # "iterate"
  /\ scan' = [pc |-> IF limit = 0 THEN "done" ELSE "iterate", limit |-> limit,
              left |-> Key, reported |-> <<>>, began |-> PublishedQueued]
  /\ UNCHANGED vars

\* (mutant) the arm of the dirty entries reports nothing
ReportClean(k) ==
  IF k \in Matching /\ visible[k].kind = "Clean"
  THEN <<[key |-> k, ref |-> visible[k]]>> ELSE <<>>

\* What the reader is given of k, if k starts with the prefix.
Report(k) ==
  IF k \in Matching THEN <<[key |-> k, ref |-> visible[k]]>> ELSE <<>>

\* The closure of iter_sync on the entry of k; false ends the iteration.
ScanVisit(k) ==
  LET reported == scan.reported \o Report(k) IN
  /\ scan.pc = "iterate"
  /\ visible[k] # NoRef
  /\ scan' = [scan EXCEPT !.reported = reported, !.left = @ \ {k},
                !.pc = IF Wants(reported, scan.limit) THEN "iterate" ELSE "done"]
  /\ UNCHANGED vars

\* The iteration passes the place of k, and nothing is there.
ScanPass(k) ==
  /\ scan.pc = "iterate"
  /\ k \in scan.left
  /\ visible[k] = NoRef
  /\ scan' = [scan EXCEPT !.left = @ \ {k}]
  /\ UNCHANGED vars

ScanEnd ==
  /\ scan.pc = "iterate"
  /\ scan.left = {}
  /\ scan' = [scan EXCEPT !.pc = "done"]
  /\ UNCHANGED vars

ScanNext ==
  \/ Next /\ UNCHANGED scan
  \/ \E limit \in ScanLimit : ScanStart(limit)
  \/ \E k \in Key : ScanVisit(k) \/ ScanPass(k)
  \/ ScanEnd

ScanSpec == ScanInit /\ [][ScanNext]_scanVars

(***************************************************************************)
(* Properties.  The last two need one writer per key and no                *)
(* cleanup_stale_visible, as ReadableUntilRetired does.                    *)
(***************************************************************************)
ReportedKeys == {scan.reported[i].key : i \in DOMAIN scan.reported}

\* A scan reports entries of the prefix only and no more of them than its
\* limit, however the index changes, and gives up early for no other reason
\* than the limit.
ScanWithinLimit ==
  /\ Len(scan.reported) <= scan.limit
  /\ ReportedKeys \subseteq Matching
  /\ scan.pc = "done" /\ Len(scan.reported) < scan.limit => scan.left = {}

\* A scan is no snapshot, but it misses no write: one that was complete when
\* the scan began, and is still in the log when a scan that did not reach
\* its limit ends, has its key among those reported.
ScanFindsQueuedWrites ==
  scan.pc = "done" /\ Len(scan.reported) < scan.limit =>
    \A record \in scan.began :
      record.key \in Matching /\ record \in Queued => record.key \in ReportedKeys

\* Nor does it report of a key what was older than the writes complete when
\* it began: a dirty entry it reports is as new as they are, and a clean one
\* it reports only once they are flushed.
ScanReportsFresh ==
  \A i \in DOMAIN scan.reported : \A record \in scan.began :
    LET entry == scan.reported[i] IN
    record.key = entry.key =>
      IF entry.ref.kind = "Dirty" THEN record.id <= entry.ref.id
                                  ELSE Retired(record.id)

(***************************************************************************)
(* What the steps preserve, with IInv and OneWriterInv.                    *)
(***************************************************************************)
ScanTypeOK ==
  scan \in [pc : {"idle", "iterate", "done"}, limit : Nat, left : SUBSET Key,
            reported : Seq([key : Key, ref : VisibleRef]),
            began : SUBSET DirtyRecord]

\* The writes a scan began with stay in the log, and published.
BeganPublished ==
  \A record \in scan.began :
    /\ \E i \in DOMAIN Dirty!Appended : Dirty!Appended[i] = record
    /\ Published(record)

\* A key the scan has passed is reported, or has none of those writes queued.
PassedReported ==
  \A record \in scan.began :
    record.key \in Matching \ scan.left /\ record \in Queued
      => record.key \in ReportedKeys

\* The part that holds with any writers and cleanups.
ScanBounded ==
  /\ ScanTypeOK
  /\ ScanWithinLimit
  /\ scan.pc = "iterate" => Wants(scan.reported, scan.limit)

ScanInv ==
  /\ ScanBounded
  /\ BeganPublished
  /\ PassedReported
  /\ ScanReportsFresh
=============================================================================
