-------------------------- MODULE CacheLogScanProofs --------------------------
(***************************************************************************)
(* Proofs about prefix scans, for any prefix, limits and threads: a scan   *)
(* keeps to its limit whatever runs beside it; and with one writer per key *)
(* and no cleanup_stale_visible it misses no queued write and reports      *)
(* nothing older than the writes complete when it began.                   *)
(***************************************************************************)
EXTENDS CacheLogScan, CacheLogMapProofs

ReportType == [key : Key, ref : VisibleRef]

\* Under a scan the map runs as it does alone.
LEMMA ScanIsRead == ScanSpec => Spec
<1>1. ScanInit => Init
  BY DEF ScanInit
<1>2. [ScanNext]_scanVars => [Next]_vars
  BY DEF ScanNext, scanVars, ScanStart, ScanVisit, ScanPass, ScanEnd
<1> QED
  BY <1>1, <1>2, PTL DEF ScanSpec, Spec

\* A step of a scan, or one of the map under it.
LEMMA ScanSteps ==
  ASSUME [ScanNext]_scanVars
  PROVE  \/ [Next]_vars /\ scan' = scan
         \/ \E limit \in ScanLimit : ScanStart(limit)
         \/ \E k \in Key : ScanVisit(k)
         \/ \E k \in Key : ScanPass(k)
         \/ ScanEnd
BY DEF ScanNext, scanVars

(***************************************************************************)
(* The limit.                                                              *)
(***************************************************************************)

\* What a visit adds: one report if the key has the prefix, or none.
LEMMA ReportedNext ==
  ASSUME TypeOK, ScanTypeOK, NEW k \in Key
  PROVE  LET reported == scan.reported \o Report(k) IN
         /\ Report(k) \in Seq(ReportType)
         /\ reported \in Seq(ReportType)
         /\ DOMAIN scan.reported = 1 .. Len(scan.reported)
         /\ Len(scan.reported) \in Nat
         /\ \A i \in DOMAIN scan.reported :
              i \in DOMAIN reported /\ reported[i] = scan.reported[i]
         /\ k \notin Matching => reported = scan.reported
         /\ k \in Matching =>
              /\ DOMAIN reported = 1 .. Len(scan.reported) + 1
              /\ Len(reported) = Len(scan.reported) + 1
              /\ reported[Len(scan.reported) + 1] = [key |-> k, ref |-> visible[k]]
<1> DEFINE entry == [key |-> k, ref |-> visible[k]]
           s     == scan.reported
<1>1. entry \in ReportType
  BY DEF TypeOK, ReportType
<1>2. s \in Seq(ReportType) /\ Len(s) \in Nat /\ DOMAIN s = 1 .. Len(s)
  BY DEF ScanTypeOK, ReportType
<1> HIDE DEF s, entry
<1>3. CASE k \in Matching
  <2>1. Report(k) = <<entry>> /\ <<entry>> \in Seq(ReportType)
    BY <1>1, <1>3 DEF Report, entry
  <2>2. s \o <<entry>> = Append(s, entry)
    BY <1>1, <1>2, AppendIsConcat
  <2>3. /\ Append(s, entry) \in Seq(ReportType)
        /\ Len(Append(s, entry)) = Len(s) + 1
        /\ \A i \in 1 .. Len(s) : Append(s, entry)[i] = s[i]
        /\ Append(s, entry)[Len(s) + 1] = entry
    BY <1>1, <1>2, AppendProperties
  <2>4. DOMAIN Append(s, entry) = 1 .. Len(s) + 1
    BY <2>3
  <2>5. \A i \in DOMAIN s : i \in DOMAIN Append(s, entry)
    BY <1>2, <2>4
  <2> QED
    BY <1>2, <1>3, <2>1, <2>2, <2>3, <2>4, <2>5 DEF s, entry
<1>4. CASE k \notin Matching
  <2>1. Report(k) = <<>> /\ <<>> \in Seq(ReportType)
    BY <1>4, EmptySeq DEF Report
  <2>2. s \o <<>> = s
    BY <1>2, ConcatEmptySeq
  <2> QED
    BY <1>2, <1>4, <2>1, <2>2 DEF s
<1> QED
  BY <1>3, <1>4

\* A scan that visits, by its parts.
LEMMA VisitFacts ==
  ASSUME ScanTypeOK, NEW k \in Key, ScanVisit(k)
  PROVE  LET reported == scan.reported \o Report(k) IN
         /\ scan.pc = "iterate" /\ visible[k] # NoRef /\ UNCHANGED vars
         /\ scan' = [pc |-> IF Wants(reported, scan.limit) THEN "iterate" ELSE "done",
                     limit |-> scan.limit, left |-> scan.left \ {k},
                     reported |-> reported, began |-> scan.began]
BY DEF ScanVisit, ScanTypeOK

\* What a visit of an absent key does.
LEMMA PassFacts ==
  ASSUME ScanTypeOK, NEW k \in Key, ScanPass(k)
  PROVE  /\ scan.pc = "iterate" /\ visible[k] = NoRef /\ UNCHANGED vars
         /\ scan' = [pc |-> "iterate", limit |-> scan.limit, left |-> scan.left \ {k},
                     reported |-> scan.reported, began |-> scan.began]
BY DEF ScanPass, ScanTypeOK

\* What the end of a scan does.
LEMMA EndFacts ==
  ASSUME ScanTypeOK, ScanEnd
  PROVE  /\ scan.pc = "iterate" /\ scan.left = {} /\ UNCHANGED vars
         /\ scan' = [pc |-> "done", limit |-> scan.limit, left |-> scan.left,
                     reported |-> scan.reported, began |-> scan.began]
BY DEF ScanEnd, ScanTypeOK

\* No scan has reported anything at first.
LEMMA InitBounded == ScanInit => ScanBounded
<1> SUFFICES ASSUME ScanInit PROVE ScanBounded
  OBVIOUS
<1>1. scan = [pc |-> "idle", limit |-> 0, left |-> {}, reported |-> <<>>, began |-> {}]
  BY DEF ScanInit, NoScan
<1>2. <<>> \in Seq(ReportType) /\ Len(<<>>) = 0 /\ DOMAIN <<>> = {}
  BY EmptySeq
<1>3. ScanTypeOK
  BY <1>1, <1>2 DEF ScanTypeOK, ReportType
<1>4. ScanWithinLimit
  BY <1>1, <1>2 DEF ScanWithinLimit, ReportedKeys
<1> QED
  BY <1>1, <1>3, <1>4 DEF ScanBounded

\* Each step keeps the scan within its limit and its prefix.
LEMMA NextBounded ==
  ASSUME TypeOK, ScanBounded, [ScanNext]_scanVars
  PROVE  ScanBounded'
<1>0. /\ ScanTypeOK /\ ScanWithinLimit
      /\ scan.pc = "iterate" => Len(scan.reported) < scan.limit
  BY DEF ScanBounded, Wants
<1>1. CASE [Next]_vars /\ scan' = scan
  BY <1>0, <1>1 DEF ScanBounded, ScanTypeOK, ScanWithinLimit, ReportedKeys, Wants
<1>2. ASSUME NEW limit \in ScanLimit, ScanStart(limit) PROVE ScanBounded'
  <2>1. /\ scan' = [pc |-> IF limit = 0 THEN "done" ELSE "iterate", limit |-> limit,
                    left |-> Key, reported |-> <<>>, began |-> PublishedQueued]
        /\ limit \in Nat
    BY <1>2, ScanLimitAssumption DEF ScanStart
  <2>2. PublishedQueued \subseteq DirtyRecord
    BY QueuedRecords DEF PublishedQueued
  <2>3. <<>> \in Seq(ReportType) /\ Len(<<>>) = 0 /\ DOMAIN <<>> = {}
    BY EmptySeq
  <2>4. ScanTypeOK'
    BY <2>1, <2>2, <2>3 DEF ScanTypeOK, ReportType
  <2>5. ScanWithinLimit'
    BY <2>1, <2>3 DEF ScanWithinLimit, ReportedKeys
  <2>6. scan'.pc = "iterate" => Len(scan'.reported) < scan'.limit
    BY <2>1, <2>3
  <2> QED
    BY <2>4, <2>5, <2>6 DEF ScanBounded, Wants
<1>3. ASSUME NEW k \in Key, ScanVisit(k) PROVE ScanBounded'
  <2> DEFINE s == scan.reported
             reported == s \o Report(k)
  <2>1. /\ scan.pc = "iterate"
        /\ scan' = [pc |-> IF Len(reported) < scan.limit THEN "iterate" ELSE "done",
                    limit |-> scan.limit, left |-> scan.left \ {k},
                    reported |-> reported, began |-> scan.began]
    BY <1>0, <1>3, VisitFacts DEF Wants
  <2>2. /\ reported \in Seq(ReportType)
        /\ DOMAIN s = 1 .. Len(s) /\ Len(s) \in Nat
        /\ \A i \in DOMAIN s : i \in DOMAIN reported /\ reported[i] = s[i]
        /\ k \notin Matching => reported = s
        /\ k \in Matching =>
             /\ DOMAIN reported = 1 .. Len(s) + 1
             /\ Len(reported) = Len(s) + 1
             /\ reported[Len(s) + 1] = [key |-> k, ref |-> visible[k]]
    BY <1>0, ReportedNext
  <2>3. Len(s) < scan.limit /\ scan.limit \in Nat
    BY <1>0, <2>1 DEF ScanTypeOK
  <2>4. \A i \in DOMAIN s : s[i].key \in Matching
    BY <1>0 DEF ScanWithinLimit, ReportedKeys
  <2> HIDE DEF reported, s
  <2>5. ScanTypeOK'
    BY <1>0, <2>1, <2>2 DEF ScanTypeOK, ReportType
  <2>6. Len(reported) <= scan.limit
    BY <2>2, <2>3
  <2>7. \A i \in DOMAIN reported : reported[i].key \in Matching
    <3>1. CASE k \notin Matching
      BY <2>2, <2>4, <3>1
    <3>2. CASE k \in Matching
      <4>1. \A i \in DOMAIN reported : i \in DOMAIN s \/ i = Len(s) + 1
        BY <2>2, <3>2
      <4> QED
        BY <2>2, <2>4, <3>2, <4>1
    <3> QED
      BY <3>1, <3>2
  <2>8. ScanWithinLimit'
    BY <2>1, <2>6, <2>7 DEF ScanWithinLimit, ReportedKeys
  <2> QED
    BY <2>1, <2>5, <2>8 DEF ScanBounded, Wants
<1>4. ASSUME NEW k \in Key, ScanPass(k) PROVE ScanBounded'
  <2>1. /\ scan.pc = "iterate"
        /\ scan' = [pc |-> "iterate", limit |-> scan.limit, left |-> scan.left \ {k},
                    reported |-> scan.reported, began |-> scan.began]
    BY <1>0, <1>4, PassFacts
  <2>2. ScanTypeOK'
    BY <1>0, <2>1 DEF ScanTypeOK
  <2> QED
    BY <1>0, <2>1, <2>2 DEF ScanBounded, ScanWithinLimit, ReportedKeys, Wants
<1>5. ASSUME ScanEnd PROVE ScanBounded'
  <2>1. /\ scan.left = {}
        /\ scan' = [pc |-> "done", limit |-> scan.limit, left |-> scan.left,
                    reported |-> scan.reported, began |-> scan.began]
    BY <1>0, <1>5, EndFacts
  <2>2. ScanTypeOK'
    BY <1>0, <2>1 DEF ScanTypeOK
  <2> QED
    BY <1>0, <2>1, <2>2 DEF ScanBounded, ScanWithinLimit, ReportedKeys, Wants
<1> QED
  BY <1>1, <1>2, <1>3, <1>4, <1>5, ScanSteps

\* With any writers, flushes, evictions and cleanups beside it, a scan reports
\* matching entries only, no more than its limit, and stops early for no other
\* reason.
THEOREM WithinLimit == ScanSpec => []ScanWithinLimit
<1>1. ScanInit => ScanBounded
  BY InitBounded
<1>2. TypeOK /\ ScanBounded /\ [ScanNext]_scanVars => ScanBounded'
  BY NextBounded
<1>3. ScanBounded => ScanWithinLimit
  BY DEF ScanBounded
<1> QED
  BY <1>1, <1>2, <1>3, ScanIsRead, TypeCorrect, PTL DEF ScanSpec

(***************************************************************************)
(* What the map keeps of the writes a scan began with.                     *)
(***************************************************************************)

\* What is queued is in the log.
LEMMA QueuedInLog ==
  ASSUME TypeOK
  PROVE  \A record \in Queued : \E i \in DOMAIN Dirty!Appended : Dirty!Appended[i] = record
<1> DEFINE log == Dirty!Appended
<1>1. /\ retired \in Seq(DirtyRecord) /\ inflight \in Seq(DirtyRecord)
      /\ pending \in Seq(DirtyRecord)
      /\ log = (retired \o inflight) \o pending
  BY LogSeqs
<1>2. RecordOf(pending) \cup RecordOf(inflight) = After(log, Len(retired))
  BY <1>1, RecordsAfter
<1> HIDE DEF log
<1>3. Queued = After(log, Len(retired))
  BY <1>2 DEF Queued
<1>4. \A record \in Queued : \E i \in DOMAIN log : log[i] = record
  BY <1>3 DEF After
<1> QED
  BY <1>4 DEF log

\* A record of the log that is queued after a step was queued before it.
LEMMA QueuedBefore ==
  ASSUME IInv, IInv', [Next]_vars,
         NEW i \in DOMAIN Dirty!Appended, Dirty!Appended[i] \in Queued'
  PROVE  Dirty!Appended[i] \in Queued
<1> DEFINE log == Dirty!Appended
<1>0. /\ TypeOK /\ TypeOK'
      /\ \A m, n \in DOMAIN log' : m # n => log'[m].id # log'[n].id
  BY DEF IInv, WriteIdsOnce
<1>1. i \in DOMAIN log' /\ log'[i] = log[i] /\ Len(retired) <= Len(retired')
  BY LogGrows
<1>2. Queued = After(log, Len(retired)) /\ Queued' = After(log', Len(retired'))
  BY <1>0, QueuedAfter
<1>3. Len(retired) \in Nat /\ Len(retired') \in Nat
  <2>1. retired \in Seq(DirtyRecord) /\ retired' \in Seq(DirtyRecord)
    BY <1>0 DEF TypeOK, Dirty!TypeOK
  <2> QED
    BY <2>1
<1>4. i \in Nat
  BY <1>0, Numbers
<1> HIDE DEF log
<1>5. log[i] \in After(log', Len(retired'))
  BY <1>2 DEF log
<1>6. PICK m \in DOMAIN log' : m > Len(retired') /\ log'[m] = log[i]
  BY <1>5 DEF After
<1>7. m = i
  BY <1>0, <1>1, <1>6
<1>8. i > Len(retired)
  BY <1>1, <1>3, <1>4, <1>6, <1>7
<1>9. i \in DOMAIN log
  BY DEF log
<1> QED
  BY <1>2, <1>8, <1>9 DEF After, log

(***************************************************************************)
(* What a scan finds.                                                      *)
(***************************************************************************)

\* What the scan has reported, of the writes it began with.
ScanKnows == BeganPublished /\ PassedReported /\ ScanReportsFresh

\* Nothing has been passed at first.
LEMMA InitKnows == ScanInit => ScanKnows
<1> SUFFICES ASSUME ScanInit PROVE ScanKnows
  OBVIOUS
<1>1. scan.began = {}
  BY DEF ScanInit, NoScan
<1> QED
  BY <1>1 DEF ScanKnows, BeganPublished, PassedReported, ScanReportsFresh

\* At the place of k, a write the scan began with is shown, or it is retired.
LEMMA AtPlace ==
  ASSUME IInv, OneWriterInv, BeganPublished, NEW record \in scan.began, record.key \in Key
  PROVE  /\ visible[record.key].kind = "Dirty" => record.id <= visible[record.key].id
         /\ visible[record.key].kind # "Dirty" => Retired(record.id) /\ record \notin Queued
<1> DEFINE log == Dirty!Appended
<1>1. Published(record) /\ \E i \in DOMAIN log : log[i] = record
  BY DEF BeganPublished
<1>2. PICK i \in DOMAIN log : log[i] = record
  BY <1>1
<1>3. visible[record.key].kind = "Dirty" => record.id <= visible[record.key].id
  BY <1>1, <1>2 DEF OneWriterInv, VisibleNewest
<1>4. ASSUME record \in Queued PROVE visible[record.key].kind = "Dirty"
  <2>1. \E newer \in PublishedQueued : visible[record.key] = DirtyRef(newer.id)
    BY <1>1, <1>4 DEF OneWriterInv, QueuedShown, PublishedQueued
  <2> QED
    BY <2>1 DEF DirtyRef
<1>5. ASSUME record \notin Queued PROVE Retired(record.id)
  BY <1>2, <1>5, QueuedOrRetired
<1> QED
  BY <1>3, <1>4, <1>5

\* Each step keeps what the scan knows.
LEMMA NextKnows ==
  ASSUME IInv, IInv', OneWriterInv, ScanBounded, ScanKnows, [ScanNext]_scanVars
  PROVE  ScanKnows'
<1> DEFINE log == Dirty!Appended
           s == scan.reported
<1>0. /\ TypeOK /\ ScanTypeOK /\ BeganPublished
      /\ \A record \in scan.began : \E i \in DOMAIN log : log[i] = record
      /\ \A record \in scan.began : \A u \in Thread :
           op[u].pc = "publish" => op[u].id # record.id
      /\ \A record \in scan.began :
           record.key \in Matching \ scan.left /\ record \in Queued
             => \E i \in DOMAIN s : s[i].key = record.key
      /\ \A i \in DOMAIN s : \A record \in scan.began :
           record.key = s[i].key =>
             IF s[i].ref.kind = "Dirty" THEN record.id <= s[i].ref.id ELSE Retired(record.id)
  BY DEF IInv, ScanBounded, ScanKnows, BeganPublished, Published, PassedReported,
     ReportedKeys, ScanReportsFresh
<1>1. SUFFICES
        /\ \A record \in scan'.began : \E i \in DOMAIN log' : log'[i] = record
        /\ \A record \in scan'.began : \A u \in Thread :
             op'[u].pc = "publish" => op'[u].id # record.id
        /\ \A record \in scan'.began :
             record.key \in Matching \ scan'.left /\ record \in Queued'
               => \E i \in DOMAIN s' : s'[i].key = record.key
        /\ \A i \in DOMAIN s' : \A record \in scan'.began :
             record.key = s'[i].key =>
               IF s'[i].ref.kind = "Dirty" THEN record.id <= s'[i].ref.id
               ELSE \E j \in DOMAIN retired' : retired'[j].id = record.id
  BY DEF ScanKnows, BeganPublished, Published, PassedReported, ReportedKeys,
     ScanReportsFresh, Retired
<1>2. scan.began \subseteq DirtyRecord /\ \A record \in scan.began : record.key \in Key
  BY <1>0 DEF ScanTypeOK, DirtyRecord
<1>3. CASE [Next]_vars /\ scan' = scan
  <2>1. /\ \A i \in DOMAIN log : i \in DOMAIN log' /\ log'[i] = log[i]
        /\ \A i \in DOMAIN log : \A u \in Thread :
             op'[u].pc = "publish" /\ op'[u].id = log[i].id
               => op[u].pc = "publish" /\ op[u].id = log[i].id
    BY <1>3, LogGrows
  <2>2. \A i \in DOMAIN log : log[i] \in Queued' => log[i] \in Queued
    BY <1>3, QueuedBefore
  <2>3. \A id : Retired(id) => \E j \in DOMAIN retired' : retired'[j].id = id
    BY <1>0, <1>3, RetiredStays
  <2> HIDE DEF log, s
  <2>4. s' = s
    BY <1>3 DEF s
  <2>5. ASSUME NEW record \in scan.began
        PROVE  /\ \E i \in DOMAIN log' : log'[i] = record
               /\ \A u \in Thread : op'[u].pc = "publish" => op'[u].id # record.id
               /\ record \in Queued' => record \in Queued
    <3>1. PICK i \in DOMAIN log : log[i] = record
      BY <1>0
    <3> QED
      BY <1>0, <2>1, <2>2, <3>1
  <2> QED
    BY <1>0, <1>3, <2>3, <2>4, <2>5
<1>4. ASSUME UNCHANGED vars
      PROVE  /\ log' = log /\ op' = op /\ Queued' = Queued /\ retired' = retired
  BY <1>4, SameLog DEF vars, logVars, Queued
<1>5. ASSUME NEW limit \in ScanLimit, ScanStart(limit) PROVE <1>1!1
  <2>1. /\ scan'.began = PublishedQueued /\ scan'.left = Key /\ s' = <<>>
        /\ UNCHANGED vars
    BY <1>5 DEF ScanStart
  <2>2. \A record \in Queued : \E i \in DOMAIN log : log[i] = record
    BY <1>0, QueuedInLog
  <2> HIDE DEF log, s
  <2>3. DOMAIN s' = {}
    BY <2>1
  <2> QED
    BY <1>4, <2>1, <2>2, <2>3, MatchingAssumption DEF PublishedQueued, Published
<1>6. ASSUME NEW k \in Key, ScanVisit(k) PROVE <1>1!1
  <2>1. /\ scan'.began = scan.began /\ scan'.left = scan.left \ {k}
        /\ s' = s \o Report(k) /\ UNCHANGED vars
    BY <1>0, <1>6, VisitFacts
  <2>2. /\ DOMAIN s = 1 .. Len(s) /\ Len(s) \in Nat
        /\ \A i \in DOMAIN s : i \in DOMAIN s' /\ s'[i] = s[i]
        /\ k \notin Matching => s' = s
        /\ k \in Matching =>
             /\ DOMAIN s' = 1 .. Len(s) + 1
             /\ s'[Len(s) + 1] = [key |-> k, ref |-> visible[k]]
    BY <1>0, <2>1, ReportedNext
  <2>3. \A record \in scan.began :
          /\ visible[record.key].kind = "Dirty" => record.id <= visible[record.key].id
          /\ visible[record.key].kind # "Dirty" => Retired(record.id)
    BY <1>0, <1>2, AtPlace
  <2> HIDE DEF log, s
  <2>4. ASSUME NEW record \in scan.began, record.key \in Matching \ scan'.left,
               record \in Queued
        PROVE  \E i \in DOMAIN s' : s'[i].key = record.key
    <3>1. CASE record.key = k
      <4>1. Len(s) + 1 \in DOMAIN s' /\ s'[Len(s) + 1].key = k
        BY <2>2, <2>4, <3>1
      <4> QED
        BY <3>1, <4>1
    <3>2. CASE record.key # k
      <4>1. record.key \in Matching \ scan.left
        BY <2>1, <2>4, <3>2
      <4>2. \E i \in DOMAIN s : s[i].key = record.key
        BY <1>0, <2>4, <4>1
      <4> QED
        BY <2>2, <4>2
    <3> QED
      BY <3>1, <3>2
  <2>5. ASSUME NEW i \in DOMAIN s', NEW record \in scan.began, record.key = s'[i].key
        PROVE  IF s'[i].ref.kind = "Dirty" THEN record.id <= s'[i].ref.id
               ELSE Retired(record.id)
    <3>1. CASE i \in DOMAIN s
      BY <1>0, <2>2, <2>5, <3>1
    <3>2. CASE i \notin DOMAIN s
      <4>1. s'[i] = [key |-> k, ref |-> visible[k]]
        BY <2>2, <3>2
      <4> QED
        BY <2>3, <2>5, <4>1
    <3> QED
      BY <3>1, <3>2
  <2> QED
    BY <1>0, <1>4, <2>1, <2>4, <2>5 DEF Retired
<1>7. ASSUME NEW k \in Key, ScanPass(k) PROVE <1>1!1
  <2>1. /\ scan'.began = scan.began /\ scan'.left = scan.left \ {k} /\ s' = s
        /\ visible[k] = NoRef /\ UNCHANGED vars
    BY <1>0, <1>7, PassFacts
  <2>2. \A record \in scan.began :
          visible[record.key].kind # "Dirty" => record \notin Queued
    BY <1>0, <1>2, AtPlace
  <2>3. visible[k].kind # "Dirty"
    BY <2>1 DEF NoRef
  <2> HIDE DEF log, s
  <2> QED
    BY <1>0, <1>4, <2>1, <2>2, <2>3 DEF Retired
<1>8. ASSUME ScanEnd PROVE <1>1!1
  <2>1. /\ scan'.began = scan.began /\ scan'.left = scan.left /\ s' = s /\ UNCHANGED vars
    BY <1>0, <1>8, EndFacts
  <2> HIDE DEF log, s
  <2> QED
    BY <1>0, <1>4, <2>1 DEF Retired
<1> QED
  BY <1>3, <1>5, <1>6, <1>7, <1>8, ScanSteps

\* With one writer per key and no cleanup, the invariant of a scan holds.
THEOREM ScanInvariance ==
  ASSUME OneWriterPerKey, NoCleanup
  PROVE  ScanSpec => []ScanInv
<1>1. ScanInit => ScanBounded /\ ScanKnows
  BY InitBounded, InitKnows
<1>2. /\ IInv /\ IInv' /\ OneWriterInv
      /\ ScanBounded /\ ScanKnows /\ [ScanNext]_scanVars
      => (ScanBounded /\ ScanKnows)'
  BY NextBounded, NextKnows DEF IInv
<1>3. ScanBounded /\ ScanKnows => ScanInv
  BY DEF ScanKnows, ScanInv
<1> QED
  BY <1>1, <1>2, <1>3, ScanIsRead, Invariance, OneWriterInvariance, PTL DEF ScanSpec

\* A scan that does not reach its limit misses no write that was complete when
\* it began and is still queued when it ends.
THEOREM FindsQueuedWrites ==
  ASSUME OneWriterPerKey, NoCleanup
  PROVE  ScanSpec => []ScanFindsQueuedWrites
<1>1. ScanInv => ScanFindsQueuedWrites
  BY DEF ScanInv, ScanBounded, ScanWithinLimit, PassedReported, ScanFindsQueuedWrites
<1> QED
  BY <1>1, ScanInvariance, PTL

\* A scan reports nothing older than the writes complete when it began.
THEOREM ReportsFresh ==
  ASSUME OneWriterPerKey, NoCleanup
  PROVE  ScanSpec => []ScanReportsFresh
<1>1. ScanInv => ScanReportsFresh
  BY DEF ScanInv
<1> QED
  BY <1>1, ScanInvariance, PTL
=============================================================================
