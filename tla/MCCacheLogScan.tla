--------------------------- MODULE MCCacheLogScan ---------------------------
(* The instance of CacheLogScan that TLC checks.                           *)
EXTENDS CacheLogScan, TLC

CONSTANTS t1, t2, a, b, c

MCLimit == {1, 2}
MCScanLimit == {0, 1, 3}
MCMatching == {a, b}

\* One writer per key; both threads flush, one fills and evicts.
ScanKeys == (t1 :> {a}) @@ (t2 :> {b})
ScanCalls == (t1 :> {"flush"}) @@ (t2 :> {"flush", "fill", "evict"})

ASSUME ScanCallers == OneWriterPerKey /\ NoCleanup
=============================================================================
