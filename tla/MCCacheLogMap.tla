---------------------------- MODULE MCCacheLogMap ---------------------------
(* The instances of CacheLogMap that TLC checks: who calls what.           *)
EXTENDS CacheLogMap, TLC

CONSTANTS t1, t2, t3, a, b, c

MCLimit == {1, 2}

\* Two threads that write one key and fill; between them they make every
\* other call.
MixKeys == [t \in {t1, t2} |-> {a}]
MixCalls == (t1 :> {"fill", "cleanup", "flush"}) @@ (t2 :> {"fill", "evict"})

\* Two writers of one key, and a flusher.
SharedKeys == (t1 :> {a}) @@ (t2 :> {a}) @@ (t3 :> {})
FlusherCalls == (t1 :> {}) @@ (t2 :> {}) @@ (t3 :> {"flush"})

\* One writer and one flusher.
WriterKeys == (t1 :> {a}) @@ (t2 :> {})
WriterFlusherCalls == (t1 :> {}) @@ (t2 :> {"flush"})

\* One thread that fills the cache and cleans up.
NoKeys == (t1 :> {})
FillCleanupCalls == (t1 :> {"fill", "cleanup"})
=============================================================================
