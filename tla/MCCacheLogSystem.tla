-------------------------- MODULE MCCacheLogSystem --------------------------
(* The instance of CacheLogSystem that TLC checks.                         *)
EXTENDS CacheLogSystem, TLC

CONSTANTS t1, t2, f, a, b

MCLimit == {1, 3}

\* One writer per key, and one thread that flushes, fills and evicts.
OwnKeys == (t1 :> {a}) @@ (t2 :> {b}) @@ (f :> {})
LoopCalls == (t1 :> {}) @@ (t2 :> {}) @@ (f :> {"flush", "fill", "evict"})

\* The two writers may be exchanged, if their keys are too.
Exchange ==
  {p \in Permutations({t1, t2, a, b}) :
     {p[t1], p[t2]} = {t1, t2} /\ \A t \in {t1, t2} : OwnKeys[p[t]] = {p[k] : k \in OwnKeys[t]}}

ASSUME SystemCallers == OneWriterPerKey /\ NoCleanup /\ OneLoop
=============================================================================
