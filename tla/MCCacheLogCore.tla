--------------------------- MODULE MCCacheLogCore ---------------------------
(* The instance of CacheLogCore that TLC checks: one write and one cache   *)
(* insertion more than ModelConfig::tla_small's per key would need, keys   *)
(* and values as model values.                                             *)
EXTENDS CacheLogComparable

CONSTANTS k1, k2, v1, v2, none

MCKey == {k1, k2}
MCValue == {v1, v2}
=============================================================================
