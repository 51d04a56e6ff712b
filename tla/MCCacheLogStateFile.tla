------------------------- MODULE MCCacheLogStateFile -------------------------
(* The instance of CacheLogStateFile that TLC checks: one write and one    *)
(* cache id are enough for the contract to fail.                           *)
EXTENDS CacheLogStateFile

CONSTANTS k1, k2, v1, none
=============================================================================
