------------------------ MODULE MCCacheLogConformance ------------------------
(* The instance of CacheLogConformance that TLC checks.  No key is named   *)
(* anywhere, so states that differ in the names of keys only are one.      *)
EXTENDS CacheLogConformance, TLC

CONSTANTS a, b, c

MCLimit == {0, 1, 2}
MCValue == 0 .. MaxWrite - 1
MCSymmetry == Permutations(Key)
=============================================================================
