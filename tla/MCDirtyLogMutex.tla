--------------------------- MODULE MCDirtyLogMutex --------------------------
(* The instance of DirtyLogMutex that TLC checks.                          *)
EXTENDS DirtyLogMutex

CONSTANTS w1, w2, f1, f2

MCLimit == {0, 1, 2}
=============================================================================
