----------------------------- MODULE MCDirtyLog -----------------------------
(* The instances of DirtyLog that TLC checks.                              *)
EXTENDS DirtyLog

CONSTANTS w1, w2, f1, f2, o1

MCLimit == {0, 1, 2}
PositiveLimit == {1, 2}
=============================================================================
