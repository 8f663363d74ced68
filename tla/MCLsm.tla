------------------------------- MODULE MCLsm -------------------------------
(* The LSM engine under crashes and failed writes, on a small instance.    *)
EXTENDS Lsm

CONSTANTS k1, k2, v1

MCKeys == {k1, k2}
MCValues == {v1}
\* Alone in a table, k1 sets the bit of k2 too: the filter of k1 passes k2,
\* which its table does not have, and the filter of k2 denies k1.
MCProbes(n, k) == IF k = k1 THEN {n, 0} ELSE {0}
=============================================================================
