---------------------------- MODULE MCAppendLog ----------------------------
(* The append log under crashes and failed writes, on a small instance.    *)
EXTENDS AppendLog

CONSTANTS k1, k2, v1, v2, f1

MCKeys == {k1, k2}
MCValues == {v1, v2}
MCInodes == {f1}
=============================================================================
