---------------------- MODULE MCAppendLogInterference ----------------------
(* The append log beside an uncoordinated process, on a small instance.    *)
EXTENDS AppendLogInterference, TLC

CONSTANTS k1, v1, f1, f2

MCKeys == {k1}
MCValues == {v1}
MCInodes == {f1, f2}
Symmetry == Permutations(MCInodes)
=============================================================================
