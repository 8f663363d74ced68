------------------------------ MODULE MCBTree ------------------------------
(* The B+ tree executed write by write, with faults.                       *)
EXTENDS BTree

CONSTANT v1

\* Two entries do not fit one leaf, and the second key takes a chain
\* of two overflow pages in its leaf and another one as a separator.
MCKeys == {1, 2}
MCValues == {v1}
MCKeyLen == [k \in MCKeys |-> IF k = 1 THEN 1000 ELSE 4090]
MCValLen == [v \in MCValues |-> 1600]
=============================================================================
