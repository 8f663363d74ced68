--------------------------- MODULE MCBTreeShapes ---------------------------
(* Small trees whose key and value lengths bring out splits, merges,       *)
(* redistribution, three levels, overflow and refusals.                     *)
EXTENDS BTreeShapes

CONSTANTS v1, v2, v3

VARIABLE load   \* which keys and values this behaviour uses

\* Two entries of a deep tree fill a leaf and three children an internal
\* page, so its five keys make three levels.  Of the mixed keys, the longer
\* value overflows beside the second and not beside the others; an entry that
\* needs most of a leaf may arrive between two that share one, and is refused
\* after its value has been written.
BothKeys == 1 .. 7
DeepKeys == 2 .. 6
BothKeyLen == [k \in BothKeys |-> IF k \in DeepKeys THEN 1000 ELSE 10]
BothValues == {v1, v2, v3}
BothValLen == [v \in BothValues |-> CASE v = v1 -> 1000
                                      [] v = v2 -> 2000
                                      [] v = v3 -> 3100]

\* A deep tree is overwritten at its first and its middle key only.
Load == [deep  |-> [keys |-> DeepKeys, vals |-> {v1}, again |-> {2, 4}],
         mixed |-> [keys |-> {1, 4, 7}, vals |-> {v2, v3}, again |-> BothKeys]]

MCInit == Init /\ load \in DOMAIN Load
MCNext ==
    /\ \E k \in Load[load].keys, v \in Load[load].vals \cup {Missing} :
          /\ v = Missing \/ store[k] = Missing \/ k \in Load[load].again
          /\ Mutate([key |-> k, val |-> v])
    /\ UNCHANGED load
MCSpec == MCInit /\ [][MCNext]_<<vars, load>>

\* Two separators fit an internal page, three do not.
ThreeKeys == 1 .. 3
OneValue == {v1}
LongKeyLen == [k \in ThreeKeys |-> 1500]
ValLen2000 == [v \in OneValue |-> 2000]
LongSpec == Init /\ load = "long" /\ [][Next /\ UNCHANGED load]_<<vars, load>>
=============================================================================
