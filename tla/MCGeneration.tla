---------------------------- MODULE MCGeneration ----------------------------
EXTENDS GenerationEngine

CONSTANTS r1, t1, t2

OneRouterOneTool == {r1, t1}
OneRouterTwoTools == {r1, t1, t2}
Router == {r1}
OneTool == {t1}
TwoTools == {t1, t2}
ToolSymmetry == Permutations(TwoTools)

\* Until something fails two calls overlap.  After that calls follow one
\* another: one goes on beside those that are leaving.
InCall == {p \in Procs : op[p] # NoOp}
FewOverlap ==
    IF faults > 0 THEN Cardinality({p \in InCall : op[p].at # "leave"}) <= 1
    ELSE Cardinality(InCall) <= 2

MCSpec == Init /\ [][Next /\ FewOverlap']_vars
=============================================================================
