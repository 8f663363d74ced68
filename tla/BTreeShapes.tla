---------------------------- MODULE BTreeShapes ----------------------------
(***************************************************************************)
(* The B+ tree between faults: every sequence of put and delete calls, of  *)
(* any length, each run to its return.  Superblocks and single writes are  *)
(* in module BTree; here the pages a mutation leaves outside its root are  *)
(* dropped as soon as it returns, which is what refresh_reusable_pages     *)
(* makes of them before the next mutation.                                 *)
(***************************************************************************)
EXTENDS BTreeRewrite

CONSTANTS
    PeakPages,    \* bound: the most data pages the file may grow to
    ScanLimits    \* the limits range_scan is called with

ASSUME LimitsAreNumbers == ScanLimits \subseteq Nat

VARIABLES
    pages,   \* the pages reachable from the root
    count,   \* page_count of the active superblock
    root,    \* root_page_id of the active superblock
    store    \* ghost: the map of acknowledged mutations

vars == <<pages, count, root, store>>

Init ==
    /\ pages = << >>
    /\ count = FirstPage
    /\ root = RootNone
    /\ store = EmptyMap

\* The pages a root reaches, whether or not they form a valid tree.
Reached(p, id) ==
    LET reached[d \in 0 .. MaxTreeHeight + 1] ==
            [q \in Nat |->
                IF d = 0 THEN {} ELSE
                {q} \cup UNION {IF p[q].kind = "leaf" THEN EntryPages(p, c)
                                ELSE ChainPages(p, c.key) \cup reached[d - 1][c.child] :
                                    c \in Range(p[q].cells)}]
    IN  reached[MaxTreeHeight + 1][id]

Keep(p, r) == Restrict(p, IF r = RootNone THEN {} ELSE Reached(p, r))

Due(op) == op.val = Missing => Lookup(pages, root, op.key) # Missing

\* put, and delete of a present key: rewrite, then publish the new root.
Publish(op, plan) ==
    /\ ~plan.st.err
    /\ root' = plan.root
    /\ count' = CountAfter(plan.st)
    /\ pages' = Keep(plan.st.pages, plan.root)
    /\ store' = Effect(store, op)

\* The rewriting ends in an error: what it wrote stays outside the root.
Refuse(plan) ==
    /\ plan.st.err
    /\ count' = CountAfter(plan.st)
    /\ UNCHANGED <<pages, root, store>>

Mutate(op) ==
    /\ Due(op)
    /\ \E plan \in {Plan(pages, count, root, op)} : Publish(op, plan) \/ Refuse(plan)

Next == \E op \in Op : Mutate(op)

Spec == Init /\ [][Next]_vars
-----------------------------------------------------------------------------
\* What a mutation publishes (rewrite_insert, rewrite_delete) is a tree that
\* validate_reachable_tree accepts at the next mutation and at every open,
\* and its rows are the acknowledged map.
TreeHoldsStore ==
    LET t == Tree(pages, count, root)
    IN  t.ok /\ RowsMap(t.rows) = store

\* get and range_scan, which route by separators and stop early, return what
\* the ordered map returns, for all bounds and every limit in ScanLimits.
Wanted(start, end, limit) ==
    LET rows[k \in start .. end] ==
            IF k = start THEN << >>
            ELSE IF (k - 1) \notin Keys \/ Len(rows[k - 1]) >= limit THEN rows[k - 1]
            ELSE IF store[k - 1] = Missing THEN rows[k - 1]
            ELSE Append(rows[k - 1], [key |-> k - 1, val |-> store[k - 1]])
    IN  rows[end]

ReadsAgree ==
    LET bounds == Keys \cup {k + 1 : k \in Keys}
    IN  /\ \A k \in Keys : Lookup(pages, root, k) = store[k]
        /\ \A start \in bounds, end \in bounds, limit \in ScanLimits :
              start < end =>
                  RangeScan(pages, root, start, end, limit) = Wanted(start, end, limit)

\* docs/btree-page-format.md, Internal cells: a reachable internal page, as
\* commit_internal_level and rebalance_internal_pair leave it, has at least
\* two children; validate_subtree refuses the whole tree otherwise.
InternalPagesHaveTwoChildren ==
    \A id \in DOMAIN pages : pages[id].kind = "internal" => Len(pages[id].cells) >= 2

\* No sequence of mutations, refused ones included, grows the file beyond
\* what the largest tree and one rewriting of it need (reuse.rs).
SpaceBounded == count - FirstPage <= PeakPages
=============================================================================
