---------------------------- MODULE BTreeRewrite ----------------------------
(***************************************************************************)
(* The copy-on-write rewriting of put and delete in db-storage-btree.  A   *)
(* mutation is computed as a plan: the pages it writes, in the code's      *)
(* order, and the root it publishes, or an error after those writes.  The  *)
(* reads in between see committed pages and the mutation's own writes.     *)
(* Module BTreeShapes runs a plan at once, module BTree write by write.    *)
(***************************************************************************)
EXTENDS BTreePages

(* The rewriting state: the pages as rewritten so far, the reusable pages, *)
(* the committed page count, the writes, and what the last call returned:  *)
(* the page it committed, the stored key or value, the child references.   *)

\* reusable_pages after refresh_reusable_pages: committed and unreachable,
\* in ascending order.
MutPoolEmpty(refs, count) == << >>
Reusable(refs, count) ==
    LET free[n \in FirstPage - 1 .. count - 1] ==
            IF n = FirstPage - 1 THEN << >>
            ELSE IF n \in refs THEN free[n - 1] ELSE Append(free[n - 1], n)
    IN  free[count - 1]

Rewriting(pages, count, tree) ==
    [pages |-> pages, count |-> count, writes |-> << >>, err |-> ~tree.ok,
     pool |-> IF tree.ok THEN Reusable(tree.refs, count) ELSE << >>,
     id |-> 0, stored |-> Inline(Missing), refs |-> << >>]

\* refresh_reusable_pages
Start(pages, count, root) == Rewriting(pages, count, Tree(pages, count, root))

Fail(st) == [st EXCEPT !.err = TRUE]
Returns(st, refs) == [st EXCEPT !.refs = refs]
Adds(st, ref) == [st EXCEPT !.refs = Append(@, ref)]

\* prepare_tree_page: the page the i-th commit of the mutation takes, a
\* reusable one before a new one; and the page count after all of them.
Slot(st, i) ==
    IF i <= Len(st.pool) THEN st.pool[i] ELSE st.count + i - Len(st.pool) - 1
CountAfter(st) ==
    IF Len(st.writes) <= Len(st.pool) THEN st.count
    ELSE st.count + Len(st.writes) - Len(st.pool)

\* commit_tree_page, for some pages in a row.
Applied(pages, writes) ==
    [id \in DOMAIN pages \cup {writes[i].id : i \in DOMAIN writes} |->
        IF \E i \in DOMAIN writes : writes[i].id = id
        THEN writes[CHOOSE i \in DOMAIN writes : writes[i].id = id].page
        ELSE pages[id]]
CommitWrites(st, writes) ==
    [st EXCEPT !.pages = Applied(@, writes),
               !.writes = @ \o writes,
               !.id = writes[Len(writes)].id]
CommitAll(st, images) ==
    CommitWrites(st, [i \in 1 .. Len(images) |->
                        [id |-> Slot(st, Len(st.writes) + i), page |-> images[i]]])
Commit(st, page) == CommitAll(st, <<page>>)

\* commit_overflow_blob: the chain is written from its tail to its head.
Overflow(data, len, i, next) ==
    [kind |-> "overflow", data |-> data, part |-> i, len |-> ChunkSize(len, i), next |-> next]
Images(st, data, len) ==
    [i \in 1 .. Chunks(len) |->
        Overflow(data, len, Chunks(len) + 1 - i,
                 IF i = 1 THEN 0 ELSE Slot(st, Len(st.writes) + i - 1))]
Stores(st, datum) == [st EXCEPT !.stored = datum]
StoresChain(st, len) == Stores(st, [len |-> len, head |-> st.id])
StoreBlob(st, data, len) == StoresChain(CommitAll(st, Images(st, data, len)), len)

\* store_key and store_value: inline, or a blob of overflow pages.
Store(st, data, len, inline) ==
    IF st.err THEN st
    ELSE IF inline THEN Stores(st, Inline(data)) ELSE StoreBlob(st, data, len)

StoreKey(st, key) == Store(st, key, KeyLen[key], KeyLen[key] <= MaxInlineKey)

StoreValue(st, key, val) ==
    Store(st, val, ValLen[val],
          SlotLen + LeafHeaderLen + KeyPayload(KeyLen[key]) + ValLen[val] <= PageBody)

\* commit_leaf and commit_internal add the reference of the page they write
\* to what the call returns.
CommitNode(st, page, min) ==
    LET Referred(s) == Adds(s, [min |-> min, page |-> s.id])
    IN  Referred(Commit(st, page))

CommitLeaf(st, entries) ==
    IF st.err \/ ~Fits(LeafSizes(entries)) THEN Fail(st)
    ELSE CommitNode(st, [kind |-> "leaf", cells |-> entries], Decode(st.pages, entries[1].key))

\* Every separator is stored again, those of unchanged children too.
AddSeparator(acc, ref) ==
    LET With(s) == [st |-> s, cells |-> Append(acc.cells, [key |-> s.stored, child |-> ref.page])]
    IN  With(StoreKey(acc.st, ref.min))
Separators(st, refs) ==
    LET acc[i \in 0 .. Len(refs)] ==
            IF i = 0 THEN [st |-> st, cells |-> << >>] ELSE AddSeparator(acc[i - 1], refs[i])
    IN  acc[Len(refs)]

CommitInternal(st, refs) ==
    LET Node(acc) == CommitNode(acc.st, [kind |-> "internal", cells |-> acc.cells], refs[1].min)
    IN  IF st.err \/ ~Fits(InternalSizes(refs)) THEN Fail(st) ELSE Node(Separators(st, refs))

\* commit_leaf_level, commit_internal_level, rebalance_leaf_pair and
\* rebalance_internal_pair: one page if everything fits, else two, else none.
FirstOf(items, at) == SubSeq(items, 1, at)
RestOf(items, at) == SubSeq(items, at + 1, Len(items))
LeafLevel(st, entries) ==
    LET Two(at) == IF at = 0 THEN Fail(st)
                   ELSE CommitLeaf(CommitLeaf(Returns(st, << >>), FirstOf(entries, at)),
                                   RestOf(entries, at))
    IN  IF Fits(LeafSizes(entries)) THEN CommitLeaf(Returns(st, << >>), entries)
        ELSE Two(ChooseSplit(LeafSizes(entries), 1))
InternalLevel(st, refs, fewest) ==
    LET Two(at) == IF at = 0 THEN Fail(st)
                   ELSE CommitInternal(CommitInternal(Returns(st, << >>), FirstOf(refs, at)),
                                       RestOf(refs, at))
    IN  IF Fits(InternalSizes(refs)) THEN CommitInternal(Returns(st, << >>), refs)
        ELSE Two(ChooseSplit(InternalSizes(refs), fewest))
-----------------------------------------------------------------------------
\* binary_search: how many entries of a leaf are below the key, and whether
\* the next one has it; put inserts or replaces there, delete removes.
Below(rows, key) == Max({0} \cup {i \in DOMAIN rows : rows[i].key < key})
Holds(rows, i, key) == i <= Len(rows) /\ rows[i].key = key
Upsert(entries, rows, new, key) ==
    LET At(b) == Splice(entries, b + 1, IF Holds(rows, b + 1, key) THEN b + 1 ELSE b, <<new>>)
    IN  At(Below(rows, key))
Removed(entries, rows, key) ==
    LET At(b) == Splice(entries, b + 1, b + 1, << >>) IN At(Below(rows, key))

\* rewrite_insert, one page, given what it does below.
InsertAt(st, id, new, key, below) ==
    LET Above(s, refs, i) == IF s.err THEN s ELSE InternalLevel(s, Splice(refs, i, i, s.refs), 1)
        Into(refs, i) == Above(below[refs[i].page], refs, i)
        Down(refs) == Into(refs, Route(refs, key))
    IN  IF st.pages[id].kind = "leaf"
        THEN LeafLevel(st, Upsert(st.pages[id].cells, Rows(st.pages, st.pages[id].cells),
                                  new, key))
        ELSE Down(Children(st.pages, id))
Insert(st, root, new, key) ==
    LET insert[d \in 0 .. MaxTreeHeight] ==
            [id \in Nat |-> IF d = 0 THEN Fail(st) ELSE InsertAt(st, id, new, key, insert[d - 1])]
    IN  IF st.err THEN st ELSE insert[MaxTreeHeight][root]

\* page_is_underfull
MutUnderfullByBytes(pages, id) ==
    pages[id].kind = "leaf" /\ Total(LeafSizes(pages[id].cells)) < MinPageFill
Underfull(pages, id) ==
    IF pages[id].kind = "leaf" THEN Total(LeafSizes(pages[id].cells)) < MinPageFill
    ELSE \/ Len(pages[id].cells) < 2
         \/ Total(InternalSizes(Children(pages, id))) < MinPageFill

\* rebalance_after_delete: the affected child, if underfull, is combined with
\* a neighbour; returns the children to keep.
Combine(st, l, r) ==
    IF st.pages[l].kind = "leaf" THEN LeafLevel(st, st.pages[l].cells \o st.pages[r].cells)
    ELSE InternalLevel(st, Children(st.pages, l) \o Children(st.pages, r), 2)

Rebalance(st, refs, affected) ==
    LET left == IF affected > 1 THEN affected - 1 ELSE 1
        Spliced(s) == Returns(s, Splice(refs, left, left + 1, s.refs))
    IN  IF Len(refs) < 2 \/ ~Underfull(st.pages, refs[affected].page) THEN Returns(st, refs)
        ELSE Spliced(Combine(st, refs[left].page, refs[left + 1].page))

\* rewrite_delete, one page, given what it does below: it returns no
\* reference when the subtree became empty.
DeleteAt(st, id, key, below) ==
    LET Leaf(rows, rest) ==
            IF ~Holds(rows, Below(rows, key) + 1, key) THEN Fail(st)
            ELSE IF rest = << >> THEN Returns(st, << >>)
            ELSE CommitLeaf(Returns(st, << >>), rest)
        Entries(cells, rows) == Leaf(rows, Removed(cells, rows, key))
        Parent(s) == IF s.err THEN s ELSE CommitInternal(Returns(s, << >>), s.refs)
        Above(s, kids, i) == IF s.err \/ kids = << >> THEN Returns(s, << >>)
                             ELSE Parent(Rebalance(s, kids, IF i <= Len(kids) THEN i ELSE Len(kids)))
        Back(s, refs, i) == Above(s, Splice(refs, i, i, s.refs), i)
        From(refs, i) == Back(below[refs[i].page], refs, i)
        Down(refs) == From(refs, Route(refs, key))
    IN  IF st.pages[id].kind = "leaf"
        THEN Entries(st.pages[id].cells, Rows(st.pages, st.pages[id].cells))
        ELSE Down(Children(st.pages, id))
Delete(st, root, key) ==
    LET delete[d \in 0 .. MaxTreeHeight] ==
            [id \in Nat |-> IF d = 0 THEN Fail(st) ELSE DeleteAt(st, id, key, delete[d - 1])]
    IN  delete[MaxTreeHeight][root]

\* The root of a delete: an internal page with one child gives way to it.
OnlyChild(pages, id) ==
    IF pages[id].kind = "internal" /\ Len(pages[id].cells) = 1
    THEN pages[id].cells[1].child ELSE id
Contract(pages, id) ==
    LET top[d \in 0 .. MaxTreeHeight] == IF d = 0 THEN id ELSE OnlyChild(pages, top[d - 1])
    IN  top[MaxTreeHeight]
-----------------------------------------------------------------------------
Planned(st, root) == [st |-> st, root |-> root]

\* put: the key and the value are stored before the path is rewritten; two
\* pages at the top get a new root above them.
PlanPut(st0, root, key, val) ==
    LET Top(s) == IF s.err \/ Len(s.refs) = 1 THEN s
                  ELSE CommitInternal(Returns(s, << >>), s.refs)
        Rooted(s) == Planned(s, IF s.err THEN root ELSE s.refs[1].page)
        Path(s, new) == IF root = RootNone THEN CommitLeaf(s, <<new>>)
                        ELSE Insert(s, root, new, key)
        Value(s, k) == Path(s, [key |-> k, val |-> s.stored])
        Key(s) == Value(StoreValue(s, key, val), s.stored)
    IN  IF st0.err THEN Planned(st0, root) ELSE Rooted(Top(Key(StoreKey(st0, key))))

\* delete of a key the lookup found
PlanDelete(st0, root, key) ==
    LET Rooted(s) == Planned(s, IF s.err THEN root
                                ELSE IF s.refs = << >> THEN RootNone
                                ELSE Contract(s.pages, s.refs[1].page))
    IN  IF st0.err THEN Planned(st0, root) ELSE Rooted(Delete(st0, root, key))

PlanFrom(st, root, op) ==
    IF op.val = Missing THEN PlanDelete(st, root, op.key)
    ELSE PlanPut(st, root, op.key, op.val)
Plan(pages, count, root, op) == PlanFrom(Start(pages, count, root), root, op)
=============================================================================
