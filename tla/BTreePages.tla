----------------------------- MODULE BTreePages -----------------------------
(***************************************************************************)
(* The page structures of db-storage-btree and the algorithms that read    *)
(* them: decoding, validation of the reachable tree, lookup, range scan,   *)
(* and where an overfull page splits.                                      *)
(*                                                                         *)
(* Sizes are the code's own, in bytes; what is abstracted is the content.  *)
(* A key is a number (its place in byte order) with a length, a value is a *)
(* model value with a length, and a page that fails its checksum is Torn.  *)
(***************************************************************************)
EXTENDS Integers, Sequences, FiniteSets, Functions, FiniteSetsExt, KvData

CONSTANTS
    Torn,            \* a page that fails validation, or bytes that decode to no datum
    KeyLen, ValLen,  \* length in bytes of each key and of each value
    MaxTreeHeight    \* MAX_TREE_HEIGHT

ASSUME KeysAreOrdered == Keys \subseteq Nat
MaxKeyBytes == 4096
MaxValueBytes == 1048576

ASSUME KeyLengths == KeyLen \in [Keys -> 0 .. MaxKeyBytes]
ASSUME ValueLengths == ValLen \in [Values -> 0 .. MaxValueBytes]
ASSUME TornIsNoDatum == Torn \notin Keys \cup Values
ASSUME HeightIsPositive == MaxTreeHeight \in Nat \ {0}

SlotLen == 4
LeafHeaderLen == 6
InternalHeaderLen == 10
RefLen == 8
PageBody == 4096 - 4 - 40
MinPageFill == PageBody \div 2
MaxInlineKey == PageBody - SlotLen - LeafHeaderLen - RefLen
ChunkLen == PageBody - SlotLen
FirstPage == 2      \* SUPERBLOCK_COUNT
RootNone == 0

\* The bytes of the first cells, by their number, and of all.
Prefix(sizes) ==
    LET sum[i \in 0 .. Len(sizes)] == IF i = 0 THEN 0 ELSE sum[i - 1] + sizes[i]
    IN  sum
Total(sizes) == Prefix(sizes)[Len(sizes)]
Splice(s, i, j, t) == SubSeq(s, 1, i - 1) \o t \o SubSeq(s, j + 1, Len(s))
-----------------------------------------------------------------------------
(* Stored data: inline, or the head of a chain of overflow pages.  A page  *)
(* is a leaf, an internal page or a part of a datum.                       *)

Inline(d) == [data |-> d, head |-> 0]
Stored(data) == [data : data, head : {0}] \cup [len : Nat \ {0}, head : Nat \ {0}]
Page ==
    [kind : {"leaf"}, cells : Seq([key : Stored(Keys), val : Stored(Values)])]
        \cup [kind : {"internal"}, cells : Seq([key : Stored(Keys), child : Nat])]
        \cup [kind : {"overflow"}, data : Keys \cup Values, part : Nat, len : Nat, next : Nat]

ASSUME TornIsNoPage == Torn \notin Page

Chunks(len) == (len + ChunkLen - 1) \div ChunkLen
ChunkSize(len, i) == IF i = 1 THEN len - (Chunks(len) - 1) * ChunkLen ELSE ChunkLen

IsPage(pages, id, kind) ==
    id \in DOMAIN pages /\ pages[id] # Torn /\ pages[id].kind = kind

\* The pages of an overflow chain, as far as it goes.
Chain(pages, s) ==
    LET c[i \in 1 .. Chunks(s.len)] ==
            IF i = 1 THEN s.head
            ELSE IF IsPage(pages, c[i - 1], "overflow") THEN pages[c[i - 1]].next ELSE 0
    IN  c

ChainPages(pages, s) == IF s.head = 0 THEN {} ELSE Range(Chain(pages, s))

\* read_overflow_blob on the chain c: the datum its bytes are, Torn when the
\* chain is refused or its bytes are those of no one datum.
ReadChain(pages, len, c) ==
    IF /\ \A i \in DOMAIN c : IsPage(pages, c[i], "overflow")
       /\ IsInjective(c)
       /\ \A i \in DOMAIN c : pages[c[i]].len = ChunkSize(len, i)
       /\ pages[c[Chunks(len)]].next = 0
       /\ \A i \in DOMAIN c : pages[c[i]].data = pages[c[1]].data /\ pages[c[i]].part = i
    THEN pages[c[1]].data ELSE Torn

Decode(pages, s) ==
    IF s.head = 0 THEN s.data ELSE ReadChain(pages, s.len, Chain(pages, s))
-----------------------------------------------------------------------------
(* Cells.                                                                  *)

KeyPayload(len) == IF len > MaxInlineKey THEN RefLen ELSE len
ValPayload(s) == IF s.head = 0 THEN ValLen[s.data] ELSE RefLen
KeyLenOf(s) == IF s.head = 0 THEN KeyLen[s.data] ELSE s.len

LeafCellSize(e) == SlotLen + LeafHeaderLen + KeyPayload(KeyLenOf(e.key)) + ValPayload(e.val)
InternalCellSize(ref) == SlotLen + InternalHeaderLen + KeyPayload(KeyLen[ref.min])

LeafSizes(entries) == [i \in DOMAIN entries |-> LeafCellSize(entries[i])]
InternalSizes(refs) == [i \in DOMAIN refs |-> InternalCellSize(refs[i])]

\* cells_fit
Fits(sizes) == Total(sizes) <= PageBody

\* choose_split (at least one cell on each side) and
\* choose_internal_rebalance_split (at least two): the first most balanced
\* division into two pages, 0 if there is none.
Gap(a, b) == IF a > b THEN a - b ELSE b - a
MostBalanced(left, total, fit) ==
    IF fit = {} THEN 0
    ELSE Min({i \in fit : \A j \in fit :
                 Gap(left[i], total - left[i]) <= Gap(left[j], total - left[j])})
SplitAt(left, total, cells, fewest) ==
    MostBalanced(left, total,
        {i \in fewest .. cells - fewest : left[i] <= PageBody /\ total - left[i] <= PageBody})
ChooseSplit(sizes, fewest) == SplitAt(Prefix(sizes), Total(sizes), Len(sizes), fewest)

\* decode_leaf and decode_internal
Row(pages, e) == [key |-> Decode(pages, e.key), val |-> Decode(pages, e.val)]
Rows(pages, cells) == [i \in DOMAIN cells |-> Row(pages, cells[i])]
Children(pages, id) ==
    [i \in DOMAIN pages[id].cells |->
        [min |-> Decode(pages, pages[id].cells[i].key), page |-> pages[id].cells[i].child]]

\* route_child: the last child whose minimum is not above the key.
Route(refs, key) == Max({1} \cup {i \in DOMAIN refs : refs[i].min <= key})
-----------------------------------------------------------------------------
(* validate_subtree: the bounds and the height of a subtree, its rows and  *)
(* the pages it refers to, each of them once.                              *)

Invalid == [ok |-> FALSE]
Summary(rows, min, max, height, refs) ==
    [ok |-> TRUE, rows |-> rows, min |-> min, max |-> max, height |-> height, refs |-> refs]

\* seen: a page claims itself, and each of its cells claims some pages.
ClaimedOnce(id, claims) ==
    /\ \A i \in DOMAIN claims : id \notin claims[i]
    /\ \A i, j \in DOMAIN claims : i # j => claims[i] \cap claims[j] = {}
Claimed(id, claims) == {id} \cup UNION Range(claims)

EntryReads(pages, e) ==
    /\ Decode(pages, e.key) # Torn /\ Decode(pages, e.val) # Torn
    /\ ChainPages(pages, e.key) \cap ChainPages(pages, e.val) = {}
EntryPages(pages, e) == ChainPages(pages, e.key) \cup ChainPages(pages, e.val)

LeafTree(pages, id, cells, rows, claims) ==
    IF /\ cells # << >>
       /\ \A i \in DOMAIN cells : EntryReads(pages, cells[i])
       /\ \A i, j \in DOMAIN rows : i < j => rows[i].key < rows[j].key
       /\ ClaimedOnce(id, claims)
    THEN Summary(Range(rows), rows[1].key, rows[Len(cells)].key, 1, Claimed(id, claims))
    ELSE Invalid

InternalTree(id, refs, kids, chains, claims) ==
    IF /\ Len(refs) >= 2
       /\ \A i \in DOMAIN kids : /\ kids[i].ok
                                 /\ kids[i].min = refs[i].min
                                 /\ kids[i].height = kids[1].height
                                 /\ chains[i] \cap kids[i].refs = {}
       /\ \A i, j \in DOMAIN kids : i < j => kids[i].max < kids[j].min
       /\ ClaimedOnce(id, claims)
    THEN Summary(UNION {kids[i].rows : i \in DOMAIN kids}, kids[1].min, kids[Len(refs)].max,
                 kids[1].height + 1, Claimed(id, claims))
    ELSE Invalid

\* One page, given what is below it.
PageTree(pages, id, below) ==
    LET cells == pages[id].cells
        Over(refs, kids, chains) ==
            InternalTree(id, refs, kids, chains,
                         [i \in DOMAIN refs |-> chains[i] \cup kids[i].refs])
    IN  IF IsPage(pages, id, "leaf")
        THEN LeafTree(pages, id, cells, Rows(pages, cells),
                      [i \in DOMAIN cells |-> EntryPages(pages, cells[i])])
        ELSE IF IsPage(pages, id, "internal")
        THEN Over(Children(pages, id),
                  [i \in DOMAIN cells |-> below[cells[i].child]],
                  [i \in DOMAIN cells |-> ChainPages(pages, cells[i].key)])
        ELSE Invalid

Subtree(pages, id, depth) ==
    LET tree[d \in 0 .. depth] ==
            [p \in Nat |-> IF d = 0 THEN Invalid ELSE PageTree(pages, p, tree[d - 1])]
    IN  tree[depth][id]

\* validate_reachable_tree: no page lies outside the committed range.
Committed(pages, count) == Restrict(pages, {id \in DOMAIN pages : id < count})
Tree(pages, count, root) ==
    IF root = RootNone THEN [ok |-> TRUE, rows |-> {}, height |-> 0, refs |-> {}]
    ELSE Subtree(Committed(pages, count), root, MaxTreeHeight)

RowsMap(rows) ==
    [k \in Keys |-> IF \E r \in rows : r.key = k
                    THEN (CHOOSE r \in rows : r.key = k).val ELSE Missing]
-----------------------------------------------------------------------------
(* get and range_scan.                                                     *)

\* Torn: the tree is deeper than the height limit.
LookupAt(pages, id, key, below) ==
    LET Down(refs) == below[refs[Route(refs, key)].page]
    IN  IF pages[id].kind = "leaf"
        THEN RowsMap(Range(Rows(pages, pages[id].cells)))[key]
        ELSE Down(Children(pages, id))

Lookup(pages, root, key) ==
    LET found[d \in 0 .. MaxTreeHeight] ==
            [p \in Nat |-> IF d = 0 THEN Torn ELSE LookupAt(pages, p, key, found[d - 1])]
    IN  IF root = RootNone THEN Missing ELSE found[MaxTreeHeight][root]

\* A child is skipped when the next one still starts at or below start.
MutSkipEager(refs, i, start) == i < Len(refs) /\ refs[i].min <= start
SkipChild(refs, i, start) == i < Len(refs) /\ refs[i + 1].min <= start

\* scan_subtree: rows in [start, end) until limit, `stop` ends the walk.
Collected == [rows : Seq([key : Keys, val : Values]), stop : BOOLEAN]
VisitRow(acc, row, start, end, limit) ==
    IF acc.stop \/ row.key < start THEN acc
    ELSE IF row.key >= end THEN [acc EXCEPT !.stop = TRUE]
    ELSE [rows |-> Append(acc.rows, row), stop |-> Len(acc.rows) + 1 >= limit]
VisitLeaf(acc, rows, start, end, limit) ==
    LET seen[i \in 0 .. Len(rows)] ==
            IF i = 0 THEN acc ELSE VisitRow(seen[i - 1], rows[i], start, end, limit)
    IN  seen[Len(rows)]

VisitChild(acc, refs, i, start, end, below) ==
    IF acc.stop \/ SkipChild(refs, i, start) THEN acc
    ELSE IF refs[i].min >= end THEN [acc EXCEPT !.stop = TRUE]
    ELSE below[<<refs[i].page, acc>>]
VisitChildren(acc, refs, start, end, below) ==
    LET seen[i \in 0 .. Len(refs)] ==
            IF i = 0 THEN acc ELSE VisitChild(seen[i - 1], refs, i, start, end, below)
    IN  seen[Len(refs)]

ScanAt(pages, id, acc, start, end, limit, below) ==
    IF pages[id].kind = "leaf"
    THEN VisitLeaf(acc, Rows(pages, pages[id].cells), start, end, limit)
    ELSE VisitChildren(acc, Children(pages, id), start, end, below)

RangeScan(pages, root, start, end, limit) ==
    LET scan[d \in 0 .. MaxTreeHeight] ==
            [x \in Nat \X Collected |->
                IF d = 0 THEN x[2]
                ELSE ScanAt(pages, x[1], x[2], start, end, limit, scan[d - 1])]
    IN  IF limit = 0 \/ end = start \/ root = RootNone THEN << >>
        ELSE scan[MaxTreeHeight][<<root, [rows |-> << >>, stop |-> FALSE]>>].rows
=============================================================================
