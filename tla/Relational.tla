---------------------------- MODULE Relational ----------------------------
(***************************************************************************)
(* The relational layer and its queries, as operators.  One table with an  *)
(* integer primary key and one integer column is a function from keys to   *)
(* cells; Text is a cell of the other type, which every check refuses.     *)
(* The key-value transaction engines use the same functions: there a cell  *)
(* is a value and Text one that validate_key_value refuses.                *)
(***************************************************************************)
EXTENDS Integers, Sequences, SequencesExt, FiniteSets

CONSTANTS Keys,     \* primary keys
          Vals,     \* cells of the second column
          Text,     \* a cell whose type does not fit
          MaxOps,   \* MAX_OPS, MAX_BATCH_MUTATIONS
          All,      \* Projection::All
          NoTable,  \* the table has not been created
          Refused   \* InvalidInput

ASSUME CellsAreNumbers == Keys \subseteq Nat /\ Vals \subseteq Nat \ {0}
ASSUME KeysAreFinite == IsFiniteSet(Keys)
ASSUME RefusedIsNoProjection == Refused # <<1, 2>>

Absent == 0
EmptyTable == [k \in Keys |-> Absent]
Tables == [Keys -> Vals \cup {Absent}]

Create == [kind |-> "create"]
Upsert(k, v) == [kind |-> "upsert", key |-> k, val |-> v]
Delete(k) == [kind |-> "delete", key |-> k]
Operation ==
    {Create} \cup {Delete(k) : k \in Keys}
             \cup {Upsert(k, v) : k \in Keys, v \in Vals \cup {Text}}

MutTypesUnchecked(t, o) ==
    CASE t = Refused -> Refused
      [] t # Refused /\ o.kind = "create" ->
            IF t = NoTable THEN EmptyTable ELSE Refused
      [] t # Refused /\ o.kind # "create" /\ t = NoTable -> Refused
      [] t \notin {Refused, NoTable} /\ o.kind = "upsert" ->
            [t EXCEPT ![o.key] = o.val]
      [] t \notin {Refused, NoTable} /\ o.kind = "delete" ->
            [t EXCEPT ![o.key] = Absent]

\* One operation on the candidate state; an error abandons the candidate.
ApplyOp(t, o) ==
    CASE t = Refused -> Refused
      [] t # Refused /\ o.kind = "create" ->
            IF t = NoTable THEN EmptyTable ELSE Refused
      [] t # Refused /\ o.kind # "create" /\ t = NoTable -> Refused
      [] t \notin {Refused, NoTable} /\ o.kind = "upsert" ->
            IF o.val = Text THEN Refused ELSE [t EXCEPT ![o.key] = o.val]
      [] t \notin {Refused, NoTable} /\ o.kind = "delete" ->
            [t EXCEPT ![o.key] = Absent]

ApplyOps(t, ops) ==
    LET after[i \in 0 .. Len(ops)] ==
            IF i = 0 THEN t ELSE ApplyOp(after[i - 1], ops[i])
    IN  after[Len(ops)]

\* The checks commit makes before it encodes the transaction.
Candidate(t, ops) ==
    IF ops = << >> \/ Len(ops) > MaxOps THEN Refused ELSE ApplyOps(t, ops)

\* touched_rows
Touched(ops) == {ops[i].key : i \in {j \in DOMAIN ops : ops[j].kind # "create"}}
-----------------------------------------------------------------------------
\* Queries.  A row is the sequence of its cells; column 1 is the primary key.
Columns == 1 .. 2

\* A set of rows in primary-key order.
InKeyOrder(set) ==
    CHOOSE s \in [1 .. Cardinality(set) -> set] :
        /\ \A i, j \in DOMAIN s : i < j => s[i][1] <= s[j][1]
        /\ \A r \in set : \E i \in DOMAIN s : s[i] = r

\* The rows of a sequence that are wanted, in their order.
Filtered(rows, wanted) ==
    LET kept[i \in 0 .. Len(rows)] ==
            IF i = 0 THEN << >>
            ELSE IF rows[i] \in wanted THEN Append(kept[i - 1], rows[i])
            ELSE kept[i - 1]
    IN  kept[Len(rows)]

\* rows: the table's, in primary-key order.
LiveRows(t) == {<<k, t[k]>> : k \in {j \in Keys : t[j] # Absent}}
RowsOf(t) == InKeyOrder(LiveRows(t))

\* resolve_projection: every column, or the named ones if there are any, all
\* known and none twice.
ResolveProjection(proj) ==
    CASE proj = All -> <<1, 2>>
      [] proj # All /\ (proj = << >> \/ ~IsInjective(proj)
                           \/ \E i \in DOMAIN proj : proj[i] \notin Columns) ->
            Refused
      [] OTHER -> proj

ProjectRow(row, proj) == [i \in DOMAIN proj |-> row[proj[i]]]

\* ComparePredicate: a column, an operator and a literal.
Condition ==
    [column : Nat, op : {"eq", "lt", "le", "gt", "ge"}, value : Nat \cup {Text}]

\* resolve_predicate: a known column and a literal of its type.
Resolves(p) == p.column \in Columns /\ p.value # Text

\* matches_predicate
Matches(cell, p) ==
    CASE p.op = "eq" -> cell = p.value
      [] p.op = "lt" -> cell < p.value
      [] p.op = "le" -> cell <= p.value
      [] p.op = "gt" -> cell > p.value
      [] p.op = "ge" -> cell >= p.value

Projected(rows, proj) == [i \in DOMAIN rows |-> ProjectRow(rows[i], proj)]

Prepares(ps, proj) ==
    /\ ps # << >>
    /\ ResolveProjection(proj) # Refused
    /\ \A i \in DOMAIN ps : Resolves(ps[i])

MeetsAll(r, ps) == \A i \in DOMAIN ps : Matches(r[ps[i].column], ps[i])
MeetsAny(r, ps) == \E i \in DOMAIN ps : Matches(r[ps[i].column], ps[i])

\* query::execute with a predicate, and the scans behind AND and OR.
ScanAll(t, ps, proj) ==
    IF ~Prepares(ps, proj) THEN Refused
    ELSE Projected(Filtered(RowsOf(t), {r \in LiveRows(t) : MeetsAll(r, ps)}),
                   ResolveProjection(proj))

ScanAny(t, ps, proj) ==
    IF ~Prepares(ps, proj) THEN Refused
    ELSE Projected(Filtered(RowsOf(t), {r \in LiveRows(t) : MeetsAny(r, ps)}),
                   ResolveProjection(proj))

Scan(t, p, proj) == ScanAll(t, <<p>>, proj)
-----------------------------------------------------------------------------
\* MaterializedIndex::build and SecondaryIndex::build: the rows of every
\* value of the column.
BuildIndex(t, column) ==
    [c \in {r[column] : r \in LiveRows(t)} |->
        Filtered(RowsOf(t), {r \in LiveRows(t) : r[column] = c})]

\* matching_rows: the entries whose key matches, back in primary-key order.
MatchingRows(index, p) ==
    InKeyOrder(UNION {ToSet(index[c]) : c \in {k \in DOMAIN index : Matches(k, p)}})

\* execute_compare of either kind of index.
ExecuteCompare(index, p, proj) ==
    IF p.value = Text \/ ResolveProjection(proj) = Refused THEN Refused
    ELSE Projected(MatchingRows(index, p), ResolveProjection(proj))

\* MaintainedIndexEngine::execute and IndexedQueryExecutor::execute: through
\* the index on the predicate's column, if there is one.
Execute(t, indexes, p, proj) ==
    IF p.column \in DOMAIN indexes
    THEN ExecuteCompare(indexes[p.column], p, proj)
    ELSE Scan(t, p, proj)

\* execute_conjunctive: the first indexed predicate drives, every predicate
\* filters.
Drivers(indexes, ps) == {i \in DOMAIN ps : ps[i].column \in DOMAIN indexes}
Driven(indexes, p) == MatchingRows(indexes[p.column], p)

ExecuteConjunctive(t, indexes, ps, proj) ==
    IF ~Prepares(ps, proj) THEN Refused
    ELSE LET drivers == Drivers(indexes, ps)
             driver == CHOOSE i \in drivers : \A j \in drivers : i <= j
             found == Driven(indexes, ps[driver])
         IN  IF drivers = {} THEN ScanAll(t, ps, proj)
             ELSE Projected(Filtered(found, {r \in ToSet(found) : MeetsAll(r, ps)}),
                            ResolveProjection(proj))

\* execute_indexed: the answers of the predicates one by one, united by
\* primary key.
ExecuteDisjunctive(t, indexes, ps, proj) ==
    IF ~Prepares(ps, proj) THEN Refused
    ELSE Projected(InKeyOrder(UNION {ToSet(Execute(t, indexes, ps[i], All))
                                        : i \in DOMAIN ps}),
                   ResolveProjection(proj))
=============================================================================
