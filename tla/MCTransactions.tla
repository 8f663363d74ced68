--------------------------- MODULE MCTransactions ---------------------------
(***************************************************************************)
(* Two workers and two rows: every engine, every interleaving of their     *)
(* transactions, a failing append or a crash, and the queries that an      *)
(* index may answer differently from a scan.                               *)
(***************************************************************************)
EXTENDS Transactions

Swap == Permutations(Workers)

AllEngines == {"snapshot", "incremental", "serialized", "readwrite",
               "optimistic", "maintained"}

\* An empty batch, one row, the other row, a deletion, a batch refused in its
\* second operation, one whose record is too long, one with too many
\* operations, and the creation of the table.
Menu ==
    {<< >>, <<Upsert(1, 1)>>, <<Upsert(1, 2)>>, <<Upsert(2, 1)>>,
     <<Delete(1)>>, <<Delete(2), Upsert(1, Text)>>,
     <<Upsert(1, 1), Upsert(2, 1)>>,
     <<Create>>, <<Create, Upsert(2, 2)>>,
     <<Delete(1), Delete(2), Delete(1)>>}

\* Each column, an unknown one, each direction, a literal of another type.
Conditions ==
    {[column |-> 1, op |-> "le", value |-> 1],
     [column |-> 2, op |-> "ge", value |-> 1],
     [column |-> 2, op |-> "lt", value |-> 2],
     [column |-> 2, op |-> "eq", value |-> Text],
     [column |-> 3, op |-> "eq", value |-> 1]}

\* Every pair in either order, and all columns, the second, or one twice.
Pairs == {<<p, q>> : p, q \in Conditions}
Questions ==
    {[ps |-> ps, proj |-> All] : ps \in Pairs}
        \cup {[ps |-> <<p>>, proj |-> proj] : p \in Conditions,
                                               proj \in {<<2>>, <<1, 1>>}}
=============================================================================
