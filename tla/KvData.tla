------------------------------- MODULE KvData -------------------------------
(***************************************************************************)
(* The data of the common binary key-value semantics (KvEngine in db-core, *)
(* and the in-memory oracle that implements it): a total map in which a    *)
(* key without a value is Missing.  A key or a value is a member of a      *)
(* finite set; the length limits of validate_key_value are left out.       *)
(***************************************************************************)
CONSTANTS Keys, Values, Missing

ASSUME MissingIsNoValue == Missing \notin Values

\* PUT writes a value, DELETE writes Missing.
Entry == Values \cup {Missing}
Op == [key : Keys, val : Entry]
Map == [Keys -> Entry]
EmptyMap == [k \in Keys |-> Missing]

\* The effect of one mutation on the map.
Effect(map, op) == [map EXCEPT ![op.key] = op.val]
=============================================================================
