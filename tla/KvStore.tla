------------------------------ MODULE KvStore ------------------------------
(***************************************************************************)
(* The contract every persistent engine of the laboratory promises: the    *)
(* common binary key-value semantics of the KvEngine trait, with the crash *)
(* rule of the experimental constitution.  A mutation that is acknowledged *)
(* is kept; a mutation whose call failed or was cut off by a crash is in   *)
(* doubt, makes the handle unusable, and is decided once, by the recovery  *)
(* that makes the store usable again.                                      *)
(***************************************************************************)
EXTENDS KvData

VARIABLES
    store,    \* the acknowledged map: what GET returns while usable
    usable,   \* the handle accepts operations
    pending   \* {} or the one mutation in doubt

kvVars == <<store, usable, pending>>

KvTypeOK ==
    /\ store \in Map
    /\ usable \in BOOLEAN
    /\ pending \in SUBSET Op

KvInit ==
    /\ store = EmptyMap
    /\ usable = FALSE
    /\ pending = {}

\* An acknowledged PUT or DELETE.
Mutate(op) ==
    /\ usable
    /\ store' = Effect(store, op)
    /\ UNCHANGED <<usable, pending>>

\* A PUT or DELETE that fails, or that a crash interrupts.
FailMutation(op) ==
    /\ usable
    /\ usable' = FALSE
    /\ pending' = {op}
    /\ UNCHANGED store

\* The process stops, or a recovery attempt fails.
Lose ==
    /\ usable
    /\ usable' = FALSE
    /\ UNCHANGED <<store, pending>>

\* Open or REOPEN succeeds and decides the mutation in doubt.
Recover ==
    /\ usable' = TRUE
    /\ pending' = {}
    /\ store' \in {store} \cup {Effect(store, op) : op \in pending}

KvNext ==
    \/ \E op \in Op : Mutate(op) \/ FailMutation(op)
    \/ Lose
    \/ Recover

KvSpec == KvInit /\ [][KvNext]_kvVars
=============================================================================
