-------------------------- MODULE GenerationEngine --------------------------
(***************************************************************************)
(* GenerationLogEngine, the routed key-value handle over a generation      *)
(* directory, and the composition of handles, generation commands, the     *)
(* writer lease and its operator.  A handle takes the lease for every      *)
(* call, compares the highest marker with the generation it is routed to,  *)
(* adopts a newer one, and runs the operation on the inner log handle.     *)
(* The inner handle is the append-log engine in one step per append: it    *)
(* knows how many records it has replayed, refuses a file that has moved   *)
(* on, and is poisoned by a failed append.                                 *)
(***************************************************************************)
EXTENDS GenerationRetirement

CONSTANTS Routers,    \* the processes that own a routed handle
          MaxWrites   \* bound on puts and deletes that are started

ASSUME RoutersAreProcesses ==
    Routers \subseteq Procs /\ Routers \cap Tools = {}
ASSUME MaxWritesIsNatural == MaxWrites \in Nat

VARIABLES
    handle,   \* every routed handle
    writes,   \* puts and deletes started
    acked,    \* ghost: the value the last acknowledged write left
    doubt,    \* ghost: values of later writes that failed or died
    misread   \* ghost: a get returned a value it may not have

engineVars == <<handle, writes, acked, doubt, misread>>
vars == <<lockVars, dirVars, engineVars>>

Closed == [status |-> "closed", gen |-> 0, seen |-> 0, inner |-> "ok"]

Init ==
    /\ LockInit /\ DirInit
    /\ handle = [r \in Routers |-> Closed]
    /\ writes = 0
    /\ acked = 0
    /\ doubt = {}
    /\ misread = FALSE
-----------------------------------------------------------------------------
\* A call on a routed handle; `gen` carries the value of a put.  A caller
\* reopens a handle that has failed.
BeginCall(r, kind) ==
    /\ Begin(r, [NoOp EXCEPT !.kind = kind, !.at = "route",
                             !.gen = IF kind = "put" THEN writes + 1 ELSE 0])
    /\ (kind = "open") = (handle[r].status = "closed")
    /\ kind = "reopen" =>
          handle[r].status = "poisoned" \/ handle[r].inner = "poisoned"
    /\ IF kind \in {"put", "delete"}
       THEN writes < MaxWrites /\ writes' = writes + 1
       ELSE UNCHANGED writes
    /\ NoFault
    /\ UNCHANGED <<dir, disk, log, proof, built, handle, acked, doubt, misread>>

\* Resolve from the least authority this call accepts.
Minimum(r) ==
    IF op[r].kind = "open" THEN 0
    ELSE IF op[r].kind = "reopen" THEN handle[r].gen
    ELSE Authority(dir)

Poison(r) ==
    handle' = [handle EXCEPT ![r].status =
                  IF op[r].kind = "open" THEN "closed" ELSE "poisoned"]

\* refresh_authority finds a marker at or above the routed generation.
AuthorityKept(r) ==
    /\ Scans(dir)
    /\ dir["markers"] # {}
    /\ Authority(dir) >= handle[r].gen

MutStaysRouted(r) == TRUE

\* The handle is routed to the authority.
IsRouted(r) == Authority(dir) = handle[r].gen

\* Under the lease: refuse a poisoned handle, poison it when the authority
\* is unreadable or has regressed, stay on an equal one, else resolve.
Route(r) ==
    /\ Holding(r, "route")
    /\ CASE op[r].kind \in {"open", "reopen"} ->
               Goto(r, "resolve") /\ UNCHANGED handle
         [] op[r].kind \notin {"open", "reopen"}
               /\ handle[r].status = "poisoned" ->
               GiveUp(r) /\ UNCHANGED handle
         [] op[r].kind \notin {"open", "reopen"}
               /\ handle[r].status # "poisoned" /\ ~AuthorityKept(r) ->
               GiveUp(r) /\ Poison(r)
         [] OTHER ->
               /\ Goto(r, IF IsRouted(r) THEN "apply" ELSE "resolve")
               /\ UNCHANGED handle
    /\ NoFault
    /\ UNCHANGED <<dir, disk, log, proof, built, lockVars, writes, acked, doubt, misread>>

\* resolve_authority: verify, then open the authoritative log mutably, which
\* repairs an incomplete final record.
Resolve(r) ==
    /\ Holding(r, "resolve")
    /\ IF Verifies(dir) /\ Authority(dir) >= Minimum(r)
       THEN /\ log' = [log EXCEPT ![Authority(dir)].tail = FALSE]
            /\ op' = [op EXCEPT ![r].wit.auth = Authority(dir),
                                ![r].at = "resolved"]
            /\ UNCHANGED handle
       ELSE GiveUp(r) /\ Poison(r) /\ UNCHANGED log
    /\ NoFault
    /\ UNCHANGED <<dir, disk, proof, built, lockVars, writes, acked, doubt, misread>>

\* The second verification must select the opened generation.
Resolved(r) ==
    /\ Holding(r, "resolved")
    /\ LET a == op[r].wit.auth IN
       IF Verifies(dir) /\ Authority(dir) = a
       THEN /\ handle' = [handle EXCEPT ![r] =
                   [status |-> "open", gen |-> a, seen |-> Len(log[a].recs),
                    inner |-> "ok"]]
            /\ IF op[r].kind \in {"open", "reopen"} THEN Leave(r)
               ELSE Goto(r, "apply")
       ELSE GiveUp(r) /\ Poison(r)
    /\ NoFault
    /\ UNCHANGED <<dir, disk, log, proof, built, lockVars, writes, acked, doubt, misread>>
-----------------------------------------------------------------------------
\* The inner handle's view of its generation, and its check before a write.
Replayed(r) == SubSeq(log[handle[r].gen].recs, 1, handle[r].seen)
InStep(r) ==
    handle[r].seen = Len(log[handle[r].gen].recs) /\ ~log[handle[r].gen].tail

\* get, from the replay index of a usable inner handle.
Get(r) ==
    /\ Holding(r, "apply")
    /\ op[r].kind = "get"
    /\ misread' = (misread \/ (handle[r].inner = "ok" /\
                       Live(Replayed(r)) \notin {acked} \cup doubt))
    /\ Leave(r)
    /\ NoFault
    /\ UNCHANGED <<dir, disk, log, proof, built, lockVars, handle, writes,
                   acked, doubt>>

\* put and delete append one record; a file that moved on poisons the inner
\* handle.
Append1(r) ==
    /\ Holding(r, "apply")
    /\ op[r].kind \in {"put", "delete"}
    /\ IF handle[r].inner = "ok" /\ InStep(r)
       THEN /\ log' = [log EXCEPT ![handle[r].gen].recs =
                          Append(@, op[r].gen)]
            /\ handle' = [handle EXCEPT ![r].seen = @ + 1]
            /\ acked' = op[r].gen
            /\ doubt' = {}
       ELSE /\ handle' = [handle EXCEPT ![r].inner = "poisoned"]
            /\ UNCHANGED <<log, acked, doubt>>
    /\ Leave(r)
    /\ NoFault
    /\ UNCHANGED <<dir, disk, proof, built, lockVars, writes, misread>>

\* What an append that does not return normally leaves in the file:
\* nothing, a partial record or the whole record.
Appending(r) ==
    /\ Holding(r, "apply")
    /\ op[r].kind \in {"put", "delete"}
    /\ handle[r].inner = "ok" /\ InStep(r)

Interrupted(r) ==
    /\ \/ UNCHANGED log
       \/ log' = [log EXCEPT ![handle[r].gen].tail = TRUE]
       \/ log' = [log EXCEPT ![handle[r].gen].recs = Append(@, op[r].gen)]
    /\ doubt' = doubt \cup {op[r].gen}

\* The append reports an error: the inner handle is poisoned.
AppendFails(r) ==
    /\ Appending(r)
    /\ Fault
    /\ Interrupted(r)
    /\ handle' = [handle EXCEPT ![r].inner = "poisoned"]
    /\ Leave(r)
    /\ UNCHANGED <<dir, disk, proof, built, lockVars, writes, acked,
                   misread>>

RoutedNext(r) ==
    \/ \E kind \in {"open", "reopen", "get", "put", "delete"} :
          BeginCall(r, kind)
    \/ Route(r) \/ Resolve(r) \/ Resolved(r) \/ Get(r) \/ Append1(r)
    \/ AppendFails(r)
-----------------------------------------------------------------------------
\* A call that has to take the lease later on than at its start.
Entry == {"recheck", "match", "enter", "compare"}
Exit == {"leave", "survey"}

EndCall(p) ==
    op' = [op EXCEPT ![p] = IF op[p].at = "survey" THEN @ ELSE NoOp]

Acquire(p) ==
    /\ op[p].at \in Entry
    /\ CreateLock(p)
    /\ UNCHANGED <<dirVars, engineVars>>

\* Busy: someone's lock file is there.
Busy(p) ==
    /\ op[p].at \in Entry
    /\ lease[p] = "none"
    /\ lockFile # NoLock
    /\ GiveUp(p)
    /\ NoFault
    /\ UNCHANGED <<dir, disk, log, proof, built, lockVars, engineVars>>

FinishAcquire(p) ==
    \/ WriteRecord(p) /\ UNCHANGED <<dirVars, engineVars>>
    \/ /\ WriteRecordFails(p)
       /\ Fault
       /\ UNCHANGED <<dir, disk, log, proof, op, built, engineVars>>
    \/ /\ RemoveUnwritten(p)
       /\ op' = [op EXCEPT ![p] = NoOp]
       /\ NoFault
       /\ UNCHANGED <<dir, disk, log, proof, built, engineVars>>

Release(p) ==
    /\ op[p].at \in Exit
    /\ \/ /\ CompareOwner(p)
          /\ IF IsOwner(p) THEN UNCHANGED op ELSE EndCall(p)
          /\ NoFault
       \/ RemoveOwned(p, TRUE) /\ EndCall(p) /\ NoFault
       \/ RemoveOwned(p, FALSE) /\ EndCall(p) /\ Fault
    /\ UNCHANGED <<dir, disk, log, proof, built, engineVars>>

\* The process dies in a call.
Die(p) ==
    /\ op[p] # NoOp
    /\ Fault
    /\ IF lease[p] = "none" THEN UNCHANGED lockVars ELSE LeaveBehind(p)
    /\ op' = [op EXCEPT ![p] = NoOp]
    /\ handle' = [r \in Routers |-> IF r = p THEN Closed ELSE handle[r]]
    /\ IF p \in Routers /\ Appending(p) THEN Interrupted(p)
       ELSE UNCHANGED <<log, doubt>>
    /\ UNCHANGED <<dir, disk, proof, built, writes, acked, misread>>

\* The authority is settled when its marker surely survives a power loss.
Settled == dir["markers"] # {} /\ Authority(dir) \in disk["markers"]

\* Everything dies; of the unsettled names any may survive, and so may the
\* lock file, which is never synced.  An operator keeps what was inspected;
\* a clear-stale command that runs dies too.  When the marker
\* of the authority was not durable (its publisher reported
\* DurabilityUncertain or died) the ghosts start again from what is left.
PowerLoss ==
    /\ Fault
    /\ dir' \in Images
    /\ disk' = dir'
    /\ lockFile' \in {NoLock, lockFile}
    /\ lease' = [p \in Procs |-> "none"]
    /\ mine' = [p \in Procs |-> NoLock]
    /\ op' = [p \in Procs |-> NoOp]
    /\ handle' = [r \in Routers |-> Closed]
    /\ IF Settled \/ dir'["markers"] = {} THEN UNCHANGED <<acked, doubt>>
       ELSE acked' = Live(log[Authority(dir')].recs) /\ doubt' = {}
    /\ clear' = IF clear.at = "inspected" THEN clear ELSE NoClear
    /\ UNCHANGED <<log, proof, built, writes, misread>>

\* The operator clears a lock that has outlived its owner.  While nobody is
\* alive the steps of clear-stale cannot be told apart; GenerationLock has
\* them one by one, with processes that come and go in between.
ClearStale ==
    /\ lockFile # NoLock
    /\ NoLiveWriter
    /\ lockFile' = NoLock
    /\ UNCHANGED <<lease, mine, clear, dirVars, engineVars>>

ToolNext(t) ==
    (SwitchNext(t) \/ RetirementNext(t)) /\ UNCHANGED engineVars

Next ==
    \/ \E r \in Routers : RoutedNext(r)
    \/ \E t \in Tools : ToolNext(t)
    \/ \E p \in Procs :
          Acquire(p) \/ Busy(p) \/ FinishAcquire(p) \/ Release(p) \/ Die(p)
    \/ PowerLoss
    \/ ClearStale

Spec == Init /\ [][Next]_vars
-----------------------------------------------------------------------------
File == [recs : Seq(0 .. MaxWrites), tail : BOOLEAN]

TypeOK ==
    /\ LockTypeOK
    /\ platform \in {"unix", "windows"}
    /\ dir \in [Kinds -> SUBSET Gens] /\ disk \in [Kinds -> SUBSET Gens]
    /\ log \in [Gens -> File]
    /\ \A g \in Gens : proof[g] = Torn \/ proof[g] \in Seq(0 .. MaxWrites)
    /\ faults \in 0 .. MaxFaults
    /\ writes \in 0 .. MaxWrites
    /\ built \in [Gens -> Nat]
    /\ \A r \in Routers :
          /\ handle[r].status \in {"closed", "open", "poisoned"}
          /\ handle[r].gen \in 0 .. MaxGen
          /\ handle[r].inner \in {"ok", "poisoned"}

\* Once the marker of the authority is durable, every namespace a power loss
\* can leave has the same authority, its log and its proven prefix, and the
\* log's live state is the last acknowledged write or one in doubt: no
\* switch, cleanup, retirement or interruption of one loses a write.
AckedSurvives ==
    Settled =>
        \A d \in Images :
            /\ d["markers"] # {}
            /\ Authority(d) = Authority(dir)
            /\ Authority(d) \in d["logs"]
            /\ IsPrefix(proof[Authority(d)], log[Authority(d)].recs)
            /\ Live(log[Authority(d)].recs) \in {acked} \cup doubt

\* A read on the routed handle returns the last acknowledged value or one in
\* doubt, across the switches it has not noticed yet.
ReadsAcked == ~misread

\* A generation id is given to one compact candidate at most, so the bytes a
\* marker proves are never replaced under it, after retirements and power
\* losses too (reservations keep the allocation frontier).
IdsNeverReused == \A g \in Gens : built[g] <= 1

\* A durable authority never moves to an older generation and never
\* vanishes, whatever a command, a failure or a power loss does next.
AuthorityNeverRegresses ==
    [][Settled =>
          disk'["markers"] # {} /\ Authority(disk') >= Authority(disk)]_vars

\* A routed handle is not poisoned by a compact switch that runs beside it.
RoutedNeverPoisoned == \A r \in Routers : handle[r].status # "poisoned"
=============================================================================
