------------------------ MODULE GenerationRetirement ------------------------
(***************************************************************************)
(* Cleanup of obsolete generations and retirement of an abandoned compact  *)
(* candidate.  Unix removes names and syncs the directory; Windows moves   *)
(* them, write-through, to sibling quarantine names that must be free.     *)
(***************************************************************************)
EXTENDS GenerationSwitch

MutMarkersThrough(a) == {m \in dir["markers"] : m <= a}

\* The names below the authority a cleanup plans to retire.
ObsoleteMarkers(a) == {m \in dir["markers"] : m < a}
ObsoleteStaged(a) == {m \in dir["staged"] : m <= a}
ObsoleteLogs(a) == {g \in dir["logs"] : g < a}

QuarantineFree(kind, gens) ==
    Unix \/ gens \cap dir[Quarantine(kind)] = {}

BeginCleanup(t) ==
    /\ Begin(t, [NoOp EXCEPT !.kind = "cleanup", !.at = "plan"])
    /\ NoFault
    /\ UNCHANGED <<dir, disk, log, proof, built>>

\* Verify, witness the authority and validate the whole plan.
PlanCleanup(t) ==
    /\ Holding(t, "plan")
    /\ IF /\ Verifies(dir)
          /\ LET a == Authority(dir) IN
                /\ QuarantineFree("markers", ObsoleteMarkers(a))
                /\ QuarantineFree("staged", ObsoleteStaged(a))
                /\ QuarantineFree("logs", ObsoleteLogs(a))
       THEN op' = [op EXCEPT ![t].wit = Witness(dir),
                             ![t].at = "retireMarkers"]
       ELSE GiveUp(t)
    /\ NoFault
    /\ UNCHANGED <<dir, disk, log, proof, built, lockVars>>

\* One name leaves the directory, or the call for it fails and the command
\* stops (the move may have happened all the same).
Retire(t, kind, g) ==
    \/ /\ NoFault
       /\ IF Unix THEN Visible(Drop(dir, kind, g))
          ELSE MovedThrough(kind, Quarantine(kind), g)
       /\ op' = [op EXCEPT ![t].dirty = TRUE]
    \/ /\ Fault
       /\ IF Unix THEN UNCHANGED <<dir, disk>>
          ELSE MoveErrs(kind, Quarantine(kind), g)
       /\ GiveUp(t)

\* A phase ends: removals on Unix are synced before the next one.
EndPhase(t, sync, next) ==
    /\ NoFault
    /\ IF ~(Unix /\ op[t].dirty) /\ next = "leave" THEN Leave(t)
       ELSE op' = [op EXCEPT ![t].at = IF Unix /\ op[t].dirty THEN sync
                                       ELSE next,
                             ![t].dirty = FALSE]
    /\ UNCHANGED <<dir, disk>>

\* Lower markers go first, in ascending order, then staging markers.
RetireMarkers(t) ==
    /\ Holding(t, "retireMarkers")
    /\ LET a == op[t].wit.auth IN
       CASE ObsoleteMarkers(a) # {} ->
                Retire(t, "markers", Min(ObsoleteMarkers(a)))
         [] ObsoleteMarkers(a) = {} /\ ObsoleteStaged(a) # {} ->
                Retire(t, "staged", Min(ObsoleteStaged(a)))
         [] OTHER -> EndPhase(t, "markersSync", "reverify")
    /\ UNCHANGED <<log, proof, built, lockVars>>

\* require_same_authority between the two phases.
Reverify(t) ==
    /\ Holding(t, "reverify")
    /\ IF Verifies(dir) /\ Witness(dir) = op[t].wit
       THEN Goto(t, "retireLogs")
       ELSE GiveUp(t)
    /\ NoFault
    /\ UNCHANGED <<dir, disk, log, proof, built, lockVars>>

RetireLogs(t) ==
    /\ Holding(t, "retireLogs")
    /\ LET obsolete == ObsoleteLogs(op[t].wit.auth) IN
       IF obsolete # {} THEN Retire(t, "logs", Min(obsolete))
       ELSE EndPhase(t, "logsSync", "leave")
    /\ UNCHANGED <<log, proof, built, lockVars>>
-----------------------------------------------------------------------------
\* validate_reserved_orphan_candidate.
IsOrphan(g, a) ==
    /\ g > a
    /\ g \notin dir["markers"]
    /\ g \in dir["reserved"]
    /\ g \in dir["logs"]

\* The fingerprints an inspection of candidate g reports.
Evidence(g) ==
    [auth |-> Authority(dir),
     proof |-> IF g \in dir["staged"] THEN proof[g] ELSE None,
     log |-> log[g]]

\* inspect_generation_orphan, without the lease.
InspectOrphan(t, g) ==
    /\ Verifies(dir)
    /\ IsOrphan(g, Authority(dir))
    /\ op[t] = NoOp
    /\ op' = [op EXCEPT ![t] = [NoOp EXCEPT !.kind = "retire",
                                   !.at = "inspected", !.gen = g,
                                   !.wit = Evidence(g)]]
    /\ NoFault
    /\ UNCHANGED <<dir, disk, log, proof, built, lockVars>>

\* What --confirm-generation-builder-stopped attests.
BuilderStopped(g) ==
    \A p \in Procs : ~(op[p].kind = "switch" /\ op[p].gen = g)

ConfirmBuilderStopped(t) ==
    /\ Running(t, "inspected")
    /\ \/ BuilderStopped(op[t].gen) /\ Goto(t, "match")
       \/ op' = [op EXCEPT ![t] = NoOp]
    /\ NoFault
    /\ UNCHANGED <<dir, disk, log, proof, built, lockVars>>

\* The candidate is still the inspected one, under the expected authority.
StillInspected(t) ==
    /\ Verifies(dir)
    /\ Authority(dir) = op[t].wit.auth
    /\ IsOrphan(op[t].gen, op[t].wit.auth)
    /\ log[op[t].gen] = op[t].wit.log

MatchOrphan(t) ==
    /\ Holding(t, "match")
    /\ LET g == op[t].gen IN
       IF /\ StillInspected(t)
          /\ Evidence(g).proof = op[t].wit.proof
          /\ QuarantineFree("logs", {g})
          /\ op[t].wit.proof # None => QuarantineFree("staged", {g})
       THEN Goto(t, IF g \in dir["staged"] THEN "unstage" ELSE "unlink")
       ELSE GiveUp(t)
    /\ NoFault
    /\ UNCHANGED <<dir, disk, log, proof, built, lockVars>>

\* One name leaves the directory and, on Unix, a sync follows at once.
RetireSynced(t, kind, sync, next) ==
    \/ /\ NoFault
       /\ IF Unix THEN Visible(Drop(dir, kind, op[t].gen))
          ELSE MovedThrough(kind, Quarantine(kind), op[t].gen)
       /\ IF ~Unix /\ next = "leave" THEN Leave(t)
          ELSE Goto(t, IF Unix THEN sync ELSE next)
    \/ /\ Fault
       /\ IF Unix THEN UNCHANGED <<dir, disk>>
          ELSE MoveErrs(kind, Quarantine(kind), op[t].gen)
       /\ GiveUp(t)

UnstageOrphan(t) ==
    /\ Holding(t, "unstage")
    /\ RetireSynced(t, "staged", "unstageSync", "unlink")
    /\ UNCHANGED <<log, proof, built, lockVars>>

\* Verified once more, the candidate goes; its reservation stays.
UnlinkOrphan(t) ==
    /\ Holding(t, "unlink")
    /\ IF StillInspected(t)
       THEN RetireSynced(t, "logs", "logsSync", "leave")
       ELSE GiveUp(t) /\ NoFault /\ UNCHANGED <<dir, disk>>
    /\ UNCHANGED <<log, proof, built, lockVars>>

RetirementNext(t) ==
    \/ BeginCleanup(t) \/ PlanCleanup(t) \/ RetireMarkers(t)
    \/ Reverify(t) \/ RetireLogs(t)
    \/ \E g \in Gens : InspectOrphan(t, g)
    \/ ConfirmBuilderStopped(t) \/ MatchOrphan(t) \/ UnstageOrphan(t)
    \/ UnlinkOrphan(t)
=============================================================================
