------------------------ MODULE GenerationDirectory ------------------------
(***************************************************************************)
(* The generation directory and the commands that change it: reservation,  *)
(* compact switch, marker publication, cleanup and orphan retirement, on   *)
(* Unix and on Windows.  A name in the directory is a kind of file and a   *)
(* generation id.  `dir` is the visible namespace and `disk` the one that  *)
(* surely survives a power loss: on Unix a directory sync copies the first *)
(* into the second; on Windows a write-through move changes both.  A power *)
(* loss keeps, of the names in one and not in the other, any subset.       *)
(*                                                                         *)
(* File contents are synced by the code before a name matters and are not  *)
(* lost.  A log holds records of one key: 0 is a delete, any other number  *)
(* a put; that is enough to tell a kept write from a lost one.  A prefix   *)
(* proof (bytes, CRC, record count) is the sequence of records it binds.   *)
(* Reads that one command makes in a row are one step.                     *)
(***************************************************************************)
EXTENDS GenerationLock, Sequences, SequencesExt, FiniteSetsExt

CONSTANTS Tools,      \* the processes that run generation commands
          MaxGen,     \* the largest generation id (u64::MAX in the code)
          MaxFaults,  \* bound on crashes, power losses and failing calls
          Torn,       \* the contents of an incompletely written marker
          None        \* no marker fingerprint

ASSUME ToolsAreProcesses == Tools \subseteq Procs
ASSUME MaxGenIsPositive == MaxGen \in Nat \ {0}
ASSUME MaxFaultsIsNatural == MaxFaults \in Nat

VARIABLES
    platform,  \* "unix" or "windows"
    dir,       \* the visible namespace
    disk,      \* the durable namespace
    log,       \* contents of every generation log
    proof,     \* contents of every staged or final commit marker
    op,        \* the call each process is executing
    faults,    \* crashes and failures so far
    built      \* ghost: how many compact candidates each id was given to

dirVars == <<platform, dir, disk, log, proof, op, faults, built>>

Gens == 1 .. MaxGen
Kinds == {"logs", "markers", "staged", "reserved", "copies",
          "oldLogs", "oldMarkers", "oldStaged"}
NoLog == [recs |-> << >>, tail |-> FALSE]
NoWitness == [auth |-> 0, proof |-> None, log |-> NoLog]
NoOp == [kind |-> "none", at |-> "idle", gen |-> 0, wit |-> NoWitness,
         src |-> NoLog, dirty |-> FALSE]

\* Unix starts with the log of generation 1 and no marker; Windows, where
\* only a composed command publishes, with generation 1 as migrated.
DirInit ==
    /\ platform \in {"unix", "windows"}
    /\ dir = [k \in Kinds |->
                 CASE k = "logs" -> {1}
                   [] k \in {"markers", "reserved"} /\ platform = "windows"
                         -> {1}
                   [] OTHER -> {}]
    /\ disk = dir
    /\ log = [g \in Gens |-> NoLog]
    /\ proof = [g \in Gens |-> IF g = 1 THEN << >> ELSE Torn]
    /\ op = [p \in Procs |-> NoOp]
    /\ faults = 0
    /\ built = [g \in Gens |-> 0]
-----------------------------------------------------------------------------
\* Directory entries.
Add(d, k, g) == [d EXCEPT ![k] = @ \cup {g}]
Drop(d, k, g) == [d EXCEPT ![k] = @ \ {g}]
Move(d, from, to, g) == Add(Drop(d, from, g), to, g)

\* The sibling quarantine name a Windows retirement moves an entry to.
Quarantine(k) ==
    CASE k = "logs" -> "oldLogs" [] k = "markers" -> "oldMarkers"
      [] k = "staged" -> "oldStaged"

\* What a power loss may leave of the namespace.
Unsettled ==
    UNION {{k} \X ((dir[k] \ disk[k]) \cup (disk[k] \ dir[k])) : k \in Kinds}
Images ==
    {[k \in Kinds |->
         (dir[k] \cap disk[k]) \cup {e[2] : e \in {f \in S : f[1] = k}}]
        : S \in SUBSET Unsettled}

\* What replay and LogEngine::inspect report of a log.
Live(recs) == IF recs = << >> THEN 0 ELSE Last(recs)
Compact(recs) == IF Live(recs) = 0 THEN << >> ELSE <<Live(recs)>>

\* scan_generation_namespace refuses an entry it does not know; the compact
\* copy's staging file is one.
Scans(d) == d["copies"] = {}

Authority(d) == Max(d["markers"])

\* A commit marker binds the records its generation has when it is written;
\* a torn one does not decode; later appends keep the bound prefix intact.
PrefixProof(g) == log[g].recs
Decodes(g) == proof[g] # Torn
PrefixIntact(g) == IsPrefix(proof[g], log[g].recs)

\* verify_generation_directory: the highest marker decides.
Verifies(d) ==
    /\ Scans(d)
    /\ d["markers"] # {}
    /\ LET a == Authority(d)
       IN  Decodes(a) /\ a \in d["logs"] /\ PrefixIntact(a)

MutReservationsForgotten(d) ==
    Max(UNION {d[k] : k \in {"logs", "markers", "staged"}}) + 1

\* next_generation_id: above everything observed.
NextId(d) ==
    Max(UNION {d[k] : k \in {"logs", "markers", "staged", "reserved"}}) + 1

\* SourceAuthorityWitness, with the complete source state.
Witness(d) ==
    [auth |-> Authority(d), proof |-> proof[Authority(d)],
     log |-> log[Authority(d)]]
-----------------------------------------------------------------------------
\* Control of a command.
Running(p, at) == op[p].at = at
Holding(p, at) == Running(p, at) /\ lease[p] = "held"
Goto(p, at) == op' = [op EXCEPT ![p].at = at]

\* The call returns; the lease, if it holds it, is dropped first.
Leaving == [NoOp EXCEPT !.at = "leave"]
Leave(p) == op' = [op EXCEPT ![p] = Leaving]
GiveUp(p) ==
    op' = [op EXCEPT ![p] = IF lease[p] = "held" THEN Leaving ELSE NoOp]

\* A call starts by creating the lock file; one that finds a lock file there
\* returns Busy and changes nothing.
Begin(p, call) ==
    op[p] = NoOp /\ CreateLock(p) /\ op' = [op EXCEPT ![p] = call]

NoFault == UNCHANGED <<faults, platform>>
Fault == faults < MaxFaults /\ faults' = faults + 1 /\ UNCHANGED platform

\* A name created or removed: visible now, durable after a sync.
Visible(d) == dir' = d /\ UNCHANGED disk

\* move_no_replace_write_through of one entry, and its durable effect.
MovedThrough(from, to, g) ==
    dir' = Move(dir, from, to, g) /\ disk' = Move(disk, from, to, g)

\* The same call reporting an error: nothing, something visible, or all.
MoveErrs(from, to, g) ==
    \/ UNCHANGED <<dir, disk>>
    \/ dir' = Move(dir, from, to, g) /\ UNCHANGED disk
    \/ MovedThrough(from, to, g)

\* Directory syncs, and where each leads.
AfterSync ==
    [reserveSync |-> "reserved", baseSync |-> "stage",
     linkSync |-> "published", markersSync |-> "reverify",
     logsSync |-> "leave", unstageSync |-> "unlink"]

SyncDirectory(t) ==
    /\ op[t].at \in DOMAIN AfterSync
    /\ disk' = dir
    /\ IF AfterSync[op[t].at] = "leave" THEN Leave(t)
       ELSE Goto(t, AfterSync[op[t].at])
    /\ NoFault
    /\ UNCHANGED <<dir, log, proof, built, lockVars>>

\* The sync fails: DurabilityUncertain.
SyncFails(t) ==
    /\ op[t].at \in DOMAIN AfterSync
    /\ Fault
    /\ GiveUp(t)
    /\ UNCHANGED <<dir, disk, log, proof, built, lockVars>>
=============================================================================
