-------------------------- MODULE LegacyMigration --------------------------
(***************************************************************************)
(* From a plain append-log file to a generation directory, in two offline  *)
(* commands.  Migrate snapshots the file and publishes a compact copy of   *)
(* it as generation 1 of a fresh directory.  Cutover checks that both      *)
(* still agree, keeps the file under a retained sibling name and replaces  *)
(* the legacy path by a sentinel that no log handle opens.                 *)
(*                                                                         *)
(* The sentinel's bytes name the directory and the retained file; one      *)
(* legacy file and one directory are modelled, so that is a Boolean.       *)
(* Beside the commands run a raw writer, which knows nothing of the lease, *)
(* a routed handle on the new directory, and the operator of the lock,     *)
(* here with every step of clear-stale.  The operator runs a cutover only  *)
(* after a migration that reported success and, on Windows, with no raw    *)
(* handle open and none opened meanwhile, as the commands require.         *)
(***************************************************************************)
EXTENDS GenerationEngine

CONSTANT MaxRaw   \* bound on the records of the legacy file

\* The records of raw writers, in order; no routed write has these values.
RawRecord(i) == MaxWrites + i

VARIABLES
    source,    \* the legacy file itself, whatever names it
    copy,      \* the retained byte copy of it (Windows)
    names,     \* visible: target directory, retained file, sentinel staged,
               \* sentinel at the legacy path
    kept,      \* the names that surely survive a power loss
    raw,       \* is the raw handle open?
    migrated,  \* a migration has reported success
    handed     \* ghost: the snapshot of a cutover that reported success

legacyVars == <<source, copy, names, kept, raw, migrated, handed>>
allVars == <<vars, legacyVars>>

Names == {"target", "retained", "staging", "sentinel"}

LegacyInit ==
    /\ LockInit
    /\ platform \in {"unix", "windows"}
    /\ dir = [k \in Kinds |-> {}] /\ disk = dir
    /\ log = [g \in Gens |-> NoLog]
    /\ proof = [g \in Gens |-> Torn]
    /\ op = [p \in Procs |-> NoOp]
    /\ faults = 0
    /\ built = [g \in Gens |-> 0]
    /\ handle = [r \in Routers |-> Closed]
    /\ writes = 0 /\ acked = 0 /\ doubt = {} /\ misread = FALSE
    /\ source = [recs |-> <<RawRecord(1)>>, tail |-> FALSE]
    /\ copy = NoLog
    /\ names = [n \in Names |-> FALSE] /\ kept = names
    /\ raw = FALSE
    /\ migrated = FALSE
    /\ handed = NoLog
-----------------------------------------------------------------------------
\* Frames: a step of a command on the legacy side, in the directory, none.
LegacyOnly == UNCHANGED <<dir, disk, log, proof, built, lockVars, engineVars>>
DirectoryOnly == UNCHANGED legacyVars
Keep(other) == UNCHANGED <<copy, names, kept, migrated, handed, other>>

Appear(n) == names' = [names EXCEPT ![n] = TRUE] /\ UNCHANGED kept
Settle(n) == names' = [names EXCEPT ![n] = TRUE]
                /\ kept' = [kept EXCEPT ![n] = TRUE]
AppearErrs(n) == UNCHANGED <<names, kept>> \/ Appear(n) \/ Settle(n)

\* The rename of the staged sentinel over the legacy path.
Replaced(ns) == [ns EXCEPT !["sentinel"] = TRUE, !["staging"] = FALSE]

CuttingOver == \E t \in Tools : op[t].kind = "cutover"

\* A raw writer opens the legacy path (which repairs a torn tail and refuses
\* the sentinel), appends through its handle, and closes it or dies.
RawOpen ==
    /\ ~raw /\ ~names["sentinel"]
    /\ Unix \/ ~CuttingOver
    /\ raw' = TRUE
    /\ source' = [source EXCEPT !.tail = FALSE]
    /\ Keep(<<vars>>)

RawAppend ==
    /\ raw /\ ~source.tail
    /\ Len(source.recs) < MaxRaw
    /\ source' = [source EXCEPT !.recs = Append(@, RawRecord(Len(@) + 1))]
    /\ Keep(<<raw, vars>>)

RawClose ==
    /\ raw
    /\ raw' = FALSE
    /\ source' \in {source, [source EXCEPT !.tail = TRUE]}
    /\ Keep(<<vars>>)
-----------------------------------------------------------------------------
\* require_clean_source: a complete append-log image is at the legacy path.
IsClean == ~names["sentinel"] /\ ~source.tail

BeginMigrate(t) ==
    /\ op[t] = NoOp
    /\ ~migrated
    /\ IsClean
    /\ op' = [op EXCEPT ![t] = [NoOp EXCEPT !.kind = "migrate", !.gen = 1,
                                            !.at = "capture", !.src = source]]
    /\ NoFault /\ LegacyOnly /\ UNCHANGED legacyVars

BeginCutover(t) ==
    /\ op[t] = NoOp
    /\ migrated
    /\ IsClean
    /\ Unix \/ ~raw
    /\ op' = [op EXCEPT ![t] = [NoOp EXCEPT !.kind = "cutover",
                                            !.at = "capture", !.src = source]]
    /\ NoFault /\ LegacyOnly /\ UNCHANGED legacyVars

\* source_matches_snapshot: byte equality with what was captured.
MatchesSnapshot(t) == ~names["sentinel"] /\ source = op[t].src

\* capture_snapshot and the comparison after it.
Capture(t) ==
    /\ Running(t, "capture")
    /\ IF ~MatchesSnapshot(t) THEN GiveUp(t)
       ELSE Goto(t, IF op[t].kind = "migrate" THEN "mkdir" ELSE "enter")
    /\ NoFault /\ LegacyOnly /\ UNCHANGED legacyVars

\* canonical_fresh_target and the creation of the target directory: created
\* and synced on Unix, published by a write-through move on Windows.
MakeTarget(t) ==
    /\ Running(t, "mkdir")
    /\ IF names["target"] THEN GiveUp(t) /\ UNCHANGED <<names, kept>>
       ELSE IF Unix THEN Appear("target") /\ Goto(t, "mkdirSync")
       ELSE Settle("target") /\ Goto(t, "enter")
    /\ NoFault /\ LegacyOnly
    /\ UNCHANGED <<source, copy, raw, migrated, handed>>

MakeTargetErrs(t) ==
    /\ Running(t, "mkdir")
    /\ ~names["target"]
    /\ Fault
    /\ IF Unix THEN UNCHANGED <<names, kept>> ELSE AppearErrs("target")
    /\ GiveUp(t)
    /\ LegacyOnly /\ UNCHANGED <<source, copy, raw, migrated, handed>>

\* Syncs of the directory that holds the new name, and where they lead.
AfterParentSync ==
    [mkdirSync |-> "import", linkedSync |-> "confirm", replaceSync |-> "final"]

SyncParent(t) ==
    /\ op[t].at \in DOMAIN AfterParentSync
    /\ \/ /\ NoFault
          /\ kept' = IF op[t].at = "mkdirSync"
                     THEN [kept EXCEPT !["target"] = names["target"]]
                     ELSE [names EXCEPT !["target"] = kept["target"]]
          /\ Goto(t, AfterParentSync[op[t].at])
       \/ Fault /\ GiveUp(t) /\ UNCHANGED kept
    /\ LegacyOnly
    /\ UNCHANGED <<source, copy, names, raw, migrated, handed>>

\* Windows reserves generation 1 under the lease before it copies.
ReserveFirst(t) ==
    /\ Holding(t, "enter")
    /\ op[t].kind = "migrate"
    /\ \/ /\ NoFault
          /\ MovedThrough("reserved", "reserved", 1)
          /\ Goto(t, "import")
       \/ Fault /\ MoveErrs("reserved", "reserved", 1) /\ GiveUp(t)
    /\ UNCHANGED <<log, proof, built, lockVars, engineVars>> /\ DirectoryOnly

\* compact_log_to_fresh_file from the snapshot: its staging file appears in
\* the fresh directory.  GenerationSwitch has the steps from here to the
\* copy's canonical name.
StartImport(t) ==
    /\ Running(t, "import")
    /\ dir' = Add(dir, "copies", 1)
    /\ Goto(t, "build")
    /\ NoFault
    /\ UNCHANGED <<disk, log, proof, built, lockVars, engineVars>>
    /\ DirectoryOnly

\* Under the lease: the legacy file is still the snapshot and the copy has
\* its live state.
CompareSource(t) ==
    /\ Holding(t, "compare")
    /\ IF /\ MatchesSnapshot(t)
          /\ 1 \in dir["logs"]
          /\ ~log[1].tail /\ Live(log[1].recs) = Live(op[t].src.recs)
       THEN Goto(t, "publish") ELSE GiveUp(t)
    /\ NoFault /\ LegacyOnly /\ UNCHANGED legacyVars

\* The marker is published: remove its staging name, verify, and compare the
\* legacy file once more before success is reported.
Imported(t) ==
    /\ op[t].kind = "migrate"
    /\ Published(t)
    /\ migrated' = (migrated \/ (/\ Verifies(dir') /\ Authority(dir') = 1
                                 /\ log[1].recs = Compact(op[t].src.recs)
                                 /\ MatchesSnapshot(t)))
    /\ UNCHANGED <<source, copy, names, kept, raw, handed, engineVars>>
-----------------------------------------------------------------------------
\* validate_fresh_import_target: generation 1 as it was published; Windows
\* wants nothing else in the directory either.
IsFreshTarget(d) ==
    /\ Verifies(d)
    /\ Authority(d) = 1
    /\ log[1].recs = proof[1] /\ ~log[1].tail
    /\ ~Unix => /\ d["logs"] = {1} /\ d["markers"] = {1}
                /\ d["reserved"] = {1} /\ d["staged"] = {}

\* The retained file a Windows cutover finds is this snapshot.
RetainedIsSnapshot(t) == copy = op[t].src

\* Under the lease: the target is the untouched import and reproduces the
\* legacy state.  Unix wants both sibling names free.
CheckTarget(t) ==
    /\ Holding(t, "enter")
    /\ op[t].kind = "cutover"
    /\ IF /\ IsFreshTarget(dir)
          /\ Live(log[1].recs) = Live(op[t].src.recs)
          /\ Unix => ~names["retained"] /\ ~names["staging"]
       THEN op' = [op EXCEPT ![t].wit.log = log[1],
                             ![t].at = IF Unix THEN "sentinel" ELSE "retain"]
       ELSE GiveUp(t)
    /\ NoFault /\ LegacyOnly /\ UNCHANGED legacyVars

\* ensure_retained_snapshot: use the retained file that is there, or copy
\* the snapshot and move the copy in.
Retain(t) ==
    /\ Holding(t, "retain")
    /\ \/ /\ names["retained"]
          /\ IF RetainedIsSnapshot(t) THEN Goto(t, "sentinel") ELSE GiveUp(t)
          /\ NoFault /\ UNCHANGED <<copy, names, kept>>
       \/ /\ ~names["retained"]
          /\ Settle("retained") /\ Goto(t, "sentinel") /\ NoFault
          /\ copy' = op[t].src
       \/ /\ ~names["retained"]
          /\ AppearErrs("retained") /\ GiveUp(t) /\ Fault
          /\ copy' = op[t].src
    /\ LegacyOnly /\ UNCHANGED <<source, raw, migrated, handed>>

\* write_synced_new of the staged sentinel; a failing write leaves it.
WriteSentinel(t) ==
    /\ Holding(t, "sentinel")
    /\ Appear("staging")
    /\ \/ NoFault /\ Goto(t, "resource")
       \/ Fault /\ GiveUp(t)
    /\ LegacyOnly /\ UNCHANGED <<source, copy, raw, migrated, handed>>

\* cleanup_pre_cutover, best effort: each name goes or stays, and so does
\* the effect of the sync.
CleanUp(ns) ==
    /\ \E gone \in SUBSET ns : names' =
          [n \in Names |-> names[n] /\ n \notin gone]
    /\ kept' \in {kept, [names' EXCEPT !["target"] = kept["target"]]}

\* The source is compared again after the sentinel is staged; Windows also
\* verifies the target again.
RecheckSource(t) ==
    /\ Holding(t, "resource")
    /\ IF /\ MatchesSnapshot(t)
          /\ Unix \/ (IsFreshTarget(dir) /\ log[1] = op[t].wit.log)
       THEN /\ Goto(t, IF Unix THEN "retainLink" ELSE "replace")
            /\ UNCHANGED <<names, kept>>
       ELSE CleanUp({"staging"}) /\ GiveUp(t)
    /\ NoFault
    /\ LegacyOnly /\ UNCHANGED <<source, copy, raw, migrated, handed>>

MutRetainedUnsynced(t) ==
    /\ Holding(t, "retainLink")
    /\ \/ NoFault /\ Appear("retained") /\ Goto(t, "confirm")
       \/ Fault /\ UNCHANGED <<names, kept>> /\ GiveUp(t)
    /\ LegacyOnly /\ UNCHANGED <<source, copy, raw, migrated, handed>>

\* Unix: sync the file and link it to its retained name.
LinkRetained(t) ==
    /\ Holding(t, "retainLink")
    /\ \/ NoFault /\ Appear("retained") /\ Goto(t, "linkedSync")
       \/ Fault /\ UNCHANGED <<names, kept>> /\ GiveUp(t)
    /\ LegacyOnly /\ UNCHANGED <<source, copy, raw, migrated, handed>>

ConfirmSource(t) ==
    /\ Holding(t, "confirm")
    /\ IF MatchesSnapshot(t)
       THEN Goto(t, "replace") /\ UNCHANGED <<names, kept>>
       ELSE CleanUp({"staging", "retained"}) /\ GiveUp(t)
    /\ NoFault
    /\ LegacyOnly /\ UNCHANGED <<source, copy, raw, migrated, handed>>

MutReplacementUnsynced(t) ==
    /\ Holding(t, "replace")
    /\ names' = Replaced(names)
    /\ IF Unix THEN UNCHANGED kept ELSE kept' = Replaced(kept)
    /\ Goto(t, "final")
    /\ NoFault
    /\ LegacyOnly /\ UNCHANGED <<source, copy, raw, migrated, handed>>

\* The sentinel takes the legacy path: a rename that is synced next, or a
\* write-through replacement.
Replace(t) ==
    /\ Holding(t, "replace")
    /\ names' = Replaced(names)
    /\ IF Unix THEN UNCHANGED kept /\ Goto(t, "replaceSync")
       ELSE kept' = Replaced(kept) /\ Goto(t, "final")
    /\ NoFault
    /\ LegacyOnly /\ UNCHANGED <<source, copy, raw, migrated, handed>>

\* The call reports an error.  A Windows replacement may have happened; when
\* the legacy path still is the snapshot the staged sentinel is removed.
ReplaceErrs(t) ==
    /\ Holding(t, "replace")
    /\ Fault
    /\ IF Unix THEN UNCHANGED <<names, kept>>
       ELSE \/ names' = [names EXCEPT !["staging"] = FALSE] /\ UNCHANGED kept
            \/ names' = Replaced(names) /\ kept' \in {kept, Replaced(kept)}
    /\ GiveUp(t)
    /\ LegacyOnly /\ UNCHANGED <<source, copy, raw, migrated, handed>>

Retained == IF Unix THEN source ELSE copy

\* The final checks: sentinel, retained file, target.
FinishCutover(t) ==
    /\ Holding(t, "final")
    /\ handed' = IF /\ names["sentinel"] /\ Retained = op[t].src
                    /\ IsFreshTarget(dir) /\ log[1] = op[t].wit.log
                 THEN op[t].src ELSE handed
    /\ Leave(t)
    /\ NoFault
    /\ LegacyOnly /\ UNCHANGED <<source, copy, names, kept, raw, migrated>>
-----------------------------------------------------------------------------
MigrateNext(t) ==
    \/ BeginMigrate(t) \/ Capture(t) \/ MakeTarget(t) \/ MakeTargetErrs(t)
    \/ SyncParent(t) \/ ReserveFirst(t) \/ StartImport(t) \/ CompareSource(t)
    \/ Imported(t)

CutoverNext(t) ==
    \/ BeginCutover(t) \/ CheckTarget(t) \/ Retain(t) \/ WriteSentinel(t)
    \/ RecheckSource(t) \/ LinkRetained(t) \/ ConfirmSource(t)
    \/ Replace(t) \/ ReplaceErrs(t) \/ FinishCutover(t)

\* What the migration shares with the compact switch.
SharedNext(t) ==
    /\ \/ CopyErrs(t) \/ PublishCopy(t) \/ PublishCopyErrs(t) \/ TidyCopy(t)
       \/ Publish(t) \/ SyncDirectory(t) \/ SyncFails(t) \/ Stage(t)
       \/ Fill(t) \/ Link(t) \/ LinkErrs(t)
    /\ UNCHANGED engineVars

\* The routed handle opens the new directory and writes to it.
RoutedLegacyNext(r) ==
    \/ names["target"] /\ \E kind \in {"open", "put"} : BeginCall(r, kind)
    \/ Route(r) \/ Resolve(r) \/ Resolved(r) \/ Append1(r)

\* A command that finds no target directory cannot take its lease.
NoTarget(t) ==
    /\ Running(t, "enter") /\ lease[t] = "none"
    /\ ~names["target"]
    /\ GiveUp(t)
    /\ NoFault /\ LegacyOnly

LeaseNext(p) ==
    \/ names["target"] /\ Acquire(p)
    \/ Busy(p) \/ FinishAcquire(p) \/ Release(p) \/ Die(p) \/ NoTarget(p)

\* What a power loss may leave of the names.
NameImages ==
    {[n \in Names |-> IF names[n] = kept[n] THEN names[n] ELSE n \in S]
        : S \in SUBSET Names}

LegacyPowerLoss ==
    /\ PowerLoss
    /\ names' \in NameImages
    /\ kept' = names'
    /\ names["target"] # kept["target"] =>
          dir' = IF names'["target"] THEN dir' ELSE [k \in Kinds |-> {}]
    /\ raw' = FALSE
    /\ UNCHANGED <<source, copy, migrated, handed>>

LegacyNext ==
    \/ RawOpen \/ RawAppend \/ RawClose
    \/ \E t \in Tools :
          \/ MigrateNext(t) \/ CutoverNext(t)
          \/ SharedNext(t) /\ DirectoryOnly
    \/ \E r \in Routers : RoutedLegacyNext(r) /\ DirectoryOnly
    \/ \E p \in Procs : LeaseNext(p) /\ DirectoryOnly
    \/ OperatorNext /\ UNCHANGED <<dirVars, engineVars, legacyVars>>
    \/ LegacyPowerLoss

LegacySpec == LegacyInit /\ [][LegacyNext]_allVars
-----------------------------------------------------------------------------
\* Generation 1 of an image of the directory is authoritative and its
\* committed prefix has the live state of these records.
Reproduces(d, recs) ==
    /\ 1 \in d["markers"] /\ 1 \in d["logs"]
    /\ proof[1] # Torn
    /\ IsPrefix(proof[1], log[1].recs)
    /\ Live(proof[1]) = Live(recs)

\* The live state of the legacy file can be recovered from whatever a power
\* loss leaves: at the legacy path, under the retained name, or as the
\* committed prefix of generation 1, at every step of both commands and for
\* every record a raw writer manages to append.
LegacyStateSurvives ==
    \A n \in NameImages :
        \/ ~n["sentinel"]
        \/ n["retained"] /\ Live(Retained.recs) = Live(source.recs)
        \/ n["target"] /\ \A d \in Images : Reproduces(d, source.recs)

\* After a cutover that reported success, whatever a power loss leaves has
\* the sentinel, and a generation 1 that starts from the very state the
\* cutover checked; the retained file still starts with those records.
HandoverIsDurable ==
    handed # NoLog =>
        /\ \A n \in NameImages : n["sentinel"] /\ n["target"]
        /\ \A d \in Images : Reproduces(d, handed.recs)
        /\ IsPrefix(handed.recs, Retained.recs)

\* The checks of the target and the retained file, and ...
IsFreshImport ==
    /\ names["retained"] /\ names["target"]
    /\ ~Retained.tail
    /\ Verifies(dir) /\ Authority(dir) = 1
    /\ dir["logs"] = {1} /\ dir["markers"] = {1} /\ dir["staged"] = {}
    /\ dir["reserved"] \in {{}, {1}}
    /\ log[1].recs = proof[1] /\ ~log[1].tail
    /\ Live(log[1].recs) = Live(Retained.recs)

MutSentinelUnchecked == IsFreshImport

\* ... verify_fresh_legacy_cutover with the check of the legacy path.
FreshCutover == names["sentinel"] /\ IsFreshImport

\* When fresh-cutover verification accepts, nothing is left behind: the new
\* authority has the live state of the legacy file with every record any raw
\* writer ever appended to it.
FreshMeansComplete == FreshCutover => Live(log[1].recs) = Live(source.recs)
=============================================================================
