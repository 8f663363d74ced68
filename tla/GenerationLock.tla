--------------------------- MODULE GenerationLock ---------------------------
(***************************************************************************)
(* The writer lease of a generation directory: one lock file beside the    *)
(* directory, created with create_new, holding the record of its owner.    *)
(* Records are compared byte for byte, so a record is abstracted to the    *)
(* acquisition it names (unique: pid, time and counter) or to Blank, the   *)
(* bytes of a file whose record was not completely written.                *)
(*                                                                         *)
(* A process may die anywhere and leaves the file behind.  Only the        *)
(* operator's clear-stale command removes it: the operator inspects the    *)
(* record, confirms that no coordinated writer is alive and passes the     *)
(* inspected bytes.  Blank bytes do not identify a file, so an operator    *)
(* who saw them is assumed to confirm while a lock file is in place.  One  *)
(* clear-stale runs at a time.                                             *)
(***************************************************************************)
EXTENDS Naturals

CONSTANTS Procs,         \* the processes that may take the lease
          Acquisitions,  \* the owner records there are
          Blank,         \* the bytes of an incompletely written record
          NoLock         \* no file at the lock path; no acquisition

ASSUME BlankIsNoAcquisition == Blank \notin Acquisitions
ASSUME NoLockIsNoAcquisition == NoLock \notin Acquisitions /\ NoLock # Blank

LockFiles == [acq : Acquisitions, whole : BOOLEAN]

ASSUME NoLockIsNoFile == NoLock \notin LockFiles

VARIABLES
    lockFile,  \* NoLock, or the file: its creator's acquisition, complete?
    lease,     \* where each process is in acquiring and releasing
    mine,      \* the record each process made for itself
    clear      \* the operator's clear-stale command

lockVars == <<lockFile, lease, mine, clear>>

LeaseStates == {"none", "created", "unwritten", "held", "compared"}
ClearSteps == {"idle", "inspected", "confirmed", "matched", "removing"}

LockTypeOK ==
    /\ lockFile \in LockFiles \cup {NoLock}
    /\ lease \in [Procs -> LeaseStates]
    /\ mine \in [Procs -> Acquisitions \cup {NoLock}]
    /\ clear \in [at : ClearSteps, rec : Acquisitions \cup {Blank, NoLock}]

LockInit ==
    /\ lockFile = NoLock
    /\ lease = [p \in Procs |-> "none"]
    /\ mine = [p \in Procs |-> NoLock]
    /\ clear = [at |-> "idle", rec |-> NoLock]
-----------------------------------------------------------------------------
\* read_lock_record_if_present on an existing lock file.
Bytes(file) == IF file.whole THEN file.acq ELSE Blank

\* owner_record: no file, process or inspection knows the new record yet.
Remembered ==
    {mine[p] : p \in Procs} \cup {clear.rec}
        \cup (IF lockFile = NoLock THEN {} ELSE {lockFile.acq})

\* create_new on the lock path; the process makes its owner record.
CreateLock(p) ==
    /\ lease[p] = "none"
    /\ lockFile = NoLock
    /\ Acquisitions \ Remembered # {}
    /\ LET acq == CHOOSE a \in Acquisitions : a \notin Remembered
       IN  /\ lockFile' = [acq |-> acq, whole |-> FALSE]
           /\ mine' = [mine EXCEPT ![p] = acq]
    /\ lease' = [lease EXCEPT ![p] = "created"]
    /\ UNCHANGED clear

\* write_all of the record into the file this process created, which may
\* have lost its name meanwhile.
WriteRecord(p) ==
    /\ lease[p] = "created"
    /\ lockFile' = IF lockFile # NoLock /\ lockFile.acq = mine[p]
                   THEN [lockFile EXCEPT !.whole = TRUE] ELSE lockFile
    /\ lease' = [lease EXCEPT ![p] = "held"]
    /\ UNCHANGED <<mine, clear>>

\* write_all fails and acquire gives up ...
WriteRecordFails(p) ==
    /\ lease[p] = "created"
    /\ lease' = [lease EXCEPT ![p] = "unwritten"]
    /\ UNCHANGED <<lockFile, mine, clear>>

Left(p) ==
    /\ lease' = [lease EXCEPT ![p] = "none"]
    /\ mine' = [mine EXCEPT ![p] = NoLock]

\* ... removing whatever is at the lock path, if that can be removed.
RemoveUnwritten(p) ==
    /\ lease[p] = "unwritten"
    /\ lockFile' \in {NoLock, lockFile}
    /\ Left(p)
    /\ UNCHANGED clear

\* The record at the lock path is the one this process wrote.
IsOwner(p) == lockFile # NoLock /\ Bytes(lockFile) = mine[p]

\* Dropping the lease reads the record first ...
CompareOwner(p) ==
    /\ lease[p] = "held"
    /\ IF IsOwner(p)
       THEN lease' = [lease EXCEPT ![p] = "compared"] /\ UNCHANGED mine
       ELSE Left(p)
    /\ UNCHANGED <<lockFile, clear>>

\* ... and removes the path when it matched; a failing removal is ignored.
RemoveOwned(p, removed) ==
    /\ lease[p] = "compared"
    /\ lockFile' = IF removed THEN NoLock ELSE lockFile
    /\ Left(p)
    /\ UNCHANGED clear

\* The process dies and leaves the lock file as it is.
LeaveBehind(p) ==
    /\ lease[p] # "none"
    /\ Left(p)
    /\ UNCHANGED <<lockFile, clear>>
-----------------------------------------------------------------------------
\* What the operator finds out, outside the protocol.
NoLiveWriter == \A p \in Procs : lease[p] = "none"

\* inspect_generation_writer_lock, for a file that is present.
InspectLock ==
    /\ clear.at = "idle"
    /\ lockFile # NoLock
    /\ clear' = [at |-> "inspected", rec |-> Bytes(lockFile)]
    /\ UNCHANGED <<lockFile, lease, mine>>

\* What --confirm-no-live-writer attests.
MayConfirm == NoLiveWriter /\ (clear.rec = Blank => lockFile # NoLock)

\* clear_stale_generation_writer_lock starts with the inspected bytes.
ConfirmNoLiveWriter ==
    /\ clear.at = "inspected"
    /\ MayConfirm
    /\ clear' = [clear EXCEPT !.at = "confirmed"]
    /\ UNCHANGED <<lockFile, lease, mine>>

NoClear == [at |-> "idle", rec |-> NoLock]

MutExpectationUnchecked == lockFile # NoLock

\* A lock file is there and holds exactly the expected bytes.
MatchesExpected == lockFile # NoLock /\ Bytes(lockFile) = clear.rec

\* The first read; the command refuses when it does not match.
FirstRead ==
    /\ clear.at = "confirmed"
    /\ clear' = IF MatchesExpected THEN [clear EXCEPT !.at = "matched"]
                ELSE NoClear
    /\ UNCHANGED <<lockFile, lease, mine>>

\* The second read ...
SecondRead ==
    /\ clear.at = "matched"
    /\ clear' = IF MatchesExpected THEN [clear EXCEPT !.at = "removing"]
                ELSE NoClear
    /\ UNCHANGED <<lockFile, lease, mine>>

\* ... and the removal of whatever is at the lock path by then, which may
\* fail.
RemoveStale ==
    /\ clear.at = "removing"
    /\ lockFile' \in {NoLock, lockFile}
    /\ clear' = NoClear
    /\ UNCHANGED <<lease, mine>>

\* The operator inspects and leaves it at that.
ForgetInspection ==
    /\ clear.at = "inspected"
    /\ clear' = NoClear
    /\ UNCHANGED <<lockFile, lease, mine>>

OperatorNext ==
    InspectLock \/ ConfirmNoLiveWriter \/ FirstRead \/ SecondRead
        \/ RemoveStale \/ ForgetInspection

LockNext ==
    \/ \E p \in Procs :
          \/ CreateLock(p) \/ WriteRecord(p) \/ WriteRecordFails(p)
          \/ RemoveUnwritten(p) \/ CompareOwner(p)
          \/ \E removed \in BOOLEAN : RemoveOwned(p, removed)
          \/ LeaveBehind(p)
    \/ OperatorNext

LockSpec == LockInit /\ [][LockNext]_lockVars
-----------------------------------------------------------------------------
HoldsLease(p) == lease[p] \in {"held", "compared"}

\* No two processes are inside the section the writer lease protects
\* (acquire_generation_writer_lease returned and its lease is not dropped),
\* whatever crashes, failed writes and stale-lock clearing went before.
MutualExclusion ==
    \A p, q \in Procs : HoldsLease(p) /\ HoldsLease(q) => p = q
=============================================================================
