--------------------------- MODULE GenerationProofs ---------------------------
(***************************************************************************)
(* Proofs about the generation protocol, for every set of processes and    *)
(* every bound: the writer lease by itself, then commands, routed handles, *)
(* the lease and power losses together, and last the migration and the     *)
(* cutover of a plain log file on top of them.                             *)
(***************************************************************************)
EXTENDS LegacyMigration, FiniteSetTheorems, WellFoundedInduction, TLAPS

\* Every set of natural numbers with a member has a least one.
LEMMA LeastNatural ==
    ASSUME NEW S \in SUBSET Nat, S # {}
    PROVE  \E m \in S : \A k \in S : m <= k
<1>. DEFINE R == StrictSubsetOrdering(Nat)
            D == FiniteSubsetsOf(Nat)
            T == {0 .. n : n \in S}
<1>1. IsWellFoundedOn(R, D)
  BY FS_StrictSubsetOrderingWellFounded
<1>2. T \subseteq D
  <2>1. \A n \in S : IsFiniteSet(0 .. n)
    BY FS_Interval
  <2>2. \A n \in S : 0 .. n \in D
    <3>. TAKE n \in S
    <3>1. 0 .. n \in SUBSET Nat
      OBVIOUS
    <3>. QED
      BY <2>1, <3>1 DEF FiniteSubsetsOf
  <2>. QED
    BY <2>2
<1>3. T # {}
  OBVIOUS
<1>. HIDE DEF R, D, T
<1>4. PICK x \in T : \A y \in T : ~(<<y, x>> \in R)
  BY <1>1, <1>2, <1>3, WFMin
<1>5. PICK m \in S : x = 0 .. m
  BY DEF T
<1>6. ASSUME NEW k \in S, k < m
      PROVE  FALSE
  <2>1. 0 .. k \in T
    BY DEF T
  <2>2. 0 .. k \subseteq 0 .. m /\ m \in 0 .. m /\ m \notin 0 .. k
    BY <1>6
  <2>3. <<0 .. k, 0 .. m>> \in R
    BY <2>2 DEF R, StrictSubsetOrdering
  <2>. QED
    BY <1>4, <1>5, <2>1, <2>3
<1>. QED
  BY <1>6

\* A bounded set of natural numbers with a member has a greatest one.
LEMMA GreatestNatural ==
    ASSUME NEW S \in SUBSET Nat, S # {}, NEW b \in Nat, \A k \in S : k <= b
    PROVE  \E m \in S : \A k \in S : k <= m
<1> DEFINE D == {b - k : k \in S}
<1>1. D \in SUBSET Nat /\ D # {}
  <2>1. \A k \in S : k \in Nat /\ b - k \in Nat
    OBVIOUS
  <2>2. \A d \in D : d \in Nat
    BY <2>1
  <2>3. PICK k \in S : TRUE
    OBVIOUS
  <2>4. b - k \in D
    OBVIOUS
  <2> QED BY <2>2, <2>4
<1> HIDE DEF D
<1>2. PICK d \in D : \A e \in D : d <= e
  BY <1>1, LeastNatural
<1>3. PICK m \in S : d = b - m
  BY <1>2 DEF D
<1>4. ASSUME NEW k \in S PROVE k <= m
  <2>1. b - k \in D
    BY DEF D
  <2>2. d <= b - k
    BY <1>2, <2>1
  <2> QED BY <1>3, <2>2
<1> QED BY <1>4

-----------------------------------------------------------------------------
(***************************************************************************)
(* The lock's own protocol.  Mutual exclusion alone is not inductive: a    *)
(* process that is still writing its record, or giving up, also removes    *)
(* the lock path, and the operator removes it too.  LockInv therefore says *)
(* that every process in the protocol created the file that is at the      *)
(* path, and that a clear past its confirmation can only remove the file   *)
(* of a dead process.                                                      *)
(***************************************************************************)

InProtocol(p) == lease[p] # "none"

\* The file at the lock path is the one the process created.
FileIsOwn ==
    \A p \in Procs :
        InProtocol(p) =>
            /\ lockFile # NoLock
            /\ lockFile.acq = mine[p]
            /\ mine[p] \in Acquisitions

OneInProtocol ==
    \A p, q \in Procs : InProtocol(p) /\ InProtocol(q) => p = q

IdleHasNoRecord ==
    \A p \in Procs : ~InProtocol(p) => mine[p] = NoLock

Abandoned == lockFile # NoLock /\ NoLiveWriter

ClearIsSafe ==
    /\ clear.at # "idle" => clear.rec # NoLock
    /\ clear.at = "confirmed" =>
          \/ clear.rec = Blank /\ Abandoned
          \/ clear.rec # Blank /\ \A p \in Procs : mine[p] # clear.rec
    /\ clear.at \in {"matched", "removing"} => Abandoned

LockInv ==
    LockTypeOK /\ FileIsOwn /\ OneInProtocol /\ IdleHasNoRecord /\ ClearIsSafe

\* Every lemma of this part is about these definitions.
USE DEF LockInv, LockTypeOK, FileIsOwn, OneInProtocol, IdleHasNoRecord,
        ClearIsSafe, Abandoned, InProtocol, LeaseStates, ClearSteps,
        NoLiveWriter, LockFiles

\* Nobody is in the protocol and nothing is at the lock path at the start.
LEMMA LockInitially == LockInit => LockInv
  BY DEF LockInit

\* The record owner_record makes is known to nobody.
LEMMA NewRecord ==
    ASSUME Acquisitions \ Remembered # {}
    PROVE  LET acq == CHOOSE a \in Acquisitions : a \notin Remembered
           IN  acq \in Acquisitions /\ acq \notin Remembered
  OBVIOUS

\* create_new succeeds only while no process is in the protocol, and the
\* new record differs from the one an operator may be clearing.
LEMMA CreateKeeps ==
    ASSUME LockInv, NEW p \in Procs, CreateLock(p)
    PROVE  LockInv'
<1> DEFINE acq == CHOOSE a \in Acquisitions : a \notin Remembered
<1>1. acq \in Acquisitions /\ acq # clear.rec
  <2>1. acq \in Acquisitions /\ acq \notin Remembered
    BY NewRecord DEF CreateLock
  <2> QED  BY <2>1 DEF Remembered
<1>2. /\ lockFile = NoLock
      /\ lease[p] = "none"
      /\ lockFile' = [acq |-> acq, whole |-> FALSE]
      /\ mine' = [mine EXCEPT ![p] = acq]
      /\ lease' = [lease EXCEPT ![p] = "created"]
      /\ clear' = clear
  BY DEF CreateLock
<1> HIDE DEF acq
<1>3. \A q \in Procs : ~InProtocol(q)
  BY <1>2
<1>4. lockFile' \in LockFiles /\ lockFile'.acq = acq
  BY <1>1, <1>2
<1> QED
  BY <1>1, <1>2, <1>3, <1>4, NoLockIsNoFile, NoLockIsNoAcquisition

\* A step of a process that is in the protocol: the others are not in it.
LEMMA ProcessKeeps ==
    ASSUME LockInv, NEW p \in Procs,
           \/ WriteRecord(p) \/ WriteRecordFails(p) \/ RemoveUnwritten(p)
           \/ CompareOwner(p) \/ LeaveBehind(p)
           \/ \E removed \in BOOLEAN : RemoveOwned(p, removed)
    PROVE  LockInv'
<1>1. InProtocol(p) /\ lockFile # NoLock /\ lockFile.acq = mine[p]
  BY DEF WriteRecord, WriteRecordFails, RemoveUnwritten, CompareOwner,
         LeaveBehind, RemoveOwned
<1>2. \A q \in Procs : q # p => ~InProtocol(q)
  BY <1>1
<1>3. CASE WriteRecord(p)
  <2>1. lockFile' = [lockFile EXCEPT !.whole = TRUE]
    BY <1>1, <1>3 DEF WriteRecord
  <2>2. lockFile' \in LockFiles /\ lockFile'.acq = lockFile.acq
    BY <1>1, <2>1
  <2> QED  BY <1>1, <1>2, <1>3, <2>2, NoLockIsNoFile DEF WriteRecord
<1>4. CASE WriteRecordFails(p)
  BY <1>1, <1>2, <1>4 DEF WriteRecordFails
<1>5. CASE RemoveUnwritten(p)
  BY <1>1, <1>2, <1>5 DEF RemoveUnwritten, Left
<1>6. CASE CompareOwner(p)
  BY <1>1, <1>2, <1>6 DEF CompareOwner, Left
<1>7. CASE LeaveBehind(p)
  BY <1>1, <1>2, <1>7 DEF LeaveBehind, Left
<1>8. CASE \E removed \in BOOLEAN : RemoveOwned(p, removed)
  BY <1>1, <1>2, <1>8 DEF RemoveOwned, Left
<1> QED  BY <1>3, <1>4, <1>5, <1>6, <1>7, <1>8

\* When the expected bytes match after the confirmation, the file at the
\* path belongs to nobody in the protocol.
LEMMA MatchIsAbandoned ==
    ASSUME LockInv, clear.at = "confirmed", MatchesExpected
    PROVE  Abandoned
<1>1. CASE clear.rec = Blank
  BY <1>1
<1>2. CASE clear.rec # Blank
  <2>1. lockFile # NoLock /\ lockFile.acq = clear.rec
    BY <1>2 DEF MatchesExpected, Bytes
  <2>2. \A p \in Procs : mine[p] # clear.rec
    BY <1>2
  <2> QED  BY <2>1, <2>2
<1> QED  BY <1>1, <1>2

\* The operator's steps: only RemoveStale changes the lock file, and then it
\* is an abandoned one.
LEMMA OperatorKeeps ==
    ASSUME LockInv, OperatorNext
    PROVE  LockInv'
<1>1. CASE InspectLock
  <2>1. Bytes(lockFile) \in Acquisitions \cup {Blank}
    BY <1>1 DEF InspectLock, Bytes
  <2> QED  BY <1>1, <2>1, NoLockIsNoAcquisition DEF InspectLock
<1>2. CASE ConfirmNoLiveWriter
  BY <1>2 DEF ConfirmNoLiveWriter, MayConfirm
<1>3. CASE FirstRead
  <2>1. CASE MatchesExpected
    <3>1. Abandoned
      BY <1>3, <2>1, MatchIsAbandoned DEF FirstRead
    <3> QED  BY <1>3, <2>1, <3>1 DEF FirstRead
  <2>2. CASE ~MatchesExpected
    BY <1>3, <2>2 DEF FirstRead, NoClear
  <2> QED  BY <2>1, <2>2
<1>4. CASE SecondRead
  BY <1>4 DEF SecondRead, NoClear
<1>5. CASE RemoveStale
  BY <1>5 DEF RemoveStale, NoClear
<1>6. CASE ForgetInspection
  BY <1>6 DEF ForgetInspection, NoClear
<1> QED  BY <1>1, <1>2, <1>3, <1>4, <1>5, <1>6 DEF OperatorNext

\* Every step of the lock protocol keeps the invariant.
LEMMA LockStep == LockInv /\ [LockNext]_lockVars => LockInv'
<1> SUFFICES ASSUME LockInv, [LockNext]_lockVars
             PROVE  LockInv'
  OBVIOUS
<1>1. ASSUME NEW p \in Procs, CreateLock(p)  PROVE LockInv'
  BY <1>1, CreateKeeps
<1>2. ASSUME NEW p \in Procs,
             \/ WriteRecord(p) \/ WriteRecordFails(p) \/ RemoveUnwritten(p)
             \/ CompareOwner(p) \/ LeaveBehind(p)
             \/ \E removed \in BOOLEAN : RemoveOwned(p, removed)
      PROVE  LockInv'
  BY <1>2, ProcessKeeps
<1>3. CASE OperatorNext
  BY <1>3, OperatorKeeps
<1>4. CASE UNCHANGED lockVars
  BY <1>4 DEF lockVars
<1> HIDE DEF LockInv
<1> QED  BY <1>1, <1>2, <1>3, <1>4 DEF LockNext

\* The writer lease of a generation directory excludes for any number of
\* processes and acquisitions: acquire, drop, crash and clear-stale never
\* leave two processes inside the section it protects.
THEOREM LeaseExcludes == LockSpec => []MutualExclusion
<1>1. LockInv => MutualExclusion
  BY DEF MutualExclusion, HoldsLease
<1> QED  BY <1>1, LockInitially, LockStep, PTL DEF LockSpec

HIDE DEF LockInv, LockTypeOK, FileIsOwn, OneInProtocol, IdleHasNoRecord,
        ClearIsSafe, Abandoned, InProtocol, LeaseStates, ClearSteps,
        NoLiveWriter, LockFiles
-----------------------------------------------------------------------------
\* The invariant of the composition.

\* Where a command runs for the generation it has been given ...
WithGeneration ==
    {"reserveSync", "reserved", "survey", "copy", "build", "tidyCopy",
     "recheck", "publish", "baseSync", "stage", "fill", "link", "linkSync",
     "published", "inspected", "match", "unstage", "unstageSync", "unlink"}

\* ... and where a routed call runs, which carries the value of a put.
Routed == {"route", "resolve", "resolved", "apply"}

Places == WithGeneration \cup Routed \cup
    {"idle", "leave", "reserve", "plan", "retireMarkers", "markersSync",
     "reverify", "retireLogs", "logsSync"}
CallKinds == {"none", "open", "reopen", "get", "put", "delete", "switch",
              "publish", "cleanup", "retire"}

Proofs == Seq(0 .. MaxWrites) \cup {Torn}
Witnesses == [auth : 0 .. MaxGen, proof : Proofs \cup {None}, log : File]
Calls == [kind : CallKinds, at : Places, gen : Nat, wit : Witnesses,
          src : File, dirty : BOOLEAN]
Handles == [status : {"closed", "open", "poisoned"}, gen : 0 .. MaxGen,
            seen : Nat, inner : {"ok", "poisoned"}]

CallFits(c) == /\ c.at \in WithGeneration => c.gen \in Gens
               /\ c.at = "copy" => c.wit.auth \in Gens
               /\ c.at \in Routed => c.gen \in 0 .. MaxWrites

DirTypes ==
    /\ platform \in {"unix", "windows"}
    /\ dir \in [Kinds -> SUBSET Gens] /\ disk \in [Kinds -> SUBSET Gens]
    /\ log \in [Gens -> File] /\ proof \in [Gens -> Proofs]
    /\ op \in [Procs -> Calls] /\ \A p \in Procs : CallFits(op[p])
    /\ faults \in 0 .. MaxFaults
    /\ built \in [Gens -> Nat]

EngineTypes ==
    /\ handle \in [Routers -> Handles]
    /\ writes \in 0 .. MaxWrites
    /\ acked \in 0 .. MaxWrites /\ doubt \subseteq 0 .. MaxWrites
    /\ misread \in BOOLEAN

\* The operator of these compositions clears in one step.
GenLockInv == LockInv /\ clear = NoClear

\* Where a switch has an id for which no compact copy was made yet, and where
\* the reservation of that id is durable.
Unbuilt == {"reserveSync", "reserved", "survey", "copy", "build"}
Surely == Unbuilt \ {"reserveSync"}

\* An id that was given to a copy stays reserved, so nothing takes it again.
FrontierInv ==
    /\ \A g \in Gens : built[g] # 0 => /\ built[g] = 1
                                       /\ g \in dir["reserved"] \cap disk["reserved"]
    /\ \A p \in Procs : op[p].at \in Unbuilt =>
          /\ op[p].gen \in dir["reserved"]
          /\ op[p].at \in Surely => op[p].gen \in disk["reserved"]
          /\ built[op[p].gen] = 0
    /\ \A p, q \in Procs :
          op[p].at \in Unbuilt /\ op[q].at \in Unbuilt /\ op[p].gen = op[q].gen => p = q

\* Some visible marker is as high as every durable one, and as the authority
\* a cleanup has found.
Reached(m) == \E n \in dir["markers"] : m <= n
MarkersInv ==
    /\ \A m \in disk["markers"] : Reached(m)
    /\ \A p \in Procs : op[p].at = "retireMarkers" => Reached(op[p].wit.auth)

GenInv == GenLockInv /\ DirTypes /\ EngineTypes /\ FrontierInv /\ MarkersInv
-----------------------------------------------------------------------------
\* The lease.

\* A command takes the lease at its start or leaves the lock alone.
LEMMA SwitchLocks ==
    ASSUME NEW t \in Procs, SwitchNext(t)
    PROVE  CreateLock(t) \/ UNCHANGED lockVars
BY DEF SwitchNext, BeginReserving, BeginPublishing, Begin, SyncDirectory, SyncFails,
   Reserve, ReserveErrs, Reserved, Survey, StartCopy, CopyErrs, PublishCopy,
   PublishCopyErrs, TidyCopy, Recheck, Publish, Stage, Fill, Link, LinkErrs, Published

\* So does a step of a cleanup or a retirement.
LEMMA RetirementLocks ==
    ASSUME NEW t \in Procs, RetirementNext(t)
    PROVE  CreateLock(t) \/ UNCHANGED lockVars
BY DEF RetirementNext, BeginCleanup, Begin, PlanCleanup, RetireMarkers, Reverify,
   RetireLogs, InspectOrphan, ConfirmBuilderStopped, MatchOrphan, UnstageOrphan,
   UnlinkOrphan

\* So does a call on a routed handle.
LEMMA RoutedLocks ==
    ASSUME NEW r \in Procs, RoutedNext(r)
    PROVE  CreateLock(r) \/ UNCHANGED lockVars
BY DEF RoutedNext, BeginCall, Begin, Route, Resolve, Resolved, Get, Append1, AppendFails

\* Taking the lease later on, giving it back and dying are steps of the lock
\* protocol.
LEMMA LeaseLocks ==
    ASSUME NEW p \in Procs,
           Acquire(p) \/ Busy(p) \/ FinishAcquire(p) \/ Release(p) \/ Die(p)
    PROVE  [LockNext]_lockVars /\ UNCHANGED clear
<1>1. CASE Acquire(p)
  BY <1>1 DEF Acquire, LockNext, CreateLock
<1>2. CASE Busy(p)
  BY <1>2 DEF Busy, lockVars
<1>3. CASE FinishAcquire(p)
  BY <1>3 DEF FinishAcquire, LockNext, WriteRecord, WriteRecordFails, RemoveUnwritten
<1>4. CASE Release(p)
  BY <1>4 DEF Release, LockNext, CompareOwner, RemoveOwned
<1>5. CASE Die(p)
  BY <1>5 DEF Die, LockNext, LeaveBehind, lockVars
<1> QED BY <1>1, <1>2, <1>3, <1>4, <1>5

\* A power loss may leave a lock file, and nobody in the protocol.
LEMMA PowerLossLocks ==
    ASSUME GenLockInv, PowerLoss
    PROVE  GenLockInv'
<1>1. /\ lockFile' \in {NoLock, lockFile} /\ lease' = [p \in Procs |-> "none"]
      /\ mine' = [p \in Procs |-> NoLock] /\ clear' = NoClear /\ clear = NoClear
  BY DEF PowerLoss, GenLockInv, NoClear
<1> QED
  BY <1>1, NoLockIsNoAcquisition
  DEF GenLockInv, NoClear, LockInv, LockTypeOK, FileIsOwn, OneInProtocol,
     IdleHasNoRecord, ClearIsSafe, Abandoned, InProtocol, LeaseStates, ClearSteps,
     NoLiveWriter, LockFiles

\* The operator removes the file of dead processes.
LEMMA ClearStaleLocks ==
    ASSUME GenLockInv, ClearStale
    PROVE  GenLockInv'
BY NoLockIsNoAcquisition
DEF ClearStale, GenLockInv, NoClear, LockInv, LockTypeOK, FileIsOwn, OneInProtocol,
     IdleHasNoRecord, ClearIsSafe, Abandoned, InProtocol, LeaseStates, ClearSteps,
     NoLiveWriter, LockFiles

\* Every step of the composition is a step of the lease's protocol, a power
\* loss or a clear.
LEMMA LockKept ==
    ASSUME GenLockInv, [Next]_vars
    PROVE  GenLockInv'
<1>1. CASE PowerLoss
  BY <1>1, PowerLossLocks
<1>2. CASE ClearStale
  BY <1>2, ClearStaleLocks
<1>3. CASE [LockNext]_lockVars /\ UNCHANGED clear
  BY <1>3, LockStep DEF GenLockInv, NoClear
<1>4. ASSUME NEW p \in Procs, CreateLock(p) \/ UNCHANGED lockVars
      PROVE  [LockNext]_lockVars /\ UNCHANGED clear
  BY <1>4 DEF LockNext, lockVars, CreateLock
<1>5. CASE UNCHANGED vars
  BY <1>3, <1>5 DEF vars, lockVars
<1>6. ASSUME NEW r \in Routers, RoutedNext(r) PROVE GenLockInv'
  BY <1>3, <1>4, <1>6, RoutedLocks, RoutersAreProcesses
<1>7. ASSUME NEW t \in Tools, ToolNext(t) PROVE GenLockInv'
  BY <1>3, <1>4, <1>7, SwitchLocks, RetirementLocks, ToolsAreProcesses DEF ToolNext
<1>8. ASSUME NEW p \in Procs,
             Acquire(p) \/ Busy(p) \/ FinishAcquire(p) \/ Release(p) \/ Die(p)
      PROVE  GenLockInv'
  BY <1>3, <1>8, LeaseLocks
<1> QED BY <1>1, <1>2, <1>5, <1>6, <1>7, <1>8, SMTT(30) DEF Next
-----------------------------------------------------------------------------
\* Names, ids and calls.

Namespaces == [Kinds -> SUBSET Gens]

\* The highest member of a set of generations.
LEMMA MaxIs ==
    ASSUME NEW S \in SUBSET Nat, S # {}, NEW b \in Nat, \A n \in S : n <= b
    PROVE  Max(S) \in S /\ \A n \in S : n <= Max(S)
<1>1. PICK m \in S : \A n \in S : n <= m
  BY GreatestNatural
<1>2. m \in S /\ \A n \in S : m >= n
  BY <1>1
<1>3. Max(S) \in S /\ \A n \in S : Max(S) >= n
  BY <1>2, Zenon DEF Max
<1> QED BY <1>3

\* The lowest one.
LEMMA MinIs ==
    ASSUME NEW S \in SUBSET Nat, S # {}
    PROVE  Min(S) \in S
<1>1. PICK m \in S : \A n \in S : m <= n
  BY LeastNatural
<1> QED BY <1>1, Zenon DEF Min

\* The authority is a marker and no marker is above it.
LEMMA AuthorityIs ==
    ASSUME NEW d \in Namespaces, d["markers"] # {}
    PROVE  /\ Authority(d) \in d["markers"] /\ Authority(d) \in Gens
           /\ \A m \in d["markers"] : m <= Authority(d)
<1>1. d["markers"] \in SUBSET Gens
  BY DEF Namespaces, Kinds
<1>2. d["markers"] \in SUBSET Nat /\ \A m \in d["markers"] : m <= MaxGen
  BY <1>1, MaxGenIsPositive DEF Gens
<1>3. /\ Max(d["markers"]) \in d["markers"]
      /\ \A m \in d["markers"] : m <= Max(d["markers"])
  BY <1>2, MaxIs, MaxGenIsPositive
<1> QED BY <1>1, <1>3 DEF Authority

\* The next id is above every reservation, and above 1.
LEMMA NextIdIsNew ==
    ASSUME NEW d \in Namespaces, d["markers"] # {}
    PROVE  /\ NextId(d) \in Nat \ {0, 1}
           /\ \A g \in d["reserved"] : g < NextId(d)
<1> DEFINE S == UNION {d[k] : k \in {"logs", "markers", "staged", "reserved"}}
<1>1. S \in SUBSET Gens /\ d["reserved"] \subseteq S /\ S # {}
  BY DEF Namespaces, Kinds
<1>2. S \in SUBSET Nat /\ \A n \in S : n <= MaxGen /\ n # 0
  BY <1>1, MaxGenIsPositive DEF Gens
<1>3. NextId(d) = Max(S) + 1
  BY Zenon DEF NextId
<1> HIDE DEF S
<1>4. Max(S) \in S /\ \A n \in S : n <= Max(S)
  BY <1>1, <1>2, MaxIs, MaxGenIsPositive
<1> DEFINE m == Max(S)
<1>5. m \in Nat /\ m # 0 /\ NextId(d) = m + 1 /\ \A n \in S : n \in Nat /\ n <= m
  BY <1>2, <1>3, <1>4
<1> HIDE DEF m
<1>6. \A g \in d["reserved"] : g \in Nat /\ g <= m
  BY <1>1, <1>5
<1>7. m + 1 \in Nat \ {0, 1} /\ \A g \in d["reserved"] : g < m + 1
  BY <1>5, <1>6
<1> QED BY <1>5, <1>7

\* Entries added, dropped and moved.
LEMMA AddIs ==
    ASSUME NEW d \in Namespaces, NEW k \in Kinds, NEW g \in Gens
    PROVE  /\ Add(d, k, g) \in Namespaces
           /\ \A j \in Kinds : Add(d, k, g)[j] = IF j = k THEN d[j] \cup {g} ELSE d[j]
BY DEF Namespaces, Add

\* A name dropped.
LEMMA DropIs ==
    ASSUME NEW d \in Namespaces, NEW k \in Kinds, NEW g \in Gens
    PROVE  /\ Drop(d, k, g) \in Namespaces
           /\ \A j \in Kinds : Drop(d, k, g)[j] = IF j = k THEN d[j] \ {g} ELSE d[j]
BY DEF Namespaces, Drop

\* A name moved to another kind.
LEMMA MoveIs ==
    ASSUME NEW d \in Namespaces, NEW from \in Kinds, NEW to \in Kinds, NEW g \in Gens
    PROVE  /\ Move(d, from, to, g) \in Namespaces
           /\ \A j \in Kinds : j \notin {from, to} => Move(d, from, to, g)[j] = d[j]
           /\ Move(d, from, to, g)[to] = d[to] \cup {g}
           /\ from # to => Move(d, from, to, g)[from] = d[from] \ {g}
<1> DEFINE x == Drop(d, from, g)
<1>1. x \in Namespaces /\ \A j \in Kinds : x[j] = IF j = from THEN d[j] \ {g} ELSE d[j]
  BY DropIs, ZenonT(60)
<1>2. Move(d, from, to, g) = Add(x, to, g)
  BY DEF Move
<1> HIDE DEF x
<1>3. /\ Add(x, to, g) \in Namespaces
      /\ \A j \in Kinds : Add(x, to, g)[j] = IF j = to THEN x[j] \cup {g} ELSE x[j]
  BY <1>1, AddIs
<1> QED BY <1>1, <1>2, <1>3

\* What becomes of the names in one step: reservations stay, and so do the
\* highest marker and what is durable of it.
NamesKept ==
    /\ dir' \in Namespaces /\ disk' \in Namespaces
    /\ dir["reserved"] \subseteq dir'["reserved"]
    /\ dir["reserved"] \cap disk["reserved"] \subseteq disk'["reserved"]
    /\ disk'["markers"] \subseteq disk["markers"] \cup dir["markers"] \cup dir'["markers"]
    /\ \A n \in dir["markers"] : \E m \in dir'["markers"] : n <= m
    /\ \A n \in dir["markers"] \cap disk["markers"] :
          (\A m \in dir["markers"] : m <= n) => n \in disk'["markers"]

\* Other names do not matter to it.
LEMMA OtherNames ==
    ASSUME dir \in Namespaces, disk \in Namespaces,
           dir' \in Namespaces, disk' \in Namespaces,
           \A k \in {"reserved", "markers"} :
              dir'[k] = dir[k] /\ (disk'[k] = disk[k] \/ disk'[k] = dir[k])
    PROVE  NamesKept
<1>1. /\ dir'["reserved"] = dir["reserved"] /\ dir'["markers"] = dir["markers"]
      /\ disk'["reserved"] = disk["reserved"] \/ disk'["reserved"] = dir["reserved"]
      /\ disk'["markers"] = disk["markers"] \/ disk'["markers"] = dir["markers"]
  OBVIOUS
<1>2. \A n \in dir["markers"] : n <= n
  BY DEF Namespaces, Kinds, Gens
<1> QED BY <1>1, <1>2 DEF NamesKept

\* A call goes on: with the id it was given, and what it has found.
Continues(c, x) ==
    /\ x.at \in Unbuilt => c.at \in Unbuilt /\ x.gen = c.gen
    /\ x.at \in Surely => c.at \in Surely \/ disk' = dir
    /\ x.at = "retireMarkers" => c.at = "retireMarkers" /\ x.wit.auth = c.wit.auth

CallGoes(p) ==
    \E x \in Calls : op' = [op EXCEPT ![p] = x] /\ CallFits(x) /\ Continues(op[p], x)

\* An empty log and a call that does nothing.
LEMMA NoLogIsFile == NoLog \in File /\ NoLog.recs = << >>
<1>1. << >> \in Seq(0 .. MaxWrites)
  OBVIOUS
<1> QED BY <1>1 DEF NoLog, File

\* A process without a call, and one that only has to drop the lease.
LEMMA NoOpIsCall ==
    /\ NoOp \in Calls /\ Leaving \in Calls
    /\ NoOp.at = "idle" /\ NoOp.gen = 0 /\ NoOp.kind = "none"
    /\ Leaving.at = "leave" /\ Leaving.gen = 0
<1>1. NoWitness \in Witnesses
  BY NoLogIsFile, MaxGenIsPositive DEF NoWitness, Witnesses
<1>2. /\ NoOp.at = "idle" /\ NoOp.gen = 0 /\ NoOp.kind = "none"
      /\ Leaving.at = "leave" /\ Leaving.gen = 0
  BY DEF NoOp, Leaving
<1>3. NoLog \in File
  BY NoLogIsFile
<1>4. NoOp \in Calls /\ Leaving \in Calls
  <2>1. "none" \in CallKinds /\ "idle" \in Places /\ "leave" \in Places
    BY DEF CallKinds, Places
  <2>2. NoOp \in Calls
    <3>1. 0 \in Nat
      OBVIOUS
    <3> QED BY <1>1, <1>3, <2>1, <3>1, Zenon DEF NoOp, Calls
  <2>3. Leaving \in Calls
    BY <2>1, <2>2 DEF Leaving, Calls
  <2> QED BY <2>2, <2>3
<1> QED BY <1>2, <1>4

\* The call ends or leaves.
LEMMA CallEnds ==
    ASSUME NEW p \in Procs, op \in [Procs -> Calls],
           Leave(p) \/ GiveUp(p) \/ op' = [op EXCEPT ![p] = NoOp]
    PROVE  CallGoes(p)
<1>1. \A x \in {NoOp, Leaving} : x \in Calls /\ CallFits(x) /\ Continues(op[p], x)
  BY NoOpIsCall DEF CallFits, Continues, WithGeneration, Routed, Unbuilt, Surely
<1>2. \E x \in {NoOp, Leaving} : op' = [op EXCEPT ![p] = x]
  BY DEF Leave, GiveUp
<1> QED BY <1>1, <1>2 DEF CallGoes

\* Another part of a call than its control.
LEMMA CallAt ==
    ASSUME NEW c \in Calls, NEW at \in Places
    PROVE  /\ [c EXCEPT !.at = at] \in Calls /\ [c EXCEPT !.at = at].at = at
           /\ [c EXCEPT !.at = at].gen = c.gen /\ [c EXCEPT !.at = at].wit = c.wit
           /\ [c EXCEPT !.at = at].kind = c.kind /\ [c EXCEPT !.at = at].src = c.src
BY DEF Calls

\* It goes from one place of its command to the next.
LEMMA CallGoesOn ==
    ASSUME NEW p \in Procs, op \in [Procs -> Calls], CallFits(op[p]),
           NEW at \in Places, Goto(p, at),
           at \in WithGeneration => op[p].at \in WithGeneration,
           at \in Routed => op[p].at \in Routed,
           at \in Unbuilt => op[p].at \in Unbuilt,
           at \in Surely => op[p].at \in Surely \/ disk' = dir,
           at \notin {"copy", "retireMarkers"}
    PROVE  CallGoes(p)
<1> DEFINE x == [op[p] EXCEPT !.at = at]
<1>1. /\ x \in Calls /\ x.at = at /\ x.gen = op[p].gen /\ x.wit = op[p].wit
  BY CallAt
<1>2. op' = [op EXCEPT ![p] = x]
  BY DEF Goto
<1> HIDE DEF x
<1>3. CallFits(x) /\ Continues(op[p], x)
  BY <1>1 DEF CallFits, Continues
<1> QED BY <1>1, <1>2, <1>3 DEF CallGoes
-----------------------------------------------------------------------------
\* What the steps do to the names.

\* A step that changes no name, or makes the visible ones durable.
LEMMA SameNames ==
    ASSUME DirTypes, dir' = dir, disk' \in {disk, dir}
    PROVE  NamesKept
BY OtherNames DEF DirTypes, Namespaces

Others == Kinds \ {"reserved", "markers"}

\* Reservations and markers do not change with the names of other kinds.
LEMMA OtherEntries ==
    ASSUME NEW d \in Namespaces, NEW k \in Others, NEW g \in Gens
    PROVE  /\ Add(d, k, g) \in Namespaces /\ Drop(d, k, g) \in Namespaces
           /\ \A j \in {"reserved", "markers"} :
                 Add(d, k, g)[j] = d[j] /\ Drop(d, k, g)[j] = d[j]
<1>1. k \in Kinds /\ \A j \in {"reserved", "markers"} : j \in Kinds /\ j # k
  BY DEF Others, Kinds
<1>2. /\ Add(d, k, g) \in Namespaces
      /\ \A j \in Kinds : Add(d, k, g)[j] = IF j = k THEN d[j] \cup {g} ELSE d[j]
  BY <1>1, AddIs
<1>3. /\ Drop(d, k, g) \in Namespaces
      /\ \A j \in Kinds : Drop(d, k, g)[j] = IF j = k THEN d[j] \ {g} ELSE d[j]
  <2>1. k \in Kinds
    BY <1>1
  <2> QED BY <2>1, DropIs, ZenonT(60)
<1> QED BY <1>1, <1>2, <1>3

\* A log, a copy, a staging marker or a quarantined name appears or goes.
LEMMA NameChanges ==
    ASSUME DirTypes, NEW k \in Others, NEW g \in Gens,
           dir' \in {dir, Add(dir, k, g), Drop(dir, k, g)}, disk' = disk
    PROVE  NamesKept
<1>1. dir \in Namespaces /\ disk \in Namespaces
  BY DEF DirTypes, Namespaces
<1>2. dir' \in Namespaces /\ \A j \in {"reserved", "markers"} : dir'[j] = dir[j]
  BY <1>1, OtherEntries
<1> QED BY <1>1, <1>2, OtherNames

\* Such a name moves, visibly or durably.
LEMMA NameMoves ==
    ASSUME DirTypes, NEW from \in Others, NEW to \in Others, NEW g \in Gens,
           dir' \in {dir, Move(dir, from, to, g)}, disk' \in {disk, Move(disk, from, to, g)}
    PROVE  NamesKept
<1>1. dir \in Namespaces /\ disk \in Namespaces /\ from \in Kinds /\ to \in Kinds
  BY DEF DirTypes, Namespaces, Others
<1>2. ASSUME NEW d \in Namespaces
      PROVE  /\ Move(d, from, to, g) \in Namespaces
             /\ \A j \in Kinds : j \notin {from, to} => Move(d, from, to, g)[j] = d[j]
  BY <1>1, MoveIs
<1>3. \A j \in {"reserved", "markers"} : j \in Kinds /\ j \notin {from, to}
  BY DEF Others, Kinds
<1> QED BY <1>1, <1>2, <1>3, OtherNames

\* A marker appears.
LEMMA MarkerAppears ==
    ASSUME DirTypes, NEW g \in Gens,
           \/ dir' = Add(dir, "markers", g) /\ disk' = disk
           \/ /\ dir' = Move(dir, "staged", "markers", g)
              /\ disk' \in {disk, Move(disk, "staged", "markers", g)}
    PROVE  NamesKept
<1>1. /\ dir \in Namespaces /\ disk \in Namespaces
      /\ "markers" \in Kinds /\ "staged" \in Kinds /\ "reserved" \in Kinds
  BY DEF DirTypes, Namespaces, Kinds
<1>2. ASSUME NEW d \in Namespaces
      PROVE  /\ Move(d, "staged", "markers", g) \in Namespaces
             /\ Move(d, "staged", "markers", g)["reserved"] = d["reserved"]
             /\ Move(d, "staged", "markers", g)["markers"] = d["markers"] \cup {g}
  BY <1>1, MoveIs
<1>3. /\ Add(dir, "markers", g) \in Namespaces
      /\ Add(dir, "markers", g)["reserved"] = dir["reserved"]
      /\ Add(dir, "markers", g)["markers"] = dir["markers"] \cup {g}
  <2>1. /\ Add(dir, "markers", g) \in Namespaces
        /\ \A j \in Kinds : Add(dir, "markers", g)[j] =
              IF j = "markers" THEN dir[j] \cup {g} ELSE dir[j]
    BY <1>1, AddIs
  <2> QED BY <1>1, <2>1
<1>4. /\ dir' \in Namespaces /\ disk' \in Namespaces
      /\ dir'["reserved"] = dir["reserved"] /\ disk'["reserved"] = disk["reserved"]
      /\ dir'["markers"] = dir["markers"] \cup {g}
      /\ disk'["markers"] \in {disk["markers"], disk["markers"] \cup {g}}
  BY <1>1, <1>2, <1>3
<1>5. \A n \in dir["markers"] : n <= n
  BY <1>1 DEF Namespaces, Gens
<1> QED BY <1>4, <1>5 DEF NamesKept

\* A marker dropped.
LEMMA MarkerDropped ==
    ASSUME NEW d \in Namespaces, NEW g \in Gens
    PROVE  /\ Drop(d, "markers", g) \in Namespaces
           /\ Drop(d, "markers", g)["reserved"] = d["reserved"]
           /\ Drop(d, "markers", g)["markers"] = d["markers"] \ {g}
<1>1. "markers" \in Kinds /\ "reserved" \in Kinds
  BY DEF Kinds
<1>2. /\ Drop(d, "markers", g) \in Namespaces
      /\ \A j \in Kinds : Drop(d, "markers", g)[j] =
            IF j = "markers" THEN d[j] \ {g} ELSE d[j]
  BY <1>1, DropIs, ZenonT(60)
<1> QED BY <1>1, <1>2

\* A marker goes that is below one that stays.
LEMMA MarkerRetired ==
    ASSUME DirTypes, NEW a \in Nat, Reached(a), NEW g \in dir["markers"], g < a,
           \/ dir' = Drop(dir, "markers", g) /\ disk' = disk
           \/ /\ dir' \in {dir, Move(dir, "markers", "oldMarkers", g)}
              /\ disk' \in {disk, Move(disk, "markers", "oldMarkers", g)}
    PROVE  NamesKept
<1>1. /\ dir \in Namespaces /\ disk \in Namespaces
      /\ "markers" \in Kinds /\ "oldMarkers" \in Kinds /\ "reserved" \in Kinds
      /\ dir["markers"] \subseteq Gens
  BY DEF DirTypes, Namespaces, Kinds
<1>2. ASSUME NEW d \in Namespaces
      PROVE  /\ Move(d, "markers", "oldMarkers", g) \in Namespaces
             /\ Move(d, "markers", "oldMarkers", g)["reserved"] = d["reserved"]
             /\ Move(d, "markers", "oldMarkers", g)["markers"] = d["markers"] \ {g}
  <2>1. "markers" # "oldMarkers"
    OBVIOUS
  <2>2. /\ Move(d, "markers", "oldMarkers", g) \in Namespaces
        /\ \A j \in Kinds : j \notin {"markers", "oldMarkers"} =>
              Move(d, "markers", "oldMarkers", g)[j] = d[j]
        /\ "markers" # "oldMarkers" =>
              Move(d, "markers", "oldMarkers", g)["markers"] = d["markers"] \ {g}
    <3>1. g \in Gens
      BY <1>1
    <3> QED BY <1>1, <3>1, MoveIs, SMTT(30)
  <2> QED BY <1>1, <2>1, <2>2
<1>3. /\ Drop(dir, "markers", g) \in Namespaces
      /\ Drop(dir, "markers", g)["reserved"] = dir["reserved"]
      /\ Drop(dir, "markers", g)["markers"] = dir["markers"] \ {g}
  BY <1>1, MarkerDropped
<1>4. /\ dir' \in Namespaces /\ disk' \in Namespaces
      /\ dir'["reserved"] = dir["reserved"] /\ disk'["reserved"] = disk["reserved"]
      /\ dir'["markers"] \in {dir["markers"], dir["markers"] \ {g}}
      /\ disk'["markers"] \in {disk["markers"], disk["markers"] \ {g}}
  BY <1>1, <1>2, <1>3
<1>5. PICK top \in dir["markers"] : a <= top
  BY DEF Reached
<1>6. \A n \in dir["markers"] : n \in Nat
  BY <1>1 DEF Gens
<1>7. top # g /\ g <= top /\ top \in dir'["markers"]
  BY <1>4, <1>5, <1>6
<1>8. \A n \in dir["markers"] : \E m \in dir'["markers"] : n <= m
  BY <1>4, <1>6, <1>7
<1>9. \A n \in dir["markers"] : (\A m \in dir["markers"] : m <= n) => n # g
  BY <1>5, <1>6
<1> QED BY <1>4, <1>8, <1>9 DEF NamesKept

\* A reservation appears.
LEMMA ReservationAppears ==
    ASSUME DirTypes, NEW g \in Gens,
           \/ dir' = Add(dir, "reserved", g) /\ disk' = disk
           \/ /\ dir' \in {dir, Move(dir, "reserved", "reserved", g)}
              /\ disk' \in {disk, Move(disk, "reserved", "reserved", g)}
    PROVE  /\ NamesKept
           /\ \A d \in {dir, disk} :
                 Move(d, "reserved", "reserved", g)["reserved"] = d["reserved"] \cup {g}
           /\ Add(dir, "reserved", g)["reserved"] = dir["reserved"] \cup {g}
<1>1. /\ dir \in Namespaces /\ disk \in Namespaces
      /\ "markers" \in Kinds /\ "reserved" \in Kinds
  BY DEF DirTypes, Namespaces, Kinds
<1>2. ASSUME NEW d \in Namespaces
      PROVE  /\ Move(d, "reserved", "reserved", g) \in Namespaces
             /\ Move(d, "reserved", "reserved", g)["reserved"] = d["reserved"] \cup {g}
             /\ Move(d, "reserved", "reserved", g)["markers"] = d["markers"]
  BY <1>1, MoveIs
<1>3. /\ Add(dir, "reserved", g) \in Namespaces
      /\ Add(dir, "reserved", g)["reserved"] = dir["reserved"] \cup {g}
      /\ Add(dir, "reserved", g)["markers"] = dir["markers"]
  <2>1. /\ Add(dir, "reserved", g) \in Namespaces
        /\ \A j \in Kinds : Add(dir, "reserved", g)[j] =
              IF j = "reserved" THEN dir[j] \cup {g} ELSE dir[j]
    BY <1>1, AddIs
  <2> QED BY <1>1, <2>1
<1>4. /\ dir' \in Namespaces /\ disk' \in Namespaces
      /\ dir'["markers"] = dir["markers"] /\ disk'["markers"] = disk["markers"]
      /\ dir["reserved"] \subseteq dir'["reserved"]
      /\ disk["reserved"] \subseteq disk'["reserved"]
  BY <1>1, <1>2, <1>3
<1>5. \A n \in dir["markers"] : n <= n
  BY <1>1 DEF Namespaces, Gens
<1> QED BY <1>1, <1>2, <1>3, <1>4, <1>5 DEF NamesKept
-----------------------------------------------------------------------------
\* What they do to the files.

FilesKept ==
    /\ log' \in [Gens -> File] /\ proof' \in [Gens -> Proofs]
    /\ faults' \in 0 .. MaxFaults /\ platform' = platform

\* A step counts at most one failure, and the platform stays.
LEMMA FaultsCounted ==
    ASSUME DirTypes, NoFault \/ Fault
    PROVE  faults' \in 0 .. MaxFaults /\ platform' = platform
BY MaxFaultsIsNatural DEF DirTypes, NoFault, Fault

\* A step that writes no file.
LEMMA SameFiles ==
    ASSUME DirTypes, NoFault \/ Fault, log' = log, proof' = proof
    PROVE  FilesKept
BY FaultsCounted DEF DirTypes, FilesKept

\* The step of one call that changes nothing but names below the markers,
\* the control of the call and the count of failures.
StepKept(p) == CallGoes(p) /\ NamesKept /\ FilesKept

\* Every process executes a call, or none.
LEMMA CallsTyped ==
    ASSUME DirTypes, NEW p \in Procs
    PROVE  op[p] \in Calls /\ CallFits(op[p]) /\ op \in [Procs -> Calls]
BY DEF DirTypes

\* A call begins.
LEMMA CallBegins ==
    ASSUME NEW p \in Procs, NEW call \in Calls, Begin(p, call), CallFits(call),
           call.at \notin Unbuilt \cup {"retireMarkers"}
    PROVE  CallGoes(p)
BY DEF Begin, CallGoes, Continues, Unbuilt, Surely
-----------------------------------------------------------------------------
\* Reservation, switch and publication.

\* A reservation, a publication and a cleanup begin.
LEMMA BeginningsKept ==
    ASSUME DirTypes, NEW t \in Procs,
           \/ BeginReserving(t) \/ BeginCleanup(t)
           \/ \E g \in Gens : BeginPublishing(t, g)
    PROVE  StepKept(t) /\ built' = built
<1>1. /\ dir' = dir /\ disk' = disk /\ log' = log /\ proof' = proof /\ built' = built
      /\ NoFault
  BY DEF BeginReserving, BeginCleanup, BeginPublishing
<1>2. \E call \in Calls : /\ Begin(t, call) /\ CallFits(call)
                          /\ call.at \notin Unbuilt \cup {"retireMarkers"}
  <2>1. CASE BeginReserving(t)
    <3> DEFINE x == [NoOp EXCEPT !.kind = "switch", !.at = "reserve"]
    <3>1. x \in Calls /\ x.at = "reserve"
      BY NoOpIsCall DEF Calls, CallKinds, Places
    <3>2. Begin(t, x)
      BY <2>1 DEF BeginReserving
    <3> QED BY <3>1, <3>2 DEF CallFits, WithGeneration, Routed, Unbuilt
  <2>2. CASE BeginCleanup(t)
    <3> DEFINE x == [NoOp EXCEPT !.kind = "cleanup", !.at = "plan"]
    <3>1. x \in Calls /\ x.at = "plan"
      BY NoOpIsCall DEF Calls, CallKinds, Places
    <3>2. Begin(t, x)
      BY <2>2 DEF BeginCleanup
    <3> QED BY <3>1, <3>2 DEF CallFits, WithGeneration, Routed, Unbuilt
  <2>3. ASSUME NEW g \in Gens, BeginPublishing(t, g)
        PROVE  \E call \in Calls : /\ Begin(t, call) /\ CallFits(call)
                                   /\ call.at \notin Unbuilt \cup {"retireMarkers"}
    <3> DEFINE y == [NoOp EXCEPT !.kind = "publish", !.at = "publish"]
               x == [NoOp EXCEPT !.kind = "publish", !.at = "publish", !.gen = g]
    <3>1. y \in Calls /\ y.at = "publish" /\ x = [y EXCEPT !.gen = g]
      BY NoOpIsCall DEF Calls, CallKinds, Places, WithGeneration
    <3>2. Begin(t, x)
      BY <2>3 DEF BeginPublishing
    <3> HIDE DEF x, y
    <3>3. x \in Calls /\ x.at = "publish" /\ x.gen = g
      BY <3>1 DEF Calls, Gens
    <3> QED BY <3>2, <3>3 DEF CallFits, WithGeneration, Routed, Unbuilt
  <2> QED BY <2>1, <2>2, <2>3
<1> QED BY <1>1, <1>2, CallBegins, SameNames, SameFiles DEF StepKept

\* A directory sync, and a failing one.
LEMMA SyncsKept ==
    ASSUME DirTypes, NEW t \in Procs, SyncDirectory(t) \/ SyncFails(t)
    PROVE  StepKept(t) /\ built' = built
<1>1. /\ dir' = dir /\ disk' \in {disk, dir} /\ log' = log /\ proof' = proof
      /\ built' = built /\ (NoFault \/ Fault)
  BY DEF SyncDirectory, SyncFails
<1>2. NamesKept /\ FilesKept
  BY <1>1, SameNames, SameFiles
<1>3. CallGoes(t)
  <2>1. CASE SyncFails(t)
    BY <2>1, CallEnds, CallsTyped DEF SyncFails
  <2>2. CASE SyncDirectory(t)
    <3>1. /\ disk' = dir
          /\ op[t].at \in {"reserveSync", "baseSync", "linkSync", "markersSync",
                           "logsSync", "unstageSync"}
          /\ IF AfterSync[op[t].at] = "leave" THEN Leave(t)
             ELSE Goto(t, AfterSync[op[t].at])
      BY <2>2 DEF SyncDirectory, AfterSync
    <3>2. \/ op[t].at = "reserveSync" /\ Goto(t, "reserved")
          \/ op[t].at = "baseSync" /\ Goto(t, "stage")
          \/ op[t].at = "linkSync" /\ Goto(t, "published")
          \/ op[t].at = "markersSync" /\ Goto(t, "reverify")
          \/ op[t].at = "logsSync" /\ Leave(t)
          \/ op[t].at = "unstageSync" /\ Goto(t, "unlink")
      BY <3>1 DEF AfterSync
    <3>3. CASE Leave(t)
      BY <3>3, CallEnds, CallsTyped
    <3>4. CASE op[t].at = "reserveSync" /\ Goto(t, "reserved")
      BY <3>1, <3>4, CallGoesOn, CallsTyped
      DEF Places, WithGeneration, Routed, Unbuilt, Surely
    <3>5. CASE op[t].at = "baseSync" /\ Goto(t, "stage")
      BY <3>1, <3>5, CallGoesOn, CallsTyped
      DEF Places, WithGeneration, Routed, Unbuilt, Surely
    <3>6. CASE op[t].at = "linkSync" /\ Goto(t, "published")
      BY <3>1, <3>6, CallGoesOn, CallsTyped
      DEF Places, WithGeneration, Routed, Unbuilt, Surely
    <3>7. CASE op[t].at = "markersSync" /\ Goto(t, "reverify")
      BY <3>1, <3>7, CallGoesOn, CallsTyped
      DEF Places, WithGeneration, Routed, Unbuilt, Surely
    <3>8. CASE op[t].at = "unstageSync" /\ Goto(t, "unlink")
      BY <3>1, <3>8, CallGoesOn, CallsTyped
      DEF Places, WithGeneration, Routed, Unbuilt, Surely
    <3> QED BY <3>2, <3>3, <3>4, <3>5, <3>6, <3>7, <3>8
  <2> QED BY <2>1, <2>2
<1> QED BY <1>1, <1>2, <1>3 DEF StepKept

\* Checks that decide whether a command goes on.
LEMMA ChecksKept ==
    ASSUME DirTypes, NEW t \in Procs, Reserved(t) \/ Recheck(t)
    PROVE  StepKept(t) /\ built' = built
<1>1. /\ dir' = dir /\ disk' = disk /\ log' = log /\ proof' = proof /\ built' = built
      /\ NoFault
  BY DEF Reserved, Recheck
<1>2. \/ Leave(t) \/ GiveUp(t)
      \/ op[t].at = "reserved" /\ Goto(t, "survey")
      \/ op[t].at = "recheck" /\ Goto(t, "publish")
  BY DEF Reserved, Recheck, Holding, Running
<1>3. CASE Leave(t) \/ GiveUp(t)
  BY <1>1, <1>3, CallEnds, CallsTyped, SameNames, SameFiles DEF StepKept
<1>4. CASE op[t].at = "reserved" /\ Goto(t, "survey")
  <2>1. CallGoes(t)
    BY <1>4, CallGoesOn, CallsTyped DEF Places, WithGeneration, Routed, Unbuilt, Surely
  <2> QED BY <1>1, <2>1, SameNames, SameFiles DEF StepKept
<1>5. CASE op[t].at = "recheck" /\ Goto(t, "publish")
  <2>1. CallGoes(t)
    BY <1>5, CallGoesOn, CallsTyped DEF Places, WithGeneration, Routed, Unbuilt, Surely
  <2> QED BY <1>1, <2>1, SameNames, SameFiles DEF StepKept
<1> QED BY <1>2, <1>3, <1>4, <1>5

\* What a witness holds.
LEMMA WitnessTyped ==
    ASSUME DirTypes, dir["markers"] # {}
    PROVE  /\ Witness(dir) \in Witnesses /\ Witness(dir).auth = Authority(dir)
           /\ Authority(dir) \in Gens
<1>1. Authority(dir) \in Gens
  BY AuthorityIs DEF DirTypes, Namespaces
<1>2. /\ proof[Authority(dir)] \in Proofs /\ log[Authority(dir)] \in File
      /\ Authority(dir) \in 0 .. MaxGen
  BY <1>1 DEF DirTypes, Gens
<1> QED BY <1>1, <1>2 DEF Witness, Witnesses

\* The survey, and the start of the copy.
LEMMA SurveysKept ==
    ASSUME DirTypes, NEW t \in Procs, Survey(t)
    PROVE  StepKept(t) /\ built' = built
<1>1. /\ dir' = dir /\ disk' = disk /\ log' = log /\ proof' = proof /\ built' = built
      /\ NoFault /\ op[t].at = "survey"
  BY DEF Survey, Running
<1>2. op[t] \in Calls /\ CallFits(op[t]) /\ op \in [Procs -> Calls]
  BY CallsTyped
<1>3. CASE GiveUp(t)
  BY <1>1, <1>3, CallEnds, CallsTyped, SameNames, SameFiles DEF StepKept
<1>4. CASE /\ dir["markers"] # {}
           /\ op' = [op EXCEPT ![t].wit = Witness(dir), ![t].at = "copy"]
  <2> DEFINE x == [op[t] EXCEPT !.wit = Witness(dir), !.at = "copy"]
  <2>1. x \in Calls /\ x.at = "copy" /\ x.gen = op[t].gen /\ x.wit = Witness(dir)
    BY <1>2, <1>4, WitnessTyped DEF Calls, Places, WithGeneration
  <2>2. op' = [op EXCEPT ![t] = x]
    BY <1>2, <1>4
  <2> HIDE DEF x
  <2>3. CallFits(x) /\ Continues(op[t], x)
    BY <1>1, <1>2, <1>4, <2>1, WitnessTyped
    DEF CallFits, Continues, WithGeneration, Routed, Unbuilt, Surely
  <2>4. CallGoes(t)
    BY <2>1, <2>2, <2>3 DEF CallGoes
  <2> QED BY <1>1, <2>4, SameNames, SameFiles DEF StepKept
<1> QED BY <1>3, <1>4 DEF Survey, Verifies

\* The copy is opened and its source read.
LEMMA StartsKept ==
    ASSUME DirTypes, NEW t \in Procs, StartCopy(t)
    PROVE  StepKept(t) /\ built' = built
<1>1. /\ disk' = disk /\ log' = log /\ proof' = proof /\ built' = built
      /\ NoFault /\ op[t].at = "copy"
  BY DEF StartCopy, Running
<1>2. op[t] \in Calls /\ CallFits(op[t]) /\ op \in [Procs -> Calls]
  BY CallsTyped
<1>3. CASE GiveUp(t) /\ dir' = dir
  BY <1>1, <1>3, CallEnds, CallsTyped, SameNames, SameFiles DEF StepKept
<1>4. CASE /\ dir' = Add(dir, "copies", op[t].gen)
           /\ op' = [op EXCEPT ![t].src = Source(t), ![t].at = "build"]
  <2> DEFINE x == [op[t] EXCEPT !.src = Source(t), !.at = "build"]
  <2>1. Source(t) \in File
    <3>1. op[t].src \in File /\ op[t].wit.auth \in Gens
      BY <1>1, <1>2 DEF CallFits, Calls
    <3>2. log[op[t].wit.auth] \in File
      BY <3>1 DEF DirTypes
    <3> QED BY <3>1, <3>2 DEF Source
  <2>2. x \in Calls /\ x.at = "build" /\ x.gen = op[t].gen
    BY <1>2, <2>1 DEF Calls, Places, WithGeneration
  <2>3. op' = [op EXCEPT ![t] = x]
    BY <1>2, <1>4
  <2> HIDE DEF x
  <2>4. CallFits(x) /\ Continues(op[t], x) /\ op[t].gen \in Gens
    BY <1>1, <1>2, <2>2
    DEF CallFits, Continues, WithGeneration, Routed, Unbuilt, Surely
  <2>5. CallGoes(t)
    BY <2>2, <2>3, <2>4 DEF CallGoes
  <2>6. NamesKept
    BY <1>1, <1>4, <2>4, NameChanges DEF Others, Kinds
  <2> QED BY <1>1, <2>5, <2>6, SameFiles DEF StepKept
<1> QED BY <1>3, <1>4 DEF StartCopy

\* The copy fails, or its second name goes.
LEMMA CopiesKept ==
    ASSUME DirTypes, NEW t \in Procs, CopyErrs(t) \/ TidyCopy(t)
    PROVE  StepKept(t) /\ built' = built
<1>1. /\ disk' = disk /\ log' = log /\ proof' = proof /\ built' = built
      /\ NoFault \/ Fault
      /\ dir' \in {dir, Drop(dir, "copies", op[t].gen)}
      /\ op[t].at \in {"build", "tidyCopy"}
  BY DEF CopyErrs, TidyCopy, Running, Visible
<1>2. op[t].gen \in Gens
  BY <1>1, CallsTyped DEF CallFits, WithGeneration
<1>3. NamesKept /\ FilesKept
  BY <1>1, <1>2, NameChanges, SameFiles DEF Others, Kinds
<1>4. CallGoes(t)
  <2>1. CASE GiveUp(t)
    BY <2>1, CallEnds, CallsTyped
  <2>2. CASE op[t].at = "tidyCopy" /\ Goto(t, "recheck")
    BY <2>2, CallGoesOn, CallsTyped DEF Places, WithGeneration, Routed, Unbuilt, Surely
  <2>3. op[t].kind # "migrate"
    BY CallsTyped DEF Calls, CallKinds
  <2> QED BY <2>1, <2>2, <2>3 DEF CopyErrs, TidyCopy, AfterCopy, Running
<1> QED BY <1>1, <1>3, <1>4 DEF StepKept

\* The checks before a marker is written.
LEMMA PublishKept ==
    ASSUME DirTypes, NEW t \in Procs, Publish(t)
    PROVE  StepKept(t) /\ built' = built
<1>1. /\ log' = log /\ proof' = proof /\ built' = built /\ NoFault
      /\ op[t].at = "publish"
  BY DEF Publish, Holding, Running
<1>2. op[t].gen \in Gens
  BY <1>1, CallsTyped DEF CallFits, WithGeneration
<1>3. CASE GiveUp(t) /\ dir' = dir /\ disk' = disk
  BY <1>1, <1>3, CallEnds, CallsTyped, SameNames, SameFiles DEF StepKept
<1>4. CASE /\ dir' = Drop(dir, "staged", op[t].gen) /\ disk' = disk
           /\ Goto(t, "baseSync") \/ Goto(t, "stage")
  <2>1. NamesKept
    BY <1>2, <1>4, NameChanges DEF Others, Kinds
  <2>2. CASE Goto(t, "baseSync")
    <3>1. CallGoes(t)
      BY <1>1, <2>2, CallGoesOn, CallsTyped
      DEF Places, WithGeneration, Routed, Unbuilt, Surely
    <3> QED BY <1>1, <2>1, <3>1, SameFiles DEF StepKept
  <2>3. CASE Goto(t, "stage")
    <3>1. CallGoes(t)
      BY <1>1, <2>3, CallGoesOn, CallsTyped
      DEF Places, WithGeneration, Routed, Unbuilt, Surely
    <3> QED BY <1>1, <2>1, <3>1, SameFiles DEF StepKept
  <2> QED BY <1>4, <2>2, <2>3
<1> QED BY <1>3, <1>4 DEF Publish, Visible

\* The staging marker is created, then filled.
LEMMA StagingKept ==
    ASSUME DirTypes, NEW t \in Procs, Stage(t) \/ Fill(t)
    PROVE  StepKept(t) /\ built' = built
<1>1. /\ log' = log /\ built' = built /\ (NoFault \/ Fault) /\ disk' = disk
      /\ op[t].at \in {"stage", "fill"}
      /\ dir' \in {dir, Add(dir, "staged", op[t].gen)}
  BY DEF Stage, Fill, Holding, Running, Visible
<1>2. op[t].gen \in Gens
  BY <1>1, CallsTyped DEF CallFits, WithGeneration
<1>3. NamesKept
  BY <1>1, <1>2, NameChanges DEF Others, Kinds
<1>4. log[op[t].gen].recs \in Proofs
  BY <1>2 DEF DirTypes, File, Proofs
<1>5. FilesKept
  <2>1. \/ proof' = proof
        \/ proof' = [proof EXCEPT ![op[t].gen] = Torn]
        \/ proof' = [proof EXCEPT ![op[t].gen] = log[op[t].gen].recs]
    BY DEF Stage, Fill, PrefixProof
  <2>2. proof' \in [Gens -> Proofs]
    BY <1>2, <1>4, <2>1 DEF DirTypes, Proofs
  <2> QED BY <1>1, <2>2, FaultsCounted DEF FilesKept, DirTypes
<1>6. CallGoes(t)
  <2>1. CASE GiveUp(t)
    BY <2>1, CallEnds, CallsTyped
  <2>2. CASE Goto(t, "fill")
    BY <1>1, <2>2, CallGoesOn, CallsTyped
    DEF Places, WithGeneration, Routed, Unbuilt, Surely
  <2>3. CASE Goto(t, "link")
    BY <1>1, <2>3, CallGoesOn, CallsTyped
    DEF Places, WithGeneration, Routed, Unbuilt, Surely
  <2> QED BY <2>1, <2>2, <2>3 DEF Stage, Fill
<1> QED BY <1>1, <1>3, <1>5, <1>6 DEF StepKept

\* The final marker appears, surely or perhaps.
LEMMA LinksKept ==
    ASSUME DirTypes, NEW t \in Procs, Link(t) \/ LinkErrs(t)
    PROVE  StepKept(t) /\ built' = built
<1>1. /\ log' = log /\ proof' = proof /\ built' = built /\ (NoFault \/ Fault)
      /\ op[t].at = "link"
  BY DEF Link, LinkErrs, Holding, Running
<1>2. op[t].gen \in Gens
  BY <1>1, CallsTyped DEF CallFits, WithGeneration
<1>3. NamesKept
  <2>1. CASE Link(t)
    BY <1>2, <2>1, MarkerAppears DEF Link, Visible, MovedThrough
  <2>2. CASE LinkErrs(t)
    <3>1. \/ dir' = dir /\ disk' = disk
          \/ dir' = Drop(dir, "staged", op[t].gen) /\ disk' = disk
          \/ /\ dir' = Move(dir, "staged", "markers", op[t].gen)
             /\ disk' \in {disk, Move(disk, "staged", "markers", op[t].gen)}
      BY <2>2 DEF LinkErrs, Visible
    <3>2. CASE dir' = dir /\ disk' = disk
      BY <3>2, SameNames
    <3>3. CASE dir' = Drop(dir, "staged", op[t].gen) /\ disk' = disk
      BY <1>2, <3>3, NameChanges DEF Others, Kinds
    <3>4. CASE /\ dir' = Move(dir, "staged", "markers", op[t].gen)
               /\ disk' \in {disk, Move(disk, "staged", "markers", op[t].gen)}
      BY <1>2, <3>4, MarkerAppears
    <3> QED BY <3>1, <3>2, <3>3, <3>4
  <2> QED BY <2>1, <2>2
<1>4. CallGoes(t)
  <2>1. CASE GiveUp(t)
    BY <2>1, CallEnds, CallsTyped
  <2>2. CASE Goto(t, "linkSync")
    BY <1>1, <2>2, CallGoesOn, CallsTyped
    DEF Places, WithGeneration, Routed, Unbuilt, Surely
  <2>3. CASE Goto(t, "published")
    BY <1>1, <2>3, CallGoesOn, CallsTyped
    DEF Places, WithGeneration, Routed, Unbuilt, Surely
  <2> QED BY <2>1, <2>2, <2>3 DEF Link, LinkErrs
<1> QED BY <1>1, <1>3, <1>4, SameFiles DEF StepKept

\* The staging name goes, or stays.
LEMMA PublishedKept ==
    ASSUME DirTypes, NEW t \in Procs, Published(t)
    PROVE  StepKept(t) /\ built' = built
<1>1. /\ log' = log /\ proof' = proof /\ built' = built /\ (NoFault \/ Fault)
      /\ op[t].at = "published" /\ disk' = disk /\ Leave(t)
      /\ dir' \in {dir, Drop(dir, "staged", op[t].gen)}
  BY DEF Published, Holding, Running, Visible
<1>2. op[t].gen \in Gens
  BY <1>1, CallsTyped DEF CallFits, WithGeneration
<1>3. NamesKept
  BY <1>1, <1>2, NameChanges DEF Others, Kinds
<1> QED BY <1>1, <1>3, CallEnds, CallsTyped, SameFiles DEF StepKept

\* A call is given an id that nobody has reserved.
IdGiven(p) ==
    \E x \in Calls :
        /\ op' = [op EXCEPT ![p] = x] /\ CallFits(x)
        /\ x.at \in {"reserveSync", "reserved"}
        /\ x.gen \in dir'["reserved"] /\ x.gen \notin dir["reserved"]
        /\ x.at = "reserved" => x.gen \in disk'["reserved"]

\* A reservation, made or failing.
LEMMA ReservesKept ==
    ASSUME DirTypes, NEW t \in Procs, Reserve(t) \/ ReserveErrs(t)
    PROVE  NamesKept /\ FilesKept /\ built' = built /\ (CallGoes(t) \/ IdGiven(t))
<1> DEFINE g == NextId(dir)
<1>1. log' = log /\ proof' = proof /\ built' = built /\ (NoFault \/ Fault)
  BY DEF Reserve, ReserveErrs
<1>2. FilesKept
  BY <1>1, SameFiles
<1>3. op[t] \in Calls /\ CallFits(op[t]) /\ op \in [Procs -> Calls]
  BY CallsTyped
<1>4. CASE GiveUp(t) /\ dir' = dir /\ disk' = disk
  BY <1>1, <1>2, <1>4, CallEnds, CallsTyped, SameNames
<1>5. ASSUME dir["markers"] # {}, IdAvailable(dir)
      PROVE  g \in Gens /\ g \notin dir["reserved"]
  <2>1. g \in Nat \ {0, 1} /\ \A n \in dir["reserved"] : n < g
    BY <1>5, NextIdIsNew DEF DirTypes, Namespaces
  <2> HIDE DEF g
  <2>2. g <= MaxGen
    BY <1>5 DEF IdAvailable, g
  <2> QED BY <2>1, <2>2, MaxGenIsPositive DEF Gens
<1>6. CASE /\ dir["markers"] # {} /\ IdAvailable(dir)
           /\ op' = [op EXCEPT ![t].gen = g,
                               ![t].at = IF Unix THEN "reserveSync" ELSE "reserved"]
           /\ \/ Unix /\ dir' = Add(dir, "reserved", g) /\ disk' = disk
              \/ /\ ~Unix
                 /\ dir' = Move(dir, "reserved", "reserved", g)
                 /\ disk' = Move(disk, "reserved", "reserved", g)
  <2> DEFINE at == IF Unix THEN "reserveSync" ELSE "reserved"
             x == [op[t] EXCEPT !.gen = g, !.at = at]
  <2>1. g \in Gens /\ g \notin dir["reserved"]
    BY <1>5, <1>6
  <2>2. op' = [op EXCEPT ![t] = x]
    BY <1>3, <1>6
  <2>3. /\ NamesKept /\ g \in dir'["reserved"]
        /\ ~Unix => g \in disk'["reserved"]
    <3> HIDE DEF g
    <3> QED BY <1>6, <2>1, ReservationAppears
  <2>4. at \in Places /\ at \in {"reserveSync", "reserved"} /\ (at = "reserved" => ~Unix)
    BY DEF Places, WithGeneration
  <2> HIDE DEF g, at
  <2>5. x \in Calls /\ x.at = at /\ x.gen = g
    <3>1. op[t] \in Calls /\ g \in Nat /\ at \in Places
      BY <1>3, <2>1, <2>4 DEF Gens
    <3> QED BY <3>1 DEF Calls
  <2> HIDE DEF x
  <2>6. CallFits(x)
    BY <2>1, <2>4, <2>5 DEF CallFits, Routed
  <2>7. IdGiven(t)
    BY <2>1, <2>2, <2>3, <2>4, <2>5, <2>6 DEF IdGiven
  <2> QED BY <1>1, <1>2, <2>3, <2>7
<1>7. CASE /\ dir["markers"] # {} /\ IdAvailable(dir)
           /\ MoveErrs("reserved", "reserved", g) /\ GiveUp(t)
  <2>1. g \in Gens
    BY <1>5, <1>7
  <2>2. NamesKept
    <3>1. /\ dir' \in {dir, Move(dir, "reserved", "reserved", g)}
          /\ disk' \in {disk, Move(disk, "reserved", "reserved", g)}
      BY <1>7 DEF MoveErrs, MovedThrough
    <3> HIDE DEF g
    <3> QED BY <2>1, <3>1, ReservationAppears
  <2> QED BY <1>1, <1>2, <1>7, <2>2, CallEnds, CallsTyped
<1>8. CASE Reserve(t)
  BY <1>4, <1>6, <1>8 DEF Reserve, Visible, MovedThrough, Verifies
<1>9. CASE ReserveErrs(t)
  BY <1>7, <1>9 DEF ReserveErrs, Verifies
<1> QED BY <1>8, <1>9

\* A copy holds the last value or nothing.
LEMMA CopyTyped ==
    ASSUME NEW f \in File
    PROVE  CompactCopy(f) \in File
<1>1. f.recs \in Seq(0 .. MaxWrites)
  BY DEF File
<1>2. Live(f.recs) \in 0 .. MaxWrites
  BY <1>1, MaxWritesIsNatural DEF Live, Last
<1>3. Compact(f.recs) \in Seq(0 .. MaxWrites)
  <2> DEFINE v == Live(f.recs)
  <2> HIDE DEF v
  <2>1. v \in 0 .. MaxWrites
    BY <1>2 DEF v
  <2>2. << >> \in Seq(0 .. MaxWrites) /\ <<v>> \in Seq(0 .. MaxWrites)
    BY <2>1
  <2> QED BY <2>2 DEF Compact, v
<1> QED BY <1>3 DEF CompactCopy, File

\* The copy of a reserved id is finished, and counted.
Built(p) ==
    /\ op[p].at = "build"
    /\ built' = [built EXCEPT ![op[p].gen] = @ + 1]
    /\ op'[p].at \notin Unbuilt

\* The finished copy gets its generation's name.
LEMMA CopyPublishedKept ==
    ASSUME DirTypes, NEW t \in Procs, PublishCopy(t) \/ PublishCopyErrs(t)
    PROVE  StepKept(t) /\ (built' = built \/ Built(t))
<1> DEFINE g == op[t].gen
<1>1. proof' = proof /\ (NoFault \/ Fault) /\ op[t].at = "build"
  BY DEF PublishCopy, PublishCopyErrs, Running
<1>2. op[t] \in Calls /\ CallFits(op[t]) /\ op \in [Procs -> Calls]
  BY CallsTyped
<1>3. g \in Gens /\ op[t].src \in File
  BY <1>1, <1>2 DEF CallFits, WithGeneration, Calls
<1>4. CompactCopy(op[t].src) \in File
  BY <1>3, CopyTyped
<1>5. op[t].kind # "migrate"
  BY <1>2 DEF Calls, CallKinds
<1>6. CallGoes(t) /\ op'[t].at \notin Unbuilt
  <2>1. CASE GiveUp(t)
    <3>1. CallGoes(t)
      BY <2>1, CallEnds, CallsTyped
    <3>2. op'[t] \in {NoOp, Leaving}
      BY <1>2, <2>1 DEF GiveUp
    <3> QED BY <3>1, <3>2, NoOpIsCall DEF Unbuilt
  <2>2. ASSUME NEW at \in {"tidyCopy", "recheck"}, Goto(t, at)
        PROVE  CallGoes(t) /\ op'[t].at \notin Unbuilt
    <3>1. CallGoes(t)
      BY <1>1, <2>2, CallGoesOn, CallsTyped
      DEF Places, WithGeneration, Routed, Unbuilt, Surely
    <3>2. op'[t].at = at
      BY <1>2, <2>2, CallAt DEF Goto, Places, WithGeneration
    <3> QED BY <2>2, <3>1, <3>2 DEF Unbuilt
  <2> QED BY <1>5, <2>1, <2>2 DEF PublishCopy, PublishCopyErrs, AfterCopy
<1>7. /\ \/ dir' = Drop(dir, "copies", g) /\ disk' = disk
         \/ dir' = Add(dir, "logs", g) /\ disk' = disk
         \/ /\ dir' = Move(dir, "copies", "logs", g)
            /\ disk' \in {disk, Move(disk, "copies", "logs", g)}
      /\ \/ log' = log /\ built' = built
         \/ /\ log' = [log EXCEPT ![g] = CompactCopy(op[t].src)]
            /\ built' = [built EXCEPT ![g] = @ + 1]
  BY DEF PublishCopy, PublishCopyErrs, Visible, MovedThrough
<1> HIDE DEF g
<1>8. NamesKept
  <2>1. CASE dir' \in {Drop(dir, "copies", g), Add(dir, "logs", g)} /\ disk' = disk
    BY <1>3, <2>1, NameChanges DEF Others, Kinds
  <2>2. CASE /\ dir' = Move(dir, "copies", "logs", g)
             /\ disk' \in {disk, Move(disk, "copies", "logs", g)}
    BY <1>3, <2>2, NameMoves DEF Others, Kinds
  <2> QED BY <1>7, <2>1, <2>2
<1>9. FilesKept
  <2>1. log' \in [Gens -> File]
    BY <1>3, <1>4, <1>7 DEF DirTypes
  <2> QED BY <1>1, <2>1, FaultsCounted DEF FilesKept, DirTypes
<1> QED BY <1>1, <1>6, <1>7, <1>8, <1>9 DEF StepKept, Built, g
-----------------------------------------------------------------------------
\* Cleanup and retirement.

\* A cleanup has found the authority.
Plans(p) ==
    \E x \in Calls :
        /\ op' = [op EXCEPT ![p] = x] /\ CallFits(x)
        /\ x.at = "retireMarkers" /\ x.wit.auth \in dir["markers"]

\* A cleanup verifies and plans.
LEMMA PlansKept ==
    ASSUME DirTypes, NEW t \in Procs, PlanCleanup(t)
    PROVE  NamesKept /\ FilesKept /\ built' = built /\ (CallGoes(t) \/ Plans(t))
<1>1. /\ dir' = dir /\ disk' = disk /\ log' = log /\ proof' = proof /\ built' = built
      /\ NoFault /\ op[t].at = "plan"
  BY DEF PlanCleanup, Holding, Running
<1>2. NamesKept /\ FilesKept
  BY <1>1, SameNames, SameFiles
<1>3. op[t] \in Calls /\ CallFits(op[t]) /\ op \in [Procs -> Calls]
  BY CallsTyped
<1>4. CASE GiveUp(t)
  BY <1>1, <1>2, <1>4, CallEnds, CallsTyped
<1>5. CASE /\ dir["markers"] # {}
           /\ op' = [op EXCEPT ![t].wit = Witness(dir), ![t].at = "retireMarkers"]
  <2> DEFINE x == [op[t] EXCEPT !.wit = Witness(dir), !.at = "retireMarkers"]
  <2>1. x \in Calls /\ x.at = "retireMarkers" /\ x.wit = Witness(dir)
    BY <1>3, <1>5, WitnessTyped DEF Calls, Places
  <2>2. op' = [op EXCEPT ![t] = x]
    BY <1>3, <1>5
  <2> HIDE DEF x
  <2>3. CallFits(x)
    BY <2>1 DEF CallFits, WithGeneration, Routed
  <2>4. x.wit.auth \in dir["markers"]
    BY <1>5, <2>1, WitnessTyped, AuthorityIs DEF DirTypes, Namespaces
  <2>5. Plans(t)
    BY <2>1, <2>2, <2>3, <2>4 DEF Plans
  <2> QED BY <1>1, <1>2, <2>5
<1> QED BY <1>4, <1>5 DEF PlanCleanup, Verifies

\* A phase goes on, with a name less, or ends.
LEMMA PhaseGoesOn ==
    ASSUME DirTypes, NEW t \in Procs, NEW at \in Places, NEW b \in BOOLEAN,
           op' = [op EXCEPT ![t].at = at, ![t].dirty = b],
           at \notin WithGeneration \cup Routed \cup Unbuilt \cup Surely \cup {"copy"},
           at = "retireMarkers" => op[t].at = "retireMarkers"
    PROVE  CallGoes(t)
<1> DEFINE x == [op[t] EXCEPT !.at = at, !.dirty = b]
<1>1. op[t] \in Calls /\ CallFits(op[t]) /\ op \in [Procs -> Calls]
  BY CallsTyped
<1>2. op' = [op EXCEPT ![t] = x]
  BY <1>1
<1>3. x \in Calls /\ x.at = at /\ x.gen = op[t].gen /\ x.wit = op[t].wit
  BY <1>1 DEF Calls
<1> HIDE DEF x
<1>4. CallFits(x) /\ Continues(op[t], x)
  BY <1>3 DEF CallFits, Continues
<1> QED BY <1>2, <1>3, <1>4 DEF CallGoes

\* A phase goes on after a name is gone.
LEMMA NameGone ==
    ASSUME DirTypes, NEW t \in Procs, op' = [op EXCEPT ![t].dirty = TRUE]
    PROVE  CallGoes(t)
<1> DEFINE x == [op[t] EXCEPT !.dirty = TRUE]
<1>1. op[t] \in Calls /\ CallFits(op[t]) /\ op \in [Procs -> Calls]
  BY CallsTyped
<1>2. op' = [op EXCEPT ![t] = x]
  BY <1>1
<1>3. x \in Calls /\ x.at = op[t].at /\ x.gen = op[t].gen /\ x.wit = op[t].wit
  BY <1>1 DEF Calls
<1> HIDE DEF x
<1>4. CallFits(x) /\ Continues(op[t], x)
  BY <1>1, <1>3 DEF CallFits, Continues
<1> QED BY <1>2, <1>3, <1>4 DEF CallGoes

\* A phase ends, with a sync where Unix needs one.
LEMMA PhaseEnds ==
    ASSUME DirTypes, NEW t \in Procs, NEW sync \in Places, NEW next \in Places,
           {sync, next} \cap (WithGeneration \cup Routed \cup {"retireMarkers"}) = {},
           EndPhase(t, sync, next)
    PROVE  CallGoes(t) /\ dir' = dir /\ disk' = disk /\ NoFault
<1>1. dir' = dir /\ disk' = disk /\ NoFault
  BY DEF EndPhase
<1>2. CASE Leave(t)
  BY <1>1, <1>2, CallEnds, CallsTyped
<1>3. CASE op' = [op EXCEPT ![t].at = IF Unix /\ op[t].dirty THEN sync ELSE next,
                            ![t].dirty = FALSE]
  <2> DEFINE at == IF Unix /\ op[t].dirty THEN sync ELSE next
  <2>1. at \in {sync, next}
    OBVIOUS
  <2>2. op' = [op EXCEPT ![t].at = at, ![t].dirty = FALSE]
    BY <1>3
  <2> HIDE DEF at
  <2>3. at \notin WithGeneration \cup Routed \cup Unbuilt \cup Surely \cup {"copy"}
    BY <2>1 DEF WithGeneration, Unbuilt, Surely
  <2>4. CallGoes(t)
    BY <2>1, <2>2, <2>3, PhaseGoesOn
  <2> QED BY <1>1, <2>4
<1> QED BY <1>2, <1>3 DEF EndPhase

\* One name is retired.
LEMMA RetireKept ==
    ASSUME DirTypes, NEW t \in Procs, NEW k, NEW g, Retire(t, k, g)
    PROVE  /\ CallGoes(t) /\ (NoFault \/ Fault)
           /\ \/ dir' = Drop(dir, k, g) /\ disk' = disk
              \/ /\ dir' \in {dir, Move(dir, k, Quarantine(k), g)}
                 /\ disk' \in {disk, Move(disk, k, Quarantine(k), g)}
<1>1. CallGoes(t)
  BY CallEnds, CallsTyped, NameGone DEF Retire
<1> QED BY <1>1 DEF Retire, Visible, MovedThrough, MoveErrs

\* Of the names but the final markers.
LEMMA RetiredOthers ==
    ASSUME DirTypes, NEW k \in {"staged", "logs"}, NEW g \in Gens,
           \/ dir' = Drop(dir, k, g) /\ disk' = disk
           \/ /\ dir' \in {dir, Move(dir, k, Quarantine(k), g)}
              /\ disk' \in {disk, Move(disk, k, Quarantine(k), g)}
    PROVE  NamesKept
<1>1. k \in Others /\ Quarantine(k) \in Others
  BY DEF Others, Kinds, Quarantine
<1>2. CASE dir' = Drop(dir, k, g) /\ disk' = disk
  BY <1>1, <1>2, NameChanges
<1>3. CASE /\ dir' \in {dir, Move(dir, k, Quarantine(k), g)}
           /\ disk' \in {disk, Move(disk, k, Quarantine(k), g)}
  BY <1>1, <1>3, NameMoves
<1> QED BY <1>2, <1>3

\* The markers and staging markers below the authority.
LEMMA MarkersRetired ==
    ASSUME DirTypes, MarkersInv, NEW t \in Procs, RetireMarkers(t)
    PROVE  StepKept(t) /\ built' = built
<1> DEFINE a == op[t].wit.auth
<1>1. /\ log' = log /\ proof' = proof /\ built' = built /\ op[t].at = "retireMarkers"
  BY DEF RetireMarkers, Holding, Running
<1>2. a \in Nat /\ Reached(a)
  BY <1>1, CallsTyped DEF MarkersInv, Calls, Witnesses
<1>3. dir["markers"] \subseteq Gens /\ dir["staged"] \subseteq Gens
  BY DEF DirTypes, Kinds
<1> HIDE DEF a
<1>4. CASE ObsoleteMarkers(a) # {} /\ Retire(t, "markers", Min(ObsoleteMarkers(a)))
  <2> DEFINE g == Min(ObsoleteMarkers(a))
  <2>1. g \in ObsoleteMarkers(a)
    BY <1>3, <1>4, MinIs DEF ObsoleteMarkers, Gens
  <2> HIDE DEF g
  <2>2. /\ CallGoes(t) /\ (NoFault \/ Fault)
        /\ \/ dir' = Drop(dir, "markers", g) /\ disk' = disk
           \/ /\ dir' \in {dir, Move(dir, "markers", Quarantine("markers"), g)}
              /\ disk' \in {disk, Move(disk, "markers", Quarantine("markers"), g)}
    BY <1>4, RetireKept DEF g
  <2>3. Quarantine("markers") = "oldMarkers"
    BY DEF Quarantine
  <2>4. g \in dir["markers"] /\ g < a
    BY <2>1 DEF ObsoleteMarkers
  <2>5. NamesKept
    BY <1>2, <2>2, <2>3, <2>4, MarkerRetired
  <2> QED BY <1>1, <2>2, <2>5, SameFiles DEF StepKept
<1>5. CASE ObsoleteStaged(a) # {} /\ Retire(t, "staged", Min(ObsoleteStaged(a)))
  <2> DEFINE g == Min(ObsoleteStaged(a))
  <2>1. g \in ObsoleteStaged(a)
    BY <1>3, <1>5, MinIs DEF ObsoleteStaged, Gens
  <2> HIDE DEF g
  <2>2. /\ CallGoes(t) /\ (NoFault \/ Fault)
        /\ \/ dir' = Drop(dir, "staged", g) /\ disk' = disk
           \/ /\ dir' \in {dir, Move(dir, "staged", Quarantine("staged"), g)}
              /\ disk' \in {disk, Move(disk, "staged", Quarantine("staged"), g)}
    BY <1>5, RetireKept DEF g
  <2>3. g \in Gens
    BY <1>3, <2>1 DEF ObsoleteStaged
  <2>4. NamesKept
    BY <2>2, <2>3, RetiredOthers
  <2> QED BY <1>1, <2>2, <2>4, SameFiles DEF StepKept
<1>6. CASE EndPhase(t, "markersSync", "reverify")
  <2>1. CallGoes(t) /\ dir' = dir /\ disk' = disk /\ NoFault
    BY <1>6, PhaseEnds DEF Places, WithGeneration, Routed
  <2> QED BY <1>1, <2>1, SameNames, SameFiles DEF StepKept
<1> QED BY <1>4, <1>5, <1>6 DEF RetireMarkers, a

\* The logs below the authority.
LEMMA LogsRetired ==
    ASSUME DirTypes, NEW t \in Procs, RetireLogs(t)
    PROVE  StepKept(t) /\ built' = built
<1> DEFINE a == op[t].wit.auth
<1>1. log' = log /\ proof' = proof /\ built' = built
  BY DEF RetireLogs
<1>2. dir["logs"] \subseteq Gens
  BY DEF DirTypes, Kinds
<1> HIDE DEF a
<1>3. CASE ObsoleteLogs(a) # {} /\ Retire(t, "logs", Min(ObsoleteLogs(a)))
  <2> DEFINE g == Min(ObsoleteLogs(a))
  <2>1. g \in ObsoleteLogs(a)
    BY <1>2, <1>3, MinIs DEF ObsoleteLogs, Gens
  <2> HIDE DEF g
  <2>2. /\ CallGoes(t) /\ (NoFault \/ Fault)
        /\ \/ dir' = Drop(dir, "logs", g) /\ disk' = disk
           \/ /\ dir' \in {dir, Move(dir, "logs", Quarantine("logs"), g)}
              /\ disk' \in {disk, Move(disk, "logs", Quarantine("logs"), g)}
    BY <1>3, RetireKept DEF g
  <2>3. g \in Gens
    BY <1>2, <2>1 DEF ObsoleteLogs
  <2>4. NamesKept
    BY <2>2, <2>3, RetiredOthers
  <2> QED BY <1>1, <2>2, <2>4, SameFiles DEF StepKept
<1>4. CASE EndPhase(t, "logsSync", "leave")
  <2>1. CallGoes(t) /\ dir' = dir /\ disk' = disk /\ NoFault
    BY <1>4, PhaseEnds DEF Places, WithGeneration, Routed
  <2> QED BY <1>1, <2>1, SameNames, SameFiles DEF StepKept
<1> QED BY <1>3, <1>4 DEF RetireLogs, a

\* What an inspection reports.
LEMMA EvidenceTyped ==
    ASSUME DirTypes, dir["markers"] # {}, NEW g \in Gens
    PROVE  Evidence(g) \in Witnesses
<1>1. Authority(dir) \in 0 .. MaxGen
  BY AuthorityIs DEF DirTypes, Namespaces, Gens
<1>2. log[g] \in File /\ proof[g] \in Proofs
  BY DEF DirTypes
<1> QED BY <1>1, <1>2 DEF Evidence, Witnesses

\* An abandoned candidate is inspected.
LEMMA InspectKept ==
    ASSUME DirTypes, NEW t \in Procs, NEW g \in Gens, InspectOrphan(t, g)
    PROVE  StepKept(t) /\ built' = built
<1> DEFINE y == [NoOp EXCEPT !.kind = "retire", !.at = "inspected"]
           z == [y EXCEPT !.gen = g]
           x == [z EXCEPT !.wit = Evidence(g)]
<1>1. /\ dir' = dir /\ disk' = disk /\ log' = log /\ proof' = proof /\ built' = built
      /\ NoFault /\ dir["markers"] # {}
  BY DEF InspectOrphan, Verifies
<1>2. op' = [op EXCEPT ![t] = x]
  BY DEF InspectOrphan
<1>3. y \in Calls /\ y.at = "inspected"
  BY NoOpIsCall DEF Calls, CallKinds, Places, WithGeneration
<1> HIDE DEF y
<1>4. z \in Calls /\ z.at = "inspected" /\ z.gen = g
  BY <1>3 DEF Calls, Gens
<1>5. Evidence(g) \in Witnesses
  BY <1>1, EvidenceTyped
<1> HIDE DEF z
<1>6. x \in Calls /\ x.at = "inspected" /\ x.gen = g
  BY <1>4, <1>5 DEF Calls
<1> HIDE DEF x
<1>7. CallFits(x) /\ Continues(op[t], x)
  BY <1>6 DEF CallFits, Continues, WithGeneration, Routed, Unbuilt, Surely
<1>8. CallGoes(t)
  BY <1>2, <1>6, <1>7 DEF CallGoes
<1> QED BY <1>1, <1>8, SameNames, SameFiles DEF StepKept

\* The checks of a cleanup and of a retirement.
LEMMA RetirementChecksKept ==
    ASSUME DirTypes, NEW t \in Procs,
           Reverify(t) \/ ConfirmBuilderStopped(t) \/ MatchOrphan(t)
    PROVE  StepKept(t) /\ built' = built
<1>1. /\ dir' = dir /\ disk' = disk /\ log' = log /\ proof' = proof /\ built' = built
      /\ NoFault
  BY DEF Reverify, ConfirmBuilderStopped, MatchOrphan
<1>2. \/ GiveUp(t) \/ op' = [op EXCEPT ![t] = NoOp]
      \/ op[t].at = "reverify" /\ Goto(t, "retireLogs")
      \/ op[t].at = "inspected" /\ Goto(t, "match")
      \/ op[t].at = "match" /\ Goto(t, "unstage")
      \/ op[t].at = "match" /\ Goto(t, "unlink")
  BY DEF Reverify, ConfirmBuilderStopped, MatchOrphan, Holding, Running
<1>3. CallGoes(t)
  <2>1. CASE GiveUp(t) \/ op' = [op EXCEPT ![t] = NoOp]
    BY <2>1, CallEnds, CallsTyped
  <2>2. CASE op[t].at = "reverify" /\ Goto(t, "retireLogs")
    BY <2>2, CallGoesOn, CallsTyped DEF Places, WithGeneration, Routed, Unbuilt, Surely
  <2>3. CASE op[t].at = "inspected" /\ Goto(t, "match")
    BY <2>3, CallGoesOn, CallsTyped DEF Places, WithGeneration, Routed, Unbuilt, Surely
  <2>4. CASE op[t].at = "match" /\ Goto(t, "unstage")
    BY <2>4, CallGoesOn, CallsTyped DEF Places, WithGeneration, Routed, Unbuilt, Surely
  <2>5. CASE op[t].at = "match" /\ Goto(t, "unlink")
    BY <2>5, CallGoesOn, CallsTyped DEF Places, WithGeneration, Routed, Unbuilt, Surely
  <2> QED BY <1>2, <2>1, <2>2, <2>3, <2>4, <2>5
<1> QED BY <1>1, <1>3, SameNames, SameFiles DEF StepKept

\* The candidate's names go.
LEMMA CandidateRetired ==
    ASSUME DirTypes, NEW t \in Procs, UnstageOrphan(t) \/ UnlinkOrphan(t)
    PROVE  StepKept(t) /\ built' = built
<1> DEFINE g == op[t].gen
<1>1. /\ log' = log /\ proof' = proof /\ built' = built
      /\ op[t].at \in {"unstage", "unlink"}
  BY DEF UnstageOrphan, UnlinkOrphan, Holding, Running
<1>2. g \in Gens
  BY <1>1, CallsTyped DEF CallFits, WithGeneration
<1>3. \/ GiveUp(t) \/ Leave(t)
      \/ op[t].at = "unstage" /\ Goto(t, "unstageSync")
      \/ op[t].at = "unstage" /\ Goto(t, "unlink")
      \/ op[t].at = "unlink" /\ Goto(t, "logsSync")
  BY DEF UnstageOrphan, UnlinkOrphan, Holding, Running, RetireSynced
<1>4. /\ NoFault \/ Fault
      /\ \/ dir' = dir /\ disk' = disk
         \/ \E k \in {"staged", "logs"} :
               \/ dir' = Drop(dir, k, g) /\ disk' = disk
               \/ /\ dir' \in {dir, Move(dir, k, Quarantine(k), g)}
                  /\ disk' \in {disk, Move(disk, k, Quarantine(k), g)}
  BY DEF UnstageOrphan, UnlinkOrphan, RetireSynced, Visible, MovedThrough, MoveErrs
<1> HIDE DEF g
<1>5. NamesKept
  BY <1>2, <1>4, RetiredOthers, SameNames
<1>6. CallGoes(t)
  <2>1. CASE GiveUp(t) \/ Leave(t)
    BY <2>1, CallEnds, CallsTyped
  <2>2. CASE op[t].at = "unstage" /\ Goto(t, "unstageSync")
    BY <2>2, CallGoesOn, CallsTyped DEF Places, WithGeneration, Routed, Unbuilt, Surely
  <2>3. CASE op[t].at = "unstage" /\ Goto(t, "unlink")
    BY <2>3, CallGoesOn, CallsTyped DEF Places, WithGeneration, Routed, Unbuilt, Surely
  <2>4. CASE op[t].at = "unlink" /\ Goto(t, "logsSync")
    BY <2>4, CallGoesOn, CallsTyped DEF Places, WithGeneration, Routed, Unbuilt, Surely
  <2> QED BY <1>3, <2>1, <2>2, <2>3, <2>4
<1> QED BY <1>1, <1>4, <1>5, <1>6, SameFiles DEF StepKept
-----------------------------------------------------------------------------
\* What a step of one call does to the directory, its files and its own place.
CallStep(p) ==
    /\ NamesKept /\ FilesKept
    /\ \/ CallGoes(p) /\ (built' = built \/ Built(p))
       \/ (IdGiven(p) \/ Plans(p)) /\ built' = built

\* Every step of a generation command is one.
LEMMA CommandsStep ==
    ASSUME DirTypes, MarkersInv, NEW t \in Procs, SwitchNext(t) \/ RetirementNext(t)
    PROVE  CallStep(t)
<1>1. ASSUME StepKept(t) /\ (built' = built \/ Built(t)) PROVE CallStep(t)
  BY <1>1 DEF StepKept, CallStep
<1>2. ASSUME NamesKept /\ FilesKept /\ built' = built,
             CallGoes(t) \/ IdGiven(t) \/ Plans(t)
      PROVE  CallStep(t)
  BY <1>2 DEF CallStep
<1>3. CASE SwitchNext(t)
  <2>1. CASE BeginReserving(t) \/ \E g \in Gens : BeginPublishing(t, g)
    BY <1>1, <2>1, BeginningsKept
  <2>2. CASE SyncDirectory(t) \/ SyncFails(t)
    BY <1>1, <2>2, SyncsKept
  <2>3. CASE Reserve(t) \/ ReserveErrs(t)
    BY <1>2, <2>3, ReservesKept
  <2>4. CASE Reserved(t) \/ Recheck(t)
    BY <1>1, <2>4, ChecksKept
  <2>5. CASE Survey(t)
    BY <1>1, <2>5, SurveysKept
  <2>6. CASE StartCopy(t)
    BY <1>1, <2>6, StartsKept
  <2>7. CASE CopyErrs(t) \/ TidyCopy(t)
    BY <1>1, <2>7, CopiesKept
  <2>8. CASE PublishCopy(t) \/ PublishCopyErrs(t)
    BY <1>1, <2>8, CopyPublishedKept
  <2>9. CASE Publish(t)
    BY <1>1, <2>9, PublishKept
  <2>10. CASE Stage(t) \/ Fill(t)
    BY <1>1, <2>10, StagingKept
  <2>11. CASE Link(t) \/ LinkErrs(t)
    BY <1>1, <2>11, LinksKept
  <2>12. CASE Published(t)
    BY <1>1, <2>12, PublishedKept
  <2> QED
    BY <1>3, <2>1, <2>2, <2>3, <2>4, <2>5, <2>6, <2>7, <2>8, <2>9, <2>10, <2>11, <2>12
    DEF SwitchNext
<1>4. CASE RetirementNext(t)
  <2>1. CASE BeginCleanup(t)
    BY <1>1, <2>1, BeginningsKept
  <2>2. CASE PlanCleanup(t)
    BY <1>2, <2>2, PlansKept
  <2>3. CASE RetireMarkers(t)
    BY <1>1, <2>3, MarkersRetired
  <2>4. CASE Reverify(t) \/ ConfirmBuilderStopped(t) \/ MatchOrphan(t)
    BY <1>1, <2>4, RetirementChecksKept
  <2>5. CASE RetireLogs(t)
    BY <1>1, <2>5, LogsRetired
  <2>6. CASE \E g \in Gens : InspectOrphan(t, g)
    BY <1>1, <2>6, InspectKept
  <2>7. CASE UnstageOrphan(t) \/ UnlinkOrphan(t)
    BY <1>1, <2>7, CandidateRetired
  <2> QED BY <1>4, <2>1, <2>2, <2>3, <2>4, <2>5, <2>6, <2>7 DEF RetirementNext
<1> QED BY <1>3, <1>4
-----------------------------------------------------------------------------
\* What such a step keeps.

\* Types.
LEMMA DirTypesKept ==
    ASSUME DirTypes, NEW p \in Procs, CallStep(p)
    PROVE  DirTypes'
<1>1. \E x \in Calls : op' = [op EXCEPT ![p] = x] /\ CallFits(x)
  BY DEF CallStep, CallGoes, IdGiven, Plans
<1>2. PICK x \in Calls : op' = [op EXCEPT ![p] = x] /\ CallFits(x)
  BY <1>1
<1>3. op' \in [Procs -> Calls]
  BY <1>2, CallsTyped
<1>4. \A q \in Procs : CallFits(op'[q])
  BY <1>2, CallsTyped
<1>5. \A q \in Procs : CallFits(op[q])'
  BY <1>4 DEF CallFits
<1>6. built' \in [Gens -> Nat]
  BY DEF DirTypes, CallStep, Built
<1>7. /\ dir' \in [Kinds -> SUBSET Gens] /\ disk' \in [Kinds -> SUBSET Gens]
      /\ log' \in [Gens -> File] /\ proof' \in [Gens -> Proofs]
      /\ faults' \in 0 .. MaxFaults /\ platform' \in {"unix", "windows"}
  BY DEF DirTypes, CallStep, NamesKept, FilesKept, Namespaces
<1> QED BY <1>3, <1>5, <1>6, <1>7 DEF DirTypes

\* Every marker stays reached.
LEMMA MarkersKept ==
    ASSUME DirTypes, MarkersInv, NEW p \in Procs, CallStep(p)
    PROVE  MarkersInv'
<1>1. /\ disk'["markers"] \subseteq disk["markers"] \cup dir["markers"] \cup dir'["markers"]
      /\ \A n \in dir["markers"] : \E m \in dir'["markers"] : n <= m
      /\ dir["markers"] \subseteq Gens /\ dir'["markers"] \subseteq Gens
      /\ disk["markers"] \subseteq Gens
  BY DEF CallStep, NamesKept, DirTypes, Namespaces, Kinds
<1>2. /\ dir["markers"] \subseteq Nat /\ dir'["markers"] \subseteq Nat
      /\ disk["markers"] \subseteq Nat
  BY <1>1 DEF Gens
<1>3. ASSUME NEW m \in Nat, Reached(m) PROVE Reached(m)'
  <2>1. PICK n \in dir["markers"] : m <= n
    BY <1>3 DEF Reached
  <2>2. PICK k \in dir'["markers"] : n <= k
    BY <1>1, <2>1
  <2>3. m <= k
    BY <1>2, <2>1, <2>2
  <2> QED BY <2>2, <2>3 DEF Reached
<1>4. ASSUME NEW m \in disk'["markers"] PROVE Reached(m)'
  <2>1. CASE m \in disk["markers"]
    <3>1. Reached(m) /\ m \in Nat
      BY <1>2, <2>1 DEF MarkersInv
    <3> QED BY <1>3, <3>1
  <2>2. CASE m \in dir["markers"]
    BY <1>1, <2>2 DEF Reached
  <2>3. CASE m \in dir'["markers"]
    <3>1. m <= m
      BY <1>2, <2>3
    <3> QED BY <2>3, <3>1 DEF Reached
  <2> QED BY <1>1, <1>4, <2>1, <2>2, <2>3
<1>5. ASSUME NEW q \in Procs, op'[q].at = "retireMarkers"
      PROVE  Reached(op[q].wit.auth)'
  <2>1. \/ op'[q] = op[q]
        \/ q = p /\ op[q].at = "retireMarkers" /\ op'[q].wit.auth = op[q].wit.auth
        \/ op'[q].wit.auth \in dir["markers"]
    <3>1. CASE CallGoes(p)
      BY <1>5, <3>1, CallsTyped DEF CallGoes, Continues
    <3>2. CASE IdGiven(p)
      BY <1>5, <3>2, CallsTyped DEF IdGiven
    <3>3. CASE Plans(p)
      BY <1>5, <3>3, CallsTyped DEF Plans
    <3> QED BY <3>1, <3>2, <3>3 DEF CallStep
  <2> DEFINE a == op[q].wit.auth
             b == op'[q].wit.auth
  <2>2. a \in Nat
    BY CallsTyped DEF Calls, Witnesses
  <2>3. CASE op[q].at = "retireMarkers" /\ b = a
    <3>1. Reached(a)
      BY <2>3 DEF MarkersInv
    <3>2. \E m \in dir'["markers"] : a <= m
      <4> HIDE DEF a
      <4> QED BY <1>3, <2>2, <3>1 DEF Reached
    <3> QED BY <2>3, <3>2 DEF Reached
  <2>4. CASE b \in dir["markers"]
    BY <1>1, <2>4 DEF Reached
  <2> QED BY <1>5, <2>1, <2>3, <2>4
<1> QED BY <1>4, <1>5 DEF MarkersInv

\* Ids stay reserved, and one command at a time has one.
LEMMA FrontierKept ==
    ASSUME DirTypes, FrontierInv, NEW p \in Procs, CallStep(p)
    PROVE  FrontierInv'
<1>1. /\ dir["reserved"] \subseteq dir'["reserved"]
      /\ dir["reserved"] \cap disk["reserved"] \subseteq disk'["reserved"]
  BY DEF CallStep, NamesKept
<1>2. PICK x \in Calls :
        /\ op' = [op EXCEPT ![p] = x] /\ CallFits(x)
        /\ \/ Continues(op[p], x) /\ (built' = built \/ Built(p))
           \/ /\ x.at \in {"reserveSync", "reserved"}
              /\ x.gen \in dir'["reserved"] /\ x.gen \notin dir["reserved"]
              /\ x.at = "reserved" => x.gen \in disk'["reserved"]
              /\ built' = built
           \/ x.at = "retireMarkers" /\ built' = built
  BY DEF CallStep, CallGoes, IdGiven, Plans
<1>3. /\ op'[p] = x /\ \A q \in Procs : q # p => op'[q] = op[q]
  BY <1>2, CallsTyped
<1>4. \A q \in Procs : op[q].at \in Unbuilt => op[q].gen \in Gens
  BY CallsTyped DEF CallFits, WithGeneration, Unbuilt
<1>5. x.at \in Unbuilt => x.gen \in Gens
  BY <1>2 DEF CallFits, WithGeneration, Unbuilt
<1>6. built \in [Gens -> Nat]
  BY DEF DirTypes
<1>7. CASE Continues(op[p], x) /\ (built' = built \/ Built(p))
  <2>1. /\ x.at \in Unbuilt => op[p].at \in Unbuilt /\ x.gen = op[p].gen
        /\ x.at \in Surely => op[p].at \in Surely \/ disk' = dir
    BY <1>7 DEF Continues
  <2>2. \/ built' = built
        \/ /\ op[p].at = "build" /\ x.at \notin Unbuilt
           /\ built' = [built EXCEPT ![op[p].gen] = @ + 1]
    BY <1>3, <1>7 DEF Built
  <2>3. op[p].at = "build" => op[p].at \in Unbuilt /\ op[p].at \in Surely
    BY DEF Unbuilt, Surely
  <2>4. ASSUME NEW g \in Gens, built'[g] # 0
        PROVE  built'[g] = 1 /\ g \in dir'["reserved"] \cap disk'["reserved"]
    <3>1. CASE built'[g] = built[g]
      BY <1>1, <2>4, <3>1 DEF FrontierInv
    <3>2. CASE built'[g] # built[g]
      <4>1. /\ op[p].at = "build" /\ g = op[p].gen /\ built'[g] = built[g] + 1
        BY <1>6, <2>2, <3>2
      <4>2. /\ g \in dir["reserved"] \cap disk["reserved"] /\ built[g] = 0
        BY <2>3, <4>1 DEF FrontierInv
      <4> QED BY <1>1, <4>1, <4>2
    <3> QED BY <3>1, <3>2
  <2>5. ASSUME NEW q \in Procs, op'[q].at \in Unbuilt
        PROVE  /\ op[q].at \in Unbuilt /\ op'[q].gen = op[q].gen
               /\ op'[q].gen \in dir'["reserved"]
               /\ op'[q].at \in Surely => op'[q].gen \in disk'["reserved"]
               /\ built'[op'[q].gen] = 0
    <3>1. op[q].at \in Unbuilt /\ op'[q].gen = op[q].gen
      BY <1>3, <2>1, <2>5
    <3>2. op[q].gen \in dir["reserved"] /\ built[op[q].gen] = 0
      BY <3>1 DEF FrontierInv
    <3>3. op'[q].at \in Surely => op[q].gen \in disk'["reserved"]
      <4>1. CASE q = p
        <5>1. op[p].at \in Surely => op[p].gen \in disk["reserved"]
          BY <3>1, <4>1 DEF FrontierInv
        <5> QED BY <1>1, <1>3, <2>1, <3>2, <4>1, <5>1
      <4>2. CASE q # p
        <5>1. op[q].at \in Surely => op[q].gen \in disk["reserved"]
          BY <3>1 DEF FrontierInv
        <5> QED BY <1>1, <1>3, <3>2, <4>2, <5>1
      <4> QED BY <4>1, <4>2
    <3>4. built'[op[q].gen] = 0
      <4>1. CASE built' = built
        BY <3>2, <4>1
      <4>2. CASE /\ op[p].at = "build" /\ x.at \notin Unbuilt
                 /\ built' = [built EXCEPT ![op[p].gen] = @ + 1]
        <5>1. q # p
          BY <1>3, <2>5, <4>2
        <5>2. op[q].gen # op[p].gen
          BY <2>3, <3>1, <4>2, <5>1 DEF FrontierInv
        <5>3. op[q].gen \in Gens
          BY <1>4, <3>1
        <5> QED BY <1>6, <3>2, <4>2, <5>2, <5>3
      <4> QED BY <2>2, <4>1, <4>2
    <3> QED BY <1>1, <3>1, <3>2, <3>3, <3>4
  <2>6. \A q, r \in Procs :
           op'[q].at \in Unbuilt /\ op'[r].at \in Unbuilt /\ op'[q].gen = op'[r].gen => q = r
    BY <2>5 DEF FrontierInv
  <2> QED BY <2>4, <2>5, <2>6 DEF FrontierInv
<1>8. CASE /\ x.at \notin Unbuilt \/ x.gen \notin dir["reserved"]
           /\ x.at \in Unbuilt => x.gen \in dir'["reserved"]
           /\ x.at \in Surely => x.gen \in disk'["reserved"]
           /\ built' = built
  <2>1. ASSUME NEW g \in Gens, built'[g] # 0
        PROVE  built'[g] = 1 /\ g \in dir'["reserved"] \cap disk'["reserved"]
    BY <1>1, <1>8, <2>1 DEF FrontierInv
  <2>2. ASSUME NEW q \in Procs, op'[q].at \in Unbuilt, q # p
        PROVE  /\ op'[q].gen \in dir["reserved"] /\ op'[q].gen \in dir'["reserved"]
               /\ op'[q].at \in Surely => op'[q].gen \in disk'["reserved"]
               /\ built'[op'[q].gen] = 0
    <3>1. op'[q] = op[q] /\ op[q].at \in Unbuilt
      BY <1>3, <2>2
    <3>2. /\ op[q].gen \in dir["reserved"] /\ built[op[q].gen] = 0
          /\ op[q].at \in Surely => op[q].gen \in disk["reserved"]
      BY <3>1 DEF FrontierInv
    <3> QED BY <1>1, <1>8, <3>1, <3>2
  <2>3. ASSUME op'[p].at \in Unbuilt
        PROVE  /\ op'[p].gen \notin dir["reserved"] /\ op'[p].gen \in dir'["reserved"]
               /\ op'[p].at \in Surely => op'[p].gen \in disk'["reserved"]
               /\ built'[op'[p].gen] = 0
    <3>1. x.gen \in Gens /\ x.gen \notin dir["reserved"]
      BY <1>3, <1>5, <1>8, <2>3
    <3>2. built[x.gen] = 0
      BY <3>1 DEF FrontierInv
    <3> QED BY <1>3, <1>8, <2>3, <3>1, <3>2
  <2>4. ASSUME NEW q \in Procs, NEW r \in Procs,
               op'[q].at \in Unbuilt, op'[r].at \in Unbuilt, op'[q].gen = op'[r].gen
        PROVE  q = r
    <3>1. CASE q # p /\ r # p
      <4>1. op'[q] = op[q] /\ op'[r] = op[r]
        BY <1>3, <3>1
      <4> QED BY <2>4, <4>1 DEF FrontierInv
    <3>2. CASE q = p \/ r = p
      BY <2>2, <2>3, <2>4, <3>2
    <3> QED BY <3>1, <3>2
  <2>5. \A q \in Procs : op'[q].at \in Unbuilt =>
           /\ op'[q].gen \in dir'["reserved"]
           /\ op'[q].at \in Surely => op'[q].gen \in disk'["reserved"]
           /\ built'[op'[q].gen] = 0
    BY <2>2, <2>3
  <2> QED BY <2>1, <2>4, <2>5 DEF FrontierInv
<1>9. CASE /\ x.at \in {"reserveSync", "reserved"}
           /\ x.gen \in dir'["reserved"] /\ x.gen \notin dir["reserved"]
           /\ x.at = "reserved" => x.gen \in disk'["reserved"]
           /\ built' = built
  <2>1. x.at \in Surely => x.at = "reserved"
    BY <1>9 DEF Surely, Unbuilt
  <2> QED BY <1>8, <1>9, <2>1
<1>10. CASE x.at = "retireMarkers" /\ built' = built
  <2>1. x.at \notin Unbuilt /\ x.at \notin Surely
    BY <1>10 DEF Surely, Unbuilt
  <2> QED BY <1>8, <1>10, <2>1
<1> QED BY <1>2, <1>7, <1>9, <1>10
-----------------------------------------------------------------------------
\* Routed handles.

\* What an append, an interrupted one or a repair leaves of a log.
LEMMA AppendTyped ==
    ASSUME DirTypes, NEW h, NEW v \in 0 .. MaxWrites,
           \/ log' = log
           \/ \E b \in BOOLEAN : log' = [log EXCEPT ![h].tail = b]
           \/ log' = [log EXCEPT ![h].recs = Append(@, v)]
    PROVE  log' \in [Gens -> File]
<1>1. log \in [Gens -> File]
  BY DEF DirTypes
<1>2. ASSUME NEW b \in BOOLEAN, log' = [log EXCEPT ![h].tail = b]
      PROVE  log' \in [Gens -> File]
  <2>1. ASSUME NEW f \in File PROVE [f EXCEPT !.tail = b] \in File
    BY DEF File
  <2>2. log' = [log EXCEPT ![h] = [log[h] EXCEPT !.tail = b]]
    BY <1>2
  <2>3. h \in Gens => [log[h] EXCEPT !.tail = b] \in File
    BY <1>1, <2>1
  <2> QED BY <1>1, <2>2, <2>3
<1>3. CASE log' = [log EXCEPT ![h].recs = Append(@, v)]
  <2>1. ASSUME NEW f \in File PROVE [f EXCEPT !.recs = Append(f.recs, v)] \in File
    <3>1. Append(f.recs, v) \in Seq(0 .. MaxWrites)
      BY DEF File
    <3> QED BY <3>1 DEF File
  <2>2. log' = [log EXCEPT ![h] = [log[h] EXCEPT !.recs = Append(log[h].recs, v)]]
    BY <1>3
  <2>3. h \in Gens => [log[h] EXCEPT !.recs = Append(log[h].recs, v)] \in File
    BY <1>1, <2>1
  <2> QED BY <1>1, <2>2, <2>3
<1> QED BY <1>1, <1>2, <1>3

\* A closed handle.
LEMMA ClosedTyped == Closed \in Handles
BY MaxGenIsPositive DEF Closed, Handles

\* A routed call carries a value that was started.
LEMMA ValueTyped ==
    ASSUME DirTypes, NEW r \in Procs, op[r].at \in Routed
    PROVE  op[r].gen \in 0 .. MaxWrites
BY DEF DirTypes, CallFits

\* It begins.
LEMMA CallsBegin ==
    ASSUME DirTypes, EngineTypes, NEW r \in Procs,
           NEW kind \in {"open", "reopen", "get", "put", "delete"}, BeginCall(r, kind)
    PROVE  StepKept(r) /\ built' = built /\ EngineTypes'
<1> DEFINE v == IF kind = "put" THEN writes + 1 ELSE 0
           y == [NoOp EXCEPT !.kind = kind, !.at = "route"]
           x == [y EXCEPT !.gen = v]
<1>1. /\ dir' = dir /\ disk' = disk /\ log' = log /\ proof' = proof /\ built' = built
      /\ NoFault /\ UNCHANGED <<handle, acked, doubt, misread>>
      /\ writes' \in 0 .. MaxWrites
  BY MaxWritesIsNatural DEF BeginCall, EngineTypes
<1>2. v \in 0 .. MaxWrites
  BY MaxWritesIsNatural DEF BeginCall, EngineTypes
<1>3. Begin(r, x)
  BY DEF BeginCall
<1> HIDE DEF v
<1>4. y \in Calls /\ y.at = "route"
  BY NoOpIsCall DEF Calls, CallKinds, Places, Routed
<1> HIDE DEF y
<1>5. x \in Calls /\ x.at = "route" /\ x.gen = v
  BY <1>2, <1>4 DEF Calls
<1> HIDE DEF x
<1>6. CallFits(x) /\ x.at \notin Unbuilt \cup {"retireMarkers"}
  BY <1>2, <1>5 DEF CallFits, WithGeneration, Unbuilt
<1>7. CallGoes(r)
  BY <1>3, <1>5, <1>6, CallBegins
<1>8. EngineTypes'
  BY <1>1 DEF EngineTypes
<1> QED BY <1>1, <1>7, <1>8, SameNames, SameFiles DEF StepKept

\* It finds or resolves the authority.
LEMMA RoutingKept ==
    ASSUME DirTypes, EngineTypes, NEW r \in Procs, r \in Routers,
           Route(r) \/ Resolve(r) \/ Resolved(r)
    PROVE  StepKept(r) /\ built' = built /\ EngineTypes'
<1>1. /\ dir' = dir /\ disk' = disk /\ proof' = proof /\ built' = built
      /\ NoFault /\ UNCHANGED <<writes, acked, doubt, misread>>
      /\ op[r].at \in Routed
  BY DEF Route, Resolve, Resolved, Holding, Running, Routed
<1>2. NamesKept
  BY <1>1, SameNames
<1>3. op[r] \in Calls /\ CallFits(op[r]) /\ op \in [Procs -> Calls]
  BY CallsTyped
<1>4. log' \in [Gens -> File]
  <2>1. \/ log' = log \/ log' = [log EXCEPT ![Authority(dir)].tail = FALSE]
    BY DEF Route, Resolve, Resolved
  <2>2. \/ log' = log
        \/ \E b \in BOOLEAN : log' = [log EXCEPT ![Authority(dir)].tail = b]
    BY <2>1, Zenon
  <2>3. 0 \in 0 .. MaxWrites
    BY MaxWritesIsNatural
  <2> QED BY <2>2, <2>3, AppendTyped
<1>5. FilesKept
  BY <1>1, <1>4, FaultsCounted DEF FilesKept, DirTypes
<1>6. handle' \in [Routers -> Handles]
  <2>1. handle \in [Routers -> Handles]
    BY DEF EngineTypes
  <2>2. CASE UNCHANGED handle \/ Poison(r)
    BY <2>1, <2>2 DEF Poison, Handles
  <2>3. CASE /\ Verifies(dir)
             /\ LET a == Authority(dir) IN
                handle' = [handle EXCEPT ![r] =
                   [status |-> "open", gen |-> a, seen |-> Len(log[a].recs),
                    inner |-> "ok"]]
    <3>1. Authority(dir) \in Gens
      BY <2>3, WitnessTyped DEF Verifies
    <3>2. Len(log[Authority(dir)].recs) \in Nat /\ Authority(dir) \in 0 .. MaxGen
      BY <3>1 DEF DirTypes, File, Gens
    <3> QED BY <2>1, <2>3, <3>2 DEF Handles
  <2> QED BY <2>2, <2>3 DEF Route, Resolve, Resolved
<1>7. CallGoes(r)
  <2>1. \/ GiveUp(r) \/ Leave(r) \/ Goto(r, "resolve") \/ Goto(r, "apply")
        \/ /\ dir["markers"] # {}
           /\ op' = [op EXCEPT ![r].wit.auth = Authority(dir), ![r].at = "resolved"]
    BY DEF Route, Resolve, Resolved, Verifies
  <2>2. CASE GiveUp(r) \/ Leave(r)
    BY <2>2, CallEnds, CallsTyped
  <2>3. CASE Goto(r, "resolve")
    BY <1>1, <2>3, CallGoesOn, CallsTyped
    DEF Places, WithGeneration, Routed, Unbuilt, Surely
  <2>4. CASE Goto(r, "apply")
    BY <1>1, <2>4, CallGoesOn, CallsTyped
    DEF Places, WithGeneration, Routed, Unbuilt, Surely
  <2>5. CASE /\ dir["markers"] # {}
             /\ op' = [op EXCEPT ![r].wit.auth = Authority(dir), ![r].at = "resolved"]
    <3> DEFINE w == [op[r].wit EXCEPT !.auth = Authority(dir)]
               x == [op[r] EXCEPT !.wit = w, !.at = "resolved"]
    <3>1. op' = [op EXCEPT ![r] = x]
      BY <1>3, <2>5
    <3>2. w \in Witnesses
      <4>1. Authority(dir) \in 0 .. MaxGen /\ op[r].wit \in Witnesses
        BY <1>3, <2>5, WitnessTyped DEF Gens, Calls
      <4> QED BY <4>1 DEF Witnesses
    <3> HIDE DEF w
    <3>3. x \in Calls /\ x.at = "resolved" /\ x.gen = op[r].gen
      BY <1>3, <3>2 DEF Calls, Places, Routed
    <3> HIDE DEF x
    <3>4. CallFits(x) /\ Continues(op[r], x)
      BY <1>1, <1>3, <3>3
      DEF CallFits, Continues, WithGeneration, Routed, Unbuilt, Surely
    <3> QED BY <3>1, <3>3, <3>4 DEF CallGoes
  <2> QED BY <2>1, <2>2, <2>3, <2>4, <2>5
<1> QED BY <1>1, <1>2, <1>5, <1>6, <1>7 DEF StepKept, EngineTypes

\* It reads, or appends, or fails to.
LEMMA OperationKept ==
    ASSUME DirTypes, EngineTypes, NEW r \in Procs, r \in Routers,
           Get(r) \/ Append1(r) \/ AppendFails(r)
    PROVE  StepKept(r) /\ built' = built /\ EngineTypes'
<1>1. /\ dir' = dir /\ disk' = disk /\ proof' = proof /\ built' = built
      /\ (NoFault \/ Fault) /\ UNCHANGED writes /\ Leave(r)
      /\ op[r].at \in Routed
  BY DEF Get, Append1, AppendFails, Appending, Holding, Running, Routed
<1>2. NamesKept
  BY <1>1, SameNames
<1>3. op[r].gen \in 0 .. MaxWrites
  BY <1>1, ValueTyped
<1>4. log' \in [Gens -> File]
  <2>1. \/ log' = log \/ log' = [log EXCEPT ![handle[r].gen].tail = TRUE]
        \/ log' = [log EXCEPT ![handle[r].gen].recs = Append(@, op[r].gen)]
    BY DEF Get, Append1, AppendFails, Interrupted
  <2> QED BY <1>3, <2>1, AppendTyped
<1>5. FilesKept
  BY <1>1, <1>4, FaultsCounted DEF FilesKept, DirTypes
<1>6. handle' \in [Routers -> Handles]
  <2>1. handle \in [Routers -> Handles]
    BY DEF EngineTypes
  <2>2. \/ handle' = handle
        \/ handle' = [handle EXCEPT ![r].seen = @ + 1]
        \/ handle' = [handle EXCEPT ![r].inner = "poisoned"]
    BY DEF Get, Append1, AppendFails
  <2>3. CASE handle' = [handle EXCEPT ![r].seen = @ + 1]
    <3> DEFINE h == [handle[r] EXCEPT !.seen = handle[r].seen + 1]
    <3>1. handle' = [handle EXCEPT ![r] = h]
      BY <2>3
    <3>2. h \in Handles
      BY <2>1 DEF Handles
    <3> QED BY <2>1, <3>1, <3>2
  <2>4. CASE handle' = [handle EXCEPT ![r].inner = "poisoned"]
    <3> DEFINE h == [handle[r] EXCEPT !.inner = "poisoned"]
    <3>1. handle' = [handle EXCEPT ![r] = h]
      BY <2>4
    <3>2. h \in Handles
      BY <2>1 DEF Handles
    <3> QED BY <2>1, <3>1, <3>2
  <2> QED BY <2>1, <2>2, <2>3, <2>4
<1>7. acked' \in 0 .. MaxWrites /\ doubt' \subseteq 0 .. MaxWrites
  BY <1>3 DEF EngineTypes, Get, Append1, AppendFails, Interrupted
<1>8. misread' \in BOOLEAN
  BY Zenon DEF EngineTypes, Get, Append1, AppendFails
<1> QED
  BY <1>1, <1>2, <1>5, <1>6, <1>7, <1>8, CallEnds, CallsTyped DEF StepKept, EngineTypes

\* Every step of a routed handle.
LEMMA RoutedStep ==
    ASSUME DirTypes, EngineTypes, NEW r \in Routers, RoutedNext(r)
    PROVE  CallStep(r) /\ EngineTypes'
<1>1. r \in Procs
  BY RoutersAreProcesses
<1>2. StepKept(r) /\ built' = built /\ EngineTypes'
  BY <1>1, CallsBegin, RoutingKept, OperationKept DEF RoutedNext
<1> QED BY <1>2 DEF StepKept, CallStep
-----------------------------------------------------------------------------
\* The lease, deaths and power losses.

\* A call that stays where it is.
LEMMA SameCall ==
    ASSUME DirTypes, NEW p \in Procs, op' = op
    PROVE  CallGoes(p)
<1>1. op[p] \in Calls /\ CallFits(op[p]) /\ op \in [Procs -> Calls]
  BY CallsTyped
<1>2. op' = [op EXCEPT ![p] = op[p]]
  BY <1>1
<1>3. Continues(op[p], op[p])
  BY DEF Continues
<1> QED BY <1>1, <1>2, <1>3 DEF CallGoes

\* A step of one process that changes no name, no file and no count but that
\* of failures, and the call at most by ending it.
LEMMA QuietStep ==
    ASSUME DirTypes, NEW p \in Procs,
           dir' = dir, disk' = disk, log' = log, proof' = proof, built' = built,
           NoFault \/ Fault,
           op' = op \/ GiveUp(p) \/ op' = [op EXCEPT ![p] = NoOp]
    PROVE  CallStep(p)
<1>1. CallGoes(p)
  BY SameCall, CallEnds, CallsTyped
<1> QED BY <1>1, SameNames, SameFiles DEF CallStep

\* Taking the lease later on, finding it busy, and giving it back.
LEMMA LeaseKept ==
    ASSUME DirTypes, EngineTypes, NEW p \in Procs,
           Acquire(p) \/ Busy(p) \/ FinishAcquire(p) \/ Release(p)
    PROVE  CallStep(p) /\ EngineTypes'
<1>1. EngineTypes'
  BY DEF EngineTypes, engineVars, Acquire, Busy, FinishAcquire, Release
<1>2. CASE Acquire(p)
  <2>1. /\ dir' = dir /\ disk' = disk /\ log' = log /\ proof' = proof /\ built' = built
        /\ NoFault /\ op' = op
    BY <1>2 DEF Acquire, dirVars, NoFault
  <2> QED BY <1>1, <2>1, QuietStep
<1>3. CASE Busy(p)
  BY <1>1, <1>3, QuietStep DEF Busy
<1>4. CASE FinishAcquire(p)
  <2>1. /\ dir' = dir /\ disk' = disk /\ log' = log /\ proof' = proof /\ built' = built
        /\ (NoFault \/ Fault)
        /\ op' = op \/ op' = [op EXCEPT ![p] = NoOp]
    BY <1>4 DEF FinishAcquire, dirVars, NoFault
  <2> QED BY <1>1, <2>1, QuietStep
<1>5. CASE Release(p)
  <2>1. op' = op \/ op' = [op EXCEPT ![p] = NoOp]
    <3>1. op \in [Procs -> Calls]
      BY CallsTyped
    <3>2. EndCall(p) => op' = op \/ op' = [op EXCEPT ![p] = NoOp]
      BY <3>1 DEF EndCall
    <3> QED BY <1>5, <3>2 DEF Release
  <2>2. /\ dir' = dir /\ disk' = disk /\ log' = log /\ proof' = proof /\ built' = built
        /\ (NoFault \/ Fault)
    BY <1>5 DEF Release
  <2> QED BY <1>1, <2>1, <2>2, QuietStep
<1> QED BY <1>2, <1>3, <1>4, <1>5

\* A death.
LEMMA DeathKept ==
    ASSUME DirTypes, EngineTypes, NEW p \in Procs, Die(p)
    PROVE  CallStep(p) /\ EngineTypes'
<1>1. /\ dir' = dir /\ disk' = disk /\ proof' = proof /\ built' = built /\ Fault
      /\ op' = [op EXCEPT ![p] = NoOp]
      /\ UNCHANGED <<writes, acked, misread>>
  BY DEF Die
<1>3. \/ log' = log /\ doubt' = doubt
      \/ op[p].at \in Routed /\ Interrupted(p)
  BY DEF Die, Appending, Holding, Running, Routed
<1>4. log' \in [Gens -> File] /\ doubt' \subseteq 0 .. MaxWrites
  <2>1. CASE log' = log /\ doubt' = doubt
    BY <2>1 DEF DirTypes, EngineTypes
  <2>2. CASE op[p].at \in Routed /\ Interrupted(p)
    <3>1. op[p].gen \in 0 .. MaxWrites
      BY <2>2, ValueTyped
    <3>2. \/ log' = log \/ log' = [log EXCEPT ![handle[p].gen].tail = TRUE]
          \/ log' = [log EXCEPT ![handle[p].gen].recs = Append(@, op[p].gen)]
      BY <2>2 DEF Interrupted
    <3>3. log' \in [Gens -> File]
      BY <3>1, <3>2, AppendTyped
    <3> QED BY <2>2, <3>1, <3>3 DEF Interrupted, EngineTypes
  <2> QED BY <1>3, <2>1, <2>2
<1>5. handle' \in [Routers -> Handles]
  BY ClosedTyped DEF Die, EngineTypes
<1>6. CallGoes(p)
  BY <1>1, CallEnds, CallsTyped
<1>7. NamesKept /\ FilesKept
  BY <1>1, <1>4, SameNames, FaultsCounted DEF FilesKept, DirTypes
<1> QED BY <1>1, <1>4, <1>5, <1>6, <1>7 DEF CallStep, EngineTypes

\* A power loss keeps the names that were durable and visible, and invents
\* none.
LEMMA ImagesKeep ==
    ASSUME dir \in Namespaces, disk \in Namespaces, NEW d \in Images
    PROVE  /\ d \in Namespaces
           /\ \A k \in Kinds : /\ dir[k] \cap disk[k] \subseteq d[k]
                               /\ d[k] \subseteq dir[k] \cup disk[k]
<1>1. PICK S \in SUBSET Unsettled :
        d = [k \in Kinds |-> (dir[k] \cap disk[k]) \cup {e[2] : e \in {f \in S : f[1] = k}}]
  BY Zenon DEF Images
<1>2. ASSUME NEW k \in Kinds, NEW e \in S, e[1] = k
      PROVE  e[2] \in dir[k] \cup disk[k]
  <2>1. PICK j \in Kinds : e \in {j} \X ((dir[j] \ disk[j]) \cup (disk[j] \ dir[j]))
    <3>1. e \in Unsettled
      BY <1>1, <1>2
    <3> QED BY <3>1, Zenon DEF Unsettled
  <2>2. e[1] = j /\ e[2] \in (dir[j] \ disk[j]) \cup (disk[j] \ dir[j])
    BY <2>1
  <2> QED BY <1>2, <2>2
<1>3. \A k \in Kinds :
         d[k] = (dir[k] \cap disk[k]) \cup {e[2] : e \in {f \in S : f[1] = k}}
  BY <1>1
<1>4. ASSUME NEW k \in Kinds
      PROVE  dir[k] \cap disk[k] \subseteq d[k] /\ d[k] \subseteq dir[k] \cup disk[k]
  <2>1. {e[2] : e \in {f \in S : f[1] = k}} \subseteq dir[k] \cup disk[k]
    BY <1>2
  <2> QED BY <1>3, <2>1
<1>5. \A k \in Kinds : dir[k] \subseteq Gens /\ disk[k] \subseteq Gens
  BY DEF Namespaces
<1>6. \A k \in Kinds : d[k] \subseteq Gens
  BY <1>4, <1>5
<1>7. d \in [Kinds -> SUBSET Gens]
  BY <1>1, <1>3, <1>6
<1> QED BY <1>4, <1>7 DEF Namespaces

\* So everything else of the invariant survives it.
LEMMA PowerLossKeeps ==
    ASSUME DirTypes, EngineTypes, FrontierInv, PowerLoss
    PROVE  DirTypes' /\ EngineTypes' /\ FrontierInv' /\ MarkersInv'
<1>1. /\ dir' \in Images /\ disk' = dir' /\ UNCHANGED <<log, proof, built, writes, misread>>
      /\ op' = [p \in Procs |-> NoOp] /\ handle' = [r \in Routers |-> Closed] /\ Fault
  BY DEF PowerLoss
<1>2. /\ dir' \in Namespaces
      /\ \A k \in Kinds : dir[k] \cap disk[k] \subseteq dir'[k]
  BY <1>1, ImagesKeep DEF DirTypes, Namespaces
<1>3. \A p \in Procs : op'[p] = NoOp
  BY <1>1
<1>4. \A p \in Procs : op'[p].at = "idle"
  BY <1>3, NoOpIsCall
<1>5. DirTypes'
  <2>1. op' \in [Procs -> Calls]
    BY <1>1, NoOpIsCall
  <2>2. \A p \in Procs : CallFits(op[p])'
    BY <1>4 DEF CallFits, WithGeneration, Routed
  <2>3. faults' \in 0 .. MaxFaults /\ platform' = platform
    BY <1>1, FaultsCounted
  <2> QED BY <1>1, <1>2, <2>1, <2>2, <2>3 DEF DirTypes, Namespaces
<1>6. EngineTypes'
  <2>1. handle' \in [Routers -> Handles]
    BY <1>1, ClosedTyped
  <2>2. acked' \in 0 .. MaxWrites /\ doubt' \subseteq 0 .. MaxWrites
    <3>1. CASE UNCHANGED <<acked, doubt>>
      BY <3>1 DEF EngineTypes
    <3>2. CASE /\ dir'["markers"] # {}
               /\ acked' = Live(log[Authority(dir')].recs) /\ doubt' = {}
      <4>1. Authority(dir') \in Gens
        BY <1>2, <3>2, AuthorityIs
      <4> DEFINE recs == log[Authority(dir')].recs
      <4>2. recs \in Seq(0 .. MaxWrites)
        BY <4>1 DEF DirTypes, File
      <4> HIDE DEF recs
      <4>3. Live(recs) \in 0 .. MaxWrites
        BY <4>2, MaxWritesIsNatural DEF Live, Last
      <4> QED BY <3>2, <4>3 DEF recs
    <3> QED BY <3>1, <3>2 DEF PowerLoss
  <2> QED BY <1>1, <2>1, <2>2 DEF EngineTypes
<1>7. FrontierInv'
  <2>1. \A p \in Procs : op'[p].at \notin Unbuilt
    BY <1>4 DEF Unbuilt
  <2>2. dir["reserved"] \cap disk["reserved"] \subseteq dir'["reserved"]
    BY <1>2 DEF Kinds
  <2> QED BY <1>1, <2>1, <2>2 DEF FrontierInv
<1>8. MarkersInv'
  <2>1. \A m \in dir'["markers"] : m <= m
    BY <1>2 DEF Namespaces, Kinds, Gens
  <2>2. \A m \in disk'["markers"] : Reached(m)'
    BY <1>1, <2>1 DEF Reached
  <2> QED BY <1>4, <2>2 DEF MarkersInv
<1> QED BY <1>5, <1>6, <1>7, <1>8
-----------------------------------------------------------------------------
\* The invariant.

\* It holds at the start.
LEMMA GenInitially == Init => GenInv
<1> SUFFICES ASSUME Init PROVE GenInv
  OBVIOUS
<1>1. GenLockInv
  BY LockInitially DEF Init, GenLockInv, LockInit, NoClear
<1>2. /\ op = [p \in Procs |-> NoOp] /\ disk = dir
      /\ built = [g \in Gens |-> 0]
  BY DEF Init, DirInit
<1>3. \A p \in Procs : op[p].at = "idle"
  BY <1>2, NoOpIsCall
<1>4. dir \in [Kinds -> SUBSET Gens]
  <2>1. 1 \in Gens
    BY MaxGenIsPositive DEF Gens
  <2> QED BY <2>1 DEF Init, DirInit
<1>5. DirTypes
  <2>1. op \in [Procs -> Calls] /\ \A p \in Procs : CallFits(op[p])
    BY <1>2, <1>3, NoOpIsCall DEF CallFits, WithGeneration, Routed
  <2>2. log \in [Gens -> File]
    BY NoLogIsFile DEF Init, DirInit
  <2>3. proof \in [Gens -> Proofs]
    BY DEF Init, DirInit, Proofs
  <2>4. faults \in 0 .. MaxFaults /\ platform \in {"unix", "windows"}
    BY MaxFaultsIsNatural DEF Init, DirInit
  <2> QED BY <1>2, <1>4, <2>1, <2>2, <2>3, <2>4 DEF DirTypes
<1>6. EngineTypes
  <2>1. /\ handle = [r \in Routers |-> Closed] /\ writes = 0 /\ acked = 0 /\ doubt = {}
    BY DEF Init
  <2>2. misread \in BOOLEAN
    BY Zenon DEF Init
  <2>3. 0 \in 0 .. MaxWrites
    BY MaxWritesIsNatural
  <2> QED BY <2>1, <2>2, <2>3, ClosedTyped DEF EngineTypes
<1>7. FrontierInv
  BY <1>2, <1>3 DEF FrontierInv, Unbuilt
<1>8. MarkersInv
  <2>1. \A m \in dir["markers"] : m <= m
    BY <1>4 DEF Kinds, Gens
  <2> QED BY <1>2, <1>3, <2>1 DEF MarkersInv, Reached
<1> QED BY <1>1, <1>5, <1>6, <1>7, <1>8 DEF GenInv

\* Every step is one of a process, a power loss, or leaves all but the lock
\* file alone.
LEMMA EveryStep ==
    ASSUME GenInv, [Next]_vars
    PROVE  \/ \E p \in Procs : CallStep(p) /\ EngineTypes'
           \/ PowerLoss
           \/ UNCHANGED <<dirVars, engineVars>>
<1>1. ASSUME NEW r \in Routers, RoutedNext(r)
      PROVE  \E p \in Procs : CallStep(p) /\ EngineTypes'
  BY <1>1, RoutedStep, RoutersAreProcesses DEF GenInv
<1>2. ASSUME NEW t \in Tools, ToolNext(t)
      PROVE  \E p \in Procs : CallStep(p) /\ EngineTypes'
  <2>1. t \in Procs
    BY ToolsAreProcesses
  <2>2. CallStep(t)
    BY <1>2, <2>1, CommandsStep DEF GenInv, ToolNext
  <2>3. EngineTypes'
    BY <1>2 DEF GenInv, EngineTypes, engineVars, ToolNext
  <2> QED BY <2>1, <2>2, <2>3
<1>3. ASSUME NEW p \in Procs,
             Acquire(p) \/ Busy(p) \/ FinishAcquire(p) \/ Release(p) \/ Die(p)
      PROVE  \E q \in Procs : CallStep(q) /\ EngineTypes'
  BY <1>3, LeaseKept, DeathKept DEF GenInv
<1>4. CASE ClearStale
  BY <1>4 DEF ClearStale
<1>5. CASE UNCHANGED vars
  BY <1>5 DEF vars
<1> QED BY <1>1, <1>2, <1>3, <1>4, <1>5 DEF Next

\* Every step preserves it.
LEMMA GenPreserved ==
    ASSUME GenInv, [Next]_vars
    PROVE  GenInv'
<1>1. GenLockInv'
  BY LockKept DEF GenInv
<1>2. ASSUME NEW p \in Procs, CallStep(p), EngineTypes'
      PROVE  GenInv'
  BY <1>1, <1>2, DirTypesKept, FrontierKept, MarkersKept DEF GenInv
<1>3. CASE PowerLoss
  BY <1>1, <1>3, PowerLossKeeps DEF GenInv
<1>4. CASE UNCHANGED <<dirVars, engineVars>>
  BY <1>1, <1>4
  DEF GenInv, dirVars, engineVars, DirTypes, CallFits, EngineTypes, FrontierInv,
      MarkersInv, Reached
<1> QED BY <1>2, <1>3, <1>4, EveryStep

\* The inductive invariant of the generation protocol: lease, types, the
\* allocation frontier and the reach of the visible markers hold in every state
\* of every number of commands, routed handles, deaths and power losses.
THEOREM GenerationInvariance == Spec => []GenInv
<1>1. Init => GenInv
  BY GenInitially
<1>2. GenInv /\ [Next]_vars => GenInv'
  BY GenPreserved
<1> QED BY <1>1, <1>2, PTL DEF Spec

\* Names, logs, proofs, calls and handles are what they should be, for every
\* bound on ids, writes and failures.
THEOREM GenerationTypes == Spec => []TypeOK
<1>1. GenInv => TypeOK
  <2> SUFFICES ASSUME GenInv PROVE TypeOK
    OBVIOUS
  <2>1. LockTypeOK
    BY DEF GenInv, GenLockInv, LockInv
  <2>2. \A g \in Gens : proof[g] = Torn \/ proof[g] \in Seq(0 .. MaxWrites)
    BY DEF GenInv, DirTypes, Proofs
  <2>3. \A r \in Routers :
          /\ handle[r].status \in {"closed", "open", "poisoned"}
          /\ handle[r].gen \in 0 .. MaxGen
          /\ handle[r].inner \in {"ok", "poisoned"}
    BY DEF GenInv, EngineTypes, Handles
  <2> QED BY <2>1, <2>2, <2>3 DEF GenInv, DirTypes, EngineTypes, TypeOK
<1> QED BY <1>1, GenerationInvariance, PTL

\* Under commands that hold the lease across their steps, processes that die
\* in them, power losses that keep or lose the lock file, and clear-stale, no
\* two processes are inside the section the lease protects.
THEOREM WritersExcludeEachOther == Spec => []MutualExclusion
<1>1. GenInv => MutualExclusion
  <2> SUFFICES ASSUME GenInv, NEW p \in Procs, NEW q \in Procs,
                      HoldsLease(p), HoldsLease(q)
               PROVE  p = q
    BY DEF MutualExclusion
  <2>1. LockInv
    BY DEF GenInv, GenLockInv
  <2>2. lease[p] # "none" /\ lease[q] # "none"
    BY DEF HoldsLease
  <2> QED BY <2>1, <2>2 DEF LockInv, OneInProtocol, InProtocol
<1> QED BY <1>1, GenerationInvariance, PTL

\* reserve_generation never gives an id to a second compact copy, after failed
\* publications, retirements and power losses too: a reservation that was synced
\* stays, and next_generation_id looks above it.
THEOREM IdsStayUnique == Spec => []IdsNeverReused
<1>1. GenInv => IdsNeverReused
  <2> SUFFICES ASSUME GenInv, NEW g \in Gens PROVE built[g] <= 1
    BY DEF IdsNeverReused
  <2>1. built[g] = 0 \/ built[g] = 1
    BY DEF GenInv, FrontierInv
  <2> QED BY <2>1
<1> QED BY <1>1, GenerationInvariance, PTL

\* No publication, cleanup, retirement, failure, death or power loss moves a
\* durable authority to an older generation or removes it.
THEOREM AuthorityOnlyAdvances == Spec => AuthorityNeverRegresses
<1>1. ASSUME GenInv, [Next]_vars, Settled
      PROVE  disk'["markers"] # {} /\ Authority(disk') >= Authority(disk)
  <2>1. DirTypes /\ MarkersInv /\ dir \in Namespaces /\ disk \in Namespaces
    BY <1>1 DEF GenInv, DirTypes, Namespaces
  <2> DEFINE a == Authority(dir)
  <2>2. /\ a \in dir["markers"] \cap disk["markers"] /\ a \in Nat
        /\ \A m \in dir["markers"] : m <= a
    BY <1>1, <2>1, AuthorityIs DEF Settled, Gens
  <2> HIDE DEF a
  <2>3. Authority(disk) <= a /\ Authority(disk) \in Nat
    <3>1. /\ Authority(disk) \in disk["markers"] /\ Authority(disk) \in Nat
      BY <2>1, <2>2, AuthorityIs DEF Gens
    <3>2. PICK n \in dir["markers"] : Authority(disk) <= n
      BY <2>1, <3>1 DEF MarkersInv, Reached
    <3>3. n \in Nat /\ n <= a
      BY <2>1, <2>2 DEF Namespaces, Kinds, Gens
    <3> QED BY <2>2, <3>1, <3>2, <3>3
  <2>4. a \in disk'["markers"] /\ disk' \in Namespaces
    <3>1. ASSUME NEW p \in Procs, CallStep(p)
          PROVE  a \in disk'["markers"] /\ disk' \in Namespaces
      BY <2>2, <3>1 DEF CallStep, NamesKept
    <3>2. CASE PowerLoss
      <4>1. dir' \in Images /\ disk' = dir'
        BY <3>2 DEF PowerLoss
      <4>2. "markers" \in Kinds
        BY DEF Kinds
      <4> QED BY <2>1, <2>2, <4>1, <4>2, ImagesKeep
    <3>3. CASE UNCHANGED <<dirVars, engineVars>>
      BY <2>1, <2>2, <3>3 DEF dirVars
    <3> QED BY <1>1, <3>1, <3>2, <3>3, EveryStep
  <2>5. Authority(disk') \in Nat /\ a <= Authority(disk')
    BY <2>4, AuthorityIs DEF Gens
  <2> QED BY <2>2, <2>3, <2>4, <2>5
<1>2. GenInv /\ [Next]_vars =>
        [Settled => disk'["markers"] # {} /\ Authority(disk') >= Authority(disk)]_vars
  BY <1>1
<1> QED BY <1>2, GenerationInvariance, PTL DEF Spec, AuthorityNeverRegresses
-----------------------------------------------------------------------------
(***************************************************************************)
(* No acknowledged write is lost by the generation protocol, for every     *)
(* number of commands, routed handles, ids, writes and failures, as long   *)
(* as the power fails only when the marker of the authority is durable or  *)
(* there is none yet.                                                      *)
(*                                                                         *)
(* The argument: whoever changes the final markers, retires a log or       *)
(* appends holds the lease, so between the recheck of a switch and its     *)
(* marker nothing moves; the candidate has the live state of the authority *)
(* and its log is durable before its marker appears; and a copy that is    *)
(* built outside the lease writes only the log of an id nobody uses.       *)
(***************************************************************************)

\* Places a command or a routed call reaches only with the lease.
Locked ==
    {"reserveSync", "reserved", "baseSync", "stage", "fill", "link", "linkSync",
     "published", "retireMarkers", "markersSync", "reverify", "retireLogs",
     "logsSync", "unstage", "unstageSync", "unlink", "resolve", "resolved", "apply"}

\* Where a candidate is on its way to be the authority.
Publishing == {"publish", "baseSync", "stage", "fill", "link"}

LeaseInv ==
    \A p \in Procs : /\ op[p].at \in Locked => lease[p] = "held"
                     /\ op[p].at \in Publishing => lease[p] # "none"

\* The live state of a log is the last acknowledged write or one in doubt.
Kept(g) == Live(log[g].recs) \in {acked} \cup doubt

\* Generation 1, and copies that were built, have logs; nothing else has.
Exists(g) == g = 1 \/ built[g] # 0
LogsInv == \A g \in Gens : g \in dir["logs"] \cup disk["logs"] => Exists(g)

\* Before the first marker there is only generation 1.
FirstInv == dir["markers"] = {} => Kept(1) /\ \A g \in Gens : built[g] = 0

\* The authority has its log, durably, with the prefix its marker proves.
Sound(a) == /\ a \in dir["logs"] /\ a \in disk["logs"]
            /\ proof[a] \in Seq(0 .. MaxWrites) /\ IsPrefix(proof[a], log[a].recs)
            /\ Kept(a)
AuthorityInv == dir["markers"] # {} => Sound(Authority(dir))

\* On Windows the log of a candidate is durable when it is visible.
DurableCandidate(p) ==
    platform = "windows" => /\ built[op[p].gen] # 0
                            /\ op[p].gen \in dir["logs"] => op[p].gen \in disk["logs"]

\* A candidate is a new generation, and its copy is complete.
CopyInv ==
    \A p \in Procs :
        /\ op[p].at \in Unbuilt => op[p].gen # 1 /\ dir["markers"] # {}
        /\ op[p].at \in {"tidyCopy", "recheck"} => built[op[p].gen] # 0
        /\ op[p].at \in {"tidyCopy", "recheck", "publish"} => DurableCandidate(p)

\* After the recheck it has the live state of the authority; it is above
\* every marker and durable before its own marker is written.
CandidateInv ==
    \A p \in Procs :
        /\ op[p].at = "publish" => dir["markers"] = {} \/ built[op[p].gen] # 0
        /\ op[p].at \in Publishing /\ op[p].gen \in dir["logs"] => Kept(op[p].gen)
        /\ op[p].at \in Publishing \ {"publish"} =>
              op[p].gen \in dir["logs"] /\ \A m \in dir["markers"] : m < op[p].gen
        /\ op[p].at \in {"stage", "fill", "link"} => op[p].gen \in disk["logs"]
        /\ op[p].at = "link" => proof[op[p].gen] = log[op[p].gen].recs

CleanupInv == \A p \in Procs : op[p].at = "retireLogs" => Reached(op[p].wit.auth)

\* A call that is about to read or append is routed to the authority.
RoutingInv ==
    \A p \in Procs : op[p].at = "apply" =>
        p \in Routers /\ dir["markers"] # {} /\ handle[p].gen = Authority(dir)

AckInv == /\ LeaseInv /\ CopyInv /\ CandidateInv /\ CleanupInv /\ RoutingInv
          /\ LogsInv /\ FirstInv /\ AuthorityInv

\* What the invariant says of one call, and of what the calls share.
Own(p) ==
    /\ op[p].at \in Locked => lease[p] = "held"
    /\ op[p].at \in Publishing => lease[p] # "none"
    /\ op[p].at \in Unbuilt => op[p].gen # 1 /\ dir["markers"] # {}
    /\ op[p].at \in {"tidyCopy", "recheck"} => built[op[p].gen] # 0
    /\ op[p].at \in {"tidyCopy", "recheck", "publish"} => DurableCandidate(p)
    /\ op[p].at = "publish" => dir["markers"] = {} \/ built[op[p].gen] # 0
    /\ op[p].at \in Publishing /\ op[p].gen \in dir["logs"] => Kept(op[p].gen)
    /\ op[p].at \in Publishing \ {"publish"} =>
          op[p].gen \in dir["logs"] /\ \A m \in dir["markers"] : m < op[p].gen
    /\ op[p].at \in {"stage", "fill", "link"} => op[p].gen \in disk["logs"]
    /\ op[p].at = "link" => proof[op[p].gen] = log[op[p].gen].recs
    /\ op[p].at = "retireLogs" => Reached(op[p].wit.auth)
    /\ op[p].at = "apply" =>
          p \in Routers /\ dir["markers"] # {} /\ handle[p].gen = Authority(dir)

Shared == LogsInv /\ FirstInv /\ AuthorityInv

\* The two readings of it.
LEMMA InvariantParts == AckInv <=> Shared /\ \A p \in Procs : Own(p)
BY DEF AckInv, Own, Shared, LeaseInv, CopyInv, CandidateInv, CleanupInv, RoutingInv

\* The same of the next state.
LEMMA InvariantPartsNext == AckInv' <=> Shared' /\ \A p \in Procs : Own(p)'
BY DEF AckInv, Own, Shared, LeaseInv, CopyInv, CandidateInv, CleanupInv, RoutingInv
-----------------------------------------------------------------------------
\* Records.

\* A compact copy has the live state of its source.
LEMMA LiveOfCopy ==
    ASSUME NEW f \in File
    PROVE  Live(CompactCopy(f).recs) = Live(f.recs)
<1> DEFINE v == Live(f.recs)
<1>1. CompactCopy(f).recs = IF v = 0 THEN << >> ELSE <<v>>
  BY DEF CompactCopy, Compact
<1> HIDE DEF v
<1>2. Live(<< >>) = 0 /\ Live(<<v>>) = v
  BY DEF Live, Last
<1> QED BY <1>1, <1>2 DEF v

\* The live state of a log after an append is what was appended.
LEMMA LiveOfAppend ==
    ASSUME NEW s \in Seq(0 .. MaxWrites), NEW v \in 0 .. MaxWrites
    PROVE  Live(Append(s, v)) = v
BY DEF Live, Last

\* A prefix stays one when a record is appended.
LEMMA PrefixOfAppend ==
    ASSUME NEW u \in Seq(0 .. MaxWrites), NEW s \in Seq(0 .. MaxWrites),
           NEW v \in 0 .. MaxWrites, IsPrefix(u, s)
    PROVE  IsPrefix(u, Append(s, v))
<1>1. /\ Len(u) \in Nat /\ Len(s) \in Nat /\ Len(u) <= Len(s)
      /\ SubSeq(u, 1, Len(u)) = SubSeq(s, 1, Len(u))
  BY DEF IsPrefix
<1>2. Len(Append(s, v)) = Len(s) + 1
  OBVIOUS
<1>3. SubSeq(Append(s, v), 1, Len(u)) = SubSeq(s, 1, Len(u))
  BY <1>1
<1> QED BY <1>1, <1>2, <1>3 DEF IsPrefix

\* Every sequence is a prefix of itself.
LEMMA PrefixOfItself ==
    ASSUME NEW s \in Seq(0 .. MaxWrites)
    PROVE  IsPrefix(s, s)
BY DEF IsPrefix
-----------------------------------------------------------------------------
\* What one step may do to what the calls share.

\* Nothing that matters: a sync makes what is visible durable.
Quiet ==
    /\ dir'["markers"] = dir["markers"] /\ dir'["logs"] = dir["logs"]
    /\ disk'["logs"] \in {disk["logs"], dir["logs"]}
    /\ \A g \in Gens : log'[g].recs = log[g].recs
    /\ proof' = proof /\ built' = built /\ platform' = platform
    /\ acked' = acked /\ doubt' = doubt

\* A copy gets the name of its generation; no lease is needed.
Copied(p) ==
    /\ op[p].at = "build" /\ op[p].gen \in Gens
    /\ dir'["markers"] = dir["markers"]
    /\ dir'["logs"] = dir["logs"] \cup {op[p].gen}
    /\ disk'["logs"] \in {disk["logs"], disk["logs"] \cup {op[p].gen}}
    /\ built' = [built EXCEPT ![op[p].gen] = @ + 1]
    /\ log' = [log EXCEPT ![op[p].gen] = CompactCopy(op[p].src)]
    /\ proof' = proof /\ platform' = platform /\ acked' = acked /\ doubt' = doubt

\* Anything that keeps the invariant, with the lease: no log appears, and
\* none is less durable than it was.
Exclusively(p) ==
    /\ lease[p] = "held"
    /\ built' = built /\ platform' = platform
    /\ dir'["markers"] = {} => dir["markers"] = {}
    /\ dir'["logs"] \subseteq dir["logs"]
    /\ \A g \in dir'["logs"] : g \in disk["logs"] => g \in disk'["logs"]
    /\ Shared'

\* Other calls, leases and handles than that of p are left alone.
Alone(p) ==
    \A q \in Procs \ {p} : /\ op'[q] = op[q] /\ lease'[q] = lease[q]
                           /\ q \in Routers => handle'[q] = handle[q]

Moved(p) ==
    Own(p)' /\ Alone(p) /\ (Quiet \/ Copied(p) \/ Exclusively(p))

\* The id of a call is one.
LEMMA GenTyped ==
    ASSUME DirTypes, NEW p \in Procs, op[p].at \in WithGeneration
    PROVE  op[p].gen \in Gens
BY CallsTyped DEF CallFits

\* What is shared stays true.
LEMMA QuietShared ==
    ASSUME DirTypes, Shared, Quiet
    PROVE  Shared'
<1>1. 1 \in Gens
  BY MaxGenIsPositive DEF Gens
<1>2. \A g \in Gens : Kept(g) => Kept(g)'
  BY DEF Quiet, Kept
<1>3. Authority(dir') = Authority(dir)
  BY DEF Quiet, Authority
<1>4. dir["markers"] # {} => Authority(dir) \in Gens
  BY AuthorityIs DEF DirTypes, Namespaces
<1>5. LogsInv'
  BY DEF Shared, LogsInv, Quiet, Exists
<1>6. FirstInv'
  BY <1>1, <1>2 DEF Shared, FirstInv, Quiet
<1>7. AuthorityInv'
  <2>1. ASSUME NEW a \in Gens, Sound(a) PROVE Sound(a)'
    <3>1. /\ a \in dir'["logs"] /\ a \in disk'["logs"] /\ Kept(a)'
          /\ proof'[a] = proof[a] /\ log'[a].recs = log[a].recs
      BY <1>2, <2>1 DEF Sound, Quiet
    <3> QED BY <2>1, <3>1 DEF Sound
  <2>2. PICK a : a = Authority(dir)
    OBVIOUS
  <2>3. dir'["markers"] # {} => Sound(a)'
    BY <1>4, <2>1, <2>2 DEF Quiet, Shared, AuthorityInv
  <2> QED BY <1>3, <2>2, <2>3 DEF AuthorityInv, Sound, Kept
<1> QED BY <1>5, <1>6, <1>7 DEF Shared

\* So does what concerns another call.
LEMMA QuietOwn ==
    ASSUME DirTypes, Quiet, NEW q \in Procs, Own(q),
           op'[q] = op[q], lease'[q] = lease[q], q \in Routers => handle'[q] = handle[q]
    PROVE  Own(q)'
<1>1. op[q].at \in Publishing \cup {"tidyCopy", "recheck"} => op[q].gen \in Gens
  BY GenTyped DEF Publishing, WithGeneration
<1>2. \A g \in Gens : Kept(g) => Kept(g)'
  BY DEF Quiet, Kept
<1>3. Authority(dir') = Authority(dir)
  BY DEF Quiet, Authority
<1>4. DurableCandidate(q) => DurableCandidate(q)'
  BY DEF Quiet, DurableCandidate
<1>5. op[q].at \in Publishing => (Kept(op[q].gen) => Kept(op[q].gen)')
  BY <1>1, <1>2
<1>6. op[q].at \in {"stage", "fill", "link"} => op[q].gen \in disk'["logs"]
  BY DEF Quiet, Own, Publishing
<1>7. op[q].at = "link" => proof'[op[q].gen] = log'[op[q].gen].recs
  BY <1>1 DEF Quiet, Own, Publishing
<1>8. op[q].at = "retireLogs" => Reached(op[q].wit.auth)'
  BY DEF Quiet, Own, Reached
<1>9. /\ op[q].at \in Publishing /\ op[q].gen \in dir'["logs"] => Kept(op[q].gen)'
      /\ op[q].at \in Publishing \ {"publish"} =>
            op[q].gen \in dir'["logs"] /\ \A m \in dir'["markers"] : m < op[q].gen
  BY <1>5 DEF Quiet, Own
<1>10. /\ op[q].at \in Locked => lease'[q] = "held"
       /\ op[q].at \in Publishing => lease'[q] # "none"
       /\ op[q].at \in Unbuilt => op[q].gen # 1 /\ dir'["markers"] # {}
       /\ op[q].at \in {"tidyCopy", "recheck"} => built'[op[q].gen] # 0
       /\ op[q].at = "publish" => dir'["markers"] = {} \/ built'[op[q].gen] # 0
       /\ op[q].at = "apply" =>
             q \in Routers /\ dir'["markers"] # {} /\ handle'[q].gen = Authority(dir')
  BY <1>3 DEF Quiet, Own
<1> QED BY <1>4, <1>6, <1>7, <1>8, <1>9, <1>10 DEF Own

\* A copy is neither of the authority nor of generation 1.
LEMMA CopiedIsNew ==
    ASSUME DirTypes, FrontierInv, Shared, NEW p \in Procs, Own(p), Copied(p)
    PROVE  /\ op[p].gen \in Gens /\ built[op[p].gen] = 0 /\ op[p].gen # 1
           /\ dir["markers"] # {} /\ ~Exists(op[p].gen)
           /\ Authority(dir) \in Gens /\ Authority(dir) # op[p].gen
           /\ built'[op[p].gen] = 1
           /\ \A g \in Gens \ {op[p].gen} : built'[g] = built[g] /\ log'[g] = log[g]
<1>1. op[p].at \in Unbuilt /\ op[p].gen \in Gens
  BY DEF Copied, Unbuilt
<1>2. built[op[p].gen] = 0 /\ op[p].gen # 1 /\ dir["markers"] # {}
  BY <1>1 DEF FrontierInv, Own
<1>3. ~Exists(op[p].gen)
  BY <1>2 DEF Exists
<1>4. Authority(dir) \in Gens /\ Exists(Authority(dir))
  <2>1. Authority(dir) \in Gens /\ Authority(dir) \in dir["logs"]
    BY <1>2, AuthorityIs DEF DirTypes, Namespaces, Shared, AuthorityInv, Sound
  <2> QED BY <2>1 DEF Shared, LogsInv
<1>5. /\ built'[op[p].gen] = 1
      /\ \A g \in Gens \ {op[p].gen} : built'[g] = built[g] /\ log'[g] = log[g]
  BY <1>1, <1>2 DEF DirTypes, Copied
<1> QED BY <1>1, <1>2, <1>3, <1>4, <1>5

\* What is shared stays true.
LEMMA CopiedShared ==
    ASSUME DirTypes, FrontierInv, Shared, NEW p \in Procs, Own(p), Copied(p)
    PROVE  Shared'
<1> DEFINE n == op[p].gen
           a == Authority(dir)
<1>1. /\ n \in Gens /\ n # 1 /\ dir["markers"] # {} /\ a \in Gens /\ a # n /\ built'[n] = 1
      /\ \A g \in Gens \ {n} : built'[g] = built[g] /\ log'[g] = log[g]
  BY CopiedIsNew
<1>2. /\ dir'["markers"] = dir["markers"] /\ dir'["logs"] = dir["logs"] \cup {n}
      /\ disk'["logs"] \in {disk["logs"], disk["logs"] \cup {n}}
      /\ proof' = proof /\ acked' = acked /\ doubt' = doubt
  BY DEF Copied
<1>3. Authority(dir') = a
  BY <1>2 DEF Authority
<1> HIDE DEF n, a
<1>4. LogsInv'
  <2> SUFFICES ASSUME NEW g \in Gens, g \in dir'["logs"] \cup disk'["logs"]
               PROVE  Exists(g)'
    BY DEF LogsInv
  <2>1. CASE g = n
    BY <1>1, <2>1 DEF Exists
  <2>2. CASE g # n
    BY <1>1, <1>2, <2>2 DEF Exists, Shared, LogsInv
  <2> QED BY <2>1, <2>2
<1>5. FirstInv'
  BY <1>1, <1>2 DEF FirstInv
<1>6. AuthorityInv'
  <2>1. ASSUME NEW b \in Gens, b # n, Sound(b) PROVE Sound(b)'
    BY <1>1, <1>2, <2>1 DEF Sound, Kept
  <2>2. PICK b : b = a
    OBVIOUS
  <2>3. Sound(b)'
    BY <1>1, <2>1, <2>2 DEF Shared, AuthorityInv, a
  <2> QED BY <1>3, <2>2, <2>3 DEF AuthorityInv, Sound, Kept
<1> QED BY <1>4, <1>5, <1>6 DEF Shared

\* So does what concerns another call.
LEMMA CopiedOwn ==
    ASSUME DirTypes, FrontierInv, Shared, NEW p \in Procs, Own(p), Copied(p),
           NEW q \in Procs, q # p, Own(q),
           op'[q] = op[q], lease'[q] = lease[q], q \in Routers => handle'[q] = handle[q]
    PROVE  Own(q)'
<1> DEFINE n == op[p].gen
           m == op[q].gen
<1>1. /\ n \in Gens /\ ~Exists(n) /\ built[n] = 0 /\ dir["markers"] # {} /\ built'[n] = 1
      /\ \A g \in Gens \ {n} : built'[g] = built[g] /\ log'[g] = log[g]
  BY CopiedIsNew
<1>2. /\ dir'["markers"] = dir["markers"] /\ dir'["logs"] = dir["logs"] \cup {n}
      /\ disk'["logs"] \in {disk["logs"], disk["logs"] \cup {n}}
      /\ proof' = proof /\ platform' = platform /\ acked' = acked /\ doubt' = doubt
  BY DEF Copied
<1>3. Authority(dir') = Authority(dir)
  BY <1>2 DEF Authority
<1>4. op[q].at \in Publishing \cup {"tidyCopy", "recheck"} => m \in Gens
  BY GenTyped DEF Publishing, WithGeneration
<1>5. op[q].at \in Publishing \ {"publish"} => m \in dir["logs"]
  BY DEF Own
<1>6. op[q].at \in Publishing \cup {"tidyCopy", "recheck"} => m # n
  <2>1. op[q].at \in {"publish", "tidyCopy", "recheck"} => built[m] # 0
    BY <1>1 DEF Own
  <2>2. op[q].at \in Publishing \ {"publish"} => Exists(m)
    BY <1>4, <1>5 DEF Shared, LogsInv
  <2> QED BY <1>1, <2>1, <2>2
<1> HIDE DEF n
<1>7. op[q].at \in Publishing => (Kept(m) => Kept(m)')
  BY <1>1, <1>2, <1>4, <1>6 DEF Kept
<1>8. op[q].at \in {"tidyCopy", "recheck", "publish"} => DurableCandidate(q)'
  <2>1. op[q].at \in {"tidyCopy", "recheck", "publish"} =>
           /\ DurableCandidate(q) /\ m \in Gens /\ m # n
    BY <1>4, <1>6 DEF Own, Publishing
  <2> QED BY <1>1, <1>2, <2>1 DEF DurableCandidate
<1>9. op[q].at = "link" => proof'[m] = log'[m].recs
  BY <1>1, <1>2, <1>4, <1>6 DEF Own, Publishing
<1>10. /\ op[q].at \in {"stage", "fill", "link"} => m \in disk'["logs"]
       /\ op[q].at \in Publishing /\ m \in dir'["logs"] => Kept(m)'
       /\ op[q].at \in Publishing \ {"publish"} =>
             m \in dir'["logs"] /\ \A i \in dir'["markers"] : i < m
  BY <1>2, <1>6, <1>7 DEF Own
<1>11. op[q].at = "retireLogs" => Reached(op[q].wit.auth)'
  BY <1>2 DEF Own, Reached
<1>12. /\ op[q].at \in {"tidyCopy", "recheck"} => built'[m] # 0
       /\ op[q].at = "publish" => dir'["markers"] = {} \/ built'[m] # 0
  BY <1>1, <1>2, <1>4, <1>6 DEF Own, Publishing
<1>13. /\ op[q].at \in Locked => lease'[q] = "held"
       /\ op[q].at \in Publishing => lease'[q] # "none"
       /\ op[q].at \in Unbuilt => m # 1 /\ dir'["markers"] # {}
       /\ op[q].at = "apply" =>
             q \in Routers /\ dir'["markers"] # {} /\ handle'[q].gen = Authority(dir')
  BY <1>2, <1>3 DEF Own
<1> QED BY <1>8, <1>9, <1>10, <1>11, <1>12, <1>13 DEF Own

\* Whoever else is at a place of the lease holds it too.
LEMMA ExclusivelyOwn ==
    ASSUME GenLockInv, NEW p \in Procs, Exclusively(p), NEW q \in Procs, q # p, Own(q),
           op'[q] = op[q], lease'[q] = lease[q]
    PROVE  Own(q)'
<1>1. lease[q] = "none"
  BY DEF GenLockInv, LockInv, OneInProtocol, InProtocol, Exclusively
<1>2. op[q].at \notin Locked /\ op[q].at \notin Publishing
  BY <1>1 DEF Own
<1>3. op[q].at \notin {"stage", "fill", "link", "publish", "retireLogs", "apply"}
  BY <1>2 DEF Locked, Publishing
<1>4. DurableCandidate(q) => DurableCandidate(q)'
  BY DEF DurableCandidate, Exclusively
<1>5. /\ op[q].at \in Unbuilt => op[q].gen # 1 /\ dir'["markers"] # {}
      /\ op[q].at \in {"tidyCopy", "recheck"} => built'[op[q].gen] # 0
      /\ op[q].at \in {"tidyCopy", "recheck", "publish"} => DurableCandidate(q)'
  BY <1>4 DEF Own, Exclusively
<1> QED BY <1>2, <1>3, <1>5 DEF Own

\* One process moves, and the invariant stays.
LEMMA MovedKeeps ==
    ASSUME GenInv, AckInv, NEW p \in Procs, Moved(p)
    PROVE  AckInv'
<1>1. DirTypes /\ FrontierInv /\ GenLockInv
  BY DEF GenInv
<1>2. Shared /\ \A q \in Procs : Own(q)
  BY InvariantParts
<1>3. Own(p)' /\ Alone(p)
  BY DEF Moved
<1>4. Shared'
  BY <1>1, <1>2, QuietShared, CopiedShared DEF Moved, Exclusively
<1>5. ASSUME NEW q \in Procs, q # p PROVE Own(q)'
  <2>1. /\ op'[q] = op[q] /\ lease'[q] = lease[q] /\ (q \in Routers => handle'[q] = handle[q])
        /\ Own(q) /\ Own(p)
    BY <1>2, <1>3, <1>5 DEF Alone
  <2>2. CASE Quiet
    BY <1>1, <2>1, <2>2, QuietOwn
  <2>3. CASE Copied(p)
    BY <1>1, <1>2, <1>5, <2>1, <2>3, CopiedOwn
  <2>4. CASE Exclusively(p)
    BY <1>1, <1>5, <2>1, <2>4, ExclusivelyOwn
  <2> QED BY <2>2, <2>3, <2>4 DEF Moved
<1>6. \A q \in Procs : Own(q)'
  BY <1>3, <1>5
<1> QED BY <1>4, <1>6, InvariantPartsNext
-----------------------------------------------------------------------------
\* Where a call gets to.

\* Places at which the invariant asks nothing of a call, and those at which it
\* asks for the lease alone.
Resting == {"idle", "leave", "reserve", "plan", "inspected", "match", "route"}
Guarded ==
    {"linkSync", "published", "retireMarkers", "markersSync", "reverify",
     "logsSync", "unstage", "unstageSync", "unlink", "resolve", "resolved"}

\* A call at such a place has what it needs.
LEMMA EasyPlaces ==
    ASSUME NEW t \in Procs,
           \/ op'[t].at \in Resting
           \/ op'[t].at \in Guarded /\ lease'[t] = "held"
    PROVE  Own(t)'
<1>1. /\ op'[t].at \notin Publishing /\ op'[t].at \notin Unbuilt
      /\ op'[t].at \notin {"tidyCopy", "recheck", "publish", "stage", "fill", "link",
                           "retireLogs", "apply"}
  BY DEF Resting, Guarded, Publishing, Unbuilt
<1>2. op'[t].at \in Locked => lease'[t] = "held"
  BY DEF Resting, Locked
<1> QED BY <1>1, <1>2 DEF Own

\* The call goes to a place, and the others stay.
LEMMA GoesTo ==
    ASSUME DirTypes, NEW t \in Procs, NEW at \in Places, Goto(t, at)
    PROVE  /\ op'[t].at = at /\ op'[t].gen = op[t].gen /\ op'[t].wit = op[t].wit
           /\ \A q \in Procs \ {t} : op'[q] = op[q]
<1> DEFINE x == [op[t] EXCEPT !.at = at]
<1>1. op[t] \in Calls /\ op \in [Procs -> Calls]
  BY CallsTyped
<1>2. x.at = at /\ x.gen = op[t].gen /\ x.wit = op[t].wit
  BY <1>1, CallAt
<1>3. op' = [op EXCEPT ![t] = x]
  BY DEF Goto
<1> HIDE DEF x
<1> QED BY <1>1, <1>2, <1>3

\* The call ends, or has only the lease to give back.
LEMMA EndsAt ==
    ASSUME DirTypes, NEW t \in Procs,
           Leave(t) \/ GiveUp(t) \/ op' = [op EXCEPT ![t] = NoOp]
    PROVE  /\ Own(t)'
           /\ \A q \in Procs \ {t} : op'[q] = op[q]
<1>1. op \in [Procs -> Calls]
  BY CallsTyped
<1>2. PICK x \in {NoOp, Leaving} : op' = [op EXCEPT ![t] = x]
  BY DEF Leave, GiveUp
<1>3. op'[t] = x /\ \A q \in Procs \ {t} : op'[q] = op[q]
  BY <1>1, <1>2
<1>4. op'[t].at \in Resting
  BY <1>3, NoOpIsCall DEF Resting
<1> QED BY <1>3, <1>4, EasyPlaces

\* Steps that only end a call, or take it to such a place.
LEMMA QuietEnds ==
    ASSUME DirTypes, NEW t \in Procs, Quiet, lease' = lease, handle' = handle,
           Leave(t) \/ GiveUp(t) \/ op' = [op EXCEPT ![t] = NoOp]
    PROVE  Moved(t)
BY EndsAt DEF Moved, Alone

\* Control goes on.
LEMMA QuietGoes ==
    ASSUME DirTypes, NEW t \in Procs, Quiet, lease' = lease, handle' = handle,
           NEW at \in Places, Goto(t, at),
           at \in Resting \/ (at \in Guarded /\ lease[t] = "held")
    PROVE  Moved(t)
<1>1. op'[t].at = at /\ \A q \in Procs \ {t} : op'[q] = op[q]
  BY GoesTo
<1>2. Own(t)'
  BY <1>1, EasyPlaces
<1> QED BY <1>1, <1>2 DEF Moved, Alone
-----------------------------------------------------------------------------
\* What becomes of logs and markers.

FilesSame ==
    /\ log' = log /\ proof' = proof /\ built' = built /\ platform' = platform
    /\ acked' = acked /\ doubt' = doubt

\* Names of other kinds change.
Aside ==
    /\ dir'["markers"] = dir["markers"] /\ dir'["logs"] = dir["logs"]
    /\ disk'["logs"] \in {disk["logs"], dir["logs"]}

\* Then nothing that matters does.
LEMMA AsideIsQuiet ==
    ASSUME Aside, FilesSame
    PROVE  Quiet
BY DEF Aside, FilesSame, Quiet

\* The names of the other kinds stay when one is added or dropped.
LEMMA OtherKinds ==
    ASSUME NEW d \in Namespaces, NEW k \in Kinds, NEW g \in Gens, NEW j \in Kinds, j # k
    PROVE  Add(d, k, g)[j] = d[j] /\ Drop(d, k, g)[j] = d[j]
<1>1. \A i \in Kinds : Add(d, k, g)[i] = IF i = k THEN d[i] \cup {g} ELSE d[i]
  BY AddIs
<1>2. \A i \in Kinds : Drop(d, k, g)[i] = IF i = k THEN d[i] \ {g} ELSE d[i]
  BY DropIs, ZenonT(60)
<1> QED BY <1>1, <1>2

\* A log dropped or moved away.
LEMMA LogDropped ==
    ASSUME NEW d \in Namespaces, NEW g \in Gens
    PROVE  /\ Drop(d, "logs", g)["logs"] = d["logs"] \ {g}
           /\ Drop(d, "logs", g)["markers"] = d["markers"]
           /\ Move(d, "logs", "oldLogs", g)["logs"] = d["logs"] \ {g}
           /\ Move(d, "logs", "oldLogs", g)["markers"] = d["markers"]
<1>1. "logs" \in Kinds /\ "markers" \in Kinds /\ "oldLogs" \in Kinds
  BY DEF Kinds
<1>2. Drop(d, "logs", g)["logs"] = d["logs"] \ {g}
  <2>0. "logs" \in Kinds
    BY <1>1
  <2>1. /\ Drop(d, "logs", g) \in Namespaces
        /\ \A j \in Kinds : Drop(d, "logs", g)[j] = IF j = "logs" THEN d[j] \ {g} ELSE d[j]
    BY <2>0, DropIs, ZenonT(60)
  <2> QED BY <1>1, <2>1
<1>3. Drop(d, "logs", g)["markers"] = d["markers"]
  BY <1>1, OtherKinds
<1>4. /\ Move(d, "logs", "oldLogs", g)["logs"] = d["logs"] \ {g}
      /\ Move(d, "logs", "oldLogs", g)["markers"] = d["markers"]
  BY <1>1, MoveIs
<1> QED BY <1>2, <1>3, <1>4

\* A name of another kind appears or goes.
LEMMA AsideChange ==
    ASSUME DirTypes, NEW k \in Kinds \ {"logs", "markers"}, NEW g \in Gens,
           dir' \in {dir, Add(dir, k, g), Drop(dir, k, g)}, disk' \in {disk, dir}
    PROVE  Aside
<1>1. /\ dir \in Namespaces /\ k \in Kinds /\ "logs" \in Kinds /\ "markers" \in Kinds
      /\ k # "logs" /\ k # "markers"
  BY DEF DirTypes, Namespaces, Kinds
<1>2. \A j \in {"logs", "markers"} : Add(dir, k, g)[j] = dir[j] /\ Drop(dir, k, g)[j] = dir[j]
  BY <1>1, OtherKinds
<1> QED BY <1>2 DEF Aside

\* Or moves.
LEMMA AsideMove ==
    ASSUME DirTypes, NEW from \in Kinds \ {"logs", "markers"},
           NEW to \in Kinds \ {"logs", "markers"}, NEW g \in Gens,
           dir' \in {dir, Move(dir, from, to, g)}, disk' \in {disk, Move(disk, from, to, g)}
    PROVE  Aside
<1>1. /\ dir \in Namespaces /\ disk \in Namespaces /\ from \in Kinds /\ to \in Kinds
      /\ "logs" \in Kinds /\ "markers" \in Kinds
      /\ "logs" \notin {from, to} /\ "markers" \notin {from, to}
  BY DEF DirTypes, Namespaces, Kinds
<1>2. \A d \in Namespaces, j \in Kinds :
         j \notin {from, to} => Move(d, from, to, g)[j] = d[j]
  BY <1>1, MoveIs
<1> QED BY <1>1, <1>2 DEF Aside

\* The authority stays while its marker does and none appears.
LEMMA SameAuthority ==
    ASSUME NEW d \in Namespaces, NEW e \in Namespaces, d["markers"] # {},
           Authority(d) \in e["markers"], \A m \in e["markers"] : m <= Authority(d)
    PROVE  Authority(e) = Authority(d)
<1>1. Authority(d) \in Nat
  BY AuthorityIs DEF Gens
<1>2. /\ Authority(e) \in Nat /\ Authority(e) \in e["markers"]
      /\ \A m \in e["markers"] : m <= Authority(e)
  BY AuthorityIs DEF Gens
<1>3. Authority(e) <= Authority(d) /\ Authority(d) <= Authority(e)
  BY <1>2
<1> QED BY <1>1, <1>2, <1>3

\* While the authority keeps its log, other logs may go.
LEMMA SharedStays ==
    ASSUME DirTypes, Shared, FilesSame, dir["markers"] # {}, dir'["markers"] # {},
           Authority(dir') = Authority(dir),
           dir'["logs"] \cup disk'["logs"] \subseteq dir["logs"] \cup disk["logs"],
           Authority(dir) \in dir'["logs"], Authority(dir) \in disk'["logs"]
    PROVE  Shared'
<1>1. LogsInv'
  BY DEF Shared, LogsInv, FilesSame, Exists
<1>2. FirstInv'
  BY DEF FirstInv
<1>3. PICK a : a = Authority(dir)
  OBVIOUS
<1>4. Sound(a)
  BY <1>3 DEF Shared, AuthorityInv
<1>5. Sound(a)'
  BY <1>3, <1>4 DEF Sound, Kept, FilesSame
<1>6. AuthorityInv'
  BY <1>3, <1>5 DEF AuthorityInv, Sound, Kept
<1> QED BY <1>1, <1>2, <1>6 DEF Shared

\* A log that is not the authority's goes: from sight, durably, or perhaps.
LogGoes(g) ==
    \/ dir' = dir /\ disk' = disk
    \/ dir' = Drop(dir, "logs", g) /\ disk' = disk
    \/ /\ dir' = Move(dir, "logs", "oldLogs", g)
       /\ disk' \in {disk, Move(disk, "logs", "oldLogs", g)}

\* Whoever holds the lease may do that.
LEMMA LogGone ==
    ASSUME DirTypes, Shared, FilesSame, NEW t \in Procs, lease[t] = "held",
           dir["markers"] # {}, NEW g \in Gens, g # Authority(dir), LogGoes(g)
    PROVE  Exclusively(t)
<1>1. /\ dir \in Namespaces /\ disk \in Namespaces
      /\ "logs" \in Kinds /\ "markers" \in Kinds /\ "oldLogs" \in Kinds
  BY DEF DirTypes, Namespaces, Kinds
<1>2. \A d \in Namespaces : /\ Drop(d, "logs", g)["logs"] = d["logs"] \ {g}
                           /\ Drop(d, "logs", g)["markers"] = d["markers"]
                           /\ Move(d, "logs", "oldLogs", g)["logs"] = d["logs"] \ {g}
                           /\ Move(d, "logs", "oldLogs", g)["markers"] = d["markers"]
  BY LogDropped
<1>3. /\ Drop(dir, "logs", g)["logs"] = dir["logs"] \ {g}
      /\ Drop(dir, "logs", g)["markers"] = dir["markers"]
      /\ Move(dir, "logs", "oldLogs", g)["logs"] = dir["logs"] \ {g}
      /\ Move(dir, "logs", "oldLogs", g)["markers"] = dir["markers"]
      /\ Move(disk, "logs", "oldLogs", g)["logs"] = disk["logs"] \ {g}
  BY <1>1, <1>2
<1>4. /\ dir'["markers"] = dir["markers"]
      /\ dir'["logs"] \in {dir["logs"], dir["logs"] \ {g}}
      /\ disk'["logs"] = disk["logs"]
            \/ (disk'["logs"] = disk["logs"] \ {g} /\ dir'["logs"] = dir["logs"] \ {g})
  <2>1. CASE dir' = dir /\ disk' = disk
    BY <2>1
  <2>3. CASE dir' = Drop(dir, "logs", g) /\ disk' = disk
    BY <1>3, <2>3
  <2>2. CASE /\ dir' = Move(dir, "logs", "oldLogs", g)
             /\ disk' \in {disk, Move(disk, "logs", "oldLogs", g)}
    BY <1>3, <2>2
  <2> QED BY <2>1, <2>2, <2>3 DEF LogGoes
<1>5. Authority(dir') = Authority(dir)
  BY <1>4 DEF Authority
<1>6. Authority(dir) \in dir["logs"] /\ Authority(dir) \in disk["logs"]
  BY DEF Shared, AuthorityInv, Sound
<1>7. Shared'
  BY <1>4, <1>5, <1>6, SharedStays
<1>8. \A i \in dir'["logs"] : i \in disk["logs"] => i \in disk'["logs"]
  BY <1>4
<1> QED BY <1>4, <1>7, <1>8 DEF Exclusively, FilesSame
-----------------------------------------------------------------------------
\* Reservation, switch and publication.

\* A call begins: it creates the lock file.
LEMMA BeginsTo ==
    ASSUME GenLockInv, DirTypes, NEW t \in Procs, NEW call, Begin(t, call)
    PROVE  /\ op'[t] = call /\ lease'[t] = "created"
           /\ \A q \in Procs \ {t} : op'[q] = op[q] /\ lease'[q] = lease[q]
<1>1. op \in [Procs -> Calls] /\ lease \in [Procs -> LeaseStates]
  BY CallsTyped DEF GenLockInv, LockInv, LockTypeOK
<1> QED BY <1>1 DEF Begin, CreateLock

\* A step without effect on names and files.
LEMMA NothingIsQuiet ==
    ASSUME dir' = dir, disk' = disk \/ disk' = dir, FilesSame
    PROVE  Quiet
BY DEF Quiet, FilesSame

\* A reservation and a cleanup begin.
LEMMA CommandsBegin ==
    ASSUME GenLockInv, DirTypes, NEW t \in Procs, UNCHANGED engineVars,
           BeginReserving(t) \/ BeginCleanup(t)
    PROVE  Moved(t)
<1>1. Quiet /\ handle' = handle
  BY NothingIsQuiet DEF BeginReserving, BeginCleanup, NoFault, engineVars, FilesSame
<1>2. PICK call \in {[NoOp EXCEPT !.kind = "switch", !.at = "reserve"],
                     [NoOp EXCEPT !.kind = "cleanup", !.at = "plan"]} : Begin(t, call)
  BY DEF BeginReserving, BeginCleanup
<1>3. call.at \in Resting
  BY <1>2, NoOpIsCall DEF Resting, Calls
<1>4. Alone(t) /\ op'[t] = call
  BY <1>1, <1>2, BeginsTo DEF Alone
<1>5. Own(t)'
  BY <1>3, <1>4, EasyPlaces
<1> QED BY <1>1, <1>4, <1>5 DEF Moved

\* The standalone publisher begins: generation 1 has every write there is.
LEMMA PublisherBegins ==
    ASSUME GenLockInv, DirTypes, Shared, NEW t \in Procs, UNCHANGED engineVars,
           NEW g \in Gens, BeginPublishing(t, g)
    PROVE  Moved(t)
<1> DEFINE y == [NoOp EXCEPT !.kind = "publish", !.at = "publish"]
           x == [y EXCEPT !.gen = g]
<1>1. Quiet /\ handle' = handle /\ dir' = dir
  BY NothingIsQuiet DEF BeginPublishing, NoFault, engineVars, FilesSame
<1>2. Begin(t, x) /\ Unix /\ dir["markers"] = {}
  BY DEF BeginPublishing
<1>3. y \in Calls /\ y.at = "publish"
  BY NoOpIsCall DEF Calls, CallKinds, Places, WithGeneration
<1> HIDE DEF y
<1>4. x.at = "publish" /\ x.gen = g
  BY <1>3 DEF Calls
<1> HIDE DEF x
<1>5. Alone(t) /\ op'[t] = x /\ lease'[t] = "created"
  BY <1>1, <1>2, BeginsTo DEF Alone
<1>6. op'[t].at = "publish" /\ op'[t].gen = g
  BY <1>4, <1>5
<1>7. g \in dir["logs"] => Kept(g)
  BY <1>2 DEF Shared, LogsInv, FirstInv, Exists
<1>8. g \in dir'["logs"] => Kept(g)'
  BY <1>1, <1>7 DEF Quiet, Kept
<1>9. DurableCandidate(t)'
  BY <1>1, <1>2 DEF DurableCandidate, Unix, Quiet
<1>10. Own(t)'
  <2>1. /\ op'[t].at \notin Locked /\ op'[t].at \notin Unbuilt
        /\ op'[t].at \notin {"stage", "fill", "link", "retireLogs", "apply"}
        /\ op'[t].at \notin Publishing \ {"publish"} /\ lease'[t] # "none"
        /\ dir'["markers"] = {}
    BY <1>1, <1>2, <1>5, <1>6 DEF Locked, Unbuilt, Publishing
  <2>2. op'[t].at \in {"tidyCopy", "recheck"} => built'[op'[t].gen] # 0
    BY <1>6
  <2>3. op'[t].gen \in dir'["logs"] => Kept(op[t].gen)'
    BY <1>6, <1>8 DEF Kept
  <2>4. op'[t].at # "link"
    BY <1>6
  <2> QED BY <1>9, <2>1, <2>2, <2>3, <2>4 DEF Own
<1> QED BY <1>1, <1>5, <1>10 DEF Moved

\* A sync makes a candidate's log durable before its marker is staged.
LEMMA SyncMoves ==
    ASSUME DirTypes, Shared, NEW t \in Procs, Own(t), UNCHANGED engineVars,
           SyncDirectory(t) \/ SyncFails(t)
    PROVE  Moved(t)
<1>1. /\ Quiet /\ handle' = handle /\ lease' = lease
      /\ op[t].at \in {"reserveSync", "baseSync", "linkSync", "markersSync",
                       "logsSync", "unstageSync"}
  BY NothingIsQuiet
  DEF SyncDirectory, SyncFails, AfterSync, NoFault, Fault, engineVars, lockVars, FilesSame
<1>2. lease[t] = "held"
  BY <1>1 DEF Own, Locked
<1>3. CASE SyncFails(t)
  BY <1>1, <1>3, QuietEnds DEF SyncFails
<1>4. CASE SyncDirectory(t)
  <2>1. disk' = dir /\ dir' = dir
    BY <1>4 DEF SyncDirectory
  <2>2. \/ op[t].at = "reserveSync" /\ Goto(t, "reserved")
        \/ op[t].at = "baseSync" /\ Goto(t, "stage")
        \/ op[t].at = "linkSync" /\ Goto(t, "published")
        \/ op[t].at = "markersSync" /\ Goto(t, "reverify")
        \/ op[t].at = "logsSync" /\ Leave(t)
        \/ op[t].at = "unstageSync" /\ Goto(t, "unlink")
    BY <1>1, <1>4 DEF SyncDirectory, AfterSync
  <2>3. CASE Leave(t)
    BY <1>1, <2>3, QuietEnds
  <2>4. ASSUME NEW at \in {"published", "reverify", "unlink"}, Goto(t, at)
        PROVE  Moved(t)
    <3>1. at \in Places /\ at \in Guarded
      BY DEF Places, WithGeneration, Guarded
    <3> QED BY <1>1, <1>2, <2>4, <3>1, QuietGoes
  <2>5. CASE op[t].at = "reserveSync" /\ Goto(t, "reserved")
    <3>1. /\ op'[t].at = "reserved" /\ op'[t].gen = op[t].gen
          /\ \A q \in Procs \ {t} : op'[q] = op[q]
      BY <2>5, GoesTo DEF Places, WithGeneration
    <3>2. op[t].gen # 1 /\ dir'["markers"] # {}
      BY <2>1, <2>5 DEF Own, Unbuilt
    <3>3. Own(t)'
      BY <1>1, <1>2, <3>1, <3>2 DEF Own, Publishing
    <3> QED BY <1>1, <3>1, <3>3 DEF Moved, Alone
  <2>6. CASE op[t].at = "baseSync" /\ Goto(t, "stage")
    <3>1. /\ op'[t].at = "stage" /\ op'[t].gen = op[t].gen
          /\ \A q \in Procs \ {t} : op'[q] = op[q]
      BY <2>6, GoesTo DEF Places, WithGeneration
    <3>2. /\ op[t].gen \in dir["logs"] /\ Kept(op[t].gen) /\ op[t].gen \in Gens
          /\ \A m \in dir["markers"] : m < op[t].gen
      <4>1. op[t].at \in Publishing \ {"publish"} /\ op[t].at \in WithGeneration
        BY <2>6 DEF Publishing, WithGeneration
      <4> QED BY <4>1, GenTyped DEF Own
    <3>3. Kept(op[t].gen)'
      BY <1>1, <3>1, <3>2 DEF Quiet, Kept
    <3>4. Own(t)'
      BY <1>1, <1>2, <2>1, <3>1, <3>2, <3>3 DEF Own, Unbuilt
    <3> QED BY <1>1, <3>1, <3>4 DEF Moved, Alone
  <2> QED BY <2>2, <2>3, <2>4, <2>5, <2>6
<1> QED BY <1>3, <1>4

\* A reservation gives an id other than 1.
LEMMA ReserveMoves ==
    ASSUME DirTypes, Shared, NEW t \in Procs, Own(t), UNCHANGED engineVars,
           Reserve(t) \/ ReserveErrs(t)
    PROVE  Moved(t)
<1> DEFINE g == NextId(dir)
<1>1. /\ FilesSame /\ handle' = handle /\ lease' = lease /\ lease[t] = "held"
  BY DEF Reserve, ReserveErrs, NoFault, Fault, engineVars, lockVars, FilesSame, Holding
<1>2. CASE GiveUp(t) /\ dir' = dir /\ disk' = disk
  BY <1>1, <1>2, NothingIsQuiet, QuietEnds
<1>3. ASSUME dir["markers"] # {}, IdAvailable(dir)
      PROVE  g \in Gens /\ g # 1
  <2>1. g \in Nat \ {0, 1}
    BY <1>3, NextIdIsNew DEF DirTypes, Namespaces
  <2> HIDE DEF g
  <2>2. g <= MaxGen
    BY <1>3 DEF IdAvailable, g
  <2> QED BY <2>1, <2>2, MaxGenIsPositive DEF Gens
<1>4. ASSUME dir["markers"] # {}, IdAvailable(dir),
             \/ dir' = Add(dir, "reserved", g) /\ disk' = disk
             \/ /\ dir' \in {dir, Move(dir, "reserved", "reserved", g)}
                /\ disk' \in {disk, Move(disk, "reserved", "reserved", g)}
      PROVE  Quiet
  <2>1. g \in Gens
    BY <1>3, <1>4
  <2> HIDE DEF g
  <2>2. "reserved" \in Kinds \ {"logs", "markers"}
    BY DEF Kinds
  <2>3. Aside
    BY <1>4, <2>1, <2>2, AsideChange, AsideMove
  <2> QED BY <1>1, <2>3, AsideIsQuiet
<1>5. CASE /\ dir["markers"] # {} /\ IdAvailable(dir)
           /\ op' = [op EXCEPT ![t].gen = g,
                               ![t].at = IF Unix THEN "reserveSync" ELSE "reserved"]
           /\ \/ dir' = Add(dir, "reserved", g) /\ disk' = disk
              \/ /\ dir' = Move(dir, "reserved", "reserved", g)
                 /\ disk' = Move(disk, "reserved", "reserved", g)
  <2> DEFINE at == IF Unix THEN "reserveSync" ELSE "reserved"
             x == [op[t] EXCEPT !.gen = g, !.at = at]
  <2>1. Quiet
    BY <1>4, <1>5
  <2>2. g # 1
    BY <1>3, <1>5
  <2>3. op[t] \in Calls /\ op \in [Procs -> Calls]
    BY CallsTyped
  <2>4. op' = [op EXCEPT ![t] = x]
    BY <1>5, <2>3
  <2>5. at \in {"reserveSync", "reserved"}
    OBVIOUS
  <2> HIDE DEF g, at
  <2>6. x.at = at /\ x.gen = g
    BY <2>3 DEF Calls
  <2> HIDE DEF x
  <2>7. op'[t] = x /\ \A q \in Procs \ {t} : op'[q] = op[q]
    BY <2>3, <2>4
  <2>8. dir'["markers"] # {}
    BY <1>5, <2>1 DEF Quiet
  <2>9. Own(t)'
    BY <1>1, <2>2, <2>5, <2>6, <2>7, <2>8 DEF Own, Publishing
  <2> QED BY <1>1, <2>1, <2>7, <2>9 DEF Moved, Alone
<1>6. CASE /\ dir["markers"] # {} /\ IdAvailable(dir)
           /\ MoveErrs("reserved", "reserved", g) /\ GiveUp(t)
  <2>1. Quiet
    BY <1>4, <1>6 DEF MoveErrs, MovedThrough
  <2> QED BY <1>1, <1>6, <2>1, QuietEnds
<1>7. CASE Reserve(t)
  BY <1>2, <1>5, <1>7 DEF Reserve, Visible, MovedThrough, Verifies
<1>8. CASE ReserveErrs(t)
  BY <1>6, <1>8 DEF ReserveErrs, Verifies
<1> QED BY <1>7, <1>8

\* A copy that is being made goes on: the id is the one it was given.
LEMMA UnbuiltGoes ==
    ASSUME DirTypes, NEW t \in Procs, Own(t), Quiet, lease' = lease, handle' = handle,
           op[t].at \in Unbuilt, op'[t].at \in {"survey", "copy", "build"},
           op'[t].gen = op[t].gen, \A q \in Procs \ {t} : op'[q] = op[q]
    PROVE  Moved(t)
<1>1. op[t].gen # 1 /\ dir'["markers"] # {}
  BY DEF Own, Quiet
<1>2. Own(t)'
  BY <1>1 DEF Own, Locked, Publishing
<1> QED BY <1>2 DEF Moved, Alone

\* The reservation is verified, and the lease is dropped.
LEMMA ReservedMoves ==
    ASSUME DirTypes, NEW t \in Procs, Own(t), UNCHANGED engineVars, Reserved(t)
    PROVE  Moved(t)
<1>1. Quiet /\ handle' = handle /\ lease' = lease /\ op[t].at = "reserved"
  BY NothingIsQuiet
  DEF Reserved, NoFault, engineVars, lockVars, FilesSame, Holding, Running
<1>2. CASE Goto(t, "survey")
  <2>1. /\ op'[t].at = "survey" /\ op'[t].gen = op[t].gen
        /\ \A q \in Procs \ {t} : op'[q] = op[q]
    BY <1>2, GoesTo DEF Places, WithGeneration
  <2> QED BY <1>1, <2>1, UnbuiltGoes DEF Unbuilt
<1>3. CASE Leave(t) \/ GiveUp(t)
  BY <1>1, <1>3, QuietEnds
<1> QED BY <1>2, <1>3 DEF Reserved

\* The source is surveyed, and the staging file of the copy created.
LEMMA CopyBegins ==
    ASSUME DirTypes, NEW t \in Procs, Own(t), UNCHANGED engineVars,
           Survey(t) \/ StartCopy(t)
    PROVE  Moved(t)
<1>1. /\ FilesSame /\ handle' = handle /\ lease' = lease /\ disk' = disk
      /\ op[t].at \in {"survey", "copy"}
  BY DEF Survey, StartCopy, NoFault, engineVars, lockVars, FilesSame, Running
<1>2. op[t].gen \in Gens
  BY <1>1, GenTyped DEF WithGeneration
<1>3. op[t] \in Calls /\ op \in [Procs -> Calls]
  BY CallsTyped
<1>4. Quiet
  <2>1. dir' \in {dir, Add(dir, "copies", op[t].gen)}
    BY DEF Survey, StartCopy
  <2>2. "copies" \in Kinds \ {"logs", "markers"}
    BY DEF Kinds
  <2> QED BY <1>1, <1>2, <2>1, <2>2, AsideChange, AsideIsQuiet
<1>5. CASE GiveUp(t)
  BY <1>1, <1>4, <1>5, QuietEnds
<1>6. CASE op' = [op EXCEPT ![t].wit = Witness(dir), ![t].at = "copy"]
  <2>1. /\ op'[t].at = "copy" /\ op'[t].gen = op[t].gen
        /\ \A q \in Procs \ {t} : op'[q] = op[q]
    BY <1>3, <1>6 DEF Calls
  <2> QED BY <1>1, <1>4, <2>1, UnbuiltGoes DEF Unbuilt
<1>7. CASE op' = [op EXCEPT ![t].src = Source(t), ![t].at = "build"]
  <2>1. /\ op'[t].at = "build" /\ op'[t].gen = op[t].gen
        /\ \A q \in Procs \ {t} : op'[q] = op[q]
    BY <1>3, <1>7 DEF Calls
  <2> QED BY <1>1, <1>4, <2>1, UnbuiltGoes DEF Unbuilt
<1> QED BY <1>5, <1>6, <1>7 DEF Survey, StartCopy

\* A finished copy waits for the lease.
LEMMA CopyWaits ==
    ASSUME NEW t \in Procs, op'[t].at \in {"tidyCopy", "recheck"},
           built'[op'[t].gen] # 0, DurableCandidate(t)'
    PROVE  Own(t)'
BY DEF Own, Locked, Publishing, Unbuilt

\* The copy fails, or its second name goes.
LEMMA CopyTidied ==
    ASSUME DirTypes, NEW t \in Procs, Own(t), UNCHANGED engineVars,
           CopyErrs(t) \/ TidyCopy(t)
    PROVE  Moved(t)
<1>1. /\ FilesSame /\ handle' = handle /\ lease' = lease /\ disk' = disk
      /\ op[t].at \in {"build", "tidyCopy"}
      /\ dir' \in {dir, Drop(dir, "copies", op[t].gen)}
  BY DEF CopyErrs, TidyCopy, NoFault, Fault, engineVars, lockVars, FilesSame, Running,
         Visible
<1>2. op[t].gen \in Gens
  BY <1>1, GenTyped DEF WithGeneration
<1>3. Quiet
  <2>1. "copies" \in Kinds \ {"logs", "markers"}
    BY DEF Kinds
  <2> QED BY <1>1, <1>2, <2>1, AsideChange, AsideIsQuiet
<1>4. CASE GiveUp(t)
  BY <1>1, <1>3, <1>4, QuietEnds
<1>5. CASE op[t].at = "tidyCopy" /\ Goto(t, "recheck")
  <2>1. /\ op'[t].at = "recheck" /\ op'[t].gen = op[t].gen
        /\ \A q \in Procs \ {t} : op'[q] = op[q]
    BY <1>5, GoesTo DEF Places, WithGeneration
  <2>2. built[op[t].gen] # 0 /\ DurableCandidate(t)
    BY <1>5 DEF Own
  <2>3. built'[op'[t].gen] # 0 /\ DurableCandidate(t)'
    BY <1>3, <2>1, <2>2 DEF Quiet, DurableCandidate
  <2>4. Own(t)'
    BY <2>1, <2>3, CopyWaits
  <2> QED BY <1>1, <1>3, <2>1, <2>4 DEF Moved, Alone
<1>6. op[t].kind # "migrate"
  BY CallsTyped DEF Calls, CallKinds
<1> QED BY <1>4, <1>5, <1>6 DEF CopyErrs, TidyCopy, AfterCopy, Running

\* Names of a copy that is published.
LEMMA CopyNamed ==
    ASSUME NEW d \in Namespaces, NEW g \in Gens
    PROVE  /\ Add(d, "logs", g)["logs"] = d["logs"] \cup {g}
           /\ Add(d, "logs", g)["markers"] = d["markers"]
           /\ Move(d, "copies", "logs", g)["logs"] = d["logs"] \cup {g}
           /\ Move(d, "copies", "logs", g)["markers"] = d["markers"]
<1>1. "logs" \in Kinds /\ "markers" \in Kinds /\ "copies" \in Kinds
  BY DEF Kinds
<1>2. \A j \in Kinds : Add(d, "logs", g)[j] = IF j = "logs" THEN d[j] \cup {g} ELSE d[j]
  BY <1>1, AddIs
<1>3. /\ \A j \in Kinds : j \notin {"copies", "logs"} => Move(d, "copies", "logs", g)[j] = d[j]
      /\ Move(d, "copies", "logs", g)["logs"] = d["logs"] \cup {g}
  BY <1>1, MoveIs
<1> QED BY <1>1, <1>2, <1>3

\* The finished copy gets its generation's name, durably on Windows when the
\* call succeeds.
LEMMA CopyFinished ==
    ASSUME DirTypes, FrontierInv, NEW t \in Procs, Own(t), UNCHANGED engineVars,
           PublishCopy(t) \/ PublishCopyErrs(t)
    PROVE  Moved(t)
<1> DEFINE g == op[t].gen
<1>1. /\ proof' = proof /\ platform' = platform /\ handle' = handle /\ lease' = lease
      /\ acked' = acked /\ doubt' = doubt /\ op[t].at = "build"
  BY DEF PublishCopy, PublishCopyErrs, NoFault, Fault, engineVars, lockVars, Running
<1>2. g \in Gens
  BY <1>1, GenTyped DEF WithGeneration
<1>3. dir \in Namespaces /\ disk \in Namespaces /\ "copies" \in Kinds \ {"logs", "markers"}
  BY DEF DirTypes, Namespaces, Kinds
<1>4. op[t].kind # "migrate"
  BY CallsTyped DEF Calls, CallKinds
<1>5. built[g] = 0
  BY <1>1 DEF FrontierInv, Unbuilt
<1>6. CASE /\ dir' = Drop(dir, "copies", g) /\ disk' = disk /\ log' = log /\ built' = built
           /\ GiveUp(t)
  <2>1. Aside
    BY <1>2, <1>3, <1>6, AsideChange
  <2> QED BY <1>1, <1>6, <2>1, AsideIsQuiet, QuietEnds DEF FilesSame
<1>7. ASSUME /\ log' = [log EXCEPT ![g] = CompactCopy(op[t].src)]
             /\ built' = [built EXCEPT ![g] = @ + 1],
             \/ dir' = Add(dir, "logs", g) /\ disk' = disk
             \/ /\ dir' = Move(dir, "copies", "logs", g)
                /\ disk' \in {disk, Move(disk, "copies", "logs", g)}
      PROVE  Copied(t) /\ built'[g] = 1
  <2>1. /\ Add(dir, "logs", g)["logs"] = dir["logs"] \cup {g}
        /\ Add(dir, "logs", g)["markers"] = dir["markers"]
        /\ Move(dir, "copies", "logs", g)["logs"] = dir["logs"] \cup {g}
        /\ Move(dir, "copies", "logs", g)["markers"] = dir["markers"]
        /\ Move(disk, "copies", "logs", g)["logs"] = disk["logs"] \cup {g}
    BY <1>2, <1>3, CopyNamed
  <2>2. /\ dir'["markers"] = dir["markers"] /\ dir'["logs"] = dir["logs"] \cup {g}
        /\ disk'["logs"] \in {disk["logs"], disk["logs"] \cup {g}}
    BY <1>7, <2>1
  <2>3. built'[g] = 1
    BY <1>2, <1>5, <1>7 DEF DirTypes
  <2> QED BY <1>1, <1>2, <1>7, <2>2, <2>3 DEF Copied
<1>8. CASE Copied(t) /\ GiveUp(t)
  BY <1>1, <1>8, EndsAt DEF Moved, Alone
<1>9. ASSUME NEW at \in {"tidyCopy", "recheck"}, Goto(t, at), Copied(t), built'[g] = 1,
             ~Unix => g \in disk'["logs"]
      PROVE  Moved(t)
  <2>1. /\ op'[t].at = at /\ op'[t].gen = g
        /\ \A q \in Procs \ {t} : op'[q] = op[q]
    BY <1>9, GoesTo DEF Places, WithGeneration
  <2>2. DurableCandidate(t)'
    BY <1>1, <1>9, <2>1 DEF DurableCandidate, Unix
  <2>3. Own(t)'
    BY <1>9, <2>1, <2>2, CopyWaits
  <2> QED BY <1>1, <1>9, <2>1, <2>3 DEF Moved, Alone
<1>10. CASE PublishCopy(t)
  <2>1. CASE Source(t) # op[t].src
    BY <1>6, <1>10, <2>1 DEF PublishCopy, Visible
  <2>2. CASE Source(t) = op[t].src
    <3>1. Copied(t) /\ built'[g] = 1
      BY <1>7, <1>10, <2>2 DEF PublishCopy, Visible, MovedThrough
    <3>2. ~Unix => g \in disk'["logs"]
      <4>1. Move(disk, "copies", "logs", g)["logs"] = disk["logs"] \cup {g}
        BY <1>2, <1>3, CopyNamed
      <4> QED BY <1>10, <2>2, <4>1 DEF PublishCopy, MovedThrough
    <3>3. Goto(t, "tidyCopy") \/ Goto(t, "recheck")
      BY <1>4, <1>10, <2>2 DEF PublishCopy, AfterCopy
    <3> QED BY <1>9, <3>1, <3>2, <3>3
  <2> QED BY <2>1, <2>2
<1>11. CASE PublishCopyErrs(t)
  <2>1. CASE /\ dir' = Move(dir, "copies", "logs", g)
             /\ disk' \in {disk, Move(disk, "copies", "logs", g)}
             /\ log' = [log EXCEPT ![g] = CompactCopy(op[t].src)]
             /\ built' = [built EXCEPT ![g] = @ + 1]
             /\ GiveUp(t)
    BY <1>7, <1>8, <2>1
  <2> QED BY <1>6, <1>11, <2>1 DEF PublishCopyErrs, Visible
<1> QED BY <1>10, <1>11

\* The recheck finds the source as surveyed and the candidate as built: it has
\* the live state of the authority.
LEMMA RecheckMoves ==
    ASSUME DirTypes, Shared, NEW t \in Procs, Own(t), UNCHANGED engineVars, Recheck(t)
    PROVE  Moved(t)
<1>1. /\ Quiet /\ handle' = handle /\ lease' = lease /\ op[t].at = "recheck"
      /\ lease[t] = "held" /\ dir' = dir
  BY NothingIsQuiet
  DEF Recheck, NoFault, engineVars, lockVars, FilesSame, Holding, Running
<1>2. CASE GiveUp(t)
  BY <1>1, <1>2, QuietEnds
<1>3. CASE SourceUnchanged(t) /\ Goto(t, "publish")
  <2>1. /\ op'[t].at = "publish" /\ op'[t].gen = op[t].gen
        /\ \A q \in Procs \ {t} : op'[q] = op[q]
    BY <1>3, GoesTo DEF Places, WithGeneration
  <2>2. PICK a : a = Authority(dir)
    OBVIOUS
  <2>3. a \in Gens /\ Kept(a) /\ log[a] \in File
    <3>1. dir["markers"] # {}
      BY <1>3 DEF SourceUnchanged, Verifies
    <3>2. a \in Gens
      BY <2>2, <3>1, AuthorityIs DEF DirTypes, Namespaces
    <3> QED BY <2>2, <3>1, <3>2 DEF Shared, AuthorityInv, Sound, DirTypes
  <2>4. log[op[t].gen] = CompactCopy(log[a])
    <3>1. Witness(dir).log = op[t].wit.log
      BY <1>3 DEF SourceUnchanged
    <3>2. Witness(dir).log = log[a]
      BY <2>2 DEF Witness
    <3> QED BY <1>3, <3>1, <3>2 DEF SourceUnchanged, CandidateIntact
  <2>5. Kept(op[t].gen)
    BY <2>3, <2>4, LiveOfCopy DEF Kept
  <2>6. op[t].gen \in Gens
    BY <1>1, GenTyped DEF WithGeneration
  <2>7. Kept(op[t].gen)'
    BY <1>1, <2>1, <2>5, <2>6 DEF Quiet, Kept
  <2>8. built[op[t].gen] # 0 /\ DurableCandidate(t)
    BY <1>1 DEF Own
  <2>9. built'[op'[t].gen] # 0 /\ DurableCandidate(t)'
    BY <1>1, <2>1, <2>8 DEF Quiet, DurableCandidate
  <2>10. Own(t)'
    BY <1>1, <2>1, <2>7, <2>9 DEF Own, Locked, Publishing, Unbuilt
  <2> QED BY <1>1, <2>1, <2>10 DEF Moved, Alone
<1> QED BY <1>2, <1>3 DEF Recheck

\* The candidate is above every marker; on Windows its log is durable.
LEMMA PublishMoves ==
    ASSUME DirTypes, NEW t \in Procs, Own(t), UNCHANGED engineVars, Publish(t)
    PROVE  Moved(t)
<1>1. /\ FilesSame /\ handle' = handle /\ lease' = lease /\ op[t].at = "publish"
      /\ lease[t] = "held"
  BY DEF Publish, NoFault, engineVars, lockVars, FilesSame, Holding, Running
<1>2. op[t].gen \in Gens
  BY <1>1, GenTyped DEF WithGeneration
<1>3. CASE GiveUp(t) /\ dir' = dir /\ disk' = disk
  BY <1>1, <1>3, NothingIsQuiet, QuietEnds
<1>4. CASE /\ \A m \in dir["markers"] : m < op[t].gen
           /\ op[t].gen \in dir["logs"]
           /\ dir' = Drop(dir, "staged", op[t].gen) /\ disk' = disk
           /\ Goto(t, IF Unix THEN "baseSync" ELSE "stage")
  <2> DEFINE at == IF Unix THEN "baseSync" ELSE "stage"
  <2>1. at \in Places /\ at \in {"baseSync", "stage"}
    BY DEF Places, WithGeneration
  <2>2. Quiet
    <3>1. "staged" \in Kinds \ {"logs", "markers"}
      BY DEF Kinds
    <3> QED BY <1>1, <1>2, <1>4, <3>1, AsideChange, AsideIsQuiet
  <2>3. /\ op'[t].at = at /\ op'[t].gen = op[t].gen
        /\ \A q \in Procs \ {t} : op'[q] = op[q]
    BY <1>4, <2>1, GoesTo
  <2>4. Kept(op[t].gen)
    BY <1>1, <1>4 DEF Own, Publishing
  <2>5. Kept(op[t].gen)'
    BY <1>2, <2>2, <2>3, <2>4 DEF Quiet, Kept
  <2>6. at = "stage" => op[t].gen \in disk'["logs"]
    <3>1. ~Unix => platform = "windows"
      BY DEF Unix, DirTypes
    <3>2. DurableCandidate(t)
      BY <1>1 DEF Own
    <3> QED BY <1>4, <2>2, <3>1, <3>2 DEF Quiet, DurableCandidate
  <2>7. op[t].gen \in dir'["logs"] /\ \A m \in dir'["markers"] : m < op[t].gen
    BY <1>4, <2>2 DEF Quiet
  <2> HIDE DEF at
  <2>8. Own(t)'
    BY <1>1, <2>1, <2>3, <2>5, <2>6, <2>7 DEF Own, Unbuilt
  <2> QED BY <1>1, <2>2, <2>3, <2>8 DEF Moved, Alone
<1> QED BY <1>3, <1>4 DEF Publish, Visible

\* With the lease, the proof of a candidate above every marker may change.
LEMMA ProofWritten ==
    ASSUME DirTypes, Shared, NEW t \in Procs, lease[t] = "held", Aside,
           log' = log, built' = built, platform' = platform, acked' = acked, doubt' = doubt,
           disk' = disk, NEW g \in Gens, \A m \in dir["markers"] : m < g,
           \A i \in Gens \ {g} : proof'[i] = proof[i]
    PROVE  Exclusively(t)
<1>1. /\ dir'["markers"] = dir["markers"] /\ dir'["logs"] = dir["logs"]
      /\ disk'["logs"] = disk["logs"]
  BY DEF Aside
<1>2. PICK a : a = Authority(dir)
  OBVIOUS
<1>3. Authority(dir') = a
  BY <1>1, <1>2 DEF Authority
<1>4. dir["markers"] # {} => a \in Gens /\ a # g /\ Sound(a)
  <2> SUFFICES ASSUME dir["markers"] # {} PROVE a \in Gens /\ a # g /\ Sound(a)
    OBVIOUS
  <2>1. a \in Gens /\ a \in dir["markers"]
    BY <1>2, AuthorityIs DEF DirTypes, Namespaces
  <2>2. a < g
    BY <2>1
  <2>3. Sound(a)
    BY <1>2 DEF Shared, AuthorityInv
  <2> QED BY <2>1, <2>2, <2>3 DEF Gens
<1>5. dir["markers"] # {} => Sound(a)'
  BY <1>1, <1>4 DEF Sound, Kept
<1>6. AuthorityInv'
  BY <1>1, <1>3, <1>5 DEF AuthorityInv, Sound, Kept
<1>7. LogsInv' /\ FirstInv'
  BY <1>1 DEF Shared, LogsInv, FirstInv, Exists, Kept
<1> QED BY <1>1, <1>6, <1>7 DEF Exclusively, Shared

\* The staging marker is created, and filled with the proof of its log.
LEMMA StagingMoves ==
    ASSUME DirTypes, Shared, NEW t \in Procs, Own(t), UNCHANGED engineVars,
           Stage(t) \/ Fill(t)
    PROVE  Moved(t)
<1>1. /\ log' = log /\ built' = built /\ platform' = platform /\ acked' = acked
      /\ doubt' = doubt /\ handle' = handle /\ lease' = lease /\ lease[t] = "held"
      /\ disk' = disk /\ dir' \in {dir, Add(dir, "staged", op[t].gen)}
      /\ op[t].at \in {"stage", "fill"}
  BY DEF Stage, Fill, NoFault, Fault, engineVars, lockVars, Holding, Running, Visible
<1>2. /\ op[t].gen \in Gens /\ op[t].gen \in dir["logs"] /\ op[t].gen \in disk["logs"]
      /\ Kept(op[t].gen) /\ \A m \in dir["markers"] : m < op[t].gen
  <2>1. op[t].at \in Publishing \ {"publish"} /\ op[t].at \in WithGeneration
    BY <1>1 DEF Publishing, WithGeneration
  <2> QED BY <1>1, <2>1, GenTyped DEF Own
<1>3. Aside
  <2>1. "staged" \in Kinds \ {"logs", "markers"}
    BY DEF Kinds
  <2> QED BY <1>1, <1>2, <2>1, AsideChange
<1>4. /\ dir'["logs"] = dir["logs"] /\ dir'["markers"] = dir["markers"]
      /\ disk'["logs"] = disk["logs"]
  BY <1>1, <1>3 DEF Aside
<1>5. ASSUME NEW at \in {"fill", "link"}, Goto(t, at), Exclusively(t),
             at = "link" => proof'[op[t].gen] = log[op[t].gen].recs
      PROVE  Moved(t)
  <2>1. /\ op'[t].at = at /\ op'[t].gen = op[t].gen
        /\ \A q \in Procs \ {t} : op'[q] = op[q]
    BY <1>5, GoesTo DEF Places, WithGeneration
  <2>2. Kept(op[t].gen)'
    BY <1>1, <1>2, <2>1 DEF Kept
  <2>3. at = "link" => proof'[op'[t].gen] = log'[op'[t].gen].recs
    BY <1>1, <1>5, <2>1
  <2>4. Own(t)'
    BY <1>1, <1>2, <1>4, <2>1, <2>2, <2>3 DEF Own, Unbuilt
  <2> QED BY <1>1, <1>5, <2>1, <2>4 DEF Moved, Alone
<1>6. CASE Stage(t)
  <2>1. Goto(t, "fill") /\ proof' = [proof EXCEPT ![op[t].gen] = Torn]
    BY <1>6 DEF Stage
  <2>2. \A i \in Gens \ {op[t].gen} : proof'[i] = proof[i]
    BY <2>1 DEF DirTypes
  <2>3. Exclusively(t)
    BY <1>1, <1>2, <1>3, <2>2, ProofWritten
  <2> QED BY <1>5, <2>1, <2>3
<1>7. CASE Fill(t)
  <2>1. CASE GiveUp(t) /\ proof' = proof
    <3>1. Quiet
      BY <1>1, <1>3, <2>1, AsideIsQuiet DEF FilesSame
    <3> QED BY <1>1, <2>1, <3>1, QuietEnds
  <2>2. CASE /\ Goto(t, "link")
             /\ proof' = [proof EXCEPT ![op[t].gen] = log[op[t].gen].recs]
    <3>1. /\ proof'[op[t].gen] = log[op[t].gen].recs
          /\ \A i \in Gens \ {op[t].gen} : proof'[i] = proof[i]
      BY <1>2, <2>2 DEF DirTypes
    <3>2. Exclusively(t)
      BY <1>1, <1>2, <1>3, <3>1, ProofWritten
    <3> QED BY <1>5, <2>2, <3>1, <3>2
  <2> QED BY <1>7, <2>1, <2>2 DEF Fill, PrefixProof
<1> QED BY <1>6, <1>7

\* The candidate becomes the authority: with its proof, its log and every
\* acknowledged write.
LEMMA MarkerLinked ==
    ASSUME DirTypes, Shared, FilesSame, NEW t \in Procs, Own(t), lease[t] = "held",
           op[t].at = "link",
           \/ dir' = Add(dir, "markers", op[t].gen) /\ disk' = disk
           \/ /\ dir' = Move(dir, "staged", "markers", op[t].gen)
              /\ disk' \in {disk, Move(disk, "staged", "markers", op[t].gen)}
    PROVE  Exclusively(t)
<1>1. PICK g : g = op[t].gen
  OBVIOUS
<1>2. /\ g \in Gens /\ g \in dir["logs"] /\ g \in disk["logs"]
      /\ Kept(g) /\ (\A m \in dir["markers"] : m < g) /\ proof[g] = log[g].recs
  <2>1. op[t].at \in Publishing \ {"publish"} /\ op[t].at \in WithGeneration
    BY DEF Publishing, WithGeneration
  <2> QED BY <1>1, <2>1, GenTyped DEF Own
<1>3. /\ dir \in Namespaces /\ disk \in Namespaces /\ "logs" \in Kinds /\ "markers" \in Kinds
      /\ "staged" \in Kinds
  BY DEF DirTypes, Namespaces, Kinds
<1>4. ASSUME NEW d \in Namespaces
      PROVE  /\ Move(d, "staged", "markers", g)["logs"] = d["logs"]
             /\ Move(d, "staged", "markers", g)["markers"] = d["markers"] \cup {g}
             /\ Add(d, "markers", g)["logs"] = d["logs"]
             /\ Add(d, "markers", g)["markers"] = d["markers"] \cup {g}
             /\ Add(d, "markers", g) \in Namespaces
             /\ Move(d, "staged", "markers", g) \in Namespaces
  <2>1. /\ Move(d, "staged", "markers", g)["logs"] = d["logs"]
        /\ Move(d, "staged", "markers", g)["markers"] = d["markers"] \cup {g}
        /\ Move(d, "staged", "markers", g) \in Namespaces
    BY <1>2, <1>3, MoveIs, SMTT(30)
  <2>2. /\ Add(d, "markers", g) \in Namespaces
        /\ \A j \in Kinds : Add(d, "markers", g)[j] =
              IF j = "markers" THEN d[j] \cup {g} ELSE d[j]
    <3>1. g \in Gens /\ "markers" \in Kinds
      BY <1>2, <1>3
    <3> QED BY <3>1, AddIs
  <2> QED BY <1>3, <2>1, <2>2
<1>5. /\ dir'["markers"] = dir["markers"] \cup {g} /\ dir'["logs"] = dir["logs"]
      /\ disk'["logs"] = disk["logs"] /\ dir' \in Namespaces
  BY <1>1, <1>3, <1>4
<1>6. Authority(dir') = g
  <2>1. /\ Authority(dir') \in dir'["markers"] /\ Authority(dir') \in Nat /\ g \in Nat
        /\ \A m \in dir'["markers"] : m <= Authority(dir')
    BY <1>2, <1>5, AuthorityIs DEF Gens
  <2>2. g <= Authority(dir')
    BY <1>5, <2>1
  <2>3. Authority(dir') # g => Authority(dir') < g
    BY <1>2, <1>5, <2>1
  <2> QED BY <2>1, <2>2, <2>3
<1>7. Sound(g)
  <2>1. log[g].recs \in Seq(0 .. MaxWrites)
    BY <1>2 DEF DirTypes, File
  <2> QED BY <1>2, <2>1, PrefixOfItself DEF Sound
<1>8. Sound(g)'
  BY <1>5, <1>7 DEF Sound, Kept, FilesSame
<1>9. AuthorityInv'
  BY <1>6, <1>8 DEF AuthorityInv, Sound, Kept
<1>10. LogsInv' /\ FirstInv'
  BY <1>5 DEF Shared, LogsInv, FirstInv, FilesSame, Exists
<1> QED BY <1>5, <1>9, <1>10 DEF Exclusively, Shared, FilesSame

\* The final marker appears, surely or perhaps.
LEMMA LinkMoves ==
    ASSUME DirTypes, Shared, NEW t \in Procs, Own(t), UNCHANGED engineVars,
           Link(t) \/ LinkErrs(t)
    PROVE  Moved(t)
<1>1. /\ FilesSame /\ handle' = handle /\ lease' = lease /\ lease[t] = "held"
      /\ op[t].at = "link"
  BY DEF Link, LinkErrs, NoFault, Fault, engineVars, lockVars, FilesSame, Holding, Running
<1>2. op[t].gen \in Gens
  BY <1>1, GenTyped DEF WithGeneration
<1>3. CASE Link(t)
  <2>1. Exclusively(t)
    BY <1>1, <1>3, MarkerLinked DEF Link, Visible, MovedThrough
  <2>2. Goto(t, "linkSync") \/ Goto(t, "published")
    BY <1>3 DEF Link
  <2>3. ASSUME NEW at \in {"linkSync", "published"}, Goto(t, at) PROVE Moved(t)
    <3>1. op'[t].at = at /\ \A q \in Procs \ {t} : op'[q] = op[q]
      BY <2>3, GoesTo DEF Places, WithGeneration
    <3>2. Own(t)'
      BY <1>1, <3>1, EasyPlaces DEF Guarded
    <3> QED BY <1>1, <2>1, <3>1, <3>2 DEF Moved, Alone
  <2> QED BY <2>2, <2>3
<1>4. CASE LinkErrs(t)
  <2>1. GiveUp(t)
    BY <1>4 DEF LinkErrs
  <2>2. CASE dir' = dir /\ disk' = disk
    BY <1>1, <2>1, <2>2, NothingIsQuiet, QuietEnds
  <2>3. CASE dir' = Drop(dir, "staged", op[t].gen) /\ disk' = disk
    <3>1. "staged" \in Kinds \ {"logs", "markers"}
      BY DEF Kinds
    <3>2. Quiet
      BY <1>1, <1>2, <2>3, <3>1, AsideChange, AsideIsQuiet
    <3> QED BY <1>1, <2>1, <3>2, QuietEnds
  <2>4. CASE /\ dir' = Move(dir, "staged", "markers", op[t].gen)
             /\ disk' \in {disk, Move(disk, "staged", "markers", op[t].gen)}
    <3>1. Exclusively(t)
      BY <1>1, <2>4, MarkerLinked
    <3> QED BY <1>1, <2>1, <3>1, EndsAt DEF Moved, Alone
  <2> QED BY <1>4, <2>2, <2>3, <2>4 DEF LinkErrs, Visible
<1> QED BY <1>3, <1>4

\* The staging name goes, or stays.
LEMMA PublishedMoves ==
    ASSUME DirTypes, NEW t \in Procs, UNCHANGED engineVars, Published(t)
    PROVE  Moved(t)
<1>1. /\ FilesSame /\ handle' = handle /\ lease' = lease /\ op[t].at = "published"
      /\ disk' = disk /\ Leave(t) /\ dir' \in {dir, Drop(dir, "staged", op[t].gen)}
  BY DEF Published, NoFault, Fault, engineVars, lockVars, FilesSame, Holding, Running,
         Visible
<1>2. op[t].gen \in Gens /\ "staged" \in Kinds \ {"logs", "markers"}
  BY <1>1, GenTyped DEF WithGeneration, Kinds
<1>3. Quiet
  BY <1>1, <1>2, AsideChange, AsideIsQuiet
<1> QED BY <1>1, <1>3, QuietEnds

\* A step of a reservation, a switch or a publication.
LEMMA SwitchMoves ==
    ASSUME GenInv, Shared, NEW t \in Procs, Own(t), UNCHANGED engineVars, SwitchNext(t)
    PROVE  Moved(t)
<1>1. GenLockInv /\ DirTypes /\ FrontierInv
  BY DEF GenInv
<1> QED
  BY <1>1, CommandsBegin, PublisherBegins, SyncMoves, ReserveMoves, ReservedMoves,
     CopyBegins, CopyTidied, CopyFinished, RecheckMoves, PublishMoves, StagingMoves,
     LinkMoves, PublishedMoves
  DEF SwitchNext
-----------------------------------------------------------------------------
\* Cleanup and retirement.

\* A cleanup or a retirement goes from one place to another.
LEMMA PhaseGoes ==
    ASSUME DirTypes, NEW t \in Procs, handle' = handle, lease' = lease, lease[t] = "held",
           Quiet \/ Exclusively(t), NEW x \in Calls, op' = [op EXCEPT ![t] = x],
           x.at \in Resting \cup Guarded
    PROVE  Moved(t)
<1>1. op \in [Procs -> Calls]
  BY CallsTyped
<1>2. op'[t] = x /\ \A q \in Procs \ {t} : op'[q] = op[q]
  BY <1>1
<1>3. Own(t)'
  BY <1>2, EasyPlaces
<1> QED BY <1>2, <1>3 DEF Moved, Alone

\* A marker below the authority goes: from sight, durably, or perhaps.
MarkerGoes(g) ==
    \/ dir' = dir /\ disk' = disk
    \/ dir' = Drop(dir, "markers", g) /\ disk' = disk
    \/ /\ dir' = Move(dir, "markers", "oldMarkers", g)
       /\ disk' \in {disk, Move(disk, "markers", "oldMarkers", g)}

\* Whoever holds the lease may do that.
LEMMA MarkerGone ==
    ASSUME DirTypes, Shared, FilesSame, NEW t \in Procs, lease[t] = "held",
           NEW a \in Nat, Reached(a), NEW g \in Gens, g < a, MarkerGoes(g)
    PROVE  Exclusively(t)
<1>1. /\ dir \in Namespaces /\ disk \in Namespaces
      /\ "logs" \in Kinds /\ "markers" \in Kinds /\ "oldMarkers" \in Kinds
  BY DEF DirTypes, Namespaces, Kinds
<1>2. ASSUME NEW d \in Namespaces
      PROVE  /\ Drop(d, "markers", g) \in Namespaces
             /\ Move(d, "markers", "oldMarkers", g) \in Namespaces
             /\ Drop(d, "markers", g)["logs"] = d["logs"]
             /\ Drop(d, "markers", g)["markers"] = d["markers"] \ {g}
             /\ Move(d, "markers", "oldMarkers", g)["logs"] = d["logs"]
             /\ Move(d, "markers", "oldMarkers", g)["markers"] = d["markers"] \ {g}
  <2>1. /\ Drop(d, "markers", g) \in Namespaces
        /\ Drop(d, "markers", g)["markers"] = d["markers"] \ {g}
    BY MarkerDropped
  <2>2. Drop(d, "markers", g)["logs"] = d["logs"]
    BY <1>1, OtherKinds
  <2>3. /\ Move(d, "markers", "oldMarkers", g) \in Namespaces
        /\ Move(d, "markers", "oldMarkers", g)["logs"] = d["logs"]
        /\ Move(d, "markers", "oldMarkers", g)["markers"] = d["markers"] \ {g}
    BY <1>1, MoveIs, SMTT(30)
  <2> QED BY <2>1, <2>2, <2>3
<1>3. /\ dir' \in Namespaces
      /\ dir'["markers"] \in {dir["markers"], dir["markers"] \ {g}}
      /\ dir'["logs"] = dir["logs"] /\ disk'["logs"] = disk["logs"]
  <2>1. CASE dir' = dir /\ disk' = disk
    BY <1>1, <2>1
  <2>2. CASE dir' = Drop(dir, "markers", g) /\ disk' = disk
    BY <1>1, <1>2, <2>2
  <2>3. CASE /\ dir' = Move(dir, "markers", "oldMarkers", g)
             /\ disk' \in {disk, Move(disk, "markers", "oldMarkers", g)}
    BY <1>1, <1>2, <2>3
  <2> QED BY <2>1, <2>2, <2>3 DEF MarkerGoes
<1>4. PICK top \in dir["markers"] : a <= top
  BY DEF Reached
<1>5. /\ Authority(dir) \in dir["markers"] /\ Authority(dir) \in Nat
      /\ \A m \in dir["markers"] : m \in Nat /\ m <= Authority(dir)
  BY <1>1, <1>4, AuthorityIs DEF Namespaces, Gens
<1>6. g # Authority(dir)
  BY <1>4, <1>5 DEF Gens
<1>7. Authority(dir) \in dir'["markers"] /\ \A m \in dir'["markers"] : m <= Authority(dir)
  BY <1>3, <1>5, <1>6
<1>8. Authority(dir') = Authority(dir)
  BY <1>1, <1>3, <1>4, <1>7, SameAuthority
<1>9. Authority(dir) \in dir["logs"] /\ Authority(dir) \in disk["logs"]
  BY <1>4 DEF Shared, AuthorityInv, Sound
<1>10. Shared'
  BY <1>3, <1>4, <1>7, <1>8, <1>9, SharedStays
<1> QED BY <1>3, <1>7, <1>10 DEF Exclusively, FilesSame

\* What one retirement does to the names.
LEMMA RetireNames ==
    ASSUME NEW t \in Procs, NEW k, NEW g, Retire(t, k, g)
    PROVE  /\ GiveUp(t) \/ op' = [op EXCEPT ![t].dirty = TRUE]
           /\ \/ dir' = dir /\ disk' = disk
              \/ dir' = Drop(dir, k, g) /\ disk' = disk
              \/ /\ dir' = Move(dir, k, Quarantine(k), g)
                 /\ disk' \in {disk, Move(disk, k, Quarantine(k), g)}
BY DEF Retire, Visible, MovedThrough, MoveErrs

\* After it the command goes on or gives up.
LEMMA RetireMoves ==
    ASSUME DirTypes, NEW t \in Procs, handle' = handle, lease' = lease, lease[t] = "held",
           Quiet \/ Exclusively(t),
           GiveUp(t) \/ (op' = [op EXCEPT ![t].dirty = TRUE]
                         /\ op[t].at \in {"retireMarkers", "retireLogs"}),
           op[t].at = "retireLogs" => \E n \in dir'["markers"] : op[t].wit.auth <= n
    PROVE  Moved(t)
<1>1. CASE GiveUp(t)
  BY <1>1, EndsAt DEF Moved, Alone
<1>2. CASE /\ op' = [op EXCEPT ![t].dirty = TRUE]
           /\ op[t].at \in {"retireMarkers", "retireLogs"}
  <2>1. /\ op'[t].at = op[t].at /\ op'[t].gen = op[t].gen /\ op'[t].wit = op[t].wit
        /\ \A q \in Procs \ {t} : op'[q] = op[q]
    BY <1>2, CallsTyped DEF Calls
  <2>2. Own(t)'
    <3>1. CASE op[t].at = "retireMarkers"
      BY <2>1, <3>1, EasyPlaces DEF Guarded
    <3>2. CASE op[t].at = "retireLogs"
      BY <2>1, <3>2 DEF Own, Publishing, Unbuilt, Reached
    <3> QED BY <1>2, <3>1, <3>2
  <2> QED BY <2>1, <2>2 DEF Moved, Alone
<1> QED BY <1>1, <1>2

\* A phase of a cleanup ends.
LEMMA PhaseOver ==
    ASSUME DirTypes, NEW t \in Procs, FilesSame, handle' = handle, lease' = lease,
           lease[t] = "held", NEW sync \in {"markersSync", "logsSync"},
           NEW next \in {"reverify", "leave"}, EndPhase(t, sync, next)
    PROVE  Moved(t)
<1>1. Quiet
  BY NothingIsQuiet DEF EndPhase
<1>2. CASE Leave(t)
  BY <1>1, <1>2, QuietEnds
<1>3. CASE op' = [op EXCEPT ![t].at = IF Unix /\ op[t].dirty THEN sync ELSE next,
                            ![t].dirty = FALSE]
  <2> DEFINE at == IF Unix /\ op[t].dirty THEN sync ELSE next
             x == [op[t] EXCEPT !.at = at, !.dirty = FALSE]
  <2>1. at \in {sync, next}
    OBVIOUS
  <2>2. op[t] \in Calls /\ op \in [Procs -> Calls]
    BY CallsTyped
  <2>3. op' = [op EXCEPT ![t] = x]
    BY <1>3, <2>2
  <2> HIDE DEF at
  <2>4. at \in Places /\ at \in Resting \cup Guarded
    BY <2>1 DEF Places, WithGeneration, Resting, Guarded
  <2>5. x \in Calls /\ x.at = at
    BY <2>2, <2>4 DEF Calls
  <2> HIDE DEF x
  <2> QED BY <1>1, <2>3, <2>4, <2>5, PhaseGoes
<1> QED BY <1>2, <1>3 DEF EndPhase

\* Lower markers and staging markers go.
LEMMA RetireMarkersMoves ==
    ASSUME DirTypes, Shared, MarkersInv, NEW t \in Procs, UNCHANGED engineVars,
           RetireMarkers(t)
    PROVE  Moved(t)
<1> DEFINE a == op[t].wit.auth
<1>1. /\ FilesSame /\ handle' = handle /\ lease' = lease /\ lease[t] = "held"
      /\ op[t].at = "retireMarkers"
  <2>1. CASE Retire(t, "markers", Min(ObsoleteMarkers(a)))
    BY <2>1 DEF RetireMarkers, Retire, NoFault, Fault, engineVars, lockVars, FilesSame,
                Holding, Running
  <2>2. CASE Retire(t, "staged", Min(ObsoleteStaged(a)))
    BY <2>2 DEF RetireMarkers, Retire, NoFault, Fault, engineVars, lockVars, FilesSame,
                Holding, Running
  <2>3. CASE EndPhase(t, "markersSync", "reverify")
    BY <2>3 DEF RetireMarkers, EndPhase, NoFault, engineVars, lockVars, FilesSame,
                Holding, Running
  <2> QED BY <2>1, <2>2, <2>3 DEF RetireMarkers
<1>2. a \in Nat /\ Reached(a)
  BY <1>1, CallsTyped DEF MarkersInv, Calls, Witnesses
<1>3. dir["markers"] \subseteq Gens /\ dir["staged"] \subseteq Gens
  BY DEF DirTypes, Kinds
<1> HIDE DEF a
<1>4. CASE ObsoleteMarkers(a) # {} /\ Retire(t, "markers", Min(ObsoleteMarkers(a)))
  <2> DEFINE m == Min(ObsoleteMarkers(a))
  <2>1. m \in ObsoleteMarkers(a)
    BY <1>3, <1>4, MinIs DEF ObsoleteMarkers, Gens
  <2> HIDE DEF m
  <2>2. PICK g : g = m
    OBVIOUS
  <2>3. g \in Gens /\ g < a
    BY <1>3, <2>1, <2>2 DEF ObsoleteMarkers
  <2>4. Retire(t, "markers", g)
    BY <1>4, <2>2 DEF m
  <2>5. Quarantine("markers") = "oldMarkers"
    BY DEF Quarantine
  <2>6. MarkerGoes(g) /\ (GiveUp(t) \/ op' = [op EXCEPT ![t].dirty = TRUE])
    BY <2>4, <2>5, RetireNames DEF MarkerGoes
  <2>7. Exclusively(t)
    BY <1>1, <1>2, <2>3, <2>6, MarkerGone
  <2> QED BY <1>1, <2>6, <2>7, RetireMoves
<1>5. CASE ObsoleteStaged(a) # {} /\ Retire(t, "staged", Min(ObsoleteStaged(a)))
  <2> DEFINE m == Min(ObsoleteStaged(a))
  <2>1. m \in ObsoleteStaged(a)
    BY <1>3, <1>5, MinIs DEF ObsoleteStaged, Gens
  <2> HIDE DEF m
  <2>2. PICK g : g = m
    OBVIOUS
  <2>3. g \in Gens /\ Retire(t, "staged", g)
    BY <1>3, <1>5, <2>1, <2>2 DEF ObsoleteStaged, m
  <2>4. Quarantine("staged") = "oldStaged"
    BY DEF Quarantine
  <2>5. /\ GiveUp(t) \/ op' = [op EXCEPT ![t].dirty = TRUE]
        /\ \/ dir' \in {dir, Drop(dir, "staged", g)} /\ disk' = disk
           \/ /\ dir' = Move(dir, "staged", "oldStaged", g)
              /\ disk' \in {disk, Move(disk, "staged", "oldStaged", g)}
    BY <2>3, <2>4, RetireNames
  <2>6. "staged" \in Kinds \ {"logs", "markers"} /\ "oldStaged" \in Kinds \ {"logs", "markers"}
    BY DEF Kinds
  <2>7. Quiet
    BY <1>1, <2>3, <2>5, <2>6, AsideChange, AsideMove, AsideIsQuiet
  <2> QED BY <1>1, <2>5, <2>7, RetireMoves
<1>6. CASE EndPhase(t, "markersSync", "reverify")
  BY <1>1, <1>6, PhaseOver
<1> QED BY <1>4, <1>5, <1>6 DEF RetireMarkers, a

\* Lower logs go, none of them the authority's.
LEMMA RetireLogsMoves ==
    ASSUME DirTypes, Shared, NEW t \in Procs, Own(t), UNCHANGED engineVars, RetireLogs(t)
    PROVE  Moved(t)
<1> DEFINE a == op[t].wit.auth
<1>1. /\ FilesSame /\ handle' = handle /\ lease' = lease /\ lease[t] = "held"
      /\ op[t].at = "retireLogs"
  <2>1. CASE Retire(t, "logs", Min(ObsoleteLogs(a)))
    BY <2>1 DEF RetireLogs, Retire, NoFault, Fault, engineVars, lockVars, FilesSame,
                Holding, Running
  <2>2. CASE EndPhase(t, "logsSync", "leave")
    BY <2>2 DEF RetireLogs, EndPhase, NoFault, engineVars, lockVars, FilesSame,
                Holding, Running
  <2> QED BY <2>1, <2>2 DEF RetireLogs
<1>2. a \in Nat /\ Reached(a)
  BY <1>1, CallsTyped DEF Own, Calls, Witnesses
<1>3. dir["logs"] \subseteq Gens /\ dir \in Namespaces /\ "logs" \in Kinds
  BY DEF DirTypes, Kinds, Namespaces
<1>4. PICK top \in dir["markers"] : a <= top
  BY <1>2 DEF Reached
<1>5. top <= Authority(dir) /\ Authority(dir) \in Nat /\ top \in Nat
  BY <1>3, <1>4, AuthorityIs DEF Namespaces, Kinds, Gens
<1> HIDE DEF a
<1>6. CASE ObsoleteLogs(a) # {} /\ Retire(t, "logs", Min(ObsoleteLogs(a)))
  <2> DEFINE m == Min(ObsoleteLogs(a))
  <2>1. m \in ObsoleteLogs(a)
    BY <1>3, <1>6, MinIs DEF ObsoleteLogs, Gens
  <2> HIDE DEF m
  <2>2. PICK g : g = m
    OBVIOUS
  <2>3. g \in Gens /\ g < a /\ Retire(t, "logs", g)
    BY <1>3, <1>6, <2>1, <2>2 DEF ObsoleteLogs, m
  <2>4. g # Authority(dir)
    BY <1>2, <1>4, <1>5, <2>3 DEF Gens
  <2>5. Quarantine("logs") = "oldLogs"
    BY DEF Quarantine
  <2>6. LogGoes(g) /\ (GiveUp(t) \/ op' = [op EXCEPT ![t].dirty = TRUE])
    BY <2>3, <2>5, RetireNames DEF LogGoes
  <2>7. Exclusively(t)
    BY <1>1, <1>4, <2>3, <2>4, <2>6, LogGone
  <2>8. dir'["markers"] = dir["markers"]
    <3>1. dir \in Namespaces /\ g \in Gens
      BY <1>3, <2>3
    <3>2. /\ Drop(dir, "logs", g)["markers"] = dir["markers"]
          /\ Move(dir, "logs", "oldLogs", g)["markers"] = dir["markers"]
      BY <3>1, LogDropped
    <3> QED BY <2>6, <3>2 DEF LogGoes
  <2>9. \E n \in dir'["markers"] : op[t].wit.auth <= n
    BY <1>4, <2>8 DEF a
  <2> QED BY <1>1, <2>6, <2>7, <2>9, RetireMoves
<1>7. CASE EndPhase(t, "logsSync", "leave")
  BY <1>1, <1>7, PhaseOver
<1> QED BY <1>6, <1>7 DEF RetireLogs, a

\* Checks of a cleanup: the authority found is that of the plan.
LEMMA CleanupMoves ==
    ASSUME DirTypes, NEW t \in Procs, UNCHANGED engineVars,
           PlanCleanup(t) \/ Reverify(t)
    PROVE  Moved(t)
<1>1. Quiet /\ handle' = handle /\ lease' = lease /\ lease[t] = "held" /\ dir' = dir
  BY NothingIsQuiet
  DEF PlanCleanup, Reverify, NoFault, engineVars, lockVars, FilesSame, Holding
<1>2. op[t] \in Calls /\ op \in [Procs -> Calls]
  BY CallsTyped
<1>3. CASE GiveUp(t)
  BY <1>1, <1>3, QuietEnds
<1>4. CASE op' = [op EXCEPT ![t].wit = Witness(dir), ![t].at = "retireMarkers"]
  <2>1. op'[t].at = "retireMarkers" /\ \A q \in Procs \ {t} : op'[q] = op[q]
    BY <1>2, <1>4 DEF Calls
  <2>2. Own(t)'
    BY <1>1, <2>1, EasyPlaces DEF Guarded
  <2> QED BY <1>1, <2>1, <2>2 DEF Moved, Alone
<1>5. CASE Verifies(dir) /\ Witness(dir) = op[t].wit /\ Goto(t, "retireLogs")
  <2>1. /\ op'[t].at = "retireLogs" /\ op'[t].wit = op[t].wit
        /\ \A q \in Procs \ {t} : op'[q] = op[q]
    BY <1>5, GoesTo DEF Places
  <2>2. \E n \in dir["markers"] : op[t].wit.auth <= n
    <3>1. dir["markers"] # {}
      BY <1>5 DEF Verifies
    <3>2. /\ Authority(dir) \in dir["markers"] /\ Authority(dir) \in Gens
          /\ Witness(dir).auth = Authority(dir)
      BY <3>1, AuthorityIs, WitnessTyped DEF DirTypes, Namespaces
    <3>3. op[t].wit.auth = Authority(dir) /\ Authority(dir) <= Authority(dir)
      BY <1>5, <3>2 DEF Gens
    <3> QED BY <3>2, <3>3
  <2>3. Own(t)'
    BY <1>1, <2>1, <2>2 DEF Own, Publishing, Unbuilt, Reached
  <2> QED BY <1>1, <2>1, <2>3 DEF Moved, Alone
<1> QED BY <1>3, <1>4, <1>5 DEF PlanCleanup, Reverify

\* An abandoned candidate is inspected, confirmed and matched.
LEMMA OrphanChecked ==
    ASSUME DirTypes, NEW t \in Procs, UNCHANGED engineVars,
           \/ \E g \in Gens : InspectOrphan(t, g)
           \/ ConfirmBuilderStopped(t) \/ MatchOrphan(t)
    PROVE  Moved(t)
<1>1. Quiet /\ handle' = handle /\ lease' = lease
  BY NothingIsQuiet
  DEF InspectOrphan, ConfirmBuilderStopped, MatchOrphan, NoFault, engineVars, lockVars,
      FilesSame
<1>2. ASSUME NEW g \in Gens, InspectOrphan(t, g) PROVE Moved(t)
  <2> DEFINE y == [NoOp EXCEPT !.kind = "retire", !.at = "inspected"]
             z == [y EXCEPT !.gen = g]
             x == [z EXCEPT !.wit = Evidence(g)]
  <2>1. op' = [op EXCEPT ![t] = x]
    BY <1>2 DEF InspectOrphan
  <2>2. y \in Calls /\ y.at = "inspected"
    BY NoOpIsCall DEF Calls, CallKinds, Places, WithGeneration
  <2> HIDE DEF y
  <2>3. z \in Calls /\ z.at = "inspected"
    BY <2>2 DEF Calls, Gens
  <2>4. Evidence(g) \in Witnesses
    BY <1>2, EvidenceTyped DEF InspectOrphan, Verifies
  <2> HIDE DEF z
  <2>5. x.at = "inspected"
    BY <2>3, <2>4 DEF Calls
  <2> HIDE DEF x
  <2>6. op'[t] = x /\ \A q \in Procs \ {t} : op'[q] = op[q]
    BY <2>1, CallsTyped
  <2>7. Own(t)'
    BY <2>5, <2>6, EasyPlaces DEF Resting
  <2> QED BY <1>1, <2>6, <2>7 DEF Moved, Alone
<1>3. CASE ConfirmBuilderStopped(t)
  <2>1. ASSUME NEW at \in {"match"}, Goto(t, at) PROVE Moved(t)
    <3>1. at \in Places /\ at \in Resting
      BY DEF Places, WithGeneration, Resting
    <3>2. op'[t].at = at /\ \A q \in Procs \ {t} : op'[q] = op[q]
      BY <2>1, <3>1, GoesTo
    <3>3. Own(t)'
      BY <3>1, <3>2, EasyPlaces
    <3> QED BY <1>1, <3>2, <3>3 DEF Moved, Alone
  <2>2. CASE op' = [op EXCEPT ![t] = NoOp]
    BY <1>1, <2>2, QuietEnds
  <2> QED BY <1>3, <2>1, <2>2 DEF ConfirmBuilderStopped
<1>4. CASE MatchOrphan(t)
  <2>1. CASE GiveUp(t)
    BY <1>1, <2>1, QuietEnds
  <2>2. ASSUME NEW at \in {"unstage", "unlink"}, Goto(t, at) PROVE Moved(t)
    <3>1. at \in Places /\ at \in Guarded
      BY DEF Places, WithGeneration, Guarded
    <3>2. lease[t] = "held"
      BY <1>4 DEF MatchOrphan, Holding
    <3> QED BY <1>1, <2>2, <3>1, <3>2, QuietGoes
  <2> QED BY <1>4, <2>1, <2>2 DEF MatchOrphan
<1> QED BY <1>2, <1>3, <1>4

\* What the retirement of one name of a candidate does.
LEMMA RetireSyncedNames ==
    ASSUME NEW t \in Procs, NEW k, NEW sync, NEW next, RetireSynced(t, k, sync, next)
    PROVE  /\ GiveUp(t) \/ Leave(t) \/ Goto(t, IF Unix THEN sync ELSE next)
           /\ \/ dir' = dir /\ disk' = disk
              \/ dir' = Drop(dir, k, op[t].gen) /\ disk' = disk
              \/ /\ dir' = Move(dir, k, Quarantine(k), op[t].gen)
                 /\ disk' \in {disk, Move(disk, k, Quarantine(k), op[t].gen)}
<1>1. GiveUp(t) \/ Leave(t) \/ Goto(t, IF Unix THEN sync ELSE next)
  BY DEF RetireSynced
<1> QED BY <1>1 DEF RetireSynced, Visible, MovedThrough, MoveErrs

\* After it the command goes on, leaves or gives up.
LEMMA RetireSyncedMoves ==
    ASSUME DirTypes, NEW t \in Procs, handle' = handle, lease' = lease, lease[t] = "held",
           Quiet \/ Exclusively(t), NEW at \in {"unstageSync", "unlink", "logsSync", "leave"},
           GiveUp(t) \/ Leave(t) \/ Goto(t, at)
    PROVE  Moved(t)
<1>1. CASE GiveUp(t) \/ Leave(t)
  BY <1>1, EndsAt DEF Moved, Alone
<1>2. CASE Goto(t, at)
  <2>1. at \in Places /\ at \in Resting \cup Guarded
    BY DEF Places, WithGeneration, Guarded, Resting
  <2>2. op'[t].at = at /\ \A q \in Procs \ {t} : op'[q] = op[q]
    BY <1>2, <2>1, GoesTo
  <2>3. Own(t)'
    BY <2>1, <2>2, EasyPlaces
  <2> QED BY <2>2, <2>3 DEF Moved, Alone
<1> QED BY <1>1, <1>2

\* The candidate's staging marker and its log go; neither is the authority's.
LEMMA OrphanRetired ==
    ASSUME DirTypes, Shared, NEW t \in Procs, UNCHANGED engineVars,
           UnstageOrphan(t) \/ UnlinkOrphan(t)
    PROVE  Moved(t)
<1>1. /\ FilesSame /\ handle' = handle /\ lease' = lease /\ lease[t] = "held"
      /\ op[t].at \in {"unstage", "unlink"}
  <2>1. /\ UNCHANGED <<log, proof, built, lockVars>> /\ lease[t] = "held"
        /\ op[t].at \in {"unstage", "unlink"}
    BY DEF UnstageOrphan, UnlinkOrphan, Holding, Running
  <2>2. platform' = platform
    BY DEF UnstageOrphan, UnlinkOrphan, RetireSynced, NoFault, Fault
  <2> QED BY <2>1, <2>2 DEF engineVars, lockVars, FilesSame
<1>2. op[t].gen \in Gens
  BY <1>1, GenTyped DEF WithGeneration
<1>3. CASE UnstageOrphan(t)
  <2>1. RetireSynced(t, "staged", "unstageSync", "unlink") /\ Quarantine("staged") = "oldStaged"
    BY <1>3 DEF UnstageOrphan, Quarantine
  <2>2. /\ GiveUp(t) \/ Leave(t) \/ Goto(t, IF Unix THEN "unstageSync" ELSE "unlink")
        /\ \/ dir' \in {dir, Drop(dir, "staged", op[t].gen)} /\ disk' = disk
           \/ /\ dir' = Move(dir, "staged", "oldStaged", op[t].gen)
              /\ disk' \in {disk, Move(disk, "staged", "oldStaged", op[t].gen)}
    BY <2>1, RetireSyncedNames
  <2>3. "staged" \in Kinds \ {"logs", "markers"} /\ "oldStaged" \in Kinds \ {"logs", "markers"}
    BY DEF Kinds
  <2>4. Quiet
    BY <1>1, <1>2, <2>2, <2>3, AsideChange, AsideMove, AsideIsQuiet
  <2> QED BY <1>1, <2>2, <2>4, RetireSyncedMoves
<1>4. CASE UnlinkOrphan(t)
  <2>1. CASE GiveUp(t) /\ dir' = dir /\ disk' = disk
    BY <1>1, <2>1, NothingIsQuiet, QuietEnds
  <2>2. CASE StillInspected(t) /\ RetireSynced(t, "logs", "logsSync", "leave")
    <3>1. Quarantine("logs") = "oldLogs"
      BY DEF Quarantine
    <3>2. LogGoes(op[t].gen)
      BY <2>2, <3>1, RetireSyncedNames DEF LogGoes
    <3>3. GiveUp(t) \/ Leave(t) \/ Goto(t, IF Unix THEN "logsSync" ELSE "leave")
      BY <2>2, RetireSyncedNames
    <3>4. dir["markers"] # {} /\ op[t].gen # Authority(dir)
      <4>1. dir["markers"] # {} /\ op[t].gen \notin dir["markers"]
        BY <2>2 DEF StillInspected, Verifies, IsOrphan
      <4>2. Authority(dir) \in dir["markers"]
        BY <4>1, AuthorityIs DEF DirTypes, Namespaces
      <4> QED BY <4>1, <4>2
    <3>5. Exclusively(t)
      BY <1>1, <1>2, <3>2, <3>4, LogGone
    <3> QED BY <1>1, <3>3, <3>5, RetireSyncedMoves
  <2> QED BY <1>4, <2>1, <2>2 DEF UnlinkOrphan
<1> QED BY <1>3, <1>4

\* A step of a cleanup or a retirement.
LEMMA RetirementMoves ==
    ASSUME GenInv, Shared, NEW t \in Procs, Own(t), UNCHANGED engineVars, RetirementNext(t)
    PROVE  Moved(t)
<1>1. GenLockInv /\ DirTypes /\ MarkersInv
  BY DEF GenInv
<1> QED
  BY <1>1, CommandsBegin, CleanupMoves, RetireMarkersMoves, RetireLogsMoves, OrphanChecked,
     OrphanRetired
  DEF RetirementNext
-----------------------------------------------------------------------------
\* Routed handles.

\* A call on a handle begins.
LEMMA RoutedBegins ==
    ASSUME GenLockInv, DirTypes, NEW r \in Procs, NEW kind, BeginCall(r, kind)
    PROVE  Moved(r)
<1> DEFINE call == [NoOp EXCEPT !.kind = kind, !.at = "route",
                                !.gen = IF kind = "put" THEN writes + 1 ELSE 0]
<1>1. Quiet /\ handle' = handle
  BY NothingIsQuiet DEF BeginCall, NoFault, FilesSame
<1>2. Begin(r, call)
  BY DEF BeginCall
<1>3. call.at = "route"
  BY NoOpIsCall DEF Calls
<1> HIDE DEF call
<1>4. Alone(r) /\ op'[r] = call
  BY <1>1, <1>2, BeginsTo DEF Alone
<1>5. Own(r)'
  BY <1>3, <1>4, EasyPlaces DEF Resting
<1> QED BY <1>1, <1>4, <1>5 DEF Moved

\* A handle that is routed to the authority may read and append.
LEMMA AppliesOwn ==
    ASSUME NEW r \in Routers, op'[r].at = "apply", lease'[r] = "held",
           dir'["markers"] # {}, handle'[r].gen = Authority(dir')
    PROVE  Own(r)'
BY DEF Own, Publishing, Unbuilt

\* The call is refused, or goes on where it is routed.
LEMMA RoutesMove ==
    ASSUME DirTypes, EngineTypes, NEW r \in Routers, Route(r)
    PROVE  Moved(r)
<1>0. r \in Procs
  BY RoutersAreProcesses
<1>1. /\ Quiet /\ lease' = lease /\ lease[r] = "held" /\ dir' = dir
      /\ \A q \in Routers \ {r} : handle'[q] = handle[q]
  <2>1. Quiet /\ lease' = lease /\ lease[r] = "held" /\ dir' = dir
    BY NothingIsQuiet DEF Route, NoFault, lockVars, FilesSame, Holding
  <2>2. \A q \in Routers \ {r} : handle'[q] = handle[q]
    BY DEF Route, Poison, EngineTypes
  <2> QED BY <2>1, <2>2
<1>2. CASE GiveUp(r)
  BY <1>0, <1>1, <1>2, EndsAt DEF Moved, Alone
<1>3. CASE Goto(r, "resolve")
  <2>1. op'[r].at = "resolve" /\ \A q \in Procs \ {r} : op'[q] = op[q]
    BY <1>0, <1>3, GoesTo DEF Places, Routed
  <2>2. Own(r)'
    BY <1>0, <1>1, <2>1, EasyPlaces DEF Guarded
  <2> QED BY <1>1, <2>1, <2>2 DEF Moved, Alone
<1>4. CASE /\ Goto(r, "apply") /\ UNCHANGED handle
           /\ AuthorityKept(r) /\ IsRouted(r)
  <2>1. op'[r].at = "apply" /\ \A q \in Procs \ {r} : op'[q] = op[q]
    BY <1>0, <1>4, GoesTo DEF Places, Routed
  <2>2. Own(r)'
    BY <1>1, <1>4, <2>1, AppliesOwn DEF AuthorityKept, IsRouted
  <2> QED BY <1>1, <2>1, <2>2 DEF Moved, Alone
<1> QED BY <1>2, <1>3, <1>4 DEF Route

\* The authority is verified and its log opened.
LEMMA ResolveMoves ==
    ASSUME DirTypes, EngineTypes, NEW r \in Routers, Resolve(r)
    PROVE  Moved(r)
<1>0. r \in Procs
  BY RoutersAreProcesses
<1>1. /\ dir' = dir /\ disk' = disk /\ proof' = proof /\ built' = built
      /\ platform' = platform /\ acked' = acked /\ doubt' = doubt
      /\ lease' = lease /\ lease[r] = "held"
      /\ \A q \in Routers \ {r} : handle'[q] = handle[q]
  <2>1. \A q \in Routers \ {r} : handle'[q] = handle[q]
    BY DEF Resolve, Poison, EngineTypes
  <2> QED BY <2>1 DEF Resolve, NoFault, lockVars, Holding
<1>2. CASE GiveUp(r) /\ log' = log
  <2>1. Quiet
    BY <1>1, <1>2, NothingIsQuiet DEF FilesSame
  <2> QED BY <1>0, <1>1, <1>2, <2>1, EndsAt DEF Moved, Alone
<1>3. CASE /\ log' = [log EXCEPT ![Authority(dir)].tail = FALSE]
           /\ op' = [op EXCEPT ![r].wit.auth = Authority(dir), ![r].at = "resolved"]
  <2>1. \A g \in Gens : log'[g].recs = log[g].recs
    BY <1>3 DEF DirTypes, File
  <2>2. Quiet
    BY <1>1, <2>1 DEF Quiet
  <2>3. op'[r].at = "resolved" /\ \A q \in Procs \ {r} : op'[q] = op[q]
    BY <1>0, <1>3, CallsTyped DEF Calls
  <2>4. Own(r)'
    BY <1>0, <1>1, <2>3, EasyPlaces DEF Guarded
  <2> QED BY <1>1, <2>2, <2>3, <2>4 DEF Moved, Alone
<1> QED BY <1>2, <1>3 DEF Resolve

\* The second verification selects the opened generation.
LEMMA ResolvedMoves ==
    ASSUME DirTypes, EngineTypes, NEW r \in Routers, Resolved(r)
    PROVE  Moved(r)
<1> DEFINE a == op[r].wit.auth
<1>0. r \in Procs
  BY RoutersAreProcesses
<1>1. Quiet /\ lease' = lease /\ lease[r] = "held" /\ dir' = dir
  BY NothingIsQuiet DEF Resolved, NoFault, lockVars, FilesSame, Holding
<1>2. \A q \in Routers \ {r} : handle'[q] = handle[q]
  BY DEF Resolved, Poison, EngineTypes
<1>3. CASE Leave(r) \/ GiveUp(r)
  BY <1>0, <1>1, <1>2, <1>3, EndsAt DEF Moved, Alone
<1>4. CASE /\ dir["markers"] # {} /\ Authority(dir) = a /\ Goto(r, "apply")
           /\ handle' = [handle EXCEPT ![r] =
                 [status |-> "open", gen |-> a, seen |-> Len(log[a].recs), inner |-> "ok"]]
  <2>1. op'[r].at = "apply" /\ \A q \in Procs \ {r} : op'[q] = op[q]
    BY <1>0, <1>4, GoesTo DEF Places, Routed
  <2>2. handle'[r].gen = Authority(dir')
    BY <1>1, <1>4 DEF EngineTypes
  <2>3. Own(r)'
    BY <1>1, <1>4, <2>1, <2>2, AppliesOwn
  <2> QED BY <1>1, <1>2, <2>1, <2>3 DEF Moved, Alone
<1> QED BY <1>3, <1>4 DEF Resolved, Verifies

\* An append, made or perhaps made, keeps the proven prefix and leaves a live
\* state that is acknowledged or in doubt.
LEMMA AppendKeeps ==
    ASSUME DirTypes, EngineTypes, Shared, NEW r \in Routers, Own(r),
           op[r].at = "apply", dir' = dir, disk' = disk, proof' = proof, built' = built,
           platform' = platform,
           \/ /\ \A g \in Gens : log'[g].recs = log[g].recs
              /\ acked' = acked /\ doubt \subseteq doubt'
           \/ /\ log' = [log EXCEPT ![handle[r].gen].recs = Append(@, op[r].gen)]
              /\ op[r].gen \in {acked'} \cup doubt'
    PROVE  Exclusively(r)
<1>1. r \in Procs
  BY RoutersAreProcesses
<1>2. lease[r] = "held" /\ dir["markers"] # {} /\ handle[r].gen = Authority(dir)
  BY DEF Own, Locked
<1>3. PICK a : a = Authority(dir)
  OBVIOUS
<1>4. a \in Gens /\ Sound(a)
  BY <1>2, <1>3, AuthorityIs DEF DirTypes, Namespaces, Shared, AuthorityInv
<1>5. PICK v : v = op[r].gen
  OBVIOUS
<1>6. v \in 0 .. MaxWrites
  BY <1>1, <1>5, CallsTyped DEF CallFits, Routed
<1>7. log[a] \in File /\ log[a].recs \in Seq(0 .. MaxWrites)
  BY <1>4 DEF DirTypes, File
<1>8. Sound(a)'
  <2>1. CASE /\ \A g \in Gens : log'[g].recs = log[g].recs
             /\ acked' = acked /\ doubt \subseteq doubt'
    <3>1. log'[a].recs = log[a].recs
      BY <1>4, <2>1
    <3>2. Kept(a)'
      BY <1>4, <2>1, <3>1 DEF Sound, Kept
    <3> QED BY <1>4, <3>1, <3>2 DEF Sound
  <2>2. CASE /\ log' = [log EXCEPT ![handle[r].gen].recs = Append(@, op[r].gen)]
             /\ op[r].gen \in {acked'} \cup doubt'
    <3>1. log'[a].recs = Append(log[a].recs, v)
      <4>1. log' = [log EXCEPT ![a].recs = Append(@, v)]
        BY <1>2, <1>3, <1>5, <2>2
      <4> QED BY <1>4, <1>7, <4>1 DEF DirTypes, File
    <3>2. Live(log'[a].recs) = v
      BY <1>6, <1>7, <3>1, LiveOfAppend
    <3>3. Kept(a)'
      BY <1>5, <2>2, <3>2 DEF Kept
    <3>4. IsPrefix(proof[a], log'[a].recs)
      BY <1>4, <1>6, <1>7, <3>1, PrefixOfAppend DEF Sound
    <3> QED BY <1>4, <3>3, <3>4 DEF Sound
  <2> QED BY <2>1, <2>2
<1>9. AuthorityInv'
  BY <1>3, <1>8 DEF AuthorityInv, Sound, Kept
<1>10. LogsInv' /\ FirstInv'
  BY <1>2 DEF Shared, LogsInv, FirstInv, Exists
<1> QED BY <1>2, <1>9, <1>10 DEF Exclusively, Shared

\* What an interrupted append leaves.
LEMMA InterruptedLeaves ==
    ASSUME DirTypes, NEW r \in Procs, Interrupted(r)
    PROVE  \/ (\A g \in Gens : log'[g].recs = log[g].recs) /\ doubt \subseteq doubt'
           \/ /\ log' = [log EXCEPT ![handle[r].gen].recs = Append(@, op[r].gen)]
              /\ op[r].gen \in doubt'
<1>1. doubt' = doubt \cup {op[r].gen}
  BY DEF Interrupted
<1>2. CASE log' = log
  BY <1>1, <1>2
<1>3. CASE log' = [log EXCEPT ![handle[r].gen].tail = TRUE]
  <2>1. \A g \in Gens : log'[g].recs = log[g].recs
    BY <1>3 DEF DirTypes, File
  <2> QED BY <1>1, <2>1
<1>4. CASE log' = [log EXCEPT ![handle[r].gen].recs = Append(@, op[r].gen)]
  BY <1>1, <1>4
<1> QED BY <1>2, <1>3, <1>4 DEF Interrupted

\* The operation on the inner handle.
LEMMA OperationMoves ==
    ASSUME DirTypes, EngineTypes, Shared, NEW r \in Routers, Own(r),
           Get(r) \/ Append1(r) \/ AppendFails(r)
    PROVE  Moved(r)
<1>0. r \in Procs
  BY RoutersAreProcesses
<1>1. /\ dir' = dir /\ disk' = disk /\ proof' = proof /\ built' = built
      /\ platform' = platform /\ lease' = lease /\ Leave(r) /\ op[r].at = "apply"
  BY DEF Get, Append1, AppendFails, Appending, NoFault, Fault, lockVars, Holding, Running
<1>2. \A q \in Routers \ {r} : handle'[q] = handle[q]
  BY DEF Get, Append1, AppendFails, EngineTypes
<1>3. \/ /\ \A g \in Gens : log'[g].recs = log[g].recs
         /\ acked' = acked /\ doubt \subseteq doubt'
      \/ /\ log' = [log EXCEPT ![handle[r].gen].recs = Append(@, op[r].gen)]
         /\ op[r].gen \in {acked'} \cup doubt'
  <2>1. CASE Get(r)
    BY <2>1 DEF Get
  <2>2. CASE Append1(r)
    BY <2>2 DEF Append1
  <2>3. CASE AppendFails(r)
    <3>1. Interrupted(r) /\ acked' = acked
      BY <2>3 DEF AppendFails
    <3> QED BY <1>0, <3>1, InterruptedLeaves
  <2> QED BY <2>1, <2>2, <2>3
<1>4. Exclusively(r)
  BY <1>1, <1>3, AppendKeeps
<1> QED BY <1>0, <1>1, <1>2, <1>4, EndsAt DEF Moved, Alone

\* A step of a call on a routed handle.
LEMMA RoutedMoves ==
    ASSUME GenInv, Shared, NEW r \in Routers, Own(r), RoutedNext(r)
    PROVE  Moved(r)
<1>1. GenLockInv /\ DirTypes /\ EngineTypes /\ r \in Procs
  BY RoutersAreProcesses DEF GenInv
<1> QED
  BY <1>1, RoutedBegins, RoutesMove, ResolveMoves, ResolvedMoves, OperationMoves
  DEF RoutedNext
-----------------------------------------------------------------------------
\* The lease.

\* Its states change, and nothing else: a call has what it needs of it.
LEMMA LeaseChanges ==
    ASSUME DirTypes, NEW p \in Procs, Own(p),
           UNCHANGED <<dir, disk, log, proof, built, platform, op, engineVars>>,
           \A q \in Procs \ {p} : lease'[q] = lease[q],
           op[p].at \in Locked => lease'[p] = "held",
           op[p].at \in Publishing => lease'[p] # "none"
    PROVE  Moved(p)
<1>1. /\ dir' = dir /\ disk' = disk /\ log' = log /\ proof' = proof /\ built' = built
      /\ platform' = platform /\ op' = op /\ handle' = handle
      /\ acked' = acked /\ doubt' = doubt
  BY DEF engineVars
<1>2. Quiet
  BY <1>1, NothingIsQuiet DEF FilesSame
<1>3. Alone(p)
  BY <1>1 DEF Alone
<1>4. /\ DurableCandidate(p)' <=> DurableCandidate(p)
      /\ Kept(op[p].gen)' <=> Kept(op[p].gen)
      /\ Reached(op[p].wit.auth)' <=> Reached(op[p].wit.auth)
  BY <1>1 DEF DurableCandidate, Kept, Reached
<1>5. Own(p)'
  BY <1>1, <1>4 DEF Own
<1> QED BY <1>2, <1>3, <1>5 DEF Moved

\* A call ends without the lease, or with it.
LEMMA LeaseEnds ==
    ASSUME DirTypes, NEW p \in Procs, op' = [op EXCEPT ![p] = NoOp],
           UNCHANGED <<dir, disk, log, proof, built, platform, engineVars>>,
           \A q \in Procs \ {p} : lease'[q] = lease[q]
    PROVE  Moved(p)
<1>1. Quiet /\ handle' = handle
  BY NothingIsQuiet DEF FilesSame, engineVars
<1> QED BY <1>1, EndsAt DEF Moved, Alone

\* Where a call takes or gives back the lease it needs none.
LEMMA LeaseIsFree ==
    ASSUME NEW p \in Procs, op[p].at \in Entry \cup Exit
    PROVE  op[p].at \notin Locked /\ op[p].at \notin Publishing
BY DEF Entry, Exit, Locked, Publishing

\* Acquiring and releasing it.
LEMMA LeaseMoves ==
    ASSUME GenLockInv, DirTypes, NEW p \in Procs, Own(p),
           Acquire(p) \/ Busy(p) \/ FinishAcquire(p) \/ Release(p)
    PROVE  Moved(p)
<1>1. lease \in [Procs -> LeaseStates]
  BY DEF GenLockInv, LockInv, LockTypeOK
<1>2. CASE Acquire(p)
  <2>1. /\ UNCHANGED <<dir, disk, log, proof, built, platform, op, engineVars>>
        /\ op[p].at \in Entry
    BY <1>2 DEF Acquire, dirVars
  <2>2. \A q \in Procs \ {p} : lease'[q] = lease[q]
    BY <1>1, <1>2 DEF Acquire, CreateLock
  <2>3. op[p].at \notin Locked /\ op[p].at \notin Publishing
    BY <2>1, LeaseIsFree
  <2> QED BY <2>1, <2>2, <2>3, LeaseChanges
<1>3. CASE Busy(p)
  <2>1. Quiet /\ lease' = lease /\ handle' = handle
    BY <1>3, NothingIsQuiet DEF Busy, NoFault, FilesSame, lockVars, engineVars
  <2> QED BY <1>3, <2>1, QuietEnds DEF Busy
<1>4. CASE WriteRecord(p) /\ UNCHANGED <<dirVars, engineVars>>
  <2>1. UNCHANGED <<dir, disk, log, proof, built, platform, op, engineVars>>
    BY <1>4 DEF dirVars
  <2>2. lease'[p] = "held" /\ \A q \in Procs \ {p} : lease'[q] = lease[q]
    BY <1>1, <1>4 DEF WriteRecord
  <2> QED BY <2>1, <2>2, LeaseChanges
<1>5. CASE /\ WriteRecordFails(p) /\ Fault
           /\ UNCHANGED <<dir, disk, log, proof, op, built, engineVars>>
  <2>1. UNCHANGED <<dir, disk, log, proof, built, platform, op, engineVars>>
    BY <1>5 DEF Fault
  <2>2. /\ lease[p] = "created" /\ lease'[p] = "unwritten"
        /\ \A q \in Procs \ {p} : lease'[q] = lease[q]
    BY <1>1, <1>5 DEF WriteRecordFails
  <2>3. op[p].at \notin Locked
    BY <2>2 DEF Own
  <2> QED BY <2>1, <2>2, <2>3, LeaseChanges
<1>6. CASE /\ RemoveUnwritten(p) /\ op' = [op EXCEPT ![p] = NoOp] /\ NoFault
           /\ UNCHANGED <<dir, disk, log, proof, built, engineVars>>
  <2>1. UNCHANGED <<dir, disk, log, proof, built, platform, engineVars>>
    BY <1>6 DEF NoFault
  <2>2. \A q \in Procs \ {p} : lease'[q] = lease[q]
    BY <1>1, <1>6 DEF RemoveUnwritten, Left
  <2> QED BY <1>6, <2>1, <2>2, LeaseEnds
<1>7. CASE Release(p)
  <2>1. /\ UNCHANGED <<dir, disk, log, proof, built, platform, engineVars>>
        /\ op[p].at \in Exit
    BY <1>7 DEF Release, NoFault, Fault
  <2>2. \A q \in Procs \ {p} : lease'[q] = lease[q]
    BY <1>1, <1>7 DEF Release, CompareOwner, RemoveOwned, Left
  <2>3. op' = op \/ op' = [op EXCEPT ![p] = NoOp]
    <3>1. op \in [Procs -> Calls]
      BY CallsTyped
    <3>2. EndCall(p) => op' = op \/ op' = [op EXCEPT ![p] = NoOp]
      BY <3>1 DEF EndCall
    <3> QED BY <1>7, <3>2 DEF Release
  <2>4. CASE op' = op
    <3>1. op[p].at \notin Locked /\ op[p].at \notin Publishing
      BY <2>1, LeaseIsFree
    <3> QED BY <2>1, <2>2, <2>4, <3>1, LeaseChanges
  <2> QED BY <2>1, <2>2, <2>3, <2>4, LeaseEnds
<1> QED BY <1>2, <1>3, <1>4, <1>5, <1>6, <1>7 DEF FinishAcquire

\* A death ends the call, and may leave a record of its append.
LEMMA DeathMoves ==
    ASSUME GenLockInv, DirTypes, EngineTypes, Shared, NEW p \in Procs, Own(p), Die(p)
    PROVE  Moved(p)
<1>1. /\ dir' = dir /\ disk' = disk /\ proof' = proof /\ built' = built
      /\ platform' = platform /\ acked' = acked /\ op' = [op EXCEPT ![p] = NoOp]
  BY DEF Die, Fault
<1>2. \A q \in Procs \ {p} : lease'[q] = lease[q]
  <2>1. lease \in [Procs -> LeaseStates]
    BY DEF GenLockInv, LockInv, LockTypeOK
  <2> QED BY <2>1 DEF Die, LeaveBehind, Left, lockVars
<1>3. \A q \in Routers \ {p} : handle'[q] = handle[q]
  BY DEF Die
<1>4. CASE log' = log /\ doubt' = doubt
  <2>1. Quiet
    BY <1>1, <1>4, NothingIsQuiet DEF FilesSame
  <2> QED BY <1>1, <1>2, <1>3, <2>1, EndsAt DEF Moved, Alone
<1>5. CASE p \in Routers /\ op[p].at = "apply" /\ Interrupted(p)
  <2>1. \/ (\A g \in Gens : log'[g].recs = log[g].recs) /\ doubt \subseteq doubt'
        \/ /\ log' = [log EXCEPT ![handle[p].gen].recs = Append(@, op[p].gen)]
           /\ op[p].gen \in doubt'
    BY <1>5, InterruptedLeaves
  <2>2. Exclusively(p)
    BY <1>1, <1>5, <2>1, AppendKeeps
  <2> QED BY <1>1, <1>2, <1>3, <2>2, EndsAt DEF Moved, Alone
<1> QED BY <1>4, <1>5 DEF Die, Appending, Holding, Running
-----------------------------------------------------------------------------
\* Every step.

\* A step of one process.
LEMMA ProcessMoves ==
    ASSUME GenInv, AckInv, Next, ~PowerLoss, ~ClearStale
    PROVE  \E p \in Procs : Moved(p)
<1>1. GenLockInv /\ DirTypes /\ EngineTypes /\ Shared /\ \A p \in Procs : Own(p)
  BY InvariantParts DEF GenInv
<1>2. ASSUME NEW r \in Routers, RoutedNext(r) PROVE \E p \in Procs : Moved(p)
  BY <1>1, <1>2, RoutersAreProcesses, RoutedMoves
<1>3. ASSUME NEW t \in Tools, ToolNext(t) PROVE \E p \in Procs : Moved(p)
  BY <1>1, <1>3, ToolsAreProcesses, SwitchMoves, RetirementMoves DEF ToolNext
<1>4. ASSUME NEW p \in Procs, Acquire(p) \/ Busy(p) \/ FinishAcquire(p) \/ Release(p) \/ Die(p)
      PROVE  \E q \in Procs : Moved(q)
  BY <1>1, <1>4, LeaseMoves, DeathMoves
<1> QED BY <1>2, <1>3, <1>4 DEF Next

\* A step that leaves all but the lock file alone.
LEMMA NothingKeeps ==
    ASSUME AckInv, UNCHANGED <<lease, dirVars, engineVars>>
    PROVE  AckInv'
<1>1. /\ dir' = dir /\ disk' = disk /\ log' = log /\ proof' = proof /\ built' = built
      /\ platform' = platform /\ op' = op /\ handle' = handle /\ lease' = lease
      /\ acked' = acked /\ doubt' = doubt
  BY DEF dirVars, engineVars
<1>2. \A g \in Gens : Exists(g)' <=> Exists(g)
  BY <1>1 DEF Exists
<1>3. Shared'
  BY <1>1, <1>2, InvariantParts
  DEF Shared, LogsInv, FirstInv, AuthorityInv, Sound, Kept
<1>4. ASSUME NEW p \in Procs PROVE Own(p)'
  <2>1. Own(p)
    BY InvariantParts
  <2>2. /\ DurableCandidate(p)' <=> DurableCandidate(p)
        /\ Kept(op[p].gen)' <=> Kept(op[p].gen)
        /\ Reached(op[p].wit.auth)' <=> Reached(op[p].wit.auth)
    BY <1>1 DEF DurableCandidate, Kept, Reached
  <2> QED BY <1>1, <2>1, <2>2 DEF Own
<1> QED BY <1>3, <1>4, InvariantPartsNext

\* A settled authority is the authority of whatever a power loss leaves: its
\* marker survives, and no other that may is higher.
LEMMA ImageAuthority ==
    ASSUME DirTypes, MarkersInv, Settled, NEW d \in Images
    PROVE  /\ d \in Namespaces /\ d["markers"] # {} /\ Authority(d) = Authority(dir)
           /\ \A g \in dir["logs"] \cap disk["logs"] : g \in d["logs"]
<1>1. "markers" \in Kinds /\ "logs" \in Kinds
  BY DEF Kinds
<1>2. /\ d \in Namespaces /\ dir \in Namespaces
      /\ \A k \in Kinds : /\ dir[k] \cap disk[k] \subseteq d[k]
                          /\ d[k] \subseteq dir[k] \cup disk[k]
  BY ImagesKeep DEF DirTypes, Namespaces
<1>3. PICK a : a = Authority(dir)
  OBVIOUS
<1>4. /\ a \in Gens /\ a \in dir["markers"] /\ \A m \in dir["markers"] : m <= a
      /\ a \in disk["markers"]
  BY <1>2, <1>3, AuthorityIs DEF Settled
<1>5. ASSUME NEW m \in d["markers"] PROVE m <= a
  <2>1. CASE m \in dir["markers"]
    BY <1>4, <2>1
  <2>2. CASE m \in disk["markers"]
    <3>1. PICK n \in dir["markers"] : m <= n
      BY <2>2 DEF MarkersInv, Reached
    <3>2. m \in Nat /\ n \in Nat /\ a \in Nat
      BY <1>1, <1>2, <1>4 DEF Namespaces, Gens
    <3> QED BY <1>4, <3>1, <3>2
  <2> QED BY <1>1, <1>2, <2>1, <2>2
<1>6. a \in d["markers"]
  BY <1>1, <1>2, <1>4
<1>7. Authority(d) = Authority(dir)
  BY <1>2, <1>3, <1>4, <1>5, <1>6, SameAuthority
<1> QED BY <1>1, <1>2, <1>6, <1>7

\* The power fails only when the authority is settled, or before there is one.
CalmPowerLoss == PowerLoss => Settled \/ dir["markers"] = {}
CalmPower == [][CalmPowerLoss]_vars

\* Then it keeps the invariant.
LEMMA CalmLossKeeps ==
    ASSUME GenInv, AckInv, PowerLoss, CalmPowerLoss
    PROVE  AckInv'
<1>1. /\ dir' \in Images /\ disk' = dir' /\ log' = log /\ proof' = proof /\ built' = built
      /\ platform' = platform /\ op' = [p \in Procs |-> NoOp]
      /\ Settled \/ dir'["markers"] = {} => acked' = acked /\ doubt' = doubt
  BY DEF PowerLoss, Fault
<1>2. DirTypes /\ MarkersInv /\ Shared
  BY InvariantParts DEF GenInv
<1>3. /\ dir' \in Namespaces
      /\ \A k \in Kinds : dir'[k] \subseteq dir[k] \cup disk[k]
  BY <1>1, <1>2, ImagesKeep DEF DirTypes, Namespaces
<1>4. dir'["logs"] \cup disk'["logs"] \subseteq dir["logs"] \cup disk["logs"]
  BY <1>1, <1>3 DEF Kinds
<1>5. ASSUME NEW p \in Procs PROVE Own(p)'
  <2>1. op'[p].at \in Resting
    BY <1>1, NoOpIsCall DEF Resting
  <2> QED BY <2>1, EasyPlaces
<1>6. CASE Settled
  <2>1. /\ dir'["markers"] # {} /\ Authority(dir') = Authority(dir)
        /\ \A g \in dir["logs"] \cap disk["logs"] : g \in dir'["logs"]
    BY <1>1, <1>2, <1>6, ImageAuthority
  <2>2. dir["markers"] # {}
    BY <1>6 DEF Settled
  <2>3. Authority(dir) \in dir["logs"] /\ Authority(dir) \in disk["logs"]
    BY <1>2, <2>2 DEF Shared, AuthorityInv, Sound
  <2>4. FilesSame
    BY <1>1, <1>6 DEF FilesSame
  <2>5. Authority(dir) \in dir'["logs"] /\ Authority(dir) \in disk'["logs"]
    BY <1>1, <2>1, <2>3
  <2>6. Shared'
    BY <1>2, <1>4, <2>1, <2>2, <2>4, <2>5, SharedStays
  <2> QED BY <1>5, <2>6, InvariantPartsNext
<1>7. CASE dir["markers"] = {}
  <2>1. disk["markers"] = {}
    BY <1>2, <1>7 DEF MarkersInv, Reached
  <2>2. dir'["markers"] = {}
    BY <1>3, <1>7, <2>1 DEF Kinds
  <2>3. acked' = acked /\ doubt' = doubt
    BY <1>1, <2>2
  <2>4. LogsInv'
    BY <1>1, <1>2, <1>4 DEF Shared, LogsInv, Exists
  <2>5. FirstInv'
    BY <1>1, <1>2, <1>7, <2>3 DEF Shared, FirstInv, Kept
  <2>6. AuthorityInv'
    BY <2>2 DEF AuthorityInv
  <2> QED BY <1>5, <2>4, <2>5, <2>6, InvariantPartsNext DEF Shared
<1> QED BY <1>6, <1>7 DEF CalmPowerLoss

\* At the start there is generation 1, empty, and nothing was acknowledged.
LEMMA AckInitially == Init => AckInv
<1> SUFFICES ASSUME Init PROVE AckInv
  OBVIOUS
<1>1. /\ disk = dir /\ log = [g \in Gens |-> NoLog] /\ built = [g \in Gens |-> 0]
      /\ proof = [g \in Gens |-> IF g = 1 THEN << >> ELSE Torn]
      /\ op = [p \in Procs |-> NoOp] /\ acked = 0 /\ doubt = {}
  BY DEF Init, DirInit
<1>2. dir["logs"] = {1} /\ dir["markers"] \in {{}, {1}}
  BY DEF Init, DirInit, Kinds
<1>3. 1 \in Gens
  BY MaxGenIsPositive DEF Gens
<1>4. log[1].recs = << >> /\ proof[1] = << >>
  BY <1>1, <1>3, NoLogIsFile
<1>5. Kept(1)
  BY <1>1, <1>4 DEF Kept, Live
<1>6. LogsInv /\ FirstInv
  BY <1>1, <1>2, <1>5 DEF LogsInv, FirstInv, Exists
<1>7. AuthorityInv
  <2> SUFFICES ASSUME dir["markers"] # {} PROVE Sound(Authority(dir))
    BY DEF AuthorityInv
  <2>1. dir \in Namespaces
    BY GenInitially DEF GenInv, DirTypes, Namespaces
  <2>2. Authority(dir) = 1
    BY <1>2, <2>1, AuthorityIs
  <2>3. << >> \in Seq(0 .. MaxWrites)
    OBVIOUS
  <2>4. IsPrefix(proof[1], log[1].recs)
    BY <1>4, <2>3, PrefixOfItself
  <2>5. Sound(1)
    BY <1>1, <1>2, <1>4, <1>5, <2>3, <2>4 DEF Sound
  <2> QED BY <2>2, <2>5
<1>8. ASSUME NEW p \in Procs PROVE Own(p)
  <2>1. op[p].at = "idle"
    BY <1>1, NoOpIsCall
  <2> QED BY <2>1 DEF Own, Locked, Publishing, Unbuilt
<1> QED BY <1>6, <1>7, <1>8, InvariantParts DEF Shared

\* Every step preserves it, when power losses are calm.
LEMMA AckPreserved ==
    ASSUME GenInv, AckInv, [Next]_vars, [CalmPowerLoss]_vars
    PROVE  AckInv'
<1>1. CASE UNCHANGED vars
  BY <1>1, NothingKeeps DEF vars, lockVars
<1>2. CASE ClearStale
  BY <1>2, NothingKeeps DEF ClearStale
<1>3. CASE PowerLoss /\ CalmPowerLoss
  BY <1>3, CalmLossKeeps
<1>4. CASE Next /\ ~PowerLoss /\ ~ClearStale
  BY <1>4, ProcessMoves, MovedKeeps
<1> QED BY <1>1, <1>2, <1>3, <1>4

\* The inductive invariant of durability: what is exclusive is done with the
\* lease, a candidate has the live state of the authority and a durable log
\* before its marker appears, and the authority has its log.
THEOREM DurabilityInvariance == Spec /\ CalmPower => []AckInv
<1>1. Init => AckInv
  BY AckInitially
<1>2. GenInv /\ AckInv /\ [Next]_vars /\ [CalmPowerLoss]_vars => AckInv'
  BY AckPreserved
<1>3. Spec => []GenInv
  BY GenerationInvariance
<1> QED BY <1>1, <1>2, <1>3, PTL DEF Spec, CalmPower

\* No switch, cleanup, retirement, failed call, death or calm power loss, and
\* no interleaving of them, loses an acknowledged write: whatever a power loss
\* leaves of a settled namespace has the authority, its log, the prefix its
\* marker proves, and a live state that was acknowledged last or is in doubt.
THEOREM AcknowledgedWritesSurvive == Spec /\ CalmPower => []AckedSurvives
<1>1. GenInv /\ AckInv => AckedSurvives
  <2> SUFFICES ASSUME GenInv, AckInv, Settled, NEW d \in Images
               PROVE  /\ d["markers"] # {}
                      /\ Authority(d) = Authority(dir)
                      /\ Authority(d) \in d["logs"]
                      /\ IsPrefix(proof[Authority(d)], log[Authority(d)].recs)
                      /\ Live(log[Authority(d)].recs) \in {acked} \cup doubt
    BY DEF AckedSurvives
  <2>1. /\ d["markers"] # {} /\ Authority(d) = Authority(dir)
        /\ \A g \in dir["logs"] \cap disk["logs"] : g \in d["logs"]
    BY ImageAuthority DEF GenInv
  <2>2. Sound(Authority(dir))
    BY DEF Settled, AckInv, AuthorityInv
  <2>3. PICK a : a = Authority(dir)
    OBVIOUS
  <2>4. Sound(a) /\ Authority(d) = a
    BY <2>1, <2>2, <2>3
  <2> QED BY <2>1, <2>4 DEF Sound, Kept
<1> QED BY <1>1, GenerationInvariance, DurabilityInvariance, PTL
-----------------------------------------------------------------------------
\* What a routed handle reads, when there is only one.

SoleHandle == \A r, s \in Routers : r = s

\* Its index is in step with the generation it is routed to, which is one that
\* is never written by a copy again; a get has returned what it may.
InStepInv ==
    \A r \in Routers : handle[r].gen \in Gens =>
        /\ Exists(handle[r].gen)
        /\ handle[r].inner = "ok" => handle[r].seen = Len(log[handle[r].gen].recs)
ReadsInv == InStepInv /\ misread = FALSE

\* Logs that exist stay as they are.
Untouched == \A g \in Gens : Exists(g) => Exists(g)' /\ log'[g].recs = log[g].recs

\* A command writes only a log that does not exist yet.
LEMMA CommandsWriteNew ==
    ASSUME GenInv, AckInv, NEW t \in Procs, SwitchNext(t) \/ RetirementNext(t)
    PROVE  Untouched
<1>1. \/ log' = log /\ built' = built
      \/ /\ op[t].at = "build"
         /\ log' = [log EXCEPT ![op[t].gen] = CompactCopy(op[t].src)]
         /\ built' = [built EXCEPT ![op[t].gen] = @ + 1]
  <2>1. CASE PublishCopy(t) \/ PublishCopyErrs(t)
    BY <2>1, SMTT(30) DEF PublishCopy, PublishCopyErrs, Running
  <2>2. CASE SwitchNext(t) /\ ~PublishCopy(t) /\ ~PublishCopyErrs(t)
    BY <2>2, ZenonT(60) DEF SwitchNext, BeginReserving, BeginPublishing, SyncDirectory, SyncFails, Reserve,
        ReserveErrs, Reserved, Survey, StartCopy, CopyErrs, TidyCopy, Recheck, Publish,
        Stage, Fill, Link, LinkErrs, Published
  <2>3. CASE RetirementNext(t)
    BY <2>3, Zenon DEF RetirementNext, SyncDirectory, SyncFails, BeginCleanup, PlanCleanup, RetireMarkers,
        Reverify, RetireLogs, InspectOrphan, ConfirmBuilderStopped, MatchOrphan,
        UnstageOrphan, UnlinkOrphan
  <2> QED BY <2>1, <2>2, <2>3
<1>2. CASE log' = log /\ built' = built
  BY <1>2 DEF Untouched, Exists
<1>3. CASE /\ op[t].at = "build"
           /\ log' = [log EXCEPT ![op[t].gen] = CompactCopy(op[t].src)]
           /\ built' = [built EXCEPT ![op[t].gen] = @ + 1]
  <2>1. op[t].gen \in Gens
    BY <1>3, GenTyped DEF GenInv, WithGeneration
  <2>2. built[op[t].gen] = 0 /\ op[t].gen # 1
    BY <1>3, InvariantParts DEF GenInv, FrontierInv, Own, Unbuilt
  <2>3. \A g \in Gens : Exists(g) => g # op[t].gen
    BY <2>2 DEF Exists
  <2>4. \A g \in Gens \ {op[t].gen} : log'[g] = log[g] /\ built'[g] = built[g]
    BY <1>3, <2>1 DEF GenInv, DirTypes
  <2> QED BY <2>3, <2>4 DEF Untouched, Exists
<1> QED BY <1>1, <1>2, <1>3

\* Handles that stay, fail or are closed remain in step.
LEMMA InStepStays ==
    ASSUME InStepInv, Untouched,
           \A r \in Routers :
              \/ handle'[r] = Closed
              \/ /\ handle'[r].gen = handle[r].gen
                 /\ \/ handle'[r].inner = handle[r].inner /\ handle'[r].seen = handle[r].seen
                    \/ handle'[r].inner = "poisoned"
    PROVE  InStepInv'
<1> SUFFICES ASSUME NEW r \in Routers, handle'[r].gen \in Gens
             PROVE  /\ Exists(handle[r].gen)'
                    /\ handle'[r].inner = "ok" =>
                          handle'[r].seen = Len(log'[handle'[r].gen].recs)
  BY DEF InStepInv, Exists
<1>1. handle'[r] # Closed
  BY DEF Closed, Gens
<1>2. /\ handle'[r].gen = handle[r].gen
      /\ \/ handle'[r].inner = handle[r].inner /\ handle'[r].seen = handle[r].seen
         \/ handle'[r].inner = "poisoned"
  BY <1>1
<1>3. PICK g \in Gens : g = handle[r].gen
  BY <1>2
<1>4. Exists(g) /\ (handle[r].inner = "ok" => handle[r].seen = Len(log[g].recs))
  BY <1>3 DEF InStepInv
<1>5. Exists(g)' /\ log'[g].recs = log[g].recs
  BY <1>4 DEF Untouched
<1>6. Exists(handle[r].gen)'
  BY <1>2, <1>3, <1>5 DEF Exists
<1> QED BY <1>2, <1>3, <1>4, <1>5, <1>6

\* Logs and counts that do not change are untouched.
LEMMA SameIsUntouched ==
    ASSUME \A g \in Gens : log'[g].recs = log[g].recs, built' = built
    PROVE  Untouched
BY DEF Untouched, Exists

\* Routing adopts a generation as it is.
LEMMA RoutingInStep ==
    ASSUME GenInv, AckInv, InStepInv, NEW r \in Routers,
           Route(r) \/ Resolve(r) \/ Resolved(r)
    PROVE  InStepInv' /\ misread' = misread
<1>1. built' = built /\ misread' = misread
  BY DEF Route, Resolve, Resolved
<1>2. Untouched
  <2>1. \A g \in Gens : log'[g].recs = log[g].recs
    <3>1. log' = log \/ log' = [log EXCEPT ![Authority(dir)].tail = FALSE]
      BY DEF Route, Resolve, Resolved
    <3>2. CASE log' = log
      BY <3>2
    <3>3. CASE log' = [log EXCEPT ![Authority(dir)].tail = FALSE]
      BY <3>3 DEF GenInv, DirTypes, File
    <3> QED BY <3>1, <3>2, <3>3
  <2> QED BY <1>1, <2>1, SameIsUntouched
<1>3. handle \in [Routers -> Handles]
  BY DEF GenInv, EngineTypes
<1>4. CASE handle' = handle \/ Poison(r)
  <2>1. \A q \in Routers : /\ handle'[q].gen = handle[q].gen
                           /\ handle'[q].inner = handle[q].inner
                           /\ handle'[q].seen = handle[q].seen
    BY <1>3, <1>4 DEF Poison, Handles
  <2> QED BY <1>1, <1>2, <2>1, InStepStays
<1>5. CASE /\ Resolved(r) /\ Verifies(dir)
           /\ handle' = [handle EXCEPT ![r] =
                 [status |-> "open", gen |-> Authority(dir),
                  seen |-> Len(log[Authority(dir)].recs), inner |-> "ok"]]
  <2>1. PICK a : a = Authority(dir)
    OBVIOUS
  <2>2. a \in Gens /\ Exists(a)
    <3>1. a \in Gens /\ dir["markers"] # {}
      BY <1>5, <2>1, AuthorityIs DEF Verifies, GenInv, DirTypes, Namespaces
    <3>2. a \in dir["logs"]
      BY <2>1, <3>1 DEF AckInv, AuthorityInv, Sound
    <3> QED BY <3>1, <3>2 DEF AckInv, LogsInv
  <2>3. log' = log
    BY <1>5 DEF Resolved
  <2>4. handle'[r].gen = a /\ handle'[r].seen = Len(log[a].recs)
    BY <1>3, <1>5, <2>1
  <2>5. \A q \in Routers \ {r} : handle'[q] = handle[q]
    BY <1>3, <1>5
  <2>6. InStepInv'
    BY <1>1, <2>2, <2>3, <2>4, <2>5 DEF InStepInv, Exists
  <2> QED BY <1>1, <2>6
<1>6. CASE Resolved(r)
  BY <1>4, <1>5, <1>6 DEF Resolved
<1> QED BY <1>4, <1>6 DEF Route, Resolve

\* A get answers with the live state of the authority.
LEMMA GetAnswers ==
    ASSUME GenInv, AckInv, ReadsInv, NEW r \in Routers, Get(r)
    PROVE  ReadsInv'
<1>1. /\ log' = log /\ built' = built /\ handle' = handle /\ op[r].at = "apply"
  BY DEF Get, Holding, Running
<1>2. InStepInv'
  <2>1. Untouched
    BY <1>1 DEF Untouched, Exists
  <2> QED BY <1>1, <2>1, InStepStays DEF ReadsInv
<1>3. misread' = FALSE
  <2>1. /\ dir["markers"] # {} /\ handle[r].gen = Authority(dir)
    BY <1>1, RoutersAreProcesses DEF AckInv, RoutingInv
  <2>2. PICK a : a = Authority(dir)
    OBVIOUS
  <2>3. a \in Gens /\ Kept(a) /\ handle[r].gen = a
    BY <2>1, <2>2, AuthorityIs
    DEF GenInv, DirTypes, Namespaces, AckInv, AuthorityInv, Sound
  <2>4. ASSUME handle[r].inner = "ok" PROVE Live(Replayed(r)) \in {acked} \cup doubt
    <3>1. handle[r].seen = Len(log[a].recs)
      BY <2>3, <2>4 DEF ReadsInv, InStepInv
    <3>2. log[a].recs \in Seq(0 .. MaxWrites)
      BY <2>3 DEF GenInv, DirTypes, File
    <3>3. Replayed(r) = log[a].recs
      BY <2>3, <3>1, <3>2 DEF Replayed
    <3> QED BY <2>3, <3>3 DEF Kept
  <2> QED BY <2>4, Zenon DEF Get, ReadsInv
<1> QED BY <1>2, <1>3 DEF ReadsInv

\* An append of the only handle keeps its index in step, or poisons it.
LEMMA AppendInStep ==
    ASSUME SoleHandle, GenInv, InStepInv, NEW r \in Routers, Append1(r) \/ AppendFails(r)
    PROVE  InStepInv' /\ misread' = misread
<1>1. built' = built /\ misread' = misread
  BY DEF Append1, AppendFails
<1>2. /\ handle \in [Routers -> Handles] /\ log \in [Gens -> File]
      /\ \A q \in Routers : q = r
  BY DEF GenInv, EngineTypes, DirTypes, SoleHandle
<1>3. PICK g : g = handle[r].gen
  OBVIOUS
<1>4. PICK v : v = op[r].gen
  OBVIOUS
<1>5. CASE handle' = [handle EXCEPT ![r].inner = "poisoned"]
  <2>1. handle'[r].inner = "poisoned" /\ handle'[r].gen = g
    BY <1>2, <1>3, <1>5 DEF Handles
  <2>2. g \in Gens => Exists(g)'
    BY <1>1, <1>3 DEF InStepInv, Exists
  <2> QED BY <1>1, <1>2, <2>1, <2>2 DEF InStepInv, Exists
<1>6. CASE /\ log' = [log EXCEPT ![handle[r].gen].recs = Append(@, op[r].gen)]
           /\ handle' = [handle EXCEPT ![r].seen = @ + 1] /\ handle[r].inner = "ok"
  <2>1. /\ handle'[r].gen = g /\ handle'[r].seen = handle[r].seen + 1
    BY <1>2, <1>3, <1>6 DEF Handles
  <2>2. ASSUME g \in Gens
        PROVE  Exists(g)' /\ handle'[r].seen = Len(log'[g].recs)
    <3>1. log[g].recs \in Seq(0 .. MaxWrites)
      BY <1>2, <2>2 DEF File
    <3>2. log'[g].recs = Append(log[g].recs, v)
      <4>1. log' = [log EXCEPT ![g].recs = Append(@, v)]
        BY <1>3, <1>4, <1>6
      <4> QED BY <1>2, <2>2, <4>1 DEF File
    <3>3. Exists(g) /\ handle[r].seen = Len(log[g].recs)
      BY <1>3, <1>6, <2>2 DEF InStepInv
    <3>4. Len(Append(log[g].recs, v)) = Len(log[g].recs) + 1
      BY <3>1
    <3> QED BY <1>1, <2>1, <3>2, <3>3, <3>4 DEF Exists
  <2> QED BY <1>1, <1>2, <2>1, <2>2 DEF InStepInv, Exists
<1> QED BY <1>5, <1>6 DEF Append1, AppendFails

\* Every step keeps the only handle in step and its answers right.
LEMMA ReadsPreserved ==
    ASSUME SoleHandle, GenInv, AckInv, ReadsInv, [Next]_vars
    PROVE  ReadsInv'
<1>1. ASSUME Untouched, handle' = handle, misread' = misread PROVE ReadsInv'
  BY <1>1, InStepStays DEF ReadsInv
<1>2. ASSUME log' = log, built' = built, handle' = handle, misread' = misread
      PROVE  ReadsInv'
  BY <1>1, <1>2, SameIsUntouched
<1>3. CASE UNCHANGED vars \/ ClearStale
  BY <1>2, <1>3 DEF vars, dirVars, engineVars, ClearStale
<1>4. ASSUME NEW t \in Tools, ToolNext(t) PROVE ReadsInv'
  BY <1>1, <1>4, CommandsWriteNew, ToolsAreProcesses DEF ToolNext, engineVars
<1>5. ASSUME NEW r \in Routers, RoutedNext(r) PROVE ReadsInv'
  <2>1. ASSUME NEW kind, BeginCall(r, kind) PROVE ReadsInv'
    BY <1>2, <2>1 DEF BeginCall
  <2>2. CASE Route(r) \/ Resolve(r) \/ Resolved(r)
    BY <2>2, RoutingInStep DEF ReadsInv
  <2>3. CASE Append1(r) \/ AppendFails(r)
    BY <2>3, AppendInStep DEF ReadsInv
  <2> QED BY <1>5, <2>1, <2>2, <2>3, GetAnswers DEF RoutedNext
<1>6. ASSUME NEW p \in Procs, Acquire(p) \/ Busy(p) \/ FinishAcquire(p) \/ Release(p)
      PROVE  ReadsInv'
  BY <1>2, <1>6 DEF Acquire, Busy, FinishAcquire, Release, dirVars, engineVars
<1>7. ASSUME handle' = [r \in Routers |-> Closed], misread' = misread PROVE ReadsInv'
  <2>1. \A r \in Routers : handle'[r].gen \notin Gens
    BY <1>7 DEF Closed, Gens
  <2> QED BY <1>7, <2>1 DEF ReadsInv, InStepInv
<1>8. CASE PowerLoss
  BY <1>7, <1>8 DEF PowerLoss
<1>9. ASSUME NEW p \in Procs, Die(p) PROVE ReadsInv'
  <2>1. CASE p \in Routers
    <3>1. handle' = [r \in Routers |-> Closed] /\ misread' = misread
      BY <1>9, <2>1 DEF Die, SoleHandle
    <3> QED BY <1>7, <3>1
  <2>2. CASE p \notin Routers
    <3>1. log' = log /\ built' = built /\ misread' = misread
      BY <1>9, <2>2 DEF Die
    <3>2. handle' = handle
      BY <1>9, <2>2 DEF Die, GenInv, EngineTypes
    <3> QED BY <1>2, <3>1, <3>2
  <2> QED BY <2>1, <2>2
<1> QED BY <1>3, <1>4, <1>5, <1>6, <1>8, <1>9 DEF Next

\* A get on the only routed handle returns the last acknowledged value or one
\* in doubt, across the switches it has not noticed, the reopens after its own
\* failures and the deaths of others.
THEOREM SoleHandleReadsAcked ==
    ASSUME SoleHandle
    PROVE  Spec /\ CalmPower => []ReadsAcked
<1>1. Init => ReadsInv
  <2> SUFFICES ASSUME Init PROVE ReadsInv
    OBVIOUS
  <2>1. \A r \in Routers : handle[r].gen \notin Gens
    BY DEF Init, Closed, Gens
  <2> QED BY <2>1 DEF Init, ReadsInv, InStepInv
<1>2. GenInv /\ AckInv /\ ReadsInv /\ [Next]_vars => ReadsInv'
  BY ReadsPreserved
<1>3. ReadsInv => ReadsAcked
  BY DEF ReadsInv, ReadsAcked
<1> QED BY <1>1, <1>2, <1>3, GenerationInvariance, DurabilityInvariance, PTL DEF Spec
-----------------------------------------------------------------------------
(***************************************************************************)
(* The two offline commands lose no record of the legacy file, for every   *)
(* number of commands, raw writers' records, routed handles, failures and  *)
(* power losses.                                                           *)
(*                                                                         *)
(* The argument: a fresh target has one importer at most, because the      *)
(* target's name appears once; when it reports success generation 1 is     *)
(* durable and nothing rewrites its marker.  On Unix the retained name is  *)
(* durable before the sentinel appears, and it names the very file a raw   *)
(* writer may still append to.  On Windows no raw writer runs beside a     *)
(* cutover, so what was compared under the lease is still the legacy state *)
(* when the sentinel replaces it, whether or not the retained copy lasts.  *)
(***************************************************************************)

\* Where a migration runs once it has made the target directory ...
ImportPlaces ==
    {"mkdirSync", "import", "build", "tidyCopy", "compare", "publish",
     "baseSync", "stage", "fill", "link", "linkSync", "published"}

\* ... and a cutover once it has checked it.
CutoverPlaces ==
    {"retain", "sentinel", "resource", "retainLink", "linkedSync", "confirm",
     "replace", "replaceSync", "final"}

LegacyPlaces == ImportPlaces \cup CutoverPlaces \cup Routed
                    \cup {"idle", "leave", "capture", "mkdir", "enter"}

\* Where the lease is held.
UnderLease == CutoverPlaces \cup {"publish", "baseSync", "stage", "fill",
                                  "link", "linkSync", "published"}

LegacyFiles == [recs : Seq(Nat), tail : BOOLEAN]
LegacyWitnesses == [auth : 0 .. MaxGen, proof : Seq(Nat) \cup {Torn, None},
                    log : LegacyFiles]
LegacyCalls == [kind : CallKinds \cup {"migrate", "cutover"},
                at : LegacyPlaces, gen : Nat, wit : LegacyWitnesses,
                src : LegacyFiles, dirty : BOOLEAN]

LegacyTypes ==
    /\ platform \in {"unix", "windows"}
    /\ dir \in Namespaces /\ disk \in Namespaces
    /\ log \in [Gens -> LegacyFiles]
    /\ proof \in [Gens -> Seq(Nat) \cup {Torn}]
    /\ op \in [Procs -> LegacyCalls]
    /\ writes \in Nat
    /\ source \in LegacyFiles /\ copy \in LegacyFiles
    /\ handed \in LegacyFiles
    /\ names \in [Names -> BOOLEAN] /\ kept \in [Names -> BOOLEAN]
    /\ raw \in BOOLEAN /\ migrated \in BOOLEAN

\* A command, its place and the lease.
PlaceOK(p) ==
    /\ op[p].kind = "migrate" => op[p].gen = 1
    /\ op[p].at \in ImportPlaces \cup {"mkdir"} => op[p].kind = "migrate"
    /\ op[p].at \in CutoverPlaces => op[p].kind = "cutover"
    /\ op[p].kind = "cutover" => p \in Tools
    /\ op[p].at \in UnderLease => lease[p] = "held"

Importing(c) ==
    c.at \in ImportPlaces \/ (c.at = "enter" /\ c.kind = "migrate")

\* What an importer has made of generation 1.
ImportOK(p) ==
    /\ Importing(op[p]) =>
          /\ ~migrated /\ names["target"]
          /\ op[p].at # "mkdirSync" => kept["target"]
    /\ op[p].at \in {"tidyCopy", "compare", "publish", "baseSync"} =>
          1 \in dir["logs"] /\ (Unix \/ 1 \in disk["logs"])
    /\ op[p].at \in {"stage", "fill", "link", "linkSync", "published"} =>
          1 \in dir["logs"] /\ 1 \in disk["logs"]
    /\ op[p].at \in {"link", "linkSync", "published"} =>
          proof[1] = log[1].recs
    /\ op[p].at \in {"linkSync", "published"} => 1 \in dir["markers"]
    /\ op[p].at = "published" => 1 \in disk["markers"]

OneImporter ==
    \A p, q \in Procs : Importing(op[p]) /\ Importing(op[q]) => p = q

\* Names a cutover on Unix relies on ...
OnUnix(p) ==
    /\ op[p].at # "retain"
    /\ op[p].at \in {"sentinel", "resource", "retainLink"} =>
          ~names["retained"]
    /\ op[p].at \in {"linkedSync", "confirm"} =>
          names["retained"] /\ ~names["sentinel"]
    /\ op[p].at \in {"confirm", "replace"} =>
          names["retained"] /\ kept["retained"]
    /\ op[p].at = "replaceSync" => names["sentinel"]

\* ... and names and states on Windows.
OnWindows(p) ==
    /\ op[p].at \notin {"retainLink", "linkedSync", "confirm", "replaceSync"}
    /\ op[p].kind = "cutover" =>
          ~raw /\ (names["sentinel"] => names["retained"])
    /\ op[p].at \in {"sentinel", "resource", "replace"} => names["retained"]
    /\ op[p].at = "replace" =>
          proof[1] = log[1].recs /\ Live(proof[1]) = Live(source.recs)

CutoverOK(p) ==
    /\ op[p].kind = "cutover" => migrated
    /\ op[p].at \in CutoverPlaces =>
          Live(op[p].wit.log.recs) = Live(op[p].src.recs)
    /\ op[p].at = "final" => names["sentinel"] /\ kept["sentinel"]
    /\ Unix => OnUnix(p)
    /\ ~Unix => OnWindows(p)

CallOK(p) == PlaceOK(p) /\ ImportOK(p) /\ CutoverOK(p)

\* The imported generation is authoritative after any power loss.
TargetLasts ==
    /\ names["target"] /\ kept["target"]
    /\ 1 \in dir["logs"] /\ 1 \in disk["logs"]
    /\ 1 \in dir["markers"] /\ 1 \in disk["markers"]
    /\ proof[1] # Torn /\ IsPrefix(proof[1], log[1].recs)

MigratedInv == migrated => TargetLasts

SentinelInv ==
    /\ kept["sentinel"] => names["sentinel"]
    /\ names["sentinel"] /\ Unix => names["retained"] /\ kept["retained"]
    /\ names["sentinel"] /\ ~Unix =>
          migrated /\ ~raw /\ Live(proof[1]) = Live(source.recs)

HandedInv ==
    handed # NoLog =>
        /\ migrated /\ names["sentinel"] /\ kept["sentinel"]
        /\ Live(proof[1]) = Live(handed.recs)
        /\ IsPrefix(handed.recs, Retained.recs)

NamesInv == MigratedInv /\ SentinelInv /\ HandedInv

LegacyInv ==
    /\ LockInv /\ LegacyTypes
    /\ \A p \in Procs : CallOK(p)
    /\ OneImporter /\ NamesInv
-----------------------------------------------------------------------------
\* Calls.

\* A process without a call, and one that only has to drop the lease.
LEMMA IdleIsCall ==
    /\ NoOp \in LegacyCalls /\ Leaving \in LegacyCalls
    /\ NoOp.at = "idle" /\ NoOp.kind = "none"
    /\ Leaving.at = "leave" /\ Leaving.kind = "none"
<1>1. NoLog \in LegacyFiles
  <2>1. << >> \in Seq(Nat)
    OBVIOUS
  <2> QED BY <2>1 DEF NoLog, LegacyFiles
<1>2. NoWitness \in LegacyWitnesses
  BY <1>1, MaxGenIsPositive DEF NoWitness, LegacyWitnesses
<1>3. "none" \in CallKinds /\ "idle" \in LegacyPlaces /\ "leave" \in LegacyPlaces
  BY DEF CallKinds, LegacyPlaces
<1>4. NoOp \in LegacyCalls
  <2>1. 0 \in Nat
    OBVIOUS
  <2> QED BY <1>1, <1>2, <1>3, <2>1, Zenon DEF NoOp, LegacyCalls
<1>5. Leaving \in LegacyCalls /\ Leaving.at = "leave" /\ Leaving.kind = "none"
  BY <1>3, <1>4 DEF Leaving, LegacyCalls, NoOp
<1> QED BY <1>4, <1>5 DEF NoOp

\* Another part of a call than its control.
LEMMA LegacyCallAt ==
    ASSUME NEW c \in LegacyCalls, NEW at \in LegacyPlaces
    PROVE  /\ [c EXCEPT !.at = at] \in LegacyCalls /\ [c EXCEPT !.at = at].at = at
           /\ [c EXCEPT !.at = at].gen = c.gen /\ [c EXCEPT !.at = at].wit = c.wit
           /\ [c EXCEPT !.at = at].kind = c.kind /\ [c EXCEPT !.at = at].src = c.src
BY DEF LegacyCalls

\* A call that ends or leaves has no more to answer for.
LEMMA IdleIsOK ==
    ASSUME NEW p \in Procs, op'[p] \in {NoOp, Leaving}
    PROVE  CallOK(p)' /\ ~Importing(op'[p])
BY IdleIsCall
DEF CallOK, PlaceOK, ImportOK, CutoverOK, OnUnix, OnWindows, Importing,
    ImportPlaces, CutoverPlaces, UnderLease
-----------------------------------------------------------------------------
\* Steps and their frames.

\* The lease has one holder.
LEMMA OneHolder ==
    ASSUME LockInv, NEW p \in Procs, NEW q \in Procs,
           lease[p] = "held", lease[q] = "held"
    PROVE  p = q
BY DEF LockInv, OneInProtocol, InProtocol

\* The invariant of the next state, part by part.
LEMMA PartsKeep ==
    ASSUME LegacyInv, LockInv', LegacyTypes', NamesInv', NEW p \in Procs,
           op' = [op EXCEPT ![p] = op'[p]], CallOK(p)',
           \A q \in Procs : q # p => CallOK(q)',
           \/ ~Importing(op'[p]) \/ Importing(op[p])
           \/ \A q \in Procs : ~Importing(op[q])
    PROVE  LegacyInv'
<1>1. op \in [Procs -> LegacyCalls] /\ OneImporter
  BY DEF LegacyInv, LegacyTypes
<1>2. \A q \in Procs : q # p => op'[q] = op[q]
  BY <1>1
<1>3. \A q \in Procs : CallOK(q)'
  OBVIOUS
<1>4. ASSUME NEW q \in Procs, NEW r \in Procs, Importing(op'[q]), Importing(op'[r])
      PROVE  q = r
  <2>1. \A u \in Procs : u # p => (Importing(op'[u]) <=> Importing(op[u]))
    BY <1>2
  <2> QED BY <1>1, <1>4, <2>1 DEF OneImporter
<1> QED BY <1>3, <1>4 DEF LegacyInv, OneImporter

\* What the step of another process leaves of a call.
CallStays(q) ==
    /\ op'[q] = op[q] /\ platform' = platform
    /\ op[q].at \in UnderLease => lease'[q] = "held"

\* Neither an importer nor a cutover: whatever happens to the files.
LEMMA BystanderKeeps ==
    ASSUME NEW q \in Procs, CallOK(q), CallStays(q),
           ~Importing(op[q]), op[q].kind # "cutover"
    PROVE  CallOK(q)'
<1>1. op[q].at \notin ImportPlaces \cup CutoverPlaces
  BY DEF CallOK, PlaceOK, Importing
<1> QED
  BY <1>1
  DEF CallOK, PlaceOK, ImportOK, CutoverOK, OnUnix, OnWindows, CallStays, Importing,
      Unix, ImportPlaces, CutoverPlaces

\* A step of the importer, or the one that makes the target: the sentinel's
\* side of the names is not its business.
ImportFrame ==
    /\ UNCHANGED <<platform, source, copy, raw, handed>>
    /\ \A n \in {"retained", "sentinel"} :
          names'[n] = names[n] /\ kept'[n] = kept[n]

\* The other calls do not import, and no cutover runs before a success, so
\* such a step keeps the invariant.
LEMMA ImporterKeeps ==
    ASSUME LegacyInv, NEW p \in Procs, Importing(op[p]) \/ ~names["target"],
           op' = [op EXCEPT ![p] = op'[p]], LegacyTypes', UNCHANGED lockVars,
           ImportFrame, CallOK(p)', migrated' => TargetLasts'
    PROVE  LegacyInv'
<1>1. ~migrated
  BY DEF LegacyInv, CallOK, ImportOK, NamesInv, MigratedInv, TargetLasts
<1>2. \A q \in Procs : q # p => ~Importing(op[q])
  BY DEF LegacyInv, OneImporter, CallOK, ImportOK
<1>3. \A q \in Procs : op[q].kind # "cutover"
  BY <1>1 DEF LegacyInv, CallOK, CutoverOK
<1>4. LockInv'
  <2>1. [LockNext]_lockVars
    OBVIOUS
  <2> QED BY <2>1, LockStep DEF LegacyInv
<1>5. ASSUME NEW q \in Procs, q # p PROVE CallOK(q)'
  <2>1. op'[q] = op[q]
    BY <1>5 DEF LegacyInv, LegacyTypes
  <2>2. CallOK(q)
    BY DEF LegacyInv
  <2>3. CallStays(q)
    BY <2>1, <2>2 DEF CallStays, ImportFrame, lockVars, CallOK, PlaceOK
  <2> QED BY <1>2, <1>3, <1>5, <2>2, <2>3, BystanderKeeps
<1>6. NamesInv'
  <2>1. MigratedInv'
    BY DEF MigratedInv
  <2>2. SentinelInv'
    BY <1>1 DEF LegacyInv, NamesInv, SentinelInv, ImportFrame, Unix
  <2>3. HandedInv'
    BY <1>1 DEF LegacyInv, NamesInv, HandedInv, ImportFrame
  <2> QED BY <2>1, <2>2, <2>3 DEF NamesInv
<1>7. ~Importing(op'[p]) \/ Importing(op[p]) \/ \A q \in Procs : ~Importing(op[q])
  BY <1>2
<1> QED BY <1>4, <1>5, <1>6, <1>7, PartsKeep

\* A log that only grows keeps every prefix.
LogGrows ==
    \A u \in Seq(Nat) : IsPrefix(u, log[1].recs) => IsPrefix(u, log'[1].recs)

\* A step that changes a call, the lock, and under the lease the log.
CallFrame(p) ==
    /\ UNCHANGED <<platform, dir, disk, proof, legacyVars>>
    /\ log' = log \/ (lease[p] = "held" /\ op[p].at \notin UnderLease /\ LogGrows)
    /\ \A q \in Procs : q # p => lease'[q] = lease[q]

\* It keeps the invariant: other calls rely on the log under the lease only,
\* and names and markers do not move.
LEMMA CallKeeps ==
    ASSUME LegacyInv, NEW p \in Procs, op' = [op EXCEPT ![p] = op'[p]],
           LegacyTypes', LockInv', CallFrame(p), CallOK(p)',
           Importing(op'[p]) => Importing(op[p])
    PROVE  LegacyInv'
<1>1. ASSUME NEW q \in Procs, q # p PROVE CallOK(q)'
  <2>1. /\ op'[q] = op[q] /\ lease'[q] = lease[q]
    BY <1>1 DEF LegacyInv, LegacyTypes, CallFrame
  <2>2. CallOK(q)
    BY DEF LegacyInv
  <2>3. op[q].at \in UnderLease => log' = log
    <3>1. op[q].at \in UnderLease => lease[q] = "held"
      BY <2>2 DEF CallOK, PlaceOK
    <3> QED BY <1>1, <3>1, OneHolder DEF CallFrame, LegacyInv
  <2>4. PlaceOK(q)'
    BY <2>1, <2>2 DEF CallOK, PlaceOK
  <2>5. /\ platform' = platform /\ dir' = dir /\ disk' = disk /\ proof' = proof
        /\ source' = source /\ names' = names /\ kept' = kept /\ raw' = raw
        /\ migrated' = migrated
    BY DEF CallFrame, legacyVars
  <2>6. ImportOK(q)'
    BY <2>1, <2>2, <2>3, <2>5 DEF CallOK, ImportOK, UnderLease, Unix
  <2>7. CutoverOK(q)'
    BY <2>1, <2>2, <2>3, <2>5 DEF CallOK, CutoverOK, OnUnix, OnWindows, UnderLease,
       CutoverPlaces, Unix
  <2> QED BY <2>4, <2>6, <2>7 DEF CallOK
<1>2. NamesInv'
  <2>1. /\ platform' = platform /\ dir' = dir /\ disk' = disk /\ proof' = proof
        /\ source' = source /\ copy' = copy /\ names' = names /\ kept' = kept
        /\ raw' = raw /\ migrated' = migrated /\ handed' = handed
    BY DEF CallFrame, legacyVars
  <2>2. MigratedInv'
    <3>1. SUFFICES ASSUME migrated PROVE TargetLasts'
      BY <2>1 DEF MigratedInv
    <3>2. TargetLasts
      BY <3>1 DEF LegacyInv, NamesInv, MigratedInv
    <3>3. proof[1] \in Seq(Nat)
      <4>1. 1 \in Gens
        BY MaxGenIsPositive DEF Gens
      <4> QED BY <3>2, <4>1 DEF LegacyInv, LegacyTypes, TargetLasts
    <3>4. IsPrefix(proof[1], log'[1].recs)
      BY <3>2, <3>3 DEF TargetLasts, CallFrame, LogGrows
    <3> QED BY <2>1, <3>2, <3>4 DEF TargetLasts
  <2>3. SentinelInv'
    BY <2>1 DEF LegacyInv, NamesInv, SentinelInv, Unix
  <2>4. HandedInv'
    BY <2>1 DEF LegacyInv, NamesInv, HandedInv, Retained, Unix
  <2> QED BY <2>2, <2>3, <2>4 DEF NamesInv
<1> QED BY <1>1, <1>2, PartsKeep

\* A step of a cutover under the lease, on the legacy side.
CutoverFrame ==
    /\ UNCHANGED <<platform, dir, disk, proof, log, source, raw, migrated>>
    /\ UNCHANGED lockVars
    /\ names'["target"] = names["target"] /\ kept'["target"] = kept["target"]
    /\ ~Unix /\ names'["sentinel"] => names'["retained"]

\* It keeps the invariant: nothing imports any more, and no other call is
\* under the lease.
LEMMA CutoverKeeps ==
    ASSUME LegacyInv, NEW p \in Procs, op' = [op EXCEPT ![p] = op'[p]],
           lease[p] = "held", op[p].kind = "cutover", op'[p].kind \in {"cutover", "none"},
           op'[p].at \in CutoverPlaces \cup {"idle", "leave"},
           LegacyTypes', CutoverFrame, CallOK(p)', SentinelInv', HandedInv'
    PROVE  LegacyInv'
<1>1. migrated
  BY DEF LegacyInv, CallOK, CutoverOK
<1>2. ASSUME NEW q \in Procs, q # p PROVE CallOK(q)'
  <2>1. op'[q] = op[q]
    BY <1>2 DEF LegacyInv, LegacyTypes
  <2>2. CallOK(q)
    BY DEF LegacyInv
  <2>3. ~Importing(op[q])
    BY <1>1, <2>2 DEF CallOK, ImportOK
  <2>4. op[q].at \notin UnderLease
    BY <1>2, <2>2, OneHolder DEF CallOK, PlaceOK, LegacyInv
  <2>5. PlaceOK(q)'
    BY <2>1, <2>2 DEF CallOK, PlaceOK, CutoverFrame, lockVars
  <2>6. ImportOK(q)'
    BY <2>1, <2>2, <2>3 DEF CallOK, ImportOK, Importing, ImportPlaces
  <2>7. CutoverOK(q)'
    BY <2>1, <2>2, <2>4 DEF CallOK, CutoverOK, OnUnix, OnWindows, UnderLease,
       CutoverPlaces, Unix, CutoverFrame
  <2> QED BY <2>5, <2>6, <2>7 DEF CallOK
<1>3. LockInv'
  <2>1. [LockNext]_lockVars
    BY DEF CutoverFrame
  <2> QED BY <2>1, LockStep DEF LegacyInv
<1>4. NamesInv'
  <2>1. MigratedInv'
    BY DEF LegacyInv, NamesInv, MigratedInv, TargetLasts, CutoverFrame
  <2> QED BY <2>1 DEF NamesInv
<1>5. ~Importing(op'[p])
  BY DEF Importing, ImportPlaces, CutoverPlaces
<1> QED BY <1>2, <1>3, <1>4, <1>5, PartsKeep
-----------------------------------------------------------------------------
\* The import.

\* A migration on Windows that is about to take the lease.
Enters(c) == c.at = "enter" /\ c.kind = "migrate"

\* An importer works on generation 1 of a migration.
LEMMA ImporterIs ==
    ASSUME LegacyInv, NEW p \in Procs, op[p].at \in ImportPlaces \/ Enters(op[p])
    PROVE  /\ op[p] \in LegacyCalls /\ op[p].gen = 1 /\ 1 \in Gens
           /\ op[p].kind = "migrate" /\ Importing(op[p])
           /\ ~migrated /\ names["target"] /\ handed = NoLog
           /\ log[1] \in LegacyFiles /\ proof[1] \in Seq(Nat) \cup {Torn}
           /\ op[p].at # "mkdirSync" => kept["target"]
<1>1. 1 \in Gens
  BY MaxGenIsPositive DEF Gens
<1>2. CallOK(p) /\ op[p] \in LegacyCalls
  BY DEF LegacyInv, LegacyTypes
<1>3. op[p].kind = "migrate" /\ op[p].gen = 1 /\ Importing(op[p])
  BY <1>2 DEF CallOK, PlaceOK, Importing, Enters
<1>4. ~migrated /\ names["target"] /\ (op[p].at # "mkdirSync" => kept["target"])
  BY <1>2, <1>3 DEF CallOK, ImportOK
<1>5. handed = NoLog
  BY <1>4 DEF LegacyInv, NamesInv, HandedInv
<1> QED BY <1>1, <1>2, <1>3, <1>4, <1>5 DEF LegacyInv, LegacyTypes

\* The types of the next state, when a step leaves the legacy side alone.
LEMMA ImportTyped ==
    ASSUME LegacyTypes, NEW p \in Procs, NEW x \in LegacyCalls,
           op' = [op EXCEPT ![p] = x], NoFault \/ Fault,
           dir' \in Namespaces, disk' \in Namespaces,
           log' \in [Gens -> LegacyFiles], proof' \in [Gens -> Seq(Nat) \cup {Torn}],
           UNCHANGED engineVars, UNCHANGED legacyVars
    PROVE  LegacyTypes' /\ op' = [op EXCEPT ![p] = op'[p]] /\ op'[p] = x /\ ImportFrame
<1>1. platform' = platform
  BY DEF NoFault, Fault
<1>2. op' \in [Procs -> LegacyCalls] /\ op'[p] = x
  BY DEF LegacyTypes
<1>3. writes' = writes
  BY DEF engineVars
<1>4. /\ source' = source /\ copy' = copy /\ names' = names /\ kept' = kept
      /\ raw' = raw /\ migrated' = migrated /\ handed' = handed
  BY DEF legacyVars
<1> QED BY <1>1, <1>2, <1>3, <1>4 DEF LegacyTypes, ImportFrame

\* A step of the import that leaves the legacy side alone keeps the
\* invariant, when it keeps what its own call has made.
LEMMA ImportStepKeeps ==
    ASSUME LegacyInv, NEW p \in Procs, op[p].at \in ImportPlaces \/ Enters(op[p]),
           NEW x \in LegacyCalls, op' = [op EXCEPT ![p] = x], NoFault \/ Fault,
           dir' \in Namespaces, disk' \in Namespaces,
           log' \in [Gens -> LegacyFiles], proof' \in [Gens -> Seq(Nat) \cup {Torn}],
           UNCHANGED engineVars, UNCHANGED legacyVars, UNCHANGED lockVars,
           CallOK(p)'
    PROVE  LegacyInv'
<1>1. LegacyTypes
  BY DEF LegacyInv
<1>2. LegacyTypes' /\ op' = [op EXCEPT ![p] = op'[p]] /\ op'[p] = x /\ ImportFrame
  BY <1>1, ImportTyped
<1>3. Importing(op[p]) /\ ~migrated
  BY ImporterIs
<1>4. migrated' => TargetLasts'
  BY <1>3 DEF legacyVars
<1> QED BY <1>2, <1>3, <1>4, ImporterKeeps

\* The call gives up.
LEMMA GiveUpIs ==
    ASSUME NEW p \in Procs, GiveUp(p) \/ Leave(p) \/ op' = [op EXCEPT ![p] = NoOp]
    PROVE  \E x \in {NoOp, Leaving} : x \in LegacyCalls /\ op' = [op EXCEPT ![p] = x]
BY IdleIsCall DEF GiveUp, Leave

\* An importer that gives up or is done, whatever it has made visible.
LEMMA ImportEndsKeeps ==
    ASSUME LegacyInv, NEW p \in Procs, op[p].at \in ImportPlaces \/ Enters(op[p]),
           GiveUp(p) \/ Leave(p), NoFault \/ Fault,
           dir' \in Namespaces, disk' \in Namespaces,
           log' \in [Gens -> LegacyFiles], proof' \in [Gens -> Seq(Nat) \cup {Torn}],
           UNCHANGED engineVars, UNCHANGED legacyVars, UNCHANGED lockVars
    PROVE  LegacyInv'
<1>1. PICK x \in {NoOp, Leaving} : x \in LegacyCalls /\ op' = [op EXCEPT ![p] = x]
  BY GiveUpIs
<1>2. op'[p] = x
  BY <1>1 DEF LegacyInv, LegacyTypes
<1>3. CallOK(p)'
  BY <1>2, IdleIsOK
<1> QED BY <1>1, <1>3, ImportStepKeeps

\* It goes on to another place of the import.
LEMMA ImportGoesKeeps ==
    ASSUME LegacyInv, NEW p \in Procs,
           op[p].at \in ImportPlaces \ {"mkdirSync"} \/ Enters(op[p]),
           NEW at \in ImportPlaces \ {"mkdirSync"}, Goto(p, at), NoFault \/ Fault,
           dir' \in Namespaces, disk' \in Namespaces,
           log' \in [Gens -> LegacyFiles], proof' \in [Gens -> Seq(Nat) \cup {Torn}],
           UNCHANGED engineVars, UNCHANGED legacyVars, UNCHANGED lockVars,
           at \in UnderLease => lease[p] = "held",
           at \in {"tidyCopy", "compare", "publish", "baseSync"} =>
              1 \in dir'["logs"] /\ (Unix \/ 1 \in disk'["logs"]),
           at \in {"stage", "fill", "link", "linkSync", "published"} =>
              1 \in dir'["logs"] /\ 1 \in disk'["logs"],
           at \in {"link", "linkSync", "published"} => proof'[1] = log'[1].recs,
           at \in {"linkSync", "published"} => 1 \in dir'["markers"],
           at = "published" => 1 \in disk'["markers"]
    PROVE  LegacyInv'
<1> DEFINE x == [op[p] EXCEPT !.at = at]
<1>1. /\ op[p] \in LegacyCalls /\ op[p].gen = 1 /\ op[p].kind = "migrate"
      /\ ~migrated /\ names["target"] /\ kept["target"]
  BY ImporterIs DEF Enters
<1>2. at \in LegacyPlaces
  BY DEF LegacyPlaces
<1>3. /\ x \in LegacyCalls /\ x.at = at /\ x.gen = 1 /\ x.kind = "migrate"
  BY <1>1, <1>2, LegacyCallAt
<1>4. op' = [op EXCEPT ![p] = x]
  BY DEF Goto
<1> HIDE DEF x
<1>5. op'[p] = x
  BY <1>4 DEF LegacyInv, LegacyTypes
<1>6. /\ platform' = platform /\ lease' = lease /\ names' = names /\ kept' = kept
      /\ migrated' = migrated
  BY DEF NoFault, Fault, lockVars, legacyVars
<1>7. PlaceOK(p)'
  BY <1>3, <1>5, <1>6 DEF PlaceOK, ImportPlaces, CutoverPlaces
<1>8. ImportOK(p)'
  BY <1>1, <1>3, <1>5, <1>6 DEF ImportOK, Unix
<1>9. CutoverOK(p)'
  BY <1>3, <1>5 DEF CutoverOK, OnUnix, OnWindows, ImportPlaces, CutoverPlaces
<1>10. CallOK(p)'
  BY <1>7, <1>8, <1>9 DEF CallOK
<1> QED BY <1>3, <1>4, <1>10, ImportStepKeeps

\* The kinds of names an import uses.
LEMMA ImportKinds ==
    /\ "logs" \in Kinds /\ "markers" \in Kinds /\ "staged" \in Kinds
    /\ "reserved" \in Kinds /\ "copies" \in Kinds
BY DEF Kinds

\* What they become.
LEMMA ImportNames ==
    ASSUME NEW d \in Namespaces, 1 \in Gens
    PROVE  /\ \A k \in {"logs", "markers", "staged", "copies"} :
                 /\ Add(d, k, 1) \in Namespaces /\ 1 \in Add(d, k, 1)[k]
                 /\ \A j \in Kinds : j # k => Add(d, k, 1)[j] = d[j]
           /\ \A k \in {"copies", "staged"} :
                 /\ Drop(d, k, 1) \in Namespaces
                 /\ \A j \in Kinds : j # k => Drop(d, k, 1)[j] = d[j]
           /\ /\ Move(d, "copies", "logs", 1) \in Namespaces
              /\ 1 \in Move(d, "copies", "logs", 1)["logs"]
           /\ /\ Move(d, "staged", "markers", 1) \in Namespaces
              /\ 1 \in Move(d, "staged", "markers", 1)["markers"]
              /\ Move(d, "staged", "markers", 1)["logs"] = d["logs"]
           /\ Move(d, "reserved", "reserved", 1) \in Namespaces
<1>1. ASSUME NEW k \in Kinds
      PROVE  /\ Add(d, k, 1) \in Namespaces /\ 1 \in Add(d, k, 1)[k]
             /\ \A j \in Kinds : j # k => Add(d, k, 1)[j] = d[j]
  <2>1. /\ Add(d, k, 1) \in Namespaces
        /\ \A j \in Kinds : Add(d, k, 1)[j] = IF j = k THEN d[j] \cup {1} ELSE d[j]
    BY AddIs, Zenon
  <2> QED BY <2>1
<1>2. ASSUME NEW k \in Kinds
      PROVE  /\ Drop(d, k, 1) \in Namespaces
             /\ \A j \in Kinds : j # k => Drop(d, k, 1)[j] = d[j]
  <2>1. /\ Drop(d, k, 1) \in Namespaces
        /\ \A j \in Kinds : Drop(d, k, 1)[j] = IF j = k THEN d[j] \ {1} ELSE d[j]
    BY DropIs, Zenon
  <2> QED BY <2>1
<1>3. /\ Move(d, "copies", "logs", 1) \in Namespaces
      /\ 1 \in Move(d, "copies", "logs", 1)["logs"]
  <2>1. /\ Move(d, "copies", "logs", 1) \in Namespaces
        /\ Move(d, "copies", "logs", 1)["logs"] = d["logs"] \cup {1}
    BY ImportKinds, MoveIs, SMTT(30)
  <2> QED BY <2>1
<1>4. /\ Move(d, "staged", "markers", 1) \in Namespaces
      /\ 1 \in Move(d, "staged", "markers", 1)["markers"]
      /\ Move(d, "staged", "markers", 1)["logs"] = d["logs"]
  <2>1. /\ Move(d, "staged", "markers", 1) \in Namespaces
        /\ Move(d, "staged", "markers", 1)["markers"] = d["markers"] \cup {1}
    BY ImportKinds, MoveIs, SMTT(30)
  <2>2. \A j \in Kinds : j \notin {"staged", "markers"} =>
            Move(d, "staged", "markers", 1)[j] = d[j]
    BY <2>1, ImportKinds, MoveIs, SMT
  <2> QED BY <2>1, <2>2, ImportKinds
<1>5. Move(d, "reserved", "reserved", 1) \in Namespaces
  BY ImportKinds, MoveIs
<1>6. {"logs", "markers", "staged", "copies"} \subseteq Kinds
  BY ImportKinds
<1> QED BY <1>1, <1>2, <1>3, <1>4, <1>5, <1>6

\* A copy is a legacy file.
LEMMA LegacyCopyTyped ==
    ASSUME NEW f \in LegacyFiles
    PROVE  CompactCopy(f) \in LegacyFiles
<1>1. f.recs \in Seq(Nat)
  BY DEF LegacyFiles
<1>2. Live(f.recs) \in Nat
  BY <1>1 DEF Live, Last
<1> DEFINE v == Live(f.recs)
<1>3. Compact(f.recs) = IF v = 0 THEN << >> ELSE <<v>>
  BY DEF Compact
<1> HIDE DEF v
<1>4. Compact(f.recs) \in Seq(Nat)
  <2>1. v \in Nat
    BY <1>2 DEF v
  <2>2. << >> \in Seq(Nat) /\ <<v>> \in Seq(Nat)
    BY <2>1
  <2> QED BY <1>3, <2>2
<1> QED BY <1>4 DEF CompactCopy, LegacyFiles

\* The staging file of the copy appears.
LEMMA StartImportKeeps ==
    ASSUME LegacyInv, NEW t \in Procs, StartImport(t)
    PROVE  LegacyInv'
<1>1. /\ op[t].at \in ImportPlaces \ {"mkdirSync"}
      /\ "build" \in ImportPlaces \ {"mkdirSync"}
  BY DEF StartImport, Running, ImportPlaces
<1>2. LegacyTypes /\ 1 \in Gens
  BY <1>1, ImporterIs DEF LegacyInv
<1>3. dir' \in Namespaces
  BY <1>2, ImportKinds, AddIs DEF StartImport, LegacyTypes
<1>4. /\ Goto(t, "build") /\ NoFault /\ disk' = disk /\ log' = log /\ proof' = proof
      /\ UNCHANGED engineVars /\ UNCHANGED legacyVars /\ UNCHANGED lockVars
  BY DEF StartImport, DirectoryOnly
<1>5. "build" \notin UnderLease
  BY DEF UnderLease, CutoverPlaces
<1> QED BY <1>1, <1>2, <1>3, <1>4, <1>5, ImportGoesKeeps DEF LegacyTypes

\* Building the copy fails.
LEMMA CopyFailsKeeps ==
    ASSUME LegacyInv, NEW t \in Procs, CopyErrs(t), UNCHANGED engineVars, DirectoryOnly
    PROVE  LegacyInv'
<1>1. op[t].at \in ImportPlaces
  BY DEF CopyErrs, Running, ImportPlaces
<1>2. LegacyTypes /\ 1 \in Gens /\ op[t].gen = 1
  BY <1>1, ImporterIs DEF LegacyInv
<1>3. dir' \in Namespaces
  BY <1>2, ImportKinds, DropIs DEF CopyErrs, LegacyTypes
<1>4. /\ GiveUp(t) /\ Fault /\ disk' = disk /\ log' = log /\ proof' = proof
      /\ UNCHANGED legacyVars /\ UNCHANGED lockVars
  BY DEF CopyErrs, DirectoryOnly
<1> QED BY <1>1, <1>2, <1>3, <1>4, ImportEndsKeeps DEF LegacyTypes

\* The copy gets its canonical name, durably on Windows.
LEMMA CopyPublishedKeeps ==
    ASSUME LegacyInv, NEW t \in Procs, PublishCopy(t), UNCHANGED engineVars, DirectoryOnly
    PROVE  LegacyInv'
<1>1. op[t].at \in ImportPlaces \ {"mkdirSync"} /\ op[t].at = "build"
  BY DEF PublishCopy, Running, ImportPlaces
<1>2. /\ LegacyTypes /\ 1 \in Gens /\ op[t].gen = 1 /\ op[t].kind = "migrate"
      /\ op[t] \in LegacyCalls
  BY <1>1, ImporterIs DEF LegacyInv
<1>3. Source(t) = op[t].src /\ AfterCopy(t) = "compare"
  BY <1>2 DEF Source, AfterCopy
<1>4. /\ IF Unix THEN Visible(Add(dir, "logs", 1)) ELSE MovedThrough("copies", "logs", 1)
      /\ log' = [log EXCEPT ![1] = CompactCopy(op[t].src)]
      /\ Goto(t, IF Unix THEN "tidyCopy" ELSE "compare")
      /\ NoFault /\ proof' = proof /\ UNCHANGED lockVars /\ UNCHANGED legacyVars
  BY <1>2, <1>3 DEF PublishCopy, DirectoryOnly
<1>5. log' \in [Gens -> LegacyFiles]
  <2>1. CompactCopy(op[t].src) \in LegacyFiles
    BY <1>2, LegacyCopyTyped DEF LegacyCalls
  <2> QED BY <1>2, <1>4, <2>1 DEF LegacyTypes
<1>6. /\ dir' \in Namespaces /\ disk' \in Namespaces
      /\ 1 \in dir'["logs"] /\ (Unix \/ 1 \in disk'["logs"])
  <2>1. dir \in Namespaces /\ disk \in Namespaces
    BY <1>2 DEF LegacyTypes
  <2>2. CASE Unix
    BY <1>2, <1>4, <2>1, <2>2, ImportNames DEF Visible
  <2>3. CASE ~Unix
    BY <1>2, <1>4, <2>1, <2>3, ImportNames DEF MovedThrough
  <2> QED BY <2>2, <2>3
<1> DEFINE at == IF Unix THEN "tidyCopy" ELSE "compare"
<1>7. PICK a \in ImportPlaces \ {"mkdirSync"} : a = at
  BY DEF ImportPlaces
<1>8. a \in {"tidyCopy", "compare"} /\ a \notin UnderLease /\ Goto(t, a)
  BY <1>4, <1>7 DEF UnderLease, CutoverPlaces
<1> HIDE DEF at
<1>9. /\ a \notin {"stage", "fill", "link", "linkSync", "published"}
  BY <1>8
<1> QED BY <1>1, <1>2, <1>4, <1>5, <1>6, <1>8, <1>9, ImportGoesKeeps DEF LegacyTypes

\* Its publication reports an error.
LEMMA CopyUncertainKeeps ==
    ASSUME LegacyInv, NEW t \in Procs, PublishCopyErrs(t), UNCHANGED engineVars,
           DirectoryOnly
    PROVE  LegacyInv'
<1>1. op[t].at \in ImportPlaces
  BY DEF PublishCopyErrs, Running, ImportPlaces
<1>2. LegacyTypes /\ 1 \in Gens /\ op[t].gen = 1 /\ op[t] \in LegacyCalls
  BY <1>1, ImporterIs DEF LegacyInv
<1>3. /\ GiveUp(t) /\ Fault /\ proof' = proof
      /\ UNCHANGED legacyVars /\ UNCHANGED lockVars
  BY DEF PublishCopyErrs, DirectoryOnly
<1>4. CompactCopy(op[t].src) \in LegacyFiles
  BY <1>2, LegacyCopyTyped DEF LegacyCalls
<1>5. log' \in [Gens -> LegacyFiles]
  BY <1>2, <1>4 DEF PublishCopyErrs, LegacyTypes
<1>6. dir' \in Namespaces /\ disk' \in Namespaces
  <2>1. dir \in Namespaces /\ disk \in Namespaces
    BY <1>2 DEF LegacyTypes
  <2>2. /\ Drop(dir, "copies", 1) \in Namespaces
        /\ Move(dir, "copies", "logs", 1) \in Namespaces
        /\ Move(disk, "copies", "logs", 1) \in Namespaces
    BY <1>2, <2>1, ImportNames
  <2> QED BY <1>2, <2>1, <2>2 DEF PublishCopyErrs, Visible
<1> QED BY <1>1, <1>2, <1>3, <1>5, <1>6, ImportEndsKeeps DEF LegacyTypes

\* The second name of the copy goes, or stays.
LEMMA TidyKeeps ==
    ASSUME LegacyInv, NEW t \in Procs, TidyCopy(t), UNCHANGED engineVars, DirectoryOnly
    PROVE  LegacyInv'
<1>1. /\ op[t].at \in ImportPlaces \ {"mkdirSync"} /\ op[t].at = "tidyCopy"
      /\ "compare" \in ImportPlaces \ {"mkdirSync"} /\ "compare" \notin UnderLease
  BY DEF TidyCopy, Running, ImportPlaces, UnderLease, CutoverPlaces
<1>2. LegacyTypes /\ 1 \in Gens /\ op[t].gen = 1 /\ op[t].kind = "migrate"
  BY <1>1, ImporterIs DEF LegacyInv
<1>3. 1 \in dir["logs"] /\ (Unix \/ 1 \in disk["logs"])
  BY <1>1 DEF LegacyInv, CallOK, ImportOK
<1>4. /\ Goto(t, "compare") /\ (NoFault \/ Fault) /\ log' = log /\ proof' = proof
      /\ UNCHANGED legacyVars /\ UNCHANGED lockVars
      /\ dir' \in {dir, Drop(dir, "copies", 1)} /\ disk' = disk
  BY <1>2 DEF TidyCopy, DirectoryOnly, AfterCopy, Visible
<1>5. dir' \in Namespaces /\ disk' \in Namespaces /\ dir'["logs"] = dir["logs"]
  <2>1. dir \in Namespaces /\ disk \in Namespaces
    BY <1>2 DEF LegacyTypes
  <2>2. /\ Drop(dir, "copies", 1) \in Namespaces
        /\ Drop(dir, "copies", 1)["logs"] = dir["logs"]
    BY <1>2, <2>1, ImportKinds, ImportNames
  <2> QED BY <1>4, <2>1, <2>2
<1> QED BY <1>1, <1>2, <1>3, <1>4, <1>5, ImportGoesKeeps DEF LegacyTypes

\* Under the lease, a stale staging marker is removed.
LEMMA PublishKeeps ==
    ASSUME LegacyInv, NEW t \in Procs, Publish(t), UNCHANGED engineVars, DirectoryOnly
    PROVE  LegacyInv'
<1>1. /\ op[t].at \in ImportPlaces \ {"mkdirSync"} /\ op[t].at = "publish"
      /\ lease[t] = "held"
  BY DEF Publish, Holding, Running, ImportPlaces
<1>2. LegacyTypes /\ 1 \in Gens /\ op[t].gen = 1
  BY <1>1, ImporterIs DEF LegacyInv
<1>3. 1 \in dir["logs"] /\ (Unix \/ 1 \in disk["logs"])
  BY <1>1 DEF LegacyInv, CallOK, ImportOK
<1>4. /\ NoFault /\ log' = log /\ proof' = proof
      /\ UNCHANGED legacyVars /\ UNCHANGED lockVars
  BY DEF Publish, DirectoryOnly
<1>5. \/ /\ dir' = Drop(dir, "staged", 1) /\ disk' = disk
         /\ Goto(t, IF Unix THEN "baseSync" ELSE "stage")
      \/ GiveUp(t) /\ dir' = dir /\ disk' = disk
  BY <1>2 DEF Publish, Visible
<1>6. CASE GiveUp(t) /\ dir' = dir /\ disk' = disk
  BY <1>1, <1>2, <1>4, <1>6, ImportEndsKeeps DEF LegacyTypes
<1>7. CASE /\ dir' = Drop(dir, "staged", 1) /\ disk' = disk
           /\ Goto(t, IF Unix THEN "baseSync" ELSE "stage")
  <2>1. dir \in Namespaces /\ disk \in Namespaces
    BY <1>2 DEF LegacyTypes
  <2>2. /\ Drop(dir, "staged", 1) \in Namespaces
        /\ Drop(dir, "staged", 1)["logs"] = dir["logs"]
    BY <1>2, <2>1, ImportKinds, ImportNames
  <2>3. PICK a \in ImportPlaces \ {"mkdirSync"} :
            a = IF Unix THEN "baseSync" ELSE "stage"
    BY DEF ImportPlaces
  <2>4. /\ a \notin {"link", "linkSync", "published"}
        /\ Goto(t, a) /\ (a = "stage" => ~Unix)
        /\ a \in {"baseSync", "stage"}
    BY <1>7, <2>3
  <2> QED BY <1>1, <1>2, <1>3, <1>4, <1>7, <2>1, <2>2, <2>4, ImportGoesKeeps DEF LegacyTypes
<1> QED BY <1>5, <1>6, <1>7

\* The syncs of the directory.
LEMMA SyncKeeps ==
    ASSUME LegacyInv, NEW t \in Procs, SyncDirectory(t), UNCHANGED engineVars, DirectoryOnly
    PROVE  LegacyInv'
<1>1. op[t].at \in {"baseSync", "linkSync"}
  <2>1. op[t].at \in LegacyPlaces
    BY DEF LegacyInv, LegacyTypes, LegacyCalls
  <2> QED BY <2>1 DEF SyncDirectory, AfterSync, LegacyPlaces, ImportPlaces, CutoverPlaces,
         Routed
<1>2. op[t].at \in ImportPlaces \ {"mkdirSync"} /\ op[t].at \in UnderLease
  BY <1>1 DEF ImportPlaces, UnderLease
<1>3. LegacyTypes /\ CallOK(t)
  BY DEF LegacyInv
<1>4. lease[t] = "held" /\ 1 \in dir["logs"]
  BY <1>1, <1>2, <1>3 DEF CallOK, PlaceOK, ImportOK
<1>5. /\ NoFault /\ log' = log /\ proof' = proof /\ dir' = dir /\ disk' = dir
      /\ UNCHANGED legacyVars /\ UNCHANGED lockVars
  BY DEF SyncDirectory, DirectoryOnly
<1>6. CASE op[t].at = "baseSync"
  <2>1. Goto(t, "stage") /\ "stage" \in ImportPlaces \ {"mkdirSync"}
    BY <1>6 DEF SyncDirectory, AfterSync, ImportPlaces
  <2> QED BY <1>2, <1>3, <1>4, <1>5, <2>1, ImportGoesKeeps DEF LegacyTypes
<1>7. CASE op[t].at = "linkSync"
  <2>1. Goto(t, "published") /\ "published" \in ImportPlaces \ {"mkdirSync"}
    BY <1>7 DEF SyncDirectory, AfterSync, ImportPlaces
  <2>2. 1 \in dir["markers"] /\ proof[1] = log[1].recs
    BY <1>3, <1>7 DEF CallOK, ImportOK
  <2> QED BY <1>2, <1>3, <1>4, <1>5, <2>1, <2>2, ImportGoesKeeps DEF LegacyTypes
<1> QED BY <1>1, <1>6, <1>7

\* A failing sync ends the call and changes no name.
LEMMA SyncFailureKeeps ==
    ASSUME LegacyInv, NEW t \in Procs, SyncFails(t), UNCHANGED engineVars, DirectoryOnly
    PROVE  LegacyInv'
<1>1. op[t].at \in ImportPlaces
  <2>1. op[t].at \in LegacyPlaces
    BY DEF LegacyInv, LegacyTypes, LegacyCalls
  <2> QED BY <2>1 DEF SyncFails, AfterSync, LegacyPlaces, ImportPlaces, CutoverPlaces,
         Routed
<1>2. /\ GiveUp(t) /\ Fault /\ log' = log /\ proof' = proof /\ dir' = dir /\ disk' = disk
      /\ UNCHANGED legacyVars /\ UNCHANGED lockVars
  BY DEF SyncFails, DirectoryOnly
<1>3. LegacyTypes
  BY DEF LegacyInv
<1> QED BY <1>1, <1>2, <1>3, ImportEndsKeeps DEF LegacyTypes

\* The staging marker is created and filled.
LEMMA StageKeeps ==
    ASSUME LegacyInv, NEW t \in Procs, Stage(t), UNCHANGED engineVars, DirectoryOnly
    PROVE  LegacyInv'
<1>1. /\ op[t].at \in ImportPlaces \ {"mkdirSync"} /\ op[t].at = "stage"
      /\ lease[t] = "held" /\ "fill" \in ImportPlaces \ {"mkdirSync"}
  BY DEF Stage, Holding, Running, ImportPlaces
<1>2. LegacyTypes /\ 1 \in Gens /\ op[t].gen = 1
  BY <1>1, ImporterIs DEF LegacyInv
<1>3. 1 \in dir["logs"] /\ 1 \in disk["logs"]
  BY <1>1 DEF LegacyInv, CallOK, ImportOK
<1>4. /\ NoFault /\ log' = log /\ Goto(t, "fill") /\ disk' = disk
      /\ UNCHANGED legacyVars /\ UNCHANGED lockVars
      /\ dir' = Add(dir, "staged", 1) /\ proof' = [proof EXCEPT ![1] = Torn]
  BY <1>2 DEF Stage, DirectoryOnly, Visible
<1>5. proof' \in [Gens -> Seq(Nat) \cup {Torn}]
  BY <1>2, <1>4 DEF LegacyTypes
<1>6. dir' \in Namespaces /\ dir'["logs"] = dir["logs"]
  <2>1. dir \in Namespaces
    BY <1>2 DEF LegacyTypes
  <2>2. /\ Add(dir, "staged", 1) \in Namespaces
        /\ Add(dir, "staged", 1)["logs"] = dir["logs"]
    BY <1>2, <2>1, ImportKinds, ImportNames
  <2> QED BY <1>4, <2>2
<1> QED BY <1>1, <1>2, <1>3, <1>4, <1>5, <1>6, ImportGoesKeeps DEF LegacyTypes

\* The staged marker is written: proof 1 binds the records of generation 1.
LEMMA FillKeeps ==
    ASSUME LegacyInv, NEW t \in Procs, Fill(t), UNCHANGED engineVars, DirectoryOnly
    PROVE  LegacyInv'
<1>1. /\ op[t].at \in ImportPlaces \ {"mkdirSync"} /\ op[t].at = "fill"
      /\ lease[t] = "held" /\ "link" \in ImportPlaces \ {"mkdirSync"}
  BY DEF Fill, Holding, Running, ImportPlaces
<1>2. LegacyTypes /\ 1 \in Gens /\ op[t].gen = 1 /\ log[1] \in LegacyFiles
  BY <1>1, ImporterIs DEF LegacyInv
<1>3. 1 \in dir["logs"] /\ 1 \in disk["logs"]
  BY <1>1 DEF LegacyInv, CallOK, ImportOK
<1>4. /\ log' = log /\ dir' = dir /\ disk' = disk
      /\ UNCHANGED legacyVars /\ UNCHANGED lockVars
      /\ \/ NoFault /\ Goto(t, "link") /\ proof' = [proof EXCEPT ![1] = log[1].recs]
         \/ Fault /\ GiveUp(t) /\ proof' = proof
  BY <1>2 DEF Fill, DirectoryOnly, PrefixProof
<1>5. CASE Fault /\ GiveUp(t) /\ proof' = proof
  BY <1>1, <1>2, <1>4, <1>5, ImportEndsKeeps DEF LegacyTypes
<1>6. CASE NoFault /\ Goto(t, "link") /\ proof' = [proof EXCEPT ![1] = log[1].recs]
  <2>1. proof' \in [Gens -> Seq(Nat) \cup {Torn}] /\ proof'[1] = log'[1].recs
    BY <1>2, <1>4, <1>6 DEF LegacyTypes, LegacyFiles
  <2> QED BY <1>1, <1>2, <1>3, <1>4, <1>6, <2>1, ImportGoesKeeps DEF LegacyTypes
<1> QED BY <1>4, <1>5, <1>6

\* The marker appears, durably on Windows.
LEMMA LinkKeeps ==
    ASSUME LegacyInv, NEW t \in Procs, Link(t), UNCHANGED engineVars, DirectoryOnly
    PROVE  LegacyInv'
<1>1. /\ op[t].at \in ImportPlaces \ {"mkdirSync"} /\ op[t].at = "link"
      /\ lease[t] = "held"
  BY DEF Link, Holding, Running, ImportPlaces
<1>2. LegacyTypes /\ 1 \in Gens /\ op[t].gen = 1
  BY <1>1, ImporterIs DEF LegacyInv
<1>3. 1 \in dir["logs"] /\ 1 \in disk["logs"] /\ proof[1] = log[1].recs
  BY <1>1 DEF LegacyInv, CallOK, ImportOK
<1>4. /\ NoFault /\ log' = log /\ proof' = proof
      /\ UNCHANGED legacyVars /\ UNCHANGED lockVars
      /\ Goto(t, IF Unix THEN "linkSync" ELSE "published")
      /\ IF Unix THEN dir' = Add(dir, "markers", 1) /\ disk' = disk
         ELSE /\ dir' = Move(dir, "staged", "markers", 1)
              /\ disk' = Move(disk, "staged", "markers", 1)
  BY <1>2 DEF Link, DirectoryOnly, Visible, MovedThrough
<1>5. dir \in Namespaces /\ disk \in Namespaces
  BY <1>2 DEF LegacyTypes
<1>6. CASE Unix
  <2>1. /\ Add(dir, "markers", 1) \in Namespaces /\ 1 \in Add(dir, "markers", 1)["markers"]
        /\ Add(dir, "markers", 1)["logs"] = dir["logs"]
    BY <1>2, <1>5, ImportKinds, ImportNames
  <2>2. "linkSync" \in ImportPlaces \ {"mkdirSync"} /\ Goto(t, "linkSync")
    BY <1>4, <1>6 DEF ImportPlaces
  <2> QED BY <1>1, <1>2, <1>3, <1>4, <1>5, <1>6, <2>1, <2>2, ImportGoesKeeps DEF LegacyTypes
<1>7. CASE ~Unix
  <2>1. /\ Move(dir, "staged", "markers", 1) \in Namespaces
        /\ 1 \in Move(dir, "staged", "markers", 1)["markers"]
        /\ Move(dir, "staged", "markers", 1)["logs"] = dir["logs"]
        /\ Move(disk, "staged", "markers", 1) \in Namespaces
        /\ 1 \in Move(disk, "staged", "markers", 1)["markers"]
        /\ Move(disk, "staged", "markers", 1)["logs"] = disk["logs"]
    BY <1>2, <1>5, ImportNames
  <2>2. "published" \in ImportPlaces \ {"mkdirSync"} /\ Goto(t, "published")
    BY <1>4, <1>7 DEF ImportPlaces
  <2> QED BY <1>1, <1>2, <1>3, <1>4, <1>7, <2>1, <2>2, ImportGoesKeeps DEF LegacyTypes
<1> QED BY <1>6, <1>7

\* A marker whose link reports an error may be visible, or durable too.
LEMMA LinkErrsKeeps ==
    ASSUME LegacyInv, NEW t \in Procs, LinkErrs(t), UNCHANGED engineVars, DirectoryOnly
    PROVE  LegacyInv'
<1>1. op[t].at \in ImportPlaces
  BY DEF LinkErrs, Holding, Running, ImportPlaces
<1>2. LegacyTypes /\ 1 \in Gens /\ op[t].gen = 1
  BY <1>1, ImporterIs DEF LegacyInv
<1>3. /\ Fault /\ log' = log /\ proof' = proof /\ GiveUp(t)
      /\ UNCHANGED legacyVars /\ UNCHANGED lockVars
  BY DEF LinkErrs, DirectoryOnly
<1>4. dir' \in Namespaces /\ disk' \in Namespaces
  <2>1. dir \in Namespaces /\ disk \in Namespaces
    BY <1>2 DEF LegacyTypes
  <2>2. /\ Drop(dir, "staged", 1) \in Namespaces
        /\ Move(dir, "staged", "markers", 1) \in Namespaces
        /\ Move(disk, "staged", "markers", 1) \in Namespaces
    BY <1>2, <2>1, ImportNames
  <2> QED BY <1>2, <2>1, <2>2 DEF LinkErrs, Visible
<1> QED BY <1>1, <1>2, <1>3, <1>4, ImportEndsKeeps DEF LegacyTypes

\* Windows reserves generation 1 first.
LEMMA ReserveFirstKeeps ==
    ASSUME LegacyInv, NEW t \in Procs, ReserveFirst(t)
    PROVE  LegacyInv'
<1>1. /\ Enters(op[t])
      /\ "import" \in ImportPlaces \ {"mkdirSync"} /\ "import" \notin UnderLease
  BY DEF ReserveFirst, Holding, Running, Enters, ImportPlaces, UnderLease, CutoverPlaces
<1>2. LegacyTypes /\ 1 \in Gens
  BY <1>1, ImporterIs DEF LegacyInv
<1>3. /\ log' = log /\ proof' = proof
      /\ UNCHANGED legacyVars /\ UNCHANGED lockVars /\ UNCHANGED engineVars
  BY DEF ReserveFirst, DirectoryOnly
<1>4. dir' \in Namespaces /\ disk' \in Namespaces
  <2>1. dir \in Namespaces /\ disk \in Namespaces
    BY <1>2 DEF LegacyTypes
  <2>2. /\ Move(dir, "reserved", "reserved", 1) \in Namespaces
        /\ Move(disk, "reserved", "reserved", 1) \in Namespaces
    BY <1>2, <2>1, ImportNames
  <2> QED BY <2>1, <2>2 DEF ReserveFirst, MovedThrough, MoveErrs
<1>5. (NoFault /\ Goto(t, "import")) \/ (Fault /\ GiveUp(t))
  BY DEF ReserveFirst
<1>6. CASE NoFault /\ Goto(t, "import")
  BY <1>1, <1>2, <1>3, <1>4, <1>6, ImportGoesKeeps DEF LegacyTypes
<1>7. CASE Fault /\ GiveUp(t)
  BY <1>1, <1>2, <1>3, <1>4, <1>7, ImportEndsKeeps DEF LegacyTypes
<1> QED BY <1>5, <1>6, <1>7

\* The legacy file is compared with the snapshot and the copy.
LEMMA CompareSourceKeeps ==
    ASSUME LegacyInv, NEW t \in Procs, CompareSource(t)
    PROVE  LegacyInv'
<1>1. /\ op[t].at \in ImportPlaces \ {"mkdirSync"} /\ op[t].at = "compare"
      /\ lease[t] = "held" /\ "publish" \in ImportPlaces \ {"mkdirSync"}
  BY DEF CompareSource, Holding, Running, ImportPlaces
<1>2. LegacyTypes
  BY DEF LegacyInv
<1>3. 1 \in dir["logs"] /\ (Unix \/ 1 \in disk["logs"])
  BY <1>1 DEF LegacyInv, CallOK, ImportOK
<1>4. /\ NoFault /\ log' = log /\ proof' = proof /\ dir' = dir /\ disk' = disk
      /\ UNCHANGED legacyVars /\ UNCHANGED lockVars /\ UNCHANGED engineVars
      /\ Goto(t, "publish") \/ GiveUp(t)
  BY DEF CompareSource, LegacyOnly
<1>5. CASE Goto(t, "publish")
  BY <1>1, <1>2, <1>3, <1>4, <1>5, ImportGoesKeeps DEF LegacyTypes
<1>6. CASE GiveUp(t)
  BY <1>1, <1>2, <1>4, <1>6, ImportEndsKeeps DEF LegacyTypes
<1> QED BY <1>4, <1>5, <1>6

\* Success is reported only when generation 1 verifies; its log and marker
\* are durable by then.
LEMMA ImportedKeeps ==
    ASSUME LegacyInv, NEW t \in Procs, Imported(t)
    PROVE  LegacyInv'
<1>1. op[t].at \in ImportPlaces /\ op[t].at = "published"
  BY DEF Imported, Published, Holding, Running, ImportPlaces
<1>2. /\ LegacyTypes /\ 1 \in Gens /\ op[t].gen = 1 /\ log[1] \in LegacyFiles
      /\ ~migrated /\ names["target"] /\ kept["target"] /\ Importing(op[t])
  BY <1>1, ImporterIs DEF LegacyInv
<1>3. /\ 1 \in dir["logs"] /\ 1 \in disk["logs"] /\ proof[1] = log[1].recs
      /\ 1 \in dir["markers"] /\ 1 \in disk["markers"]
  BY <1>1 DEF LegacyInv, CallOK, ImportOK
<1>4. /\ log' = log /\ proof' = proof /\ disk' = disk /\ Leave(t) /\ (NoFault \/ Fault)
      /\ dir' \in {dir, Drop(dir, "staged", 1)}
      /\ UNCHANGED <<source, copy, names, kept, raw, handed>> /\ writes' = writes
      /\ UNCHANGED lockVars
      /\ migrated' = (migrated \/ (/\ Verifies(dir') /\ Authority(dir') = 1
                                   /\ log[1].recs = Compact(op[t].src.recs)
                                   /\ MatchesSnapshot(t)))
  BY <1>2 DEF Imported, Published, Visible, engineVars
<1>5. dir' \in Namespaces /\ dir'["logs"] = dir["logs"] /\ dir'["markers"] = dir["markers"]
  <2>1. dir \in Namespaces
    BY <1>2 DEF LegacyTypes
  <2>2. /\ Drop(dir, "staged", 1) \in Namespaces
        /\ Drop(dir, "staged", 1)["logs"] = dir["logs"]
        /\ Drop(dir, "staged", 1)["markers"] = dir["markers"]
    BY <1>2, <2>1, ImportKinds, ImportNames
  <2> QED BY <1>4, <2>1, <2>2
<1>6. PICK x \in {NoOp, Leaving} : x \in LegacyCalls /\ op' = [op EXCEPT ![t] = x]
  BY <1>4, GiveUpIs
<1>7. op' = [op EXCEPT ![t] = op'[t]] /\ op'[t] = x /\ op' \in [Procs -> LegacyCalls]
  BY <1>2, <1>6 DEF LegacyTypes
<1>8. platform' = platform
  BY <1>4 DEF NoFault, Fault
<1>9. LegacyTypes'
  <2>1. migrated' \in BOOLEAN
    BY <1>2, <1>4, Zenon DEF LegacyTypes
  <2> QED BY <1>2, <1>4, <1>5, <1>7, <1>8, <2>1 DEF LegacyTypes
<1>10. ImportFrame
  BY <1>4, <1>8 DEF ImportFrame
<1>11. ASSUME migrated' PROVE TargetLasts'
  <2>1. Verifies(dir') /\ Authority(dir') = 1
    BY <1>2, <1>4, <1>11
  <2>2. proof[1] # Torn
    BY <2>1 DEF Verifies, Decodes
  <2>3. IsPrefix(proof[1], log[1].recs)
    <3>1. log[1].recs \in Seq(Nat)
      BY <1>2 DEF LegacyFiles
    <3> QED BY <1>3, <3>1 DEF IsPrefix
  <2> QED BY <1>2, <1>3, <1>4, <1>5, <2>2, <2>3 DEF TargetLasts
<1>12. CallOK(t)'
  BY <1>7, IdleIsOK
<1> QED BY <1>2, <1>4, <1>7, <1>9, <1>10, <1>11, <1>12, ImporterKeeps

\* The target directory appears: it had no importer and no success.
LEMMA MakeTargetKeeps ==
    ASSUME LegacyInv, NEW t \in Procs, MakeTarget(t) \/ MakeTargetErrs(t)
    PROVE  LegacyInv'
<1>1. LegacyTypes /\ op[t] \in LegacyCalls /\ op[t].at = "mkdir" /\ CallOK(t)
  BY DEF LegacyInv, LegacyTypes, MakeTarget, MakeTargetErrs, Running
<1>2. op[t].kind = "migrate" /\ op[t].gen = 1
  BY <1>1 DEF CallOK, PlaceOK
<1>3. /\ UNCHANGED <<dir, disk, log, proof, lockVars, source, copy, raw, migrated, handed>>
      /\ writes' = writes /\ platform' = platform
  BY DEF MakeTarget, MakeTargetErrs, LegacyOnly, engineVars, NoFault, Fault
<1>4. /\ names' \in {names, [names EXCEPT !["target"] = TRUE]}
      /\ kept' \in {kept, [kept EXCEPT !["target"] = TRUE]}
  BY DEF MakeTarget, MakeTargetErrs, Appear, Settle, AppearErrs
<1>5. /\ names' \in [Names -> BOOLEAN] /\ kept' \in [Names -> BOOLEAN]
      /\ \A n \in {"retained", "sentinel"} : names'[n] = names[n] /\ kept'[n] = kept[n]
  <2>1. {"retained", "sentinel", "target"} \subseteq Names
    BY DEF Names
  <2>2. names \in [Names -> BOOLEAN] /\ kept \in [Names -> BOOLEAN]
    BY <1>1 DEF LegacyTypes
  <2> QED BY <1>4, <2>1, <2>2
<1>6. ImportFrame
  BY <1>3, <1>5 DEF ImportFrame
<1>7. LegacyTypes' /\ op' = [op EXCEPT ![t] = op'[t]]
  <2>1. ASSUME NEW x \in LegacyCalls, op' = [op EXCEPT ![t] = x]
        PROVE  op' \in [Procs -> LegacyCalls] /\ op' = [op EXCEPT ![t] = op'[t]]
    BY <1>1, <2>1 DEF LegacyTypes
  <2>2. \E x \in LegacyCalls : op' = [op EXCEPT ![t] = x]
    <3>1. CASE GiveUp(t)
      BY <3>1, GiveUpIs
    <3>2. ASSUME NEW at \in {"mkdirSync", "enter"}, Goto(t, at)
          PROVE  \E x \in LegacyCalls : op' = [op EXCEPT ![t] = x]
      <4>1. at \in LegacyPlaces
        BY DEF LegacyPlaces, ImportPlaces
      <4> QED BY <1>1, <3>2, <4>1, LegacyCallAt DEF Goto
    <3> QED BY <3>1, <3>2 DEF MakeTarget, MakeTargetErrs
  <2>3. op' \in [Procs -> LegacyCalls] /\ op' = [op EXCEPT ![t] = op'[t]]
    BY <2>1, <2>2
  <2> QED BY <1>1, <1>3, <1>5, <2>3 DEF LegacyTypes
<1>8. CASE GiveUp(t)
  <2>1. PICK x \in {NoOp, Leaving} : op' = [op EXCEPT ![t] = x]
    BY <1>8, GiveUpIs
  <2>2. op'[t] = x
    BY <1>1, <2>1 DEF LegacyTypes
  <2>3. CallOK(t)' /\ ~Importing(op'[t])
    BY <2>2, IdleIsOK
  <2>4. CASE ~names["target"]
    <3>1. migrated' => TargetLasts'
      BY <1>3, <2>4 DEF LegacyInv, NamesInv, MigratedInv, TargetLasts
    <3> QED BY <1>3, <1>6, <1>7, <2>3, <2>4, <3>1, ImporterKeeps
  <2>5. CASE names["target"]
    <3>1. names' = names /\ kept' = kept
      BY <2>5 DEF MakeTarget, MakeTargetErrs
    <3>2. CallFrame(t) /\ LockInv'
      <4>1. [LockNext]_lockVars /\ lease' = lease
        BY <1>3 DEF lockVars
      <4> QED BY <1>3, <3>1, <4>1, LockStep DEF LegacyInv, CallFrame, legacyVars
    <3> QED BY <1>7, <2>3, <3>2, CallKeeps
  <2> QED BY <2>4, <2>5
<1>9. CASE ~GiveUp(t)
  <2>1. /\ ~names["target"] /\ names' = [names EXCEPT !["target"] = TRUE]
        /\ \/ Unix /\ Goto(t, "mkdirSync")
           \/ /\ ~Unix /\ Goto(t, "enter")
              /\ kept' = [kept EXCEPT !["target"] = TRUE]
    BY <1>9 DEF MakeTarget, MakeTargetErrs, Appear, Settle
  <2>2. PICK at \in {"mkdirSync", "enter"} :
            /\ Goto(t, at)
            /\ at = "enter" => kept' = [kept EXCEPT !["target"] = TRUE]
    BY <2>1
  <2>3. names'["target"] /\ (at = "enter" => kept'["target"])
    <3>1. "target" \in Names /\ names \in [Names -> BOOLEAN] /\ kept \in [Names -> BOOLEAN]
      BY <1>1 DEF LegacyTypes, Names
    <3> QED BY <2>1, <2>2, <3>1
  <2> DEFINE x == [op[t] EXCEPT !.at = at]
  <2>4. x.at = at /\ x.gen = 1 /\ x.kind = "migrate"
    <3>1. at \in LegacyPlaces
      BY DEF LegacyPlaces, ImportPlaces
    <3> QED BY <1>1, <1>2, <3>1, LegacyCallAt
  <2>5. op'[t] = x
    BY <1>1, <2>2 DEF LegacyTypes, Goto
  <2> HIDE DEF x
  <2>6. ~migrated
    BY <2>1 DEF LegacyInv, NamesInv, MigratedInv, TargetLasts
  <2>7. PlaceOK(t)'
    BY <2>4, <2>5 DEF PlaceOK, CutoverPlaces, UnderLease
  <2>8. ImportOK(t)'
    BY <1>3, <2>3, <2>4, <2>5, <2>6 DEF ImportOK
  <2>9. CutoverOK(t)'
    BY <2>4, <2>5 DEF CutoverOK, OnUnix, OnWindows, CutoverPlaces
  <2>10. CallOK(t)'
    BY <2>7, <2>8, <2>9 DEF CallOK
  <2>11. migrated' => TargetLasts'
    BY <1>3, <2>6
  <2> QED BY <1>3, <1>6, <1>7, <2>1, <2>10, <2>11, ImporterKeeps
<1> QED BY <1>8, <1>9

\* The sync of the directory that holds the target.
LEMMA TargetSyncKeeps ==
    ASSUME LegacyInv, NEW t \in Procs, SyncParent(t), op[t].at = "mkdirSync"
    PROVE  LegacyInv'
<1>1. op[t].at \in ImportPlaces
  BY DEF ImportPlaces
<1>2. /\ LegacyTypes /\ op[t] \in LegacyCalls /\ op[t].gen = 1 /\ op[t].kind = "migrate"
      /\ ~migrated /\ names["target"] /\ Importing(op[t])
  BY <1>1, ImporterIs DEF LegacyInv
<1>3. /\ UNCHANGED <<dir, disk, log, proof, lockVars, source, copy, names, raw,
                     migrated, handed>>
      /\ writes' = writes /\ platform' = platform
      /\ \/ kept' = [kept EXCEPT !["target"] = names["target"]] /\ Goto(t, "import")
         \/ GiveUp(t) /\ kept' = kept
  BY DEF SyncParent, LegacyOnly, engineVars, NoFault, Fault, AfterParentSync
<1>4. /\ kept' \in [Names -> BOOLEAN]
      /\ \A n \in {"retained", "sentinel"} : kept'[n] = kept[n]
      /\ Goto(t, "import") /\ ~GiveUp(t) => kept'["target"]
  <2>1. {"retained", "sentinel", "target"} \subseteq Names
    BY DEF Names
  <2>2. names \in [Names -> BOOLEAN] /\ kept \in [Names -> BOOLEAN]
    BY <1>2 DEF LegacyTypes
  <2>3. [kept EXCEPT !["target"] = names["target"]] \in [Names -> BOOLEAN]
    BY <2>1, <2>2
  <2> QED BY <1>2, <1>3, <2>1, <2>2, <2>3
<1>5. ImportFrame
  BY <1>3, <1>4 DEF ImportFrame
<1>6. migrated' => TargetLasts'
  BY <1>2, <1>3
<1>7. ASSUME NEW x \in LegacyCalls, op' = [op EXCEPT ![t] = x], CallOK(t)'
      PROVE  LegacyInv'
  <2>1. op' \in [Procs -> LegacyCalls] /\ op' = [op EXCEPT ![t] = op'[t]]
    BY <1>2, <1>7 DEF LegacyTypes
  <2>2. LegacyTypes'
    BY <1>2, <1>3, <1>4, <2>1 DEF LegacyTypes
  <2> QED BY <1>2, <1>3, <1>5, <1>6, <1>7, <2>1, <2>2, ImporterKeeps
<1>8. CASE GiveUp(t)
  <2>1. PICK x \in {NoOp, Leaving} : x \in LegacyCalls /\ op' = [op EXCEPT ![t] = x]
    BY <1>8, GiveUpIs
  <2>2. op'[t] = x
    BY <1>2, <2>1 DEF LegacyTypes
  <2>3. CallOK(t)'
    BY <2>2, IdleIsOK
  <2> QED BY <1>7, <2>1, <2>3
<1>9. CASE ~GiveUp(t)
  <2>1. Goto(t, "import") /\ kept'["target"]
    BY <1>3, <1>4, <1>9
  <2> DEFINE x == [op[t] EXCEPT !.at = "import"]
  <2>2. x \in LegacyCalls /\ x.at = "import" /\ x.gen = 1 /\ x.kind = "migrate"
    <3>1. "import" \in LegacyPlaces
      BY DEF LegacyPlaces, ImportPlaces
    <3> QED BY <1>2, <3>1, LegacyCallAt
  <2>3. op' = [op EXCEPT ![t] = x]
    BY <2>1 DEF Goto
  <2> HIDE DEF x
  <2>4. op'[t] = x
    BY <1>2, <2>3 DEF LegacyTypes
  <2>5. PlaceOK(t)'
    BY <2>2, <2>4 DEF PlaceOK, CutoverPlaces, UnderLease
  <2>6. ImportOK(t)'
    BY <1>2, <1>3, <2>1, <2>2, <2>4 DEF ImportOK
  <2>7. CutoverOK(t)'
    BY <2>2, <2>4 DEF CutoverOK, OnUnix, OnWindows, CutoverPlaces
  <2>8. CallOK(t)'
    BY <2>5, <2>6, <2>7 DEF CallOK
  <2> QED BY <1>7, <2>2, <2>3, <2>8
<1> QED BY <1>8, <1>9
-----------------------------------------------------------------------------
\* Steps that change a call and nothing else.
CallOnly == UNCHANGED <<platform, dir, disk, log, proof, lockVars, writes, legacyVars>>

\* Such a step keeps the invariant when the call fits its new place.
LEMMA CallOnlyKeeps ==
    ASSUME LegacyInv, NEW p \in Procs, NEW x \in LegacyCalls,
           op' = [op EXCEPT ![p] = x], CallOnly, CallOK(p)',
           Importing(x) => Importing(op[p])
    PROVE  LegacyInv'
<1>1. LegacyTypes
  BY DEF LegacyInv
<1>2. op' \in [Procs -> LegacyCalls] /\ op'[p] = x /\ op' = [op EXCEPT ![p] = op'[p]]
  BY <1>1 DEF LegacyTypes
<1>3. LegacyTypes'
  BY <1>1, <1>2 DEF LegacyTypes, CallOnly, legacyVars
<1>4. LockInv' /\ lease' = lease
  <2>1. [LockNext]_lockVars /\ lease' = lease
    BY DEF lockVars, CallOnly
  <2> QED BY <2>1, LockStep DEF LegacyInv
<1>5. CallFrame(p)
  BY <1>4 DEF CallFrame, CallOnly
<1> QED BY <1>2, <1>3, <1>4, <1>5, CallKeeps

\* So does one that ends the call.
LEMMA CallEndsKeeps ==
    ASSUME LegacyInv, NEW p \in Procs,
           GiveUp(p) \/ Leave(p) \/ op' = [op EXCEPT ![p] = NoOp], CallOnly
    PROVE  LegacyInv'
<1>1. PICK x \in {NoOp, Leaving} : x \in LegacyCalls /\ op' = [op EXCEPT ![p] = x]
  BY GiveUpIs
<1>2. op'[p] = x
  BY <1>1 DEF LegacyInv, LegacyTypes
<1>3. CallOK(p)' /\ ~Importing(x)
  BY <1>2, IdleIsOK
<1> QED BY <1>1, <1>3, CallOnlyKeeps

\* A command begins: a migration before any success, a cutover after one and
\* while the sentinel is not there.
LEMMA BeginKeeps ==
    ASSUME LegacyInv, NEW t \in Tools, BeginMigrate(t) \/ BeginCutover(t)
    PROVE  LegacyInv'
<1> DEFINE k == IF BeginMigrate(t) THEN "migrate" ELSE "cutover"
           y == [NoOp EXCEPT !.kind = k]
           z == IF k = "migrate" THEN [y EXCEPT !.gen = 1] ELSE y
           u == [z EXCEPT !.at = "capture"]
           x == [u EXCEPT !.src = source]
<1>1. t \in Procs /\ LegacyTypes
  BY ToolsAreProcesses DEF LegacyInv
<1>2. CallOnly
  BY DEF BeginMigrate, BeginCutover, CallOnly, LegacyOnly, NoFault, engineVars
<1>3. op' = [op EXCEPT ![t] = x]
  <2>1. CASE BeginMigrate(t)
    <3>1. x = [NoOp EXCEPT !.kind = "migrate", !.gen = 1, !.at = "capture", !.src = source]
      BY <2>1, Zenon DEF NoOp
    <3> QED BY <2>1, <3>1 DEF BeginMigrate
  <2>2. CASE ~BeginMigrate(t)
    <3>1. x = [NoOp EXCEPT !.kind = "cutover", !.at = "capture", !.src = source]
      <4>1. z = [NoOp EXCEPT !.kind = "cutover"]
        BY <2>2
      <4> QED BY <4>1, Zenon
    <3> QED BY <2>2, <3>1 DEF BeginCutover
  <2> QED BY <2>1, <2>2
<1>4. /\ x \in LegacyCalls /\ x.kind = k /\ x.at = "capture" /\ (k = "migrate" => x.gen = 1)
  <2>1. k \in {"migrate", "cutover"} /\ "capture" \in LegacyPlaces
    BY DEF LegacyPlaces
  <2>2. source \in LegacyFiles
    BY <1>1 DEF LegacyTypes
  <2> HIDE DEF k
  <2>3. y \in LegacyCalls /\ y.kind = k
    BY <2>1, IdleIsCall DEF LegacyCalls
  <2> HIDE DEF y
  <2>4. z \in LegacyCalls /\ z.kind = k /\ (k = "migrate" => z.gen = 1)
    BY <2>3 DEF LegacyCalls
  <2> HIDE DEF z
  <2>5. u \in LegacyCalls /\ u.kind = k /\ u.gen = z.gen /\ u.at = "capture"
    BY <2>1, <2>4, LegacyCallAt
  <2> HIDE DEF u
  <2>6. x \in LegacyCalls /\ x.kind = u.kind /\ x.gen = u.gen /\ x.at = u.at
    BY <2>2, <2>5 DEF LegacyCalls
  <2> QED BY <2>4, <2>5, <2>6
<1>5. op'[t] = x
  BY <1>1, <1>3 DEF LegacyTypes
<1>6. k = "cutover" => /\ migrated /\ ~names["sentinel"] /\ (Unix \/ ~raw)
                       /\ op[t].at # "enter"
  BY DEF BeginCutover, IsClean, NoOp
<1>7. k \in {"migrate", "cutover"}
  OBVIOUS
<1> HIDE DEF x, k
<1>8. PlaceOK(t)'
  BY <1>4, <1>5, <1>7 DEF PlaceOK, ImportPlaces, CutoverPlaces, UnderLease
<1>9. ImportOK(t)' /\ ~Importing(x)
  BY <1>4, <1>5 DEF ImportOK, Importing, ImportPlaces
<1>10. CutoverOK(t)'
  BY <1>2, <1>4, <1>5, <1>6, <1>7
  DEF CutoverOK, OnUnix, OnWindows, CutoverPlaces, CallOnly, legacyVars, Unix
<1> QED BY <1>1, <1>2, <1>3, <1>4, <1>8, <1>9, <1>10, CallOnlyKeeps DEF CallOK

\* The snapshot is compared once more without the lease.
LEMMA CaptureKeeps ==
    ASSUME LegacyInv, NEW t \in Procs, Capture(t)
    PROVE  LegacyInv'
<1>1. LegacyTypes /\ op[t] \in LegacyCalls /\ CallOK(t) /\ op[t].at = "capture"
  BY DEF LegacyInv, LegacyTypes, Capture, Running
<1>2. CallOnly
  BY DEF Capture, CallOnly, LegacyOnly, NoFault, engineVars
<1>3. CASE GiveUp(t)
  BY <1>2, <1>3, CallEndsKeeps
<1>4. CASE ~GiveUp(t)
  <2>1. PICK at \in {"mkdir", "enter"} :
            /\ Goto(t, at) /\ (op[t].kind = "migrate" <=> at = "mkdir")
    BY <1>4 DEF Capture
  <2> DEFINE x == [op[t] EXCEPT !.at = at]
  <2>2. x \in LegacyCalls /\ x.at = at /\ x.gen = op[t].gen /\ x.kind = op[t].kind
    <3>1. at \in LegacyPlaces
      BY DEF LegacyPlaces
    <3> QED BY <1>1, <3>1, LegacyCallAt
  <2>3. op' = [op EXCEPT ![t] = x]
    BY <2>1 DEF Goto
  <2> HIDE DEF x
  <2>4. op'[t] = x
    BY <1>1, <2>3 DEF LegacyTypes
  <2>5. PlaceOK(t)'
    BY <1>1, <2>1, <2>2, <2>4
    DEF CallOK, PlaceOK, ImportPlaces, CutoverPlaces, UnderLease
  <2>6. ImportOK(t)' /\ ~Importing(x)
    BY <2>1, <2>2, <2>4 DEF ImportOK, Importing, ImportPlaces
  <2>7. CutoverOK(t)'
    BY <1>1, <1>2, <2>1, <2>2, <2>4
    DEF CallOK, CutoverOK, OnUnix, OnWindows, CutoverPlaces, CallOnly, legacyVars, Unix
  <2> QED BY <1>2, <2>2, <2>3, <2>5, <2>6, <2>7, CallOnlyKeeps DEF CallOK
<1> QED BY <1>3, <1>4

\* A cutover under the lease finds the import untouched, with the state of
\* the snapshot.
LEMMA CheckTargetKeeps ==
    ASSUME LegacyInv, NEW t \in Procs, CheckTarget(t)
    PROVE  LegacyInv'
<1>1. /\ LegacyTypes /\ op[t] \in LegacyCalls /\ CallOK(t)
      /\ op[t].at = "enter" /\ op[t].kind = "cutover" /\ lease[t] = "held"
      /\ 1 \in Gens
  BY MaxGenIsPositive DEF LegacyInv, LegacyTypes, CheckTarget, Holding, Running, Gens
<1>2. CallOnly
  BY DEF CheckTarget, CallOnly, LegacyOnly, NoFault, engineVars
<1>3. CASE GiveUp(t)
  BY <1>2, <1>3, CallEndsKeeps
<1>4. CASE ~GiveUp(t)
  <2>1. /\ op' = [op EXCEPT ![t].wit.log = log[1],
                            ![t].at = IF Unix THEN "sentinel" ELSE "retain"]
        /\ Live(log[1].recs) = Live(op[t].src.recs)
        /\ Unix => ~names["retained"]
    BY <1>4 DEF CheckTarget
  <2> DEFINE w == [op[t] EXCEPT !.wit.log = log[1]]
             at == IF Unix THEN "sentinel" ELSE "retain"
             x == [w EXCEPT !.at = at]
  <2>2. op' = [op EXCEPT ![t] = x]
    BY <1>1, <2>1 DEF LegacyTypes
  <2>3. /\ w \in LegacyCalls /\ w.gen = op[t].gen /\ w.kind = op[t].kind
        /\ w.src = op[t].src /\ w.wit.log = log[1]
    <3>1. log[1] \in LegacyFiles /\ op[t].wit \in LegacyWitnesses
      BY <1>1 DEF LegacyTypes, LegacyCalls
    <3>2. /\ [op[t].wit EXCEPT !.log = log[1]] \in LegacyWitnesses
          /\ [op[t].wit EXCEPT !.log = log[1]].log = log[1]
      BY <3>1 DEF LegacyWitnesses
    <3> QED BY <1>1, <3>2 DEF LegacyCalls
  <2>4. at \in {"sentinel", "retain"} /\ (Unix <=> at = "sentinel")
    OBVIOUS
  <2> HIDE DEF w, at
  <2>5. /\ x \in LegacyCalls /\ x.at = at /\ x.gen = op[t].gen /\ x.kind = op[t].kind
        /\ x.src = op[t].src /\ x.wit.log = log[1]
    <3>1. at \in LegacyPlaces
      BY <2>4 DEF LegacyPlaces, CutoverPlaces
    <3> QED BY <2>3, <3>1, LegacyCallAt
  <2> HIDE DEF x
  <2>6. op'[t] = x
    BY <1>1, <2>2 DEF LegacyTypes
  <2>7. PlaceOK(t)'
    BY <1>1, <1>2, <2>4, <2>5, <2>6
    DEF CallOK, PlaceOK, ImportPlaces, CutoverPlaces, UnderLease, CallOnly, lockVars
  <2>8. ImportOK(t)' /\ ~Importing(x)
    BY <1>1, <2>4, <2>5, <2>6 DEF ImportOK, Importing, ImportPlaces
  <2>9. CutoverOK(t)'
    BY <1>1, <1>2, <2>1, <2>4, <2>5, <2>6
    DEF CallOK, CutoverOK, OnUnix, OnWindows, CutoverPlaces, CallOnly, legacyVars, Unix
  <2> QED BY <1>2, <2>2, <2>5, <2>7, <2>8, <2>9, CallOnlyKeeps DEF CallOK
<1> QED BY <1>3, <1>4
-----------------------------------------------------------------------------
\* The cutover under the lease.

\* What a cutover can rely on there.
LEMMA CutoverIs ==
    ASSUME LegacyInv, NEW p \in Procs, op[p].at \in CutoverPlaces
    PROVE  /\ LegacyTypes /\ op[p] \in LegacyCalls /\ op[p].kind = "cutover"
           /\ lease[p] = "held" /\ p \in Tools
           /\ migrated /\ TargetLasts /\ proof[1] \in Seq(Nat)
           /\ log[1] \in LegacyFiles
           /\ Live(op[p].wit.log.recs) = Live(op[p].src.recs)
           /\ op[p].at = "final" => names["sentinel"] /\ kept["sentinel"]
           /\ Unix => OnUnix(p)
           /\ ~Unix => OnWindows(p)
           /\ SentinelInv /\ HandedInv
<1>1. CallOK(p) /\ LegacyTypes /\ op[p] \in LegacyCalls
  BY DEF LegacyInv, LegacyTypes
<1>2. op[p].kind = "cutover" /\ lease[p] = "held" /\ p \in Tools
  BY <1>1 DEF CallOK, PlaceOK, UnderLease
<1>3. migrated /\ TargetLasts
  BY <1>1, <1>2 DEF CallOK, CutoverOK, LegacyInv, NamesInv, MigratedInv
<1>4. 1 \in Gens
  BY MaxGenIsPositive DEF Gens
<1>5. proof[1] \in Seq(Nat) /\ log[1] \in LegacyFiles
  BY <1>1, <1>3, <1>4 DEF LegacyTypes, TargetLasts
<1> QED BY <1>1, <1>2, <1>3, <1>5 DEF CallOK, CutoverOK, LegacyInv, NamesInv

\* What the names must be for a cutover to go on to a place.
NamesFit(at) ==
    /\ at = "final" => names'["sentinel"] /\ kept'["sentinel"]
    /\ Unix =>
          /\ at # "retain"
          /\ at \in {"sentinel", "resource", "retainLink"} => ~names'["retained"]
          /\ at \in {"linkedSync", "confirm"} =>
                names'["retained"] /\ ~names'["sentinel"]
          /\ at \in {"confirm", "replace"} => names'["retained"] /\ kept'["retained"]
          /\ at = "replaceSync" => names'["sentinel"]
    /\ ~Unix =>
          /\ at \notin {"retainLink", "linkedSync", "confirm", "replaceSync"}
          /\ at \in {"sentinel", "resource", "replace"} => names'["retained"]
          /\ at = "replace" =>
                proof[1] = log[1].recs /\ Live(proof[1]) = Live(source.recs)

\* Types of the legacy side after a step.
CutoverTyped ==
    /\ names' \in [Names -> BOOLEAN] /\ kept' \in [Names -> BOOLEAN]
    /\ copy' \in LegacyFiles /\ handed' \in LegacyFiles /\ writes' = writes

\* A step of a cutover keeps the types.
LEMMA CutoverTypesKeep ==
    ASSUME LegacyTypes, op' \in [Procs -> LegacyCalls], CutoverFrame, CutoverTyped
    PROVE  LegacyTypes'
BY DEF LegacyTypes, CutoverFrame, CutoverTyped

\* A cutover goes on to a place its names fit.
LEMMA CutoverGoesKeeps ==
    ASSUME LegacyInv, NEW p \in Procs, op[p].at \in CutoverPlaces,
           NEW at \in CutoverPlaces, Goto(p, at), CutoverFrame, CutoverTyped,
           NamesFit(at), SentinelInv', HandedInv'
    PROVE  LegacyInv'
<1> DEFINE x == [op[p] EXCEPT !.at = at]
<1>1. /\ LegacyTypes /\ op[p] \in LegacyCalls /\ op[p].kind = "cutover"
      /\ lease[p] = "held" /\ p \in Tools /\ migrated
      /\ Live(op[p].wit.log.recs) = Live(op[p].src.recs)
      /\ ~Unix => OnWindows(p)
  BY CutoverIs
<1>2. at \in LegacyPlaces /\ at \notin ImportPlaces \cup {"mkdir", "enter"}
  BY DEF LegacyPlaces, CutoverPlaces, ImportPlaces
<1>3. /\ x \in LegacyCalls /\ x.at = at /\ x.kind = "cutover"
      /\ x.wit = op[p].wit /\ x.src = op[p].src
  BY <1>1, <1>2, LegacyCallAt
<1>4. op' = [op EXCEPT ![p] = x]
  BY DEF Goto
<1> HIDE DEF x
<1>5. op'[p] = x /\ op' \in [Procs -> LegacyCalls] /\ op' = [op EXCEPT ![p] = op'[p]]
  BY <1>1, <1>3, <1>4 DEF LegacyTypes
<1>6. /\ platform' = platform /\ lease' = lease /\ migrated' = migrated /\ raw' = raw
      /\ proof' = proof /\ log' = log /\ source' = source
  BY DEF CutoverFrame, lockVars
<1>7. PlaceOK(p)'
  BY <1>1, <1>2, <1>3, <1>5, <1>6 DEF PlaceOK
<1>8. ImportOK(p)'
  BY <1>2, <1>3, <1>5 DEF ImportOK, Importing, ImportPlaces
<1>9. CutoverOK(p)'
  <2>1. CASE Unix
    BY <1>1, <1>3, <1>5, <1>6, <2>1 DEF CutoverOK, OnUnix, NamesFit, Unix
  <2>2. CASE ~Unix
    BY <1>1, <1>3, <1>5, <1>6, <2>2
    DEF CutoverOK, OnWindows, NamesFit, Unix, CutoverFrame
  <2> QED BY <2>1, <2>2
<1>10. CallOK(p)'
  BY <1>7, <1>8, <1>9 DEF CallOK
<1>11. LegacyTypes'
  BY <1>1, <1>5, CutoverTypesKeep
<1> QED BY <1>1, <1>3, <1>5, <1>10, <1>11, CutoverKeeps

\* A cutover ends, with an error or with its handover.
LEMMA CutoverEndsKeeps ==
    ASSUME LegacyInv, NEW p \in Procs, op[p].at \in CutoverPlaces,
           GiveUp(p) \/ Leave(p), CutoverFrame, CutoverTyped,
           SentinelInv', HandedInv'
    PROVE  LegacyInv'
<1>1. LegacyTypes /\ op[p].kind = "cutover" /\ lease[p] = "held"
  BY CutoverIs
<1>2. PICK x \in {NoOp, Leaving} : x \in LegacyCalls /\ op' = [op EXCEPT ![p] = x]
  BY GiveUpIs
<1>3. /\ op'[p] = x /\ op' \in [Procs -> LegacyCalls] /\ op' = [op EXCEPT ![p] = op'[p]]
      /\ x.kind = "none" /\ x.at \in {"idle", "leave"}
  BY <1>1, <1>2, IdleIsCall DEF LegacyTypes
<1>4. CallOK(p)'
  BY <1>3, IdleIsOK
<1>5. LegacyTypes'
  BY <1>1, <1>3, CutoverTypesKeep
<1> QED BY <1>1, <1>3, <1>4, <1>5, CutoverKeeps

\* A handover stays one while its names stay and the retained file with them.
LEMMA HandedStays ==
    ASSUME HandedInv, handed' = handed,
           UNCHANGED <<platform, proof, source, migrated>>,
           names["sentinel"] => names'["sentinel"],
           names["sentinel"] /\ kept["sentinel"] => kept'["sentinel"],
           copy' = copy \/ handed = NoLog
    PROVE  HandedInv'
BY DEF HandedInv, Retained, Unix

\* The sentinel stays where it is while its names and the retained one do.
LEMMA SentinelStays ==
    ASSUME SentinelInv, UNCHANGED <<platform, proof, source, raw, migrated>>,
           \A n \in {"sentinel", "retained"} : names'[n] = names[n],
           \/ \A n \in {"sentinel", "retained"} : kept'[n] = kept[n]
           \/ \A n \in {"sentinel", "retained"} : kept'[n] = names[n]
    PROVE  SentinelInv'
BY DEF SentinelInv, Unix

\* A Windows cutover uses the retained file it finds, or moves in a copy.
LEMMA RetainKeeps ==
    ASSUME LegacyInv, NEW t \in Procs, Retain(t)
    PROVE  LegacyInv'
<1>1. /\ LegacyTypes /\ op[t] \in LegacyCalls /\ op[t].kind = "cutover"
      /\ op[t].at = "retain" /\ op[t].at \in CutoverPlaces
      /\ Unix => OnUnix(t)
      /\ ~Unix => OnWindows(t)
      /\ SentinelInv /\ HandedInv
  <2>1. op[t].at = "retain" /\ op[t].at \in CutoverPlaces
    BY DEF Retain, Holding, Running, CutoverPlaces
  <2> QED BY <2>1, CutoverIs
<1>2. ~Unix /\ (names["sentinel"] => names["retained"])
  BY <1>1 DEF OnUnix, OnWindows
<1>3. ~names["retained"] => handed = NoLog
  BY <1>1, <1>2 DEF HandedInv
<1>4. /\ UNCHANGED <<platform, dir, disk, proof, log, source,
                          raw, migrated, handed, writes>>
      /\ UNCHANGED lockVars
  BY DEF Retain, LegacyOnly, NoFault, Fault, engineVars
<1>5. /\ op[t].src \in LegacyFiles /\ copy \in LegacyFiles /\ handed \in LegacyFiles
      /\ names \in [Names -> BOOLEAN] /\ kept \in [Names -> BOOLEAN]
      /\ "retained" \in Names /\ "target" \in Names /\ "sentinel" \in Names
  BY <1>1 DEF LegacyTypes, LegacyCalls, Names
<1>6. /\ names' \in [Names -> BOOLEAN] /\ kept' \in [Names -> BOOLEAN]
      /\ copy' = copy \/ (copy' = op[t].src /\ handed = NoLog)
      /\ \A n \in {"target", "sentinel"} : names'[n] = names[n] /\ kept'[n] = kept[n]
      /\ names["retained"] => names'["retained"]
  BY <1>3, <1>5 DEF Retain, Settle, Appear, AppearErrs
<1>7. CutoverFrame /\ CutoverTyped
  BY <1>2, <1>4, <1>5, <1>6 DEF CutoverFrame, CutoverTyped
<1>8. SentinelInv' /\ HandedInv'
  <2>1. SentinelInv'
    BY <1>1, <1>2, <1>4, <1>6 DEF SentinelInv, Unix
  <2>2. HandedInv'
    BY <1>1, <1>4, <1>6, HandedStays
  <2> QED BY <2>1, <2>2
<1>9. CASE GiveUp(t)
  BY <1>1, <1>7, <1>8, <1>9, CutoverEndsKeeps
<1>10. CASE ~GiveUp(t)
  <2>1. Goto(t, "sentinel") /\ names'["retained"]
    BY <1>5, <1>10 DEF Retain, Settle
  <2>2. "sentinel" \in CutoverPlaces
    BY DEF CutoverPlaces
  <2>3. NamesFit("sentinel")
    BY <1>2, <2>1 DEF NamesFit
  <2> QED BY <1>1, <1>7, <1>8, <2>1, <2>2, <2>3, CutoverGoesKeeps
<1> QED BY <1>9, <1>10

\* The sentinel is staged.
LEMMA WriteSentinelKeeps ==
    ASSUME LegacyInv, NEW t \in Procs, WriteSentinel(t)
    PROVE  LegacyInv'
<1>1. /\ LegacyTypes /\ op[t] \in LegacyCalls /\ op[t].kind = "cutover"
      /\ op[t].at = "sentinel" /\ op[t].at \in CutoverPlaces
      /\ Unix => OnUnix(t)
      /\ ~Unix => OnWindows(t)
      /\ SentinelInv /\ HandedInv
  <2>1. op[t].at = "sentinel" /\ op[t].at \in CutoverPlaces
    BY DEF WriteSentinel, Holding, Running, CutoverPlaces
  <2> QED BY <2>1, CutoverIs
<1>2. /\ UNCHANGED <<platform, dir, disk, proof, log, source,
                          copy, raw, migrated, handed, writes>>
      /\ UNCHANGED lockVars
  BY DEF WriteSentinel, LegacyOnly, NoFault, Fault, engineVars
<1>3. /\ names' \in [Names -> BOOLEAN] /\ kept' = kept
      /\ \A n \in {"target", "sentinel", "retained"} : names'[n] = names[n]
  BY <1>1 DEF WriteSentinel, Appear, LegacyTypes, Names
<1>4. CutoverFrame /\ CutoverTyped
  BY <1>1, <1>2, <1>3 DEF CutoverFrame, CutoverTyped, LegacyTypes, OnWindows
<1>5. SentinelInv' /\ HandedInv'
  BY <1>1, <1>2, <1>3, SentinelStays, HandedStays
<1>6. CASE GiveUp(t)
  BY <1>1, <1>4, <1>5, <1>6, CutoverEndsKeeps
<1>7. CASE ~GiveUp(t)
  <2>1. Goto(t, "resource") /\ "resource" \in CutoverPlaces
    BY <1>7 DEF WriteSentinel, CutoverPlaces
  <2>2. NamesFit("resource")
    BY <1>1, <1>2, <1>3 DEF NamesFit, OnUnix, OnWindows, Unix
  <2> QED BY <1>1, <1>4, <1>5, <2>1, <2>2, CutoverGoesKeeps
<1> QED BY <1>6, <1>7

\* The source is compared again; what was staged is removed when it differs.
LEMMA RecheckSourceKeeps ==
    ASSUME LegacyInv, NEW t \in Procs, RecheckSource(t)
    PROVE  LegacyInv'
<1>1. /\ LegacyTypes /\ op[t] \in LegacyCalls /\ op[t].kind = "cutover"
      /\ op[t].at = "resource" /\ op[t].at \in CutoverPlaces
      /\ Live(op[t].wit.log.recs) = Live(op[t].src.recs)
      /\ Unix => OnUnix(t)
      /\ ~Unix => OnWindows(t)
      /\ SentinelInv /\ HandedInv
  <2>1. op[t].at = "resource" /\ op[t].at \in CutoverPlaces
    BY DEF RecheckSource, Holding, Running, CutoverPlaces
  <2> QED BY <2>1, CutoverIs
<1>2. /\ UNCHANGED <<platform, dir, disk, proof, log, source,
                          copy, raw, migrated, handed, writes>>
      /\ UNCHANGED lockVars
  BY DEF RecheckSource, LegacyOnly, NoFault, engineVars
<1>3. /\ names \in [Names -> BOOLEAN] /\ kept \in [Names -> BOOLEAN]
      /\ Names = {"target", "retained", "staging", "sentinel"}
  BY <1>1 DEF LegacyTypes, Names
<1>4. /\ names' \in [Names -> BOOLEAN] /\ kept' \in [Names -> BOOLEAN]
      /\ \A n \in {"target", "sentinel", "retained"} : names'[n] = names[n]
      /\ kept'["target"] = kept["target"]
      /\ \/ \A n \in {"sentinel", "retained"} : kept'[n] = kept[n]
         \/ \A n \in {"sentinel", "retained"} : kept'[n] = names[n]
  <2>1. CASE UNCHANGED <<names, kept>>
    BY <1>3, <2>1
  <2>2. CASE CleanUp({"staging"})
    <3>1. PICK gone \in SUBSET {"staging"} :
              names' = [n \in Names |-> names[n] /\ n \notin gone]
      BY <2>2 DEF CleanUp
    <3>2. names' \in [Names -> BOOLEAN]
      BY <1>3, <3>1
    <3>3. \A n \in {"target", "sentinel", "retained"} : names'[n] = names[n]
      BY <1>3, <3>1
    <3>4. kept' \in {kept, [names' EXCEPT !["target"] = kept["target"]]}
      BY <2>2 DEF CleanUp
    <3> QED BY <1>3, <3>2, <3>3, <3>4
  <2> QED BY <2>1, <2>2 DEF RecheckSource
<1>5. CutoverFrame /\ CutoverTyped
  BY <1>1, <1>2, <1>4 DEF CutoverFrame, CutoverTyped, LegacyTypes, OnWindows
<1>6. SentinelInv' /\ HandedInv'
  <2>1. SentinelInv'
    BY <1>1, <1>2, <1>4, SentinelStays
  <2>2. names["sentinel"] /\ kept["sentinel"] => kept'["sentinel"]
    BY <1>4
  <2> QED BY <1>1, <1>2, <1>4, <2>1, <2>2, HandedStays
<1>7. CASE GiveUp(t)
  BY <1>1, <1>5, <1>6, <1>7, CutoverEndsKeeps
<1>8. CASE ~GiveUp(t)
  <2>1. /\ Goto(t, IF Unix THEN "retainLink" ELSE "replace")
        /\ source = op[t].src /\ UNCHANGED <<names, kept>>
        /\ Unix \/ (log[1].recs = proof[1] /\ log[1] = op[t].wit.log)
    BY <1>8 DEF RecheckSource, MatchesSnapshot, IsFreshTarget
  <2>2. CASE Unix
    <3>1. "retainLink" \in CutoverPlaces
      BY DEF CutoverPlaces
    <3>2. NamesFit("retainLink")
      BY <1>1, <2>1, <2>2 DEF NamesFit, OnUnix
    <3> QED BY <1>1, <1>5, <1>6, <2>1, <2>2, <3>1, <3>2, CutoverGoesKeeps
  <2>3. CASE ~Unix
    <3>1. "replace" \in CutoverPlaces
      BY DEF CutoverPlaces
    <3>2. proof[1] = log[1].recs /\ Live(proof[1]) = Live(source.recs)
      BY <1>1, <2>1, <2>3
    <3>3. NamesFit("replace")
      BY <1>1, <2>1, <2>3, <3>2 DEF NamesFit, OnWindows
    <3> QED BY <1>1, <1>5, <1>6, <2>1, <2>3, <3>1, <3>3, CutoverGoesKeeps
  <2> QED BY <2>2, <2>3
<1> QED BY <1>7, <1>8

\* Unix links the file to its retained name.
LEMMA LinkRetainedKeeps ==
    ASSUME LegacyInv, NEW t \in Procs, LinkRetained(t)
    PROVE  LegacyInv'
<1>1. /\ LegacyTypes /\ op[t] \in LegacyCalls /\ op[t].kind = "cutover"
      /\ op[t].at = "retainLink" /\ op[t].at \in CutoverPlaces
      /\ Unix => OnUnix(t)
      /\ ~Unix => OnWindows(t)
      /\ SentinelInv /\ HandedInv
  <2>1. op[t].at = "retainLink" /\ op[t].at \in CutoverPlaces
    BY DEF LinkRetained, Holding, Running, CutoverPlaces
  <2> QED BY <2>1, CutoverIs
<1>2. Unix /\ ~names["retained"] /\ ~names["sentinel"] /\ ~kept["sentinel"]
  BY <1>1 DEF OnUnix, OnWindows, SentinelInv
<1>3. /\ UNCHANGED <<platform, dir, disk, proof, log, source,
                          copy, raw, migrated, handed, writes>>
      /\ UNCHANGED lockVars
  BY DEF LinkRetained, LegacyOnly, NoFault, Fault, engineVars
<1>4. /\ names' \in [Names -> BOOLEAN] /\ kept' = kept
      /\ \A n \in {"target", "sentinel"} : names'[n] = names[n]
      /\ ~GiveUp(t) => names'["retained"]
  BY <1>1 DEF LinkRetained, Appear, LegacyTypes, Names
<1>5. CutoverFrame /\ CutoverTyped
  BY <1>1, <1>2, <1>3, <1>4 DEF CutoverFrame, CutoverTyped, LegacyTypes
<1>6. SentinelInv' /\ HandedInv'
  <2>1. SentinelInv'
    BY <1>2, <1>4 DEF SentinelInv
  <2> QED BY <1>1, <1>2, <1>3, <1>4, <2>1, HandedStays
<1>7. CASE GiveUp(t)
  BY <1>1, <1>5, <1>6, <1>7, CutoverEndsKeeps
<1>8. CASE ~GiveUp(t)
  <2>1. Goto(t, "linkedSync") /\ "linkedSync" \in CutoverPlaces
    BY <1>8 DEF LinkRetained, CutoverPlaces
  <2>2. NamesFit("linkedSync")
    BY <1>2, <1>4, <1>8 DEF NamesFit
  <2> QED BY <1>1, <1>5, <1>6, <2>1, <2>2, CutoverGoesKeeps
<1> QED BY <1>7, <1>8

\* Unix syncs the directory of the legacy file, for the retained name and
\* for the sentinel.
LEMMA CutoverSyncKeeps ==
    ASSUME LegacyInv, NEW t \in Procs, SyncParent(t), op[t].at # "mkdirSync"
    PROVE  LegacyInv'
<1>1. op[t].at \in {"linkedSync", "replaceSync"}
  BY DEF SyncParent, AfterParentSync
<1>2. /\ LegacyTypes /\ op[t] \in LegacyCalls /\ op[t].kind = "cutover"
      /\ op[t].at \in CutoverPlaces
      /\ Unix => OnUnix(t)
      /\ ~Unix => OnWindows(t)
      /\ SentinelInv /\ HandedInv
  <2>1. op[t].at \in CutoverPlaces
    BY <1>1 DEF CutoverPlaces
  <2> QED BY <2>1, CutoverIs
<1>3. /\ Unix
      /\ op[t].at = "linkedSync" => names["retained"] /\ ~names["sentinel"]
      /\ op[t].at = "replaceSync" => names["sentinel"]
  BY <1>1, <1>2 DEF OnUnix, OnWindows
<1>4. /\ UNCHANGED <<platform, dir, disk, proof, log, source,
                          copy, names, raw, migrated, handed, writes>>
      /\ UNCHANGED lockVars
  BY DEF SyncParent, LegacyOnly, NoFault, Fault, engineVars
<1>5. \/ GiveUp(t) /\ kept' = kept
      \/ /\ Goto(t, AfterParentSync[op[t].at])
         /\ kept' = [names EXCEPT !["target"] = kept["target"]]
  BY <1>1 DEF SyncParent
<1>6. /\ names \in [Names -> BOOLEAN] /\ kept' \in [Names -> BOOLEAN]
      /\ kept'["target"] = kept["target"]
      /\ \/ \A n \in {"sentinel", "retained"} : kept'[n] = kept[n]
         \/ \A n \in {"sentinel", "retained"} : kept'[n] = names[n]
      /\ ~GiveUp(t) => \A n \in {"sentinel", "retained"} : kept'[n] = names[n]
  BY <1>2, <1>5 DEF LegacyTypes, Names
<1>7. CutoverFrame /\ CutoverTyped
  BY <1>2, <1>3, <1>4, <1>6 DEF CutoverFrame, CutoverTyped, LegacyTypes
<1>8. SentinelInv' /\ HandedInv'
  <2>1. SentinelInv'
    BY <1>2, <1>4, <1>6, SentinelStays
  <2>2. names["sentinel"] /\ kept["sentinel"] => kept'["sentinel"]
    BY <1>6
  <2> QED BY <1>2, <1>4, <2>1, <2>2, HandedStays
<1>9. CASE GiveUp(t)
  BY <1>2, <1>7, <1>8, <1>9, CutoverEndsKeeps
<1>10. CASE ~GiveUp(t)
  <2>1. CASE op[t].at = "linkedSync"
    <3>1. Goto(t, "confirm") /\ "confirm" \in CutoverPlaces
      BY <1>5, <1>10, <2>1 DEF AfterParentSync, CutoverPlaces
    <3>2. NamesFit("confirm")
      BY <1>3, <1>4, <1>6, <1>10, <2>1 DEF NamesFit
    <3> QED BY <1>2, <1>7, <1>8, <3>1, <3>2, CutoverGoesKeeps
  <2>2. CASE op[t].at = "replaceSync"
    <3>1. Goto(t, "final") /\ "final" \in CutoverPlaces
      BY <1>5, <1>10, <2>2 DEF AfterParentSync, CutoverPlaces
    <3>2. NamesFit("final")
      BY <1>3, <1>4, <1>6, <1>10, <2>2 DEF NamesFit
    <3> QED BY <1>2, <1>7, <1>8, <3>1, <3>2, CutoverGoesKeeps
  <2> QED BY <1>1, <2>1, <2>2
<1> QED BY <1>9, <1>10

\* Unix compares the source once more when its retained name is durable.
LEMMA ConfirmSourceKeeps ==
    ASSUME LegacyInv, NEW t \in Procs, ConfirmSource(t)
    PROVE  LegacyInv'
<1>1. /\ LegacyTypes /\ op[t] \in LegacyCalls /\ op[t].kind = "cutover"
      /\ op[t].at = "confirm" /\ op[t].at \in CutoverPlaces
      /\ Unix => OnUnix(t)
      /\ ~Unix => OnWindows(t)
      /\ SentinelInv /\ HandedInv
  <2>1. op[t].at = "confirm" /\ op[t].at \in CutoverPlaces
    BY DEF ConfirmSource, Holding, Running, CutoverPlaces
  <2> QED BY <2>1, CutoverIs
<1>2. /\ Unix /\ names["retained"] /\ kept["retained"]
      /\ ~names["sentinel"] /\ ~kept["sentinel"] /\ handed = NoLog
  BY <1>1 DEF OnUnix, OnWindows, SentinelInv, HandedInv
<1>3. /\ UNCHANGED <<platform, dir, disk, proof, log, source,
                          copy, raw, migrated, handed, writes>>
      /\ UNCHANGED lockVars
  BY DEF ConfirmSource, LegacyOnly, NoFault, engineVars
<1>4. /\ names \in [Names -> BOOLEAN] /\ kept \in [Names -> BOOLEAN]
      /\ Names = {"target", "retained", "staging", "sentinel"}
  BY <1>1 DEF LegacyTypes, Names
<1>5. /\ names' \in [Names -> BOOLEAN] /\ kept' \in [Names -> BOOLEAN]
      /\ \A n \in {"target", "sentinel"} : names'[n] = names[n] /\ kept'[n] = kept[n]
  <2>1. CASE UNCHANGED <<names, kept>>
    BY <1>4, <2>1
  <2>2. CASE CleanUp({"staging", "retained"})
    <3>1. PICK gone \in SUBSET {"staging", "retained"} :
              names' = [n \in Names |-> names[n] /\ n \notin gone]
      BY <2>2 DEF CleanUp
    <3>2. names' \in [Names -> BOOLEAN]
      BY <1>4, <3>1
    <3>3. \A n \in {"target", "sentinel"} : names'[n] = names[n]
      BY <1>4, <3>1
    <3>4. kept' \in {kept, [names' EXCEPT !["target"] = kept["target"]]}
      BY <2>2 DEF CleanUp
    <3> QED BY <1>2, <1>4, <3>2, <3>3, <3>4
  <2> QED BY <2>1, <2>2 DEF ConfirmSource
<1>6. CutoverFrame /\ CutoverTyped
  BY <1>1, <1>2, <1>3, <1>5 DEF CutoverFrame, CutoverTyped, LegacyTypes
<1>7. SentinelInv' /\ HandedInv'
  BY <1>2, <1>3, <1>5 DEF SentinelInv, HandedInv
<1>8. CASE GiveUp(t)
  BY <1>1, <1>6, <1>7, <1>8, CutoverEndsKeeps
<1>9. CASE ~GiveUp(t)
  <2>1. Goto(t, "replace") /\ "replace" \in CutoverPlaces /\ UNCHANGED <<names, kept>>
    BY <1>9 DEF ConfirmSource, CutoverPlaces
  <2>2. NamesFit("replace")
    BY <1>2, <2>1 DEF NamesFit
  <2> QED BY <1>1, <1>6, <1>7, <2>1, <2>2, CutoverGoesKeeps
<1> QED BY <1>8, <1>9

\* The sentinel takes the legacy path, with or without an error: on Unix the
\* retained name is durable by then, on Windows the legacy state is the one
\* the target was compared with.
LEMMA ReplaceKeeps ==
    ASSUME LegacyInv, NEW t \in Procs, Replace(t) \/ ReplaceErrs(t)
    PROVE  LegacyInv'
<1>1. /\ LegacyTypes /\ op[t] \in LegacyCalls /\ op[t].kind = "cutover"
      /\ op[t].at = "replace" /\ op[t].at \in CutoverPlaces /\ migrated
      /\ Unix => OnUnix(t)
      /\ ~Unix => OnWindows(t)
      /\ SentinelInv /\ HandedInv
  <2>1. op[t].at = "replace" /\ op[t].at \in CutoverPlaces
    BY DEF Replace, ReplaceErrs, Holding, Running, CutoverPlaces
  <2> QED BY <2>1, CutoverIs
<1>2. /\ names["retained"]
      /\ Unix => kept["retained"]
      /\ ~Unix => ~raw /\ Live(proof[1]) = Live(source.recs)
  BY <1>1 DEF OnUnix, OnWindows
<1>3. /\ UNCHANGED <<platform, dir, disk, proof, log, source,
                          copy, raw, migrated, handed, writes>>
      /\ UNCHANGED lockVars
  BY DEF Replace, ReplaceErrs, LegacyOnly, NoFault, Fault, engineVars
<1>4. /\ names' \in [Names -> BOOLEAN] /\ kept' \in [Names -> BOOLEAN]
      /\ \A n \in {"target", "retained"} : names'[n] = names[n] /\ kept'[n] = kept[n]
      /\ names["sentinel"] => names'["sentinel"]
      /\ kept["sentinel"] => kept'["sentinel"]
      /\ kept'["sentinel"] => kept["sentinel"] \/ names'["sentinel"]
      /\ Goto(t, "final") => names'["sentinel"] /\ kept'["sentinel"]
      /\ ~GiveUp(t) => names'["sentinel"]
  <2>1. names \in [Names -> BOOLEAN] /\ kept \in [Names -> BOOLEAN]
    BY <1>1 DEF LegacyTypes
  <2>2. CASE ReplaceErrs(t)
    <3>1. GiveUp(t)
      BY <2>2 DEF ReplaceErrs
    <3>2. ~Goto(t, "final")
      <4>1. op'[t] \in {NoOp, Leaving}
        BY <1>1, <3>1 DEF GiveUp, LegacyTypes
      <4>2. Goto(t, "final") => op'[t].at = "final"
        BY <1>1 DEF Goto, LegacyTypes, LegacyCalls
      <4> QED BY <4>1, <4>2, IdleIsCall
    <3> QED BY <2>1, <2>2, <3>1, <3>2 DEF ReplaceErrs, Replaced, Names
  <2>3. CASE Replace(t)
    <3>1. Unix => ~Goto(t, "final")
      <4>1. Unix => op'[t].at = "replaceSync"
        BY <1>1, <2>3 DEF Replace, Goto, LegacyTypes, LegacyCalls
      <4>2. Goto(t, "final") => op'[t].at = "final"
        BY <1>1 DEF Goto, LegacyTypes, LegacyCalls
      <4> QED BY <4>1, <4>2
    <3> QED BY <2>1, <2>3, <3>1 DEF Replace, Replaced, Names
  <2> QED BY <2>2, <2>3
<1>5. CutoverFrame /\ CutoverTyped
  BY <1>1, <1>2, <1>3, <1>4 DEF CutoverFrame, CutoverTyped, LegacyTypes
<1>6. SentinelInv' /\ HandedInv'
  <2>1. SentinelInv'
    BY <1>1, <1>2, <1>3, <1>4 DEF SentinelInv, Unix
  <2> QED BY <1>1, <1>3, <1>4, <2>1, HandedStays
<1>7. CASE GiveUp(t)
  BY <1>1, <1>5, <1>6, <1>7, CutoverEndsKeeps
<1>8. CASE ~GiveUp(t)
  <2>1. CASE Unix
    <3>1. Goto(t, "replaceSync") /\ "replaceSync" \in CutoverPlaces
      BY <1>8, <2>1 DEF Replace, ReplaceErrs, CutoverPlaces
    <3>2. NamesFit("replaceSync")
      BY <1>4, <1>8, <2>1 DEF NamesFit
    <3> QED BY <1>1, <1>5, <1>6, <3>1, <3>2, CutoverGoesKeeps
  <2>2. CASE ~Unix
    <3>1. Goto(t, "final") /\ "final" \in CutoverPlaces
      BY <1>8, <2>2 DEF Replace, ReplaceErrs, CutoverPlaces
    <3>2. NamesFit("final")
      BY <1>4, <2>2, <3>1 DEF NamesFit
    <3> QED BY <1>1, <1>5, <1>6, <3>1, <3>2, CutoverGoesKeeps
  <2> QED BY <2>1, <2>2
<1> QED BY <1>7, <1>8

\* The final checks: what they accept is a durable handover.
LEMMA FinishCutoverKeeps ==
    ASSUME LegacyInv, NEW t \in Procs, FinishCutover(t)
    PROVE  LegacyInv'
<1>1. /\ LegacyTypes /\ op[t] \in LegacyCalls /\ op[t].kind = "cutover"
      /\ op[t].at = "final" /\ op[t].at \in CutoverPlaces /\ migrated
      /\ names["sentinel"] /\ kept["sentinel"]
      /\ Live(op[t].wit.log.recs) = Live(op[t].src.recs)
      /\ ~Unix => OnWindows(t)
      /\ SentinelInv /\ HandedInv
  <2>1. op[t].at = "final" /\ op[t].at \in CutoverPlaces
    BY DEF FinishCutover, Holding, Running, CutoverPlaces
  <2> QED BY <2>1, CutoverIs
<1>2. /\ UNCHANGED <<platform, dir, disk, proof, log, source,
                          copy, names, kept, raw, migrated, writes>>
      /\ UNCHANGED lockVars
  BY DEF FinishCutover, LegacyOnly, NoFault, engineVars
<1>3. \/ handed' = handed
      \/ /\ handed' = op[t].src /\ Retained = op[t].src
         /\ log[1].recs = proof[1] /\ log[1] = op[t].wit.log
  BY DEF FinishCutover, IsFreshTarget
<1>4. op[t].src \in LegacyFiles
  BY <1>1 DEF LegacyCalls
<1>5. CutoverFrame /\ CutoverTyped
  BY <1>1, <1>2, <1>3, <1>4 DEF CutoverFrame, CutoverTyped, LegacyTypes, OnWindows
<1>6. SentinelInv'
  BY <1>1, <1>2 DEF SentinelInv, Unix
<1>7. HandedInv'
  <2>1. CASE handed' = handed
    BY <1>1, <1>2, <2>1, HandedStays
  <2>2. CASE handed' # handed
    <3>1. Retained' = Retained
      BY <1>2 DEF Retained, Unix
    <3>2. Live(proof[1]) = Live(handed'.recs) /\ handed' = Retained
      BY <1>1, <1>3, <2>2
    <3>3. IsPrefix(handed'.recs, Retained.recs)
      <4>1. handed'.recs \in Seq(Nat)
        BY <1>3, <1>4, <2>2 DEF LegacyFiles
      <4> QED BY <3>2, <4>1 DEF IsPrefix
    <3> QED BY <1>1, <1>2, <3>1, <3>2, <3>3 DEF HandedInv
  <2> QED BY <2>1, <2>2
<1> QED BY <1>1, <1>5, <1>6, <1>7, CutoverEndsKeeps DEF FinishCutover
-----------------------------------------------------------------------------
\* Raw writers.

\* A sequence that gets one more element keeps its prefixes, and itself.
LEMMA PrefixGrows ==
    ASSUME NEW u \in Seq(Nat), NEW s \in Seq(Nat), NEW v \in Nat, IsPrefix(u, s)
    PROVE  IsPrefix(u, Append(s, v))
<1>1. /\ Len(u) \in Nat /\ Len(s) \in Nat /\ Len(u) <= Len(s)
      /\ SubSeq(u, 1, Len(u)) = SubSeq(s, 1, Len(u))
  BY DEF IsPrefix
<1>2. Len(Append(s, v)) = Len(s) + 1
  OBVIOUS
<1>3. SubSeq(Append(s, v), 1, Len(u)) = SubSeq(s, 1, Len(u))
  BY <1>1, <1>2
<1> QED BY <1>1, <1>2, <1>3 DEF IsPrefix

\* What a raw writer does to the legacy file; on Windows none is there
\* beside a cutover or behind the sentinel.
RawFrame ==
    /\ UNCHANGED <<vars, copy, names, kept, migrated, handed>>
    /\ raw' \in BOOLEAN /\ source' \in LegacyFiles
    /\ \A u \in Seq(Nat) : IsPrefix(u, source.recs) => IsPrefix(u, source'.recs)
    /\ ~Unix => ~names["sentinel"] /\ \A t \in Tools : op[t].kind # "cutover"

\* Such a step keeps the invariant.
LEMMA RawKeeps ==
    ASSUME LegacyInv, RawFrame
    PROVE  LegacyInv'
<1>1. /\ platform' = platform /\ dir' = dir /\ disk' = disk /\ log' = log
      /\ proof' = proof /\ op' = op /\ writes' = writes /\ UNCHANGED lockVars
      /\ copy' = copy /\ names' = names /\ kept' = kept /\ migrated' = migrated
      /\ handed' = handed
  BY DEF RawFrame, vars, dirVars, engineVars
<1>2. LegacyTypes'
  BY <1>1 DEF LegacyInv, LegacyTypes, RawFrame
<1>3. LockInv' /\ lease' = lease
  <2>1. [LockNext]_lockVars /\ lease' = lease
    BY <1>1 DEF lockVars
  <2> QED BY <2>1, LockStep DEF LegacyInv
<1>4. ASSUME NEW p \in Procs PROVE CallOK(p)'
  <2>1. CallOK(p)
    BY DEF LegacyInv
  <2>2. ~Unix => op[p].kind # "cutover" /\ op[p].at \notin CutoverPlaces
    BY <2>1 DEF CallOK, PlaceOK, RawFrame
  <2>3. PlaceOK(p)' /\ ImportOK(p)'
    BY <1>1, <1>3, <2>1 DEF CallOK, PlaceOK, ImportOK, Unix
  <2>4. CutoverOK(p)'
    <3>1. CASE Unix
      BY <1>1, <2>1, <3>1 DEF CallOK, CutoverOK, OnUnix, Unix
    <3>2. CASE ~Unix
      BY <1>1, <2>1, <2>2, <3>2 DEF CallOK, CutoverOK, OnWindows, Unix, CutoverPlaces
    <3> QED BY <3>1, <3>2
  <2> QED BY <2>3, <2>4 DEF CallOK
<1>5. OneImporter'
  BY <1>1 DEF LegacyInv, OneImporter
<1>6. NamesInv'
  <2>1. MigratedInv'
    BY <1>1 DEF LegacyInv, NamesInv, MigratedInv, TargetLasts
  <2>2. SentinelInv'
    BY <1>1 DEF LegacyInv, NamesInv, SentinelInv, RawFrame, Unix
  <2>3. HandedInv'
    <3>1. SUFFICES ASSUME handed # NoLog PROVE IsPrefix(handed.recs, Retained'.recs)
      BY <1>1 DEF LegacyInv, NamesInv, HandedInv
    <3>2. names["sentinel"] /\ IsPrefix(handed.recs, Retained.recs)
      BY <3>1 DEF LegacyInv, NamesInv, HandedInv
    <3>3. Unix /\ Retained = source /\ Retained' = source'
      BY <1>1, <3>2 DEF RawFrame, Retained, Unix
    <3>4. handed.recs \in Seq(Nat)
      BY DEF LegacyInv, LegacyTypes, LegacyFiles
    <3> QED BY <3>2, <3>3, <3>4 DEF RawFrame
  <2> QED BY <2>1, <2>2, <2>3 DEF NamesInv
<1> QED BY <1>2, <1>3, <1>4, <1>5, <1>6 DEF LegacyInv

\* An open, an append and a close are such steps.
LEMMA RawStepsKeep ==
    ASSUME LegacyInv, RawOpen \/ RawAppend \/ RawClose
    PROVE  LegacyInv'
<1>1. /\ source \in LegacyFiles /\ raw \in BOOLEAN
      /\ source.recs \in Seq(Nat) /\ Len(source.recs) \in Nat
  BY DEF LegacyInv, LegacyTypes, LegacyFiles
<1>2. ASSUME raw, ~Unix
      PROVE  ~names["sentinel"] /\ \A t \in Tools : op[t].kind # "cutover"
  BY <1>2, ToolsAreProcesses
  DEF LegacyInv, NamesInv, SentinelInv, CallOK, CutoverOK, OnWindows
<1>3. ~Unix => ~names["sentinel"] /\ \A t \in Tools : op[t].kind # "cutover"
  BY <1>2 DEF RawOpen, RawAppend, RawClose, CuttingOver
<1>4. UNCHANGED <<vars, copy, names, kept, migrated, handed>> /\ raw' \in BOOLEAN
  BY <1>1 DEF RawOpen, RawAppend, RawClose, Keep
<1>5. ASSUME NEW b \in BOOLEAN, source' = [source EXCEPT !.tail = b]
      PROVE  source' \in LegacyFiles /\ source'.recs = source.recs
  BY <1>1, <1>5 DEF LegacyFiles
<1>6. CASE RawAppend
  <2>1. RawRecord(Len(source.recs) + 1) \in Nat
    BY <1>1, MaxWritesIsNatural DEF RawRecord
  <2> DEFINE v == RawRecord(Len(source.recs) + 1)
  <2>2. source' = [source EXCEPT !.recs = Append(source.recs, v)]
    BY <1>6 DEF RawAppend
  <2> HIDE DEF v
  <2>3. source' \in LegacyFiles /\ source'.recs = Append(source.recs, v)
    BY <1>1, <2>1, <2>2, SMTT(30) DEF LegacyFiles, v
  <2>4. \A u \in Seq(Nat) : IsPrefix(u, source.recs) => IsPrefix(u, source'.recs)
    BY <1>1, <2>1, <2>3, PrefixGrows DEF v
  <2> QED BY <1>3, <1>4, <2>3, <2>4, RawKeeps DEF RawFrame
<1>7. CASE ~RawAppend
  <2>1. source' \in LegacyFiles /\ source'.recs = source.recs
    BY <1>1, <1>5, <1>7 DEF RawOpen, RawClose
  <2> QED BY <1>3, <1>4, <2>1, RawKeeps DEF RawFrame
<1> QED BY <1>6, <1>7
-----------------------------------------------------------------------------
\* Routed calls.

\* What an append, an interrupted one or a repair leaves of the logs: their
\* types, and every prefix of generation 1.
LEMMA LegacyLogGrows ==
    ASSUME LegacyTypes, NEW h, NEW v \in Nat,
           \/ log' = log
           \/ \E b \in BOOLEAN : log' = [log EXCEPT ![h].tail = b]
           \/ log' = [log EXCEPT ![h].recs = Append(@, v)]
    PROVE  log' \in [Gens -> LegacyFiles] /\ LogGrows
<1>1. log \in [Gens -> LegacyFiles] /\ 1 \in Gens
  BY MaxGenIsPositive DEF LegacyTypes, Gens
<1>2. ASSUME NEW b \in BOOLEAN, log' = [log EXCEPT ![h].tail = b]
      PROVE  log' \in [Gens -> LegacyFiles] /\ LogGrows
  <2>1. ASSUME NEW f \in LegacyFiles
        PROVE  [f EXCEPT !.tail = b] \in LegacyFiles /\ [f EXCEPT !.tail = b].recs = f.recs
    BY DEF LegacyFiles
  <2>2. log' = [log EXCEPT ![h] = [log[h] EXCEPT !.tail = b]]
    BY <1>2
  <2>3. h \in Gens => [log[h] EXCEPT !.tail = b] \in LegacyFiles
    BY <1>1, <2>1
  <2>4. log'[1] = log[1] \/ log'[1] = [log[1] EXCEPT !.tail = b]
    BY <1>1, <2>2
  <2>5. log'[1].recs = log[1].recs
    BY <1>1, <2>1, <2>4
  <2> QED BY <1>1, <2>2, <2>3, <2>5 DEF LogGrows
<1>3. CASE log' = [log EXCEPT ![h].recs = Append(@, v)]
  <2>1. ASSUME NEW f \in LegacyFiles
        PROVE  /\ [f EXCEPT !.recs = Append(f.recs, v)] \in LegacyFiles
               /\ [f EXCEPT !.recs = Append(f.recs, v)].recs = Append(f.recs, v)
               /\ f.recs \in Seq(Nat)
    <3>1. Append(f.recs, v) \in Seq(Nat)
      BY DEF LegacyFiles
    <3> QED BY <3>1 DEF LegacyFiles
  <2>2. log' = [log EXCEPT ![h] = [log[h] EXCEPT !.recs = Append(log[h].recs, v)]]
    BY <1>3
  <2>3. h \in Gens => [log[h] EXCEPT !.recs = Append(log[h].recs, v)] \in LegacyFiles
    BY <1>1, <2>1
  <2>4. log'[1] = log[1] \/ log'[1] = [log[1] EXCEPT !.recs = Append(log[1].recs, v)]
    BY <1>1, <2>2
  <2>5. log'[1].recs = log[1].recs \/ log'[1].recs = Append(log[1].recs, v)
    BY <1>1, <2>1, <2>4
  <2>6. log[1].recs \in Seq(Nat)
    BY <1>1, <2>1
  <2>7. LogGrows
    BY <2>5, <2>6, PrefixGrows DEF LogGrows
  <2> QED BY <1>1, <2>2, <2>3, <2>7
<1> QED BY <1>1, <1>2, <1>3 DEF LogGrows

\* Steps of a routed call: its own handle, its own call, the counter of
\* writes, and a log while it holds the lease.
RoutedFrame(r) ==
    /\ UNCHANGED <<platform, dir, disk, proof, legacyVars>>
    /\ writes' \in Nat
    /\ log' \in [Gens -> LegacyFiles]
    /\ log' = log \/ (lease[r] = "held" /\ op[r].at \notin UnderLease /\ LogGrows)
    /\ [LockNext]_lockVars
    /\ \A q \in Procs : q # r => lease'[q] = lease[q]

\* Such a step with its own call in between, or over.
LEMMA RoutedKeeps ==
    ASSUME LegacyInv, NEW r \in Procs, NEW x \in LegacyCalls,
           op' = [op EXCEPT ![r] = x], RoutedFrame(r),
           \/ x \in {NoOp, Leaving}
           \/ x.at \in Routed /\ x.kind \in CallKinds
           \/ x.at \in Routed /\ x.kind = op[r].kind /\ x.gen = op[r].gen
    PROVE  LegacyInv'
<1>1. LegacyTypes /\ CallOK(r)
  BY DEF LegacyInv
<1>2. op' \in [Procs -> LegacyCalls] /\ op'[r] = x /\ op' = [op EXCEPT ![r] = op'[r]]
  BY <1>1 DEF LegacyTypes
<1>3. LegacyTypes'
  BY <1>1, <1>2 DEF LegacyTypes, RoutedFrame, legacyVars
<1>4. LockInv'
  BY LockStep DEF LegacyInv, RoutedFrame
<1>5. CallFrame(r)
  BY DEF CallFrame, RoutedFrame
<1>6. CallOK(r)' /\ ~Importing(x)
  <2>1. CASE x \in {NoOp, Leaving}
    BY <1>2, <2>1, IdleIsOK
  <2>2. CASE x.at \in Routed
    <3>1. x.at \notin ImportPlaces \cup CutoverPlaces \cup UnderLease \cup {"mkdir", "enter"}
      BY <2>2 DEF Routed, ImportPlaces, CutoverPlaces, UnderLease
    <3>2. \/ x.kind \notin {"migrate", "cutover"}
          \/ x.kind = op[r].kind /\ x.gen = op[r].gen
      <4>1. "migrate" \notin CallKinds /\ "cutover" \notin CallKinds
        BY DEF CallKinds
      <4> QED BY <2>2, <4>1, IdleIsCall
    <3>3. PlaceOK(r)'
      BY <1>1, <1>2, <3>1, <3>2 DEF CallOK, PlaceOK
    <3>4. ImportOK(r)' /\ ~Importing(x)
      BY <1>2, <3>1 DEF ImportOK, Importing, ImportPlaces
    <3>5. CutoverOK(r)'
      BY <1>1, <1>2, <3>1, <3>2
      DEF CallOK, CutoverOK, OnUnix, OnWindows, CutoverPlaces, RoutedFrame,
          legacyVars, Unix
    <3> QED BY <3>3, <3>4, <3>5 DEF CallOK
  <2> QED BY <2>1, <2>2
<1> QED BY <1>2, <1>3, <1>4, <1>5, <1>6, CallKeeps

\* The steps of an open or a put on the new directory.
LEMMA RoutedStepsKeep ==
    ASSUME LegacyInv, NEW r \in Procs, RoutedLegacyNext(r), DirectoryOnly
    PROVE  LegacyInv'
<1>1. LegacyTypes /\ op[r] \in LegacyCalls /\ writes \in Nat
  BY DEF LegacyInv, LegacyTypes
<1>2. op[r].gen \in Nat
  BY <1>1 DEF LegacyCalls
<1>3. UNCHANGED <<platform, dir, disk, proof, legacyVars>>
  BY DEF RoutedLegacyNext, BeginCall, Begin, Route, Resolve, Resolved, Append1,
     NoFault, DirectoryOnly
<1>4. CreateLock(r) \/ UNCHANGED lockVars
  BY DEF RoutedLegacyNext, BeginCall, Begin, Route, Resolve, Resolved, Append1
<1>5. /\ [LockNext]_lockVars
      /\ \A q \in Procs : q # r => lease'[q] = lease[q]
  <2>1. lease \in [Procs -> LeaseStates]
    BY DEF LegacyInv, LockInv, LockTypeOK
  <2> QED BY <1>4, <2>1 DEF LockNext, CreateLock, lockVars
<1>6. ASSUME NEW at \in Routed, Goto(r, at), RoutedFrame(r) PROVE LegacyInv'
  <2> DEFINE x == [op[r] EXCEPT !.at = at]
  <2>1. at \in LegacyPlaces
    BY DEF LegacyPlaces
  <2>2. x \in LegacyCalls /\ x.at = at /\ x.kind = op[r].kind /\ x.gen = op[r].gen
    BY <1>1, <2>1, LegacyCallAt
  <2>3. op' = [op EXCEPT ![r] = x]
    BY <1>6 DEF Goto
  <2> HIDE DEF x
  <2> QED BY <1>6, <2>2, <2>3, RoutedKeeps
<1>7. ASSUME GiveUp(r) \/ Leave(r), RoutedFrame(r) PROVE LegacyInv'
  <2>1. PICK x \in {NoOp, Leaving} : x \in LegacyCalls /\ op' = [op EXCEPT ![r] = x]
    BY <1>7, GiveUpIs
  <2> QED BY <1>7, <2>1, RoutedKeeps
<1>8. ASSUME NEW kind \in {"open", "put"}, BeginCall(r, kind) PROVE LegacyInv'
  <2> DEFINE v == IF kind = "put" THEN writes + 1 ELSE 0
             y == [NoOp EXCEPT !.kind = kind]
             z == [y EXCEPT !.at = "route"]
             x == [z EXCEPT !.gen = v]
  <2>1. op' = [op EXCEPT ![r] = x]
    BY <1>8 DEF BeginCall, Begin
  <2>2. v \in Nat /\ writes' \in Nat /\ log' = log
    BY <1>1, <1>8 DEF BeginCall
  <2> HIDE DEF v
  <2>3. kind \in CallKinds /\ "route" \in Routed /\ "route" \in LegacyPlaces
    BY DEF CallKinds, Routed, LegacyPlaces
  <2>4. y \in LegacyCalls /\ y.kind = kind
    BY <2>3, IdleIsCall DEF LegacyCalls
  <2> HIDE DEF y
  <2>5. z \in LegacyCalls /\ z.kind = kind /\ z.at = "route"
    BY <2>3, <2>4, LegacyCallAt
  <2> HIDE DEF z
  <2>6. x \in LegacyCalls /\ x.kind = kind /\ x.at = "route"
    BY <2>2, <2>5 DEF LegacyCalls
  <2> HIDE DEF x
  <2>7. RoutedFrame(r)
    BY <1>1, <1>3, <1>5, <2>2 DEF RoutedFrame, LegacyTypes
  <2> QED BY <2>1, <2>3, <2>6, <2>7, RoutedKeeps
<1>9. ASSUME Route(r) \/ Resolved(r) PROVE LegacyInv'
  <2>1. log' = log /\ writes' = writes
    BY <1>9 DEF Route, Resolved
  <2>2. RoutedFrame(r)
    BY <1>1, <1>3, <1>5, <2>1 DEF RoutedFrame, LegacyTypes
  <2>3. GiveUp(r) \/ Leave(r) \/ \E at \in Routed : Goto(r, at)
    BY <1>9 DEF Route, Resolved, Routed
  <2> QED BY <1>6, <1>7, <2>2, <2>3
<1>10. ASSUME Resolve(r) PROVE LegacyInv'
  <2>1. /\ lease[r] = "held" /\ op[r].at \notin UnderLease /\ writes' = writes
    BY <1>10 DEF Resolve, Holding, Running, UnderLease, CutoverPlaces
  <2>2. CASE GiveUp(r) /\ log' = log
    <3>1. RoutedFrame(r)
      BY <1>1, <1>3, <1>5, <2>1, <2>2 DEF RoutedFrame, LegacyTypes
    <3> QED BY <1>7, <2>2, <3>1
  <2>3. CASE ~(GiveUp(r) /\ log' = log)
    <3> DEFINE a == Authority(dir)
               w == [op[r] EXCEPT !.wit.auth = a]
               x == [w EXCEPT !.at = "resolved"]
    <3>1. /\ Verifies(dir) /\ log' = [log EXCEPT ![a].tail = FALSE]
          /\ op' = [op EXCEPT ![r] = x]
      BY <1>1, <1>10, <2>3 DEF Resolve, LegacyTypes
    <3>2. a \in Gens
      <4>1. dir["markers"] # {} /\ dir \in Namespaces
        BY <1>1, <3>1 DEF Verifies, LegacyTypes
      <4> QED BY <4>1, AuthorityIs
    <3> HIDE DEF a
    <3>3. w \in LegacyCalls /\ w.kind = op[r].kind /\ w.gen = op[r].gen
      <4>1. [op[r].wit EXCEPT !.auth = a] \in LegacyWitnesses
        BY <1>1, <3>2, MaxGenIsPositive DEF LegacyCalls, LegacyWitnesses, Gens
      <4> QED BY <1>1, <4>1 DEF LegacyCalls
    <3> HIDE DEF w
    <3>4. "resolved" \in LegacyPlaces /\ "resolved" \in Routed
      BY DEF LegacyPlaces, Routed
    <3>5. /\ x \in LegacyCalls /\ x.kind = op[r].kind /\ x.gen = op[r].gen
          /\ x.at = "resolved"
      BY <3>3, <3>4, LegacyCallAt
    <3> HIDE DEF x
    <3>6. log' \in [Gens -> LegacyFiles] /\ LogGrows
      <4>1. \E b \in BOOLEAN : log' = [log EXCEPT ![a].tail = b]
        BY <3>1
      <4>2. 0 \in Nat
        OBVIOUS
      <4> QED BY <1>1, <4>1, <4>2, LegacyLogGrows
    <3>7. RoutedFrame(r)
      BY <1>1, <1>3, <1>5, <2>1, <3>6 DEF RoutedFrame
    <3> QED BY <3>1, <3>4, <3>5, <3>7, RoutedKeeps
  <2> QED BY <2>2, <2>3
<1>11. ASSUME Append1(r) PROVE LegacyInv'
  <2>1. /\ lease[r] = "held" /\ op[r].at \notin UnderLease /\ writes' = writes
        /\ Leave(r)
    BY <1>11 DEF Append1, Holding, Running, UnderLease, CutoverPlaces
  <2>2. \/ log' = log
        \/ log' = [log EXCEPT ![handle[r].gen].recs = Append(@, op[r].gen)]
    BY <1>11 DEF Append1
  <2>3. log' \in [Gens -> LegacyFiles] /\ LogGrows
    BY <1>1, <1>2, <2>2, LegacyLogGrows
  <2>4. RoutedFrame(r)
    BY <1>1, <1>3, <1>5, <2>1, <2>3 DEF RoutedFrame
  <2> QED BY <1>7, <2>1, <2>4
<1> QED BY <1>8, <1>9, <1>10, <1>11 DEF RoutedLegacyNext
-----------------------------------------------------------------------------
\* The lease.

\* A process that is not under the lease yet, or on its way out, moves in
\* the lock's protocol with its call as it is.
LEMMA EntryKeeps ==
    ASSUME LegacyInv, NEW p \in Procs, op' = op, op[p].at \notin UnderLease,
           RoutedFrame(p)
    PROVE  LegacyInv'
<1>1. LegacyTypes /\ CallOK(p)
  BY DEF LegacyInv
<1>2. op' = [op EXCEPT ![p] = op'[p]] /\ op'[p] = op[p]
  BY <1>1 DEF LegacyTypes
<1>3. LegacyTypes'
  BY <1>1 DEF LegacyTypes, RoutedFrame, legacyVars
<1>4. LockInv'
  BY LockStep DEF LegacyInv, RoutedFrame
<1>5. CallFrame(p)
  BY DEF CallFrame, RoutedFrame
<1>6. PlaceOK(p)'
  BY <1>1, <1>2 DEF CallOK, PlaceOK
<1>7. op[p].at \notin {"publish", "baseSync", "stage", "fill", "link", "linkSync",
                        "published"} \cup CutoverPlaces
  BY DEF UnderLease
<1>8. ImportOK(p)'
  BY <1>1, <1>2, <1>7 DEF CallOK, ImportOK, RoutedFrame, legacyVars, Unix
<1>9. CutoverOK(p)'
  BY <1>1, <1>2, <1>7
  DEF CallOK, CutoverOK, OnUnix, OnWindows, CutoverPlaces, RoutedFrame, legacyVars, Unix
<1> QED BY <1>2, <1>3, <1>4, <1>5, <1>6, <1>8, <1>9, CallKeeps DEF CallOK

\* Taking the lease, failing to, giving it back, and dying, with an append
\* interrupted or not.
LEMMA LeaseStepsKeep ==
    ASSUME LegacyInv, NEW p \in Procs, LeaseNext(p), DirectoryOnly
    PROVE  LegacyInv'
<1>1. LegacyTypes /\ op[p] \in LegacyCalls /\ writes \in Nat /\ CallOK(p)
  BY DEF LegacyInv, LegacyTypes
<1>2. lease \in [Procs -> LeaseStates]
  BY DEF LegacyInv, LockInv, LockTypeOK
<1>3. op[p].at \in UnderLease => lease[p] = "held"
  BY <1>1 DEF CallOK, PlaceOK
<1>4. UNCHANGED <<platform, dir, disk, proof, legacyVars>> /\ writes' = writes
  BY DEF LeaseNext, Acquire, Busy, FinishAcquire, Release, Die, NoTarget, LegacyOnly,
     NoFault, Fault, DirectoryOnly, dirVars, engineVars
<1>5. [LockNext]_lockVars
  <2>1. CASE NoTarget(p)
    BY <2>1 DEF NoTarget, LegacyOnly
  <2>2. CASE ~NoTarget(p)
    BY <2>2, LeaseLocks DEF LeaseNext
  <2> QED BY <2>1, <2>2
<1>6. \A q \in Procs : q # p => lease'[q] = lease[q]
  <2>1. CASE Acquire(p)
    BY <1>2, <2>1 DEF Acquire, CreateLock
  <2>2. CASE Busy(p)
    BY <2>2 DEF Busy, lockVars
  <2>3. CASE FinishAcquire(p)
    BY <1>2, <2>3 DEF FinishAcquire, WriteRecord, WriteRecordFails, RemoveUnwritten, Left
  <2>4. CASE Release(p)
    BY <1>2, <2>4 DEF Release, CompareOwner, RemoveOwned, Left
  <2>5. CASE Die(p)
    BY <1>2, <2>5 DEF Die, LeaveBehind, Left, lockVars
  <2>6. CASE NoTarget(p)
    BY <2>6 DEF NoTarget, LegacyOnly, lockVars
  <2> QED BY <2>1, <2>2, <2>3, <2>4, <2>5, <2>6 DEF LeaseNext
<1>7. ASSUME log' = log PROVE RoutedFrame(p)
  BY <1>1, <1>4, <1>5, <1>6, <1>7 DEF RoutedFrame, LegacyTypes
<1>8. ASSUME RoutedFrame(p), GiveUp(p) \/ op' = [op EXCEPT ![p] = NoOp]
      PROVE  LegacyInv'
  <2>1. PICK x \in {NoOp, Leaving} : x \in LegacyCalls /\ op' = [op EXCEPT ![p] = x]
    BY <1>8, GiveUpIs
  <2> QED BY <1>8, <2>1, RoutedKeeps
<1>9. CASE Acquire(p)
  <2>1. op' = op /\ log' = log /\ op[p].at \notin UnderLease
    BY <1>3, <1>9 DEF Acquire, CreateLock, dirVars
  <2> QED BY <1>7, <2>1, EntryKeeps
<1>10. CASE Busy(p) \/ NoTarget(p)
  <2>1. log' = log /\ GiveUp(p)
    BY <1>10 DEF Busy, NoTarget, LegacyOnly
  <2> QED BY <1>7, <1>8, <2>1
<1>11. CASE FinishAcquire(p)
  <2>1. log' = log
    BY <1>11 DEF FinishAcquire, dirVars
  <2>2. \/ op' = op /\ op[p].at \notin UnderLease
        \/ op' = [op EXCEPT ![p] = NoOp]
    BY <1>3, <1>11 DEF FinishAcquire, WriteRecord, WriteRecordFails, dirVars
  <2> QED BY <1>7, <1>8, <2>1, <2>2, EntryKeeps
<1>12. CASE Release(p)
  <2>1. log' = log /\ op[p].at = "leave" /\ op[p].at \notin UnderLease
    <3>1. op[p].at \in {"leave", "survey"} /\ op[p].at \in LegacyPlaces
      BY <1>1, <1>12 DEF Release, Exit, LegacyCalls
    <3> QED BY <1>12, <3>1
        DEF Release, LegacyPlaces, ImportPlaces, CutoverPlaces, Routed, UnderLease
  <2>2. op' = op \/ op' = [op EXCEPT ![p] = NoOp]
    BY <1>12, <2>1 DEF Release, EndCall
  <2> QED BY <1>7, <1>8, <2>1, <2>2, EntryKeeps
<1>13. CASE Die(p)
  <2>1. op' = [op EXCEPT ![p] = NoOp]
    BY <1>13 DEF Die
  <2>2. CASE log' = log
    BY <1>7, <1>8, <2>1, <2>2
  <2>3. CASE log' # log
    <3>1. Appending(p) /\ Interrupted(p)
      BY <1>13, <2>3 DEF Die
    <3>2. lease[p] = "held" /\ op[p].at \notin UnderLease
      BY <3>1 DEF Appending, Holding, Running, UnderLease, CutoverPlaces
    <3>3. op[p].gen \in Nat
      BY <1>1 DEF LegacyCalls
    <3>4. \/ log' = log
          \/ \E b \in BOOLEAN : log' = [log EXCEPT ![handle[p].gen].tail = b]
          \/ log' = [log EXCEPT ![handle[p].gen].recs = Append(@, op[p].gen)]
      BY <3>1 DEF Interrupted
    <3>5. log' \in [Gens -> LegacyFiles] /\ LogGrows
      BY <1>1, <3>3, <3>4, LegacyLogGrows
    <3>6. RoutedFrame(p)
      BY <1>1, <1>4, <1>5, <1>6, <3>2, <3>5 DEF RoutedFrame
    <3> QED BY <1>8, <2>1, <3>6
  <2> QED BY <2>2, <2>3
<1> QED BY <1>9, <1>10, <1>11, <1>12, <1>13 DEF LeaseNext
-----------------------------------------------------------------------------
\* The operator, and a power loss.

\* Steps of the operator and stuttering touch the lock file at most.
LEMMA OperatorStepKeeps ==
    ASSUME LegacyInv, OperatorNext \/ UNCHANGED lockVars,
           UNCHANGED <<dirVars, engineVars, legacyVars>>
    PROVE  LegacyInv'
<1>1. LockInv' /\ lease' = lease
  <2>1. [LockNext]_lockVars
    BY DEF LockNext
  <2>2. lease' = lease
    BY DEF OperatorNext, InspectLock, ConfirmNoLiveWriter, FirstRead, SecondRead,
       RemoveStale, ForgetInspection, lockVars
  <2> QED BY <2>1, <2>2, LockStep DEF LegacyInv
<1>2. LegacyTypes'
  BY DEF LegacyInv, LegacyTypes, dirVars, engineVars, legacyVars
<1>3. ASSUME NEW p \in Procs PROVE CallOK(p)'
  <2>1. CallOK(p)
    BY DEF LegacyInv
  <2>2. PlaceOK(p)' /\ ImportOK(p)'
    BY <1>1, <2>1 DEF CallOK, PlaceOK, ImportOK, Unix, dirVars, legacyVars
  <2>3. CutoverOK(p)'
    BY <2>1 DEF CallOK, CutoverOK, OnUnix, OnWindows, Unix, dirVars, legacyVars
  <2> QED BY <2>2, <2>3 DEF CallOK
<1>4. OneImporter'
  BY DEF LegacyInv, OneImporter, dirVars
<1>5. NamesInv'
  BY DEF LegacyInv, NamesInv, MigratedInv, TargetLasts, SentinelInv, HandedInv,
     Retained, Unix, dirVars, legacyVars
<1> QED BY <1>1, <1>2, <1>3, <1>4, <1>5 DEF LegacyInv

\* A power loss may leave the lock file, and an inspection of it.
LEMMA LockSurvives ==
    ASSUME LockInv, PowerLoss
    PROVE  LockInv'
<1>1. /\ lockFile' \in {NoLock, lockFile} /\ lease' = [p \in Procs |-> "none"]
      /\ mine' = [p \in Procs |-> NoLock]
      /\ clear' = NoClear \/ (clear' = clear /\ clear.at = "inspected")
  BY DEF PowerLoss
<1> QED
  BY <1>1, NoLockIsNoAcquisition
  DEF NoClear, LockInv, LockTypeOK, FileIsOwn, OneInProtocol, IdleHasNoRecord,
     ClearIsSafe, Abandoned, InProtocol, LeaseStates, ClearSteps, NoLiveWriter, LockFiles

\* Names that survive a power loss are the ones that were there for sure.
LEMMA NamesSurvive ==
    ASSUME LegacyTypes, NEW n \in NameImages
    PROVE  /\ n \in [Names -> BOOLEAN]
           /\ \A m \in Names : names[m] = kept[m] => n[m] = names[m]
<1>1. PICK S \in SUBSET Names :
          n = [m \in Names |-> IF names[m] = kept[m] THEN names[m] ELSE m \in S]
  BY DEF NameImages
<1> QED BY <1>1 DEF LegacyTypes

\* Generation 1 of a target that lasts is there in every image.
LEMMA TargetSurvives ==
    ASSUME LegacyTypes, TargetLasts, NEW d \in Images
    PROVE  1 \in d["logs"] /\ 1 \in d["markers"]
<1>1. \A k \in Kinds : dir[k] \cap disk[k] \subseteq d[k]
  BY ImagesKeep DEF LegacyTypes
<1> QED BY <1>1 DEF TargetLasts, Kinds

\* A power loss.
LEMMA LegacyPowerLossKeeps ==
    ASSUME LegacyInv, LegacyPowerLoss
    PROVE  LegacyInv'
<1>1. LegacyTypes
  BY DEF LegacyInv
<1>2. /\ dir' \in Images /\ disk' = dir' /\ UNCHANGED <<platform, log, proof, writes>>
      /\ op' = [p \in Procs |-> NoOp]
      /\ names' \in NameImages /\ kept' = names' /\ raw' = FALSE
      /\ UNCHANGED <<source, copy, migrated, handed>>
  BY DEF LegacyPowerLoss, PowerLoss, Fault
<1>3. LockInv'
  BY LockSurvives DEF LegacyInv, LegacyPowerLoss
<1>4. \A p \in Procs : op'[p] = NoOp
  BY <1>2
<1>5. \A p \in Procs : CallOK(p)' /\ ~Importing(op'[p])
  BY <1>4, IdleIsOK
<1>6. /\ names' \in [Names -> BOOLEAN]
      /\ \A m \in Names : names[m] = kept[m] => names'[m] = names[m]
  BY <1>1, <1>2, NamesSurvive
<1>7. dir' \in Namespaces
  BY <1>1, <1>2, ImagesKeep DEF LegacyTypes
<1>8. LegacyTypes'
  <2>1. op' \in [Procs -> LegacyCalls]
    BY <1>2, IdleIsCall
  <2> QED BY <1>1, <1>2, <1>6, <1>7, <2>1 DEF LegacyTypes
<1>9. NamesInv'
  <2>1. MigratedInv'
    <3>1. SUFFICES ASSUME migrated PROVE TargetLasts'
      BY <1>2 DEF MigratedInv
    <3>2. TargetLasts
      BY <3>1 DEF LegacyInv, NamesInv, MigratedInv
    <3>3. 1 \in dir'["logs"] /\ 1 \in dir'["markers"]
      BY <1>1, <1>2, <3>2, TargetSurvives
    <3>4. names'["target"]
      BY <1>6, <3>2 DEF TargetLasts, Names
    <3> QED BY <1>2, <3>2, <3>3, <3>4 DEF TargetLasts
  <2>2. \A m \in {"sentinel", "retained"} :
            m \in Names /\ names[m] \in BOOLEAN /\ kept[m] \in BOOLEAN
    BY <1>1 DEF LegacyTypes, Names
  <2>3. SentinelInv'
    BY <1>2, <1>6, <2>2 DEF LegacyInv, NamesInv, SentinelInv, Unix
  <2>4. HandedInv'
    BY <1>2, <1>6, <2>2 DEF LegacyInv, NamesInv, HandedInv, Retained, Unix
  <2> QED BY <2>1, <2>3, <2>4 DEF NamesInv
<1> QED BY <1>3, <1>5, <1>8, <1>9 DEF LegacyInv, OneImporter
-----------------------------------------------------------------------------
\* The invariant, and what follows from it.

\* A legacy file with one record and nothing else.
LEMMA LegacyInitially == LegacyInit => LegacyInv
<1> SUFFICES ASSUME LegacyInit PROVE LegacyInv
  OBVIOUS
<1>1. LockInv
  BY LockInitially DEF LegacyInit
<1>2. \A p \in Procs : op[p] = NoOp
  BY DEF LegacyInit
<1>3. ASSUME NEW p \in Procs PROVE CallOK(p) /\ ~Importing(op[p])
  BY <1>2, IdleIsCall
  DEF CallOK, PlaceOK, ImportOK, CutoverOK, OnUnix, OnWindows, Importing,
      ImportPlaces, CutoverPlaces, UnderLease
<1>4. NoLog \in LegacyFiles
  BY IdleIsCall DEF LegacyCalls, NoOp
<1>5. source \in LegacyFiles
  <2>1. RawRecord(1) \in Nat
    BY MaxWritesIsNatural DEF RawRecord
  <2>2. <<RawRecord(1)>> \in Seq(Nat)
    BY <2>1
  <2> QED BY <2>2 DEF LegacyInit, LegacyFiles
<1>6. LegacyTypes
  <2>1. dir \in Namespaces /\ disk \in Namespaces
    BY DEF LegacyInit, Namespaces
  <2>2. log \in [Gens -> LegacyFiles] /\ proof \in [Gens -> Seq(Nat) \cup {Torn}]
    BY <1>4 DEF LegacyInit
  <2>3. op \in [Procs -> LegacyCalls]
    BY IdleIsCall DEF LegacyInit
  <2>4. names \in [Names -> BOOLEAN] /\ kept \in [Names -> BOOLEAN]
    BY DEF LegacyInit
  <2> QED BY <1>4, <1>5, <2>1, <2>2, <2>3, <2>4 DEF LegacyInit, LegacyTypes
<1>7. NamesInv
  BY DEF LegacyInit, NamesInv, MigratedInv, SentinelInv, HandedInv, Names
<1> QED BY <1>1, <1>3, <1>6, <1>7 DEF LegacyInv, OneImporter

\* A step of a migration, of a cutover, or of what a migration shares with
\* the compact switch.
LEMMA CommandsKeep ==
    ASSUME LegacyInv, NEW t \in Tools,
           MigrateNext(t) \/ CutoverNext(t) \/ (SharedNext(t) /\ DirectoryOnly)
    PROVE  LegacyInv'
<1>1. t \in Procs
  BY ToolsAreProcesses
<1>2. CASE MigrateNext(t)
  BY <1>1, <1>2, BeginKeeps, CaptureKeeps, MakeTargetKeeps, TargetSyncKeeps,
     CutoverSyncKeeps, ReserveFirstKeeps, StartImportKeeps, CompareSourceKeeps,
     ImportedKeeps
  DEF MigrateNext
<1>3. CASE CutoverNext(t)
  BY <1>1, <1>3, BeginKeeps, CheckTargetKeeps, RetainKeeps, WriteSentinelKeeps,
     RecheckSourceKeeps, LinkRetainedKeeps, ConfirmSourceKeeps, ReplaceKeeps,
     FinishCutoverKeeps
  DEF CutoverNext
<1>4. CASE SharedNext(t) /\ DirectoryOnly
  BY <1>1, <1>4, CopyFailsKeeps, CopyPublishedKeeps, CopyUncertainKeeps, TidyKeeps,
     PublishKeeps, SyncKeeps, SyncFailureKeeps, StageKeeps, FillKeeps, LinkKeeps,
     LinkErrsKeeps
  DEF SharedNext
<1> QED BY <1>2, <1>3, <1>4

\* Every step keeps the invariant.
LEMMA LegacyPreserved == LegacyInv /\ [LegacyNext]_allVars => LegacyInv'
<1> SUFFICES ASSUME LegacyInv, [LegacyNext]_allVars PROVE LegacyInv'
  OBVIOUS
<1>1. CASE UNCHANGED allVars
  BY <1>1, OperatorStepKeeps DEF allVars, vars
<1>2. CASE RawOpen \/ RawAppend \/ RawClose
  BY <1>2, RawStepsKeep
<1>3. ASSUME NEW t \in Tools,
             MigrateNext(t) \/ CutoverNext(t) \/ (SharedNext(t) /\ DirectoryOnly)
      PROVE  LegacyInv'
  BY <1>3, CommandsKeep
<1>4. ASSUME NEW r \in Routers, RoutedLegacyNext(r), DirectoryOnly PROVE LegacyInv'
  BY <1>4, RoutedStepsKeep, RoutersAreProcesses
<1>5. ASSUME NEW p \in Procs, LeaseNext(p), DirectoryOnly PROVE LegacyInv'
  BY <1>5, LeaseStepsKeep
<1>6. CASE OperatorNext /\ UNCHANGED <<dirVars, engineVars, legacyVars>>
  BY <1>6, OperatorStepKeeps
<1>7. CASE LegacyPowerLoss
  BY <1>7, LegacyPowerLossKeeps
<1> QED BY <1>1, <1>2, <1>3, <1>4, <1>5, <1>6, <1>7 DEF LegacyNext

\* The invariant of the migration and the cutover.
THEOREM LegacyInvariance == LegacySpec => []LegacyInv
BY LegacyInitially, LegacyPreserved, PTL DEF LegacySpec

\* The lease excludes here too, with every step of clear-stale and every
\* power loss in between.
THEOREM LegacyWritersExclude == LegacySpec => []MutualExclusion
<1>1. LegacyInv => MutualExclusion
  BY DEF LegacyInv, LockInv, OneInProtocol, InProtocol, MutualExclusion, HoldsLease
<1> QED BY <1>1, LegacyInvariance, PTL

\* The live state of the legacy file outlives every power loss at every step
\* of both commands: it is at the legacy path, under the retained name, or
\* the committed prefix of generation 1.
THEOREM LegacyStateIsKept == LegacySpec => []LegacyStateSurvives
<1>1. ASSUME LegacyInv, NEW n \in NameImages, n["sentinel"]
      PROVE  \/ n["retained"] /\ Live(Retained.recs) = Live(source.recs)
             \/ n["target"] /\ \A d \in Images : Reproduces(d, source.recs)
  <2>1. LegacyTypes /\ SentinelInv /\ MigratedInv
    BY <1>1 DEF LegacyInv, NamesInv
  <2>2. \A m \in Names : names[m] = kept[m] => n[m] = names[m]
    BY <2>1, NamesSurvive
  <2>3. \A m \in {"sentinel", "retained", "target"} :
            m \in Names /\ names[m] \in BOOLEAN /\ kept[m] \in BOOLEAN
    BY <2>1 DEF LegacyTypes, Names
  <2>4. names["sentinel"]
    BY <1>1, <2>1, <2>2, <2>3 DEF SentinelInv
  <2>5. CASE Unix
    <3>1. n["retained"]
      BY <2>1, <2>2, <2>3, <2>4, <2>5 DEF SentinelInv
    <3> QED BY <2>5, <3>1 DEF Retained
  <2>6. CASE ~Unix
    <3>1. TargetLasts /\ Live(proof[1]) = Live(source.recs)
      BY <2>1, <2>4, <2>6 DEF SentinelInv, MigratedInv
    <3>2. n["target"]
      BY <2>2, <2>3, <3>1 DEF TargetLasts
    <3>3. ASSUME NEW d \in Images PROVE Reproduces(d, source.recs)
      <4>1. 1 \in d["logs"] /\ 1 \in d["markers"]
        BY <2>1, <3>1, TargetSurvives
      <4> QED BY <3>1, <4>1 DEF Reproduces, TargetLasts
    <3> QED BY <3>2, <3>3
  <2> QED BY <2>5, <2>6
<1>2. LegacyInv => LegacyStateSurvives
  BY <1>1 DEF LegacyStateSurvives
<1> QED BY <1>2, LegacyInvariance, PTL

\* A cutover that reported success is durable: whatever a power loss leaves
\* has the sentinel, the target, a generation 1 that reproduces what was
\* handed over, and a retained file that starts with it.
THEOREM HandoverLasts == LegacySpec => []HandoverIsDurable
<1>1. ASSUME LegacyInv, handed # NoLog
      PROVE  /\ \A n \in NameImages : n["sentinel"] /\ n["target"]
             /\ \A d \in Images : Reproduces(d, handed.recs)
             /\ IsPrefix(handed.recs, Retained.recs)
  <2>1. LegacyTypes /\ HandedInv /\ MigratedInv
    BY <1>1 DEF LegacyInv, NamesInv
  <2>2. /\ TargetLasts /\ names["sentinel"] /\ kept["sentinel"]
        /\ Live(proof[1]) = Live(handed.recs)
        /\ IsPrefix(handed.recs, Retained.recs)
    BY <1>1, <2>1 DEF HandedInv, MigratedInv
  <2>3. \A m \in {"sentinel", "target"} :
            m \in Names /\ names[m] \in BOOLEAN /\ kept[m] \in BOOLEAN
    BY <2>1 DEF LegacyTypes, Names
  <2>4. ASSUME NEW n \in NameImages PROVE n["sentinel"] /\ n["target"]
    <3>1. \A m \in Names : names[m] = kept[m] => n[m] = names[m]
      BY <2>1, NamesSurvive
    <3> QED BY <2>2, <2>3, <3>1 DEF TargetLasts
  <2>5. ASSUME NEW d \in Images PROVE Reproduces(d, handed.recs)
    <3>1. 1 \in d["logs"] /\ 1 \in d["markers"]
      BY <2>1, <2>2, TargetSurvives
    <3> QED BY <2>2, <3>1 DEF Reproduces, TargetLasts
  <2> QED BY <2>2, <2>4, <2>5
<1>2. LegacyInv => HandoverIsDurable
  BY <1>1 DEF HandoverIsDurable
<1> QED BY <1>2, LegacyInvariance, PTL

\* When fresh-cutover verification accepts, the new authority has the live
\* state of the legacy file with every record a raw writer ever appended.
THEOREM FreshIsComplete == LegacySpec => []FreshMeansComplete
<1>1. ASSUME LegacyInv, FreshCutover PROVE Live(log[1].recs) = Live(source.recs)
  <2>1. /\ names["sentinel"] /\ log[1].recs = proof[1]
        /\ Live(log[1].recs) = Live(Retained.recs)
    BY <1>1 DEF FreshCutover, IsFreshImport
  <2>2. SentinelInv
    BY <1>1 DEF LegacyInv, NamesInv
  <2> QED BY <2>1, <2>2 DEF SentinelInv, Retained
<1>2. LegacyInv => FreshMeansComplete
  BY <1>1 DEF FreshMeansComplete
<1> QED BY <1>2, LegacyInvariance, PTL
=============================================================================
