----------------------------- MODULE AppendLog -----------------------------
(***************************************************************************)
(* LogEngine of db-storage-log: one checksummed append-only file and an    *)
(* in-memory replay index.  A file is abstracted to what scan_file tells   *)
(* apart: whether header and complete records validate, the sequence of    *)
(* complete records, and whether an incomplete final record follows them.  *)
(* The acknowledged byte count, record count and prefix hash of the handle *)
(* are one fact, the acknowledged prefix `ack`; a CRC collision is not     *)
(* modelled.  A handle never changes its path, so the ownership test that  *)
(* its constructor passed (canonical generation name or not) passes again  *)
(* at every REOPEN and is left out.                                        *)
(*                                                                         *)
(* Fault model: the process may stop, or a write or sync may report an     *)
(* error, with any prefix of the final append on disk.  A completed sync   *)
(* is kept.                                                                *)
(***************************************************************************)
EXTENDS Naturals, Sequences, KvData

CONSTANTS Inodes,        \* identities of files
          NoFile,        \* no file at the path, or no file in the handle
          MaxSequence    \* the largest sequence number (u64::MAX)

ASSUME NoFileIsNoInode == NoFile \notin Inodes
ASSUME MaxSequenceIsPositive == MaxSequence \in Nat \ {0}

VARIABLES
    path,          \* the file at the engine's path
    symlink,       \* the path is a symbolic link to that file
    files,         \* contents of every inode
    status,        \* "closed" (no handle), "open" or "poisoned"
    hfile,         \* the file the handle holds
    values,        \* the replay index
    nextSequence,  \* the sequence number of the next record
    ack,           \* the acknowledged prefix of the file
    acked,         \* ghost: the map of acknowledged mutations
    pending        \* ghost: {} or the mutation in doubt

disk == <<path, symlink, files>>
handle == <<status, hfile, values, nextSequence, ack>>
vars == <<path, symlink, files, status, hfile, values, nextSequence, ack,
          acked, pending>>

Record == [seq : Nat, key : Keys, val : Entry]
File == [ok : BOOLEAN, recs : Seq(Record), tail : BOOLEAN]
Created(header) == [ok |-> header, recs |-> << >>, tail |-> FALSE]

TypeOK ==
    /\ path \in Inodes \cup {NoFile}
    /\ symlink \in BOOLEAN
    /\ files \in [Inodes -> File]
    /\ status \in {"closed", "open", "poisoned"}
    /\ hfile \in Inodes \cup {NoFile}
    /\ values \in Map
    /\ nextSequence \in 1 .. MaxSequence
    /\ ack \in Seq(Record)
    /\ acked \in Map
    /\ pending \in SUBSET Op
-----------------------------------------------------------------------------
MutFirstRecordWins(recs, k, i) ==
    recs[i].key = k /\ \A j \in 1 .. i - 1 : recs[j].key # k

\* What scan_file rebuilds: the last complete record of each key decides.
IsLast(recs, k, i) ==
    recs[i].key = k /\ \A j \in i + 1 .. Len(recs) : recs[j].key # k

Replay(recs) ==
    [k \in Keys |->
        IF \E i \in DOMAIN recs : IsLast(recs, k, i)
        THEN recs[CHOOSE i \in DOMAIN recs : IsLast(recs, k, i)].val
        ELSE Missing]

MutTailIsCorruption(f) == f.ok /\ ~f.tail

\* scan_file succeeds: header and complete records validate, and so does what
\* there is of the header of a tail (all of this is ok), sequence numbers run
\* 1, 2, 3, ... and the following one still exists.
Scans(f) ==
    /\ f.ok
    /\ \A i \in DOMAIN f.recs : f.recs[i].seq = i
    /\ Len(f.recs) + 1 <= MaxSequence

\* from_file's repair: truncate a recoverable tail and sync.
Repaired(f) == [f EXCEPT !.tail = FALSE]

RecordOf(seq, op) == [seq |-> seq, key |-> op.key, val |-> op.val]

\* The final append left on disk by a write that did not complete normally.
Outcomes == {"none", "torn", "whole"}
AppendTo(f, rec, outcome) ==
    CASE outcome = "none"  -> f
      [] outcome = "torn"  -> [f EXCEPT !.tail = TRUE]
      [] outcome = "whole" -> [f EXCEPT !.recs = Append(@, rec)]

\* checked_add on the sequence number: the record and its successor exist.
MutSequenceOffByOne == nextSequence <= MaxSequence
SequenceAvailable == nextSequence + 1 <= MaxSequence

\* The two checks append makes on its own file before it writes.
EofMoved(f) == f.tail \/ Len(f.recs) # Len(ack)

MutPrefixUnchecked(f) == f.ok
PrefixIntact(f) ==
    f.ok /\ Len(ack) <= Len(f.recs) /\ SubSeq(f.recs, 1, Len(ack)) = ack

\* REOPEN's identity test applies only while the handle still holds a file.
MutIdentityIgnored(f) == TRUE
SameIdentity(f) == hfile = NoFile \/ hfile = f
-----------------------------------------------------------------------------
Init ==
    /\ path = NoFile
    /\ symlink = FALSE
    /\ files = [i \in Inodes |-> Created(FALSE)]
    /\ status = "closed"
    /\ hfile = NoFile
    /\ values = EmptyMap
    /\ nextSequence = 1
    /\ ack = << >>
    /\ acked = EmptyMap
    /\ pending = {}

\* from_file succeeds on inode f: repair, replay, a fresh usable handle.
FromFile(f) ==
    /\ Scans(files[f])
    /\ files' = [files EXCEPT ![f] = Repaired(@)]
    /\ status' = "open"
    /\ hfile' = f
    /\ values' = Replay(files[f].recs)
    /\ nextSequence' = Len(files[f].recs) + 1
    /\ ack' = files[f].recs
    /\ acked' = Replay(files[f].recs)
    /\ pending' = {}
    /\ UNCHANGED <<path, symlink>>

\* Drop the handle and everything it remembers.
ForgetHandle ==
    /\ status' = "closed"
    /\ hfile' = NoFile
    /\ values' = EmptyMap
    /\ nextSequence' = 1
    /\ ack' = << >>

\* open or create_new on an absent path: reserve it, write and sync the header.
CreateFile(f) ==
    /\ status = "closed" /\ path = NoFile
    /\ path' = f
    /\ files' = [files EXCEPT ![f] = Created(TRUE)]
    /\ status' = "open"
    /\ hfile' = f
    /\ UNCHANGED <<symlink, values, nextSequence, ack, acked, pending>>

\* The process stops, or the header write fails, after the path is reserved.
CreateInterrupted(f) ==
    /\ status = "closed" /\ path = NoFile
    /\ path' = f
    /\ \E header \in BOOLEAN :
          files' = [files EXCEPT ![f] = Created(header)]
    /\ UNCHANGED <<symlink, handle, acked, pending>>

\* open on an existing path; create_new refuses it and changes nothing.
OpenExisting ==
    /\ status = "closed" /\ path # NoFile
    /\ ~symlink
    /\ FromFile(path)

\* open is refused: a symbolic link, or scan_file finds corruption.
OpenRefused ==
    /\ status = "closed" /\ path # NoFile
    /\ symlink \/ ~Scans(files[path])
    /\ UNCHANGED vars

\* The repair of open is cut short: set_len may or may not have happened.
OpenInterrupted ==
    /\ status = "closed" /\ path # NoFile
    /\ ~symlink /\ Scans(files[path]) /\ files[path].tail
    /\ \E cut \in BOOLEAN : files' = [files EXCEPT ![path].tail = ~cut]
    /\ UNCHANGED <<path, symlink, handle, acked, pending>>
-----------------------------------------------------------------------------
\* put or delete, acknowledged: one record written and synced, then applied.
Mutate(op) ==
    /\ status = "open"
    /\ SequenceAvailable
    /\ ~EofMoved(files[hfile]) /\ PrefixIntact(files[hfile])
    /\ LET rec == RecordOf(nextSequence, op)
       IN  /\ files' = [files EXCEPT ![hfile] = AppendTo(@, rec, "whole")]
           /\ ack' = Append(ack, rec)
    /\ nextSequence' = nextSequence + 1
    /\ values' = Effect(values, op)
    /\ acked' = Effect(acked, op)
    /\ UNCHANGED <<path, symlink, status, hfile, pending>>

\* put or delete finds the sequence exhausted: refused, nothing is poisoned.
MutateExhausted(op) ==
    /\ status = "open"
    /\ ~SequenceAvailable
    /\ UNCHANGED vars

\* put or delete finds its file changed: refused before writing, poisoned.
MutateRejected(op) ==
    /\ status = "open"
    /\ SequenceAvailable
    /\ EofMoved(files[hfile]) \/ ~PrefixIntact(files[hfile])
    /\ status' = "poisoned"
    /\ UNCHANGED <<disk, hfile, values, nextSequence, ack, acked, pending>>

MutFailureUnnoticed(op) ==
    /\ status = "open"
    /\ SequenceAvailable
    /\ files' = [files EXCEPT ![hfile] =
                    AppendTo(@, RecordOf(nextSequence, op), "whole")]
    /\ pending' = {op}
    /\ UNCHANGED <<path, symlink, handle, acked>>

\* The write or the sync of an append ends in an error: the outcome is
\* ambiguous and the handle is poisoned.
MutateFails(op) ==
    /\ status = "open"
    /\ SequenceAvailable
    /\ ~EofMoved(files[hfile]) /\ PrefixIntact(files[hfile])
    /\ \E outcome \in Outcomes :
          files' = [files EXCEPT ![hfile] =
                       AppendTo(@, RecordOf(nextSequence, op), outcome)]
    /\ status' = "poisoned"
    /\ pending' = {op}
    /\ UNCHANGED <<path, symlink, hfile, values, nextSequence, ack, acked>>

\* The process stops inside an append.
MutateCrashes(op) ==
    /\ status = "open"
    /\ SequenceAvailable
    /\ ~EofMoved(files[hfile]) /\ PrefixIntact(files[hfile])
    /\ \E outcome \in Outcomes :
          files' = [files EXCEPT ![hfile] =
                       AppendTo(@, RecordOf(nextSequence, op), outcome)]
    /\ pending' = {op}
    /\ ForgetHandle
    /\ UNCHANGED <<path, symlink, acked>>

\* The process stops between calls, or drops the engine.
Crash ==
    /\ status # "closed"
    /\ ForgetHandle
    /\ UNCHANGED <<disk, acked, pending>>
-----------------------------------------------------------------------------
\* The file at the path continues the acknowledged prefix of the handle.
Continues(f) == Scans(f) /\ PrefixIntact(f)

\* REOPEN succeeds, from a usable or from a poisoned handle.
Reopen ==
    /\ status # "closed" /\ path # NoFile
    /\ ~symlink /\ SameIdentity(path) /\ Continues(files[path])
    /\ FromFile(path)

\* REOPEN is refused: the handle keeps its file and is poisoned.
ReopenRefused ==
    /\ status # "closed"
    /\ path # NoFile =>
          symlink \/ ~SameIdentity(path) \/ ~Continues(files[path])
    /\ status' = "poisoned"
    /\ UNCHANGED <<disk, hfile, values, nextSequence, ack, acked, pending>>

\* An I/O error in the identity test: the handle gives up its file too.
ReopenIdentityError ==
    /\ status # "closed" /\ path # NoFile
    /\ ~symlink /\ hfile # NoFile
    /\ status' = "poisoned"
    /\ hfile' = NoFile
    /\ UNCHANGED <<disk, values, nextSequence, ack, acked, pending>>

\* Any other I/O error of REOPEN (open, scan, hash, or the repair, which may
\* have truncated the tail): the handle keeps its file and is poisoned.
ReopenFails ==
    /\ status # "closed"
    /\ \/ UNCHANGED files
       \/ /\ path # NoFile
          /\ ~symlink /\ SameIdentity(path) /\ Continues(files[path])
          /\ files' = [files EXCEPT ![path] = Repaired(@)]
    /\ status' = "poisoned"
    /\ UNCHANGED <<path, symlink, hfile, values, nextSequence, ack, acked,
                   pending>>
-----------------------------------------------------------------------------
Next ==
    \/ \E f \in Inodes : CreateFile(f) \/ CreateInterrupted(f)
    \/ OpenExisting \/ OpenRefused \/ OpenInterrupted
    \/ \E op \in Op : \/ Mutate(op) \/ MutateExhausted(op) \/ MutateRejected(op)
                      \/ MutateFails(op) \/ MutateCrashes(op)
    \/ Crash
    \/ Reopen \/ ReopenRefused \/ ReopenIdentityError \/ ReopenFails

Spec == Init /\ [][Next]_vars
-----------------------------------------------------------------------------
\* Durability (append, scan_file): the file at the path can always be opened,
\* and replaying it yields the acknowledged map, or that map with the one
\* mutation in doubt.  The only file that fails closed is one whose creation
\* was cut short before its header, and it holds no acknowledged mutation.
Recoverable ==
    IF path = NoFile
    THEN acked = EmptyMap /\ pending = {}
    ELSE \/ /\ Scans(files[path])
            /\ Replay(files[path].recs) \in
                  {acked} \cup {Effect(acked, op) : op \in pending}
         \/ /\ ~files[path].ok
            /\ status = "closed" /\ acked = EmptyMap /\ pending = {}

\* A usable handle (ensure_usable, get): its index is the replay of what is on
\* disk and answers every GET with the acknowledged map; no torn tail lies
\* under the next append and no mutation is in doubt.
IndexMatchesFile ==
    status = "open" =>
        /\ hfile = path
        /\ files[path] = [ok |-> TRUE, recs |-> ack, tail |-> FALSE]
        /\ values = Replay(files[path].recs)
        /\ acked = values
        /\ pending = {}

\* REOPEN (lib.rs reopen): whatever a failed append left behind, a live
\* handle finds its own file with its acknowledged prefix, so none of the
\* checks of REOPEN locks the caller out of its own data.
ReopenAvailable ==
    status # "closed" =>
        /\ path # NoFile /\ ~symlink
        /\ SameIdentity(path)
        /\ Continues(files[path])

\* The state of a handle in each status: a dropped handle remembers nothing,
\* and a live one numbers its next record after its acknowledged prefix.
HandleShape ==
    /\ ~symlink
    /\ path = NoFile => status = "closed"
    /\ status = "closed" => /\ hfile = NoFile
                            /\ values = EmptyMap
                            /\ ack = << >>
    /\ nextSequence = Len(ack) + 1

\* The inductive invariant behind the durability theorem.
IInv ==
    /\ TypeOK
    /\ HandleShape
    /\ Recoverable
    /\ IndexMatchesFile
    /\ ReopenAvailable

\* The append log implements the contract of the laboratory: no acknowledged
\* mutation is lost, and a mutation in doubt is decided once, by recovery.
Kv == INSTANCE KvStore WITH store <- acked, usable <- status = "open"
RefinesKvStore == Kv!KvSpec
=============================================================================
