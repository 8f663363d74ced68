-------------------------- MODULE GenerationSwitch --------------------------
(***************************************************************************)
(* Reservation, compact switch and marker publication.  A switch reserves  *)
(* its id under the lease, builds the compact copy without it, and takes   *)
(* the lease again to recheck the source and publish the marker.           *)
(***************************************************************************)
EXTENDS GenerationDirectory

Unix == platform = "unix"

\* reserve_next_generation, by itself or as the first part of
\* compact_switch_generation_offline.
BeginReserving(t) ==
    /\ Begin(t, [NoOp EXCEPT !.kind = "switch", !.at = "reserve"])
    /\ NoFault
    /\ UNCHANGED <<dir, disk, log, proof, built>>

MutIdOverflow(d) == TRUE

\* checked_add: an id exists after the highest observed one.
IdAvailable(d) == NextId(d) <= MaxGen

\* Verify, take the next id, and create its reservation (a file moved in
\* from outside the directory on Windows).
Reserve(t) ==
    /\ Holding(t, "reserve")
    /\ NoFault
    /\ IF Verifies(dir) /\ IdAvailable(dir)
       THEN LET g == NextId(dir) IN
            /\ IF Unix THEN Visible(Add(dir, "reserved", g))
               ELSE MovedThrough("reserved", "reserved", g)
            /\ op' = [op EXCEPT ![t].gen = g,
                                ![t].at = IF Unix THEN "reserveSync"
                                          ELSE "reserved"]
       ELSE GiveUp(t) /\ UNCHANGED <<dir, disk>>
    /\ UNCHANGED <<log, proof, built, lockVars>>

\* publish_generation_reservation_windows: the move reports an error.
ReserveErrs(t) ==
    /\ Holding(t, "reserve")
    /\ ~Unix
    /\ Verifies(dir) /\ IdAvailable(dir)
    /\ Fault
    /\ MoveErrs("reserved", "reserved", NextId(dir))
    /\ GiveUp(t)
    /\ UNCHANGED <<log, proof, built, lockVars>>

\* retained_summary: the reservation is still seen.  The lease is dropped; a
\* switch goes on without it, a reservation by itself ends.
Reserved(t) ==
    /\ Holding(t, "reserved")
    /\ IF Verifies(dir) /\ op[t].gen \in dir["reserved"]
       THEN Goto(t, "survey") \/ Leave(t)
       ELSE GiveUp(t)
    /\ NoFault
    /\ UNCHANGED <<dir, disk, log, proof, built, lockVars>>
-----------------------------------------------------------------------------
\* Without the lease: verify, and remember the authority and its log.
Survey(t) ==
    /\ Running(t, "survey")
    /\ lease[t] = "none"
    /\ IF Verifies(dir) /\ Authority(dir) < op[t].gen
       THEN op' = [op EXCEPT ![t].wit = Witness(dir), ![t].at = "copy"]
       ELSE GiveUp(t)
    /\ NoFault
    /\ UNCHANGED <<dir, disk, log, proof, built, lockVars>>

\* The file a copy is made from: the authority's log, or the private snapshot
\* of a legacy file that a migration has taken.
Source(t) == IF op[t].kind = "migrate" THEN op[t].src ELSE log[op[t].wit.auth]

\* Where a finished copy leads.
AfterCopy(t) == IF op[t].kind = "migrate" THEN "compare" ELSE "recheck"

\* compact_log_to_fresh_file: checks, and the staging file is created; from
\* here on the directory holds an entry scans refuse.
StartCopy(t) ==
    /\ Running(t, "copy")
    /\ IF Source(t).tail \/ op[t].wit.auth \notin dir["logs"]
          \/ op[t].gen \in dir["logs"] \cup dir["copies"]
       THEN GiveUp(t) /\ UNCHANGED dir
       ELSE /\ dir' = Add(dir, "copies", op[t].gen)
            /\ op' = [op EXCEPT ![t].src = Source(t), ![t].at = "build"]
    /\ NoFault
    /\ UNCHANGED <<disk, log, proof, built, lockVars>>

\* build_staging: the live entries and nothing else.
CompactCopy(file) == [recs |-> Compact(file.recs), tail |-> FALSE]

\* Building or checking the copy fails; the staging file goes, or stays.
CopyErrs(t) ==
    /\ Running(t, "build")
    /\ Fault
    /\ dir' \in {dir, Drop(dir, "copies", op[t].gen)}
    /\ GiveUp(t)
    /\ UNCHANGED <<disk, log, proof, built, lockVars>>

\* The copy is complete.  Compare the source again, then link the staging
\* file to its canonical name, or move it there on Windows.
PublishCopy(t) ==
    /\ Running(t, "build")
    /\ NoFault
    /\ LET g == op[t].gen IN
       IF Source(t) # op[t].src
       THEN /\ Visible(Drop(dir, "copies", g))
            /\ GiveUp(t)
            /\ UNCHANGED <<log, built>>
       ELSE /\ IF Unix THEN Visible(Add(dir, "logs", g))
               ELSE MovedThrough("copies", "logs", g)
            /\ log' = [log EXCEPT ![g] = CompactCopy(op[t].src)]
            /\ built' = [built EXCEPT ![g] = @ + 1]
            /\ Goto(t, IF Unix THEN "tidyCopy" ELSE AfterCopy(t))
    /\ UNCHANGED <<proof, lockVars>>

\* PublicationUncertain, or an absent output whose staging is removed.
PublishCopyErrs(t) ==
    /\ Running(t, "build")
    /\ ~Unix
    /\ Fault
    /\ LET g == op[t].gen IN
       \/ /\ Visible(Drop(dir, "copies", g))
          /\ UNCHANGED <<log, built>>
       \/ /\ dir' = Move(dir, "copies", "logs", g)
          /\ disk' \in {disk, Move(disk, "copies", "logs", g)}
          /\ log' = [log EXCEPT ![g] = CompactCopy(op[t].src)]
          /\ built' = [built EXCEPT ![g] = @ + 1]
    /\ GiveUp(t)
    /\ UNCHANGED <<proof, lockVars>>

\* Remove the second name of the copy; when that fails it is kept.
TidyCopy(t) ==
    /\ Running(t, "tidyCopy")
    /\ \/ NoFault /\ Visible(Drop(dir, "copies", op[t].gen))
       \/ Fault /\ UNCHANGED <<dir, disk>>
    /\ Goto(t, AfterCopy(t))
    /\ UNCHANGED <<log, proof, built, lockVars>>
-----------------------------------------------------------------------------
MutSourceLogUnchecked(t) ==
    /\ Verifies(dir)
    /\ Authority(dir) = op[t].wit.auth
    /\ op[t].gen \in dir["logs"]

\* validate_compact_state: the candidate has the surveyed live state.
CandidateIntact(t) ==
    op[t].gen \in dir["logs"] /\ log[op[t].gen] = CompactCopy(op[t].wit.log)

\* The locked recheck: authority, source state and candidate as surveyed.
SourceUnchanged(t) ==
    /\ Verifies(dir)
    /\ Witness(dir) = op[t].wit
    /\ CandidateIntact(t)

Recheck(t) ==
    /\ Holding(t, "recheck")
    /\ IF SourceUnchanged(t) THEN Goto(t, "publish") ELSE GiveUp(t)
    /\ NoFault
    /\ UNCHANGED <<dir, disk, log, proof, built, lockVars>>

\* The standalone publisher (Unix), for a directory without a marker.
BeginPublishing(t, g) ==
    /\ Unix
    /\ dir["markers"] = {}
    /\ Begin(t, [NoOp EXCEPT !.kind = "publish", !.at = "publish", !.gen = g])
    /\ NoFault
    /\ UNCHANGED <<dir, disk, log, proof, built>>

\* publish_generation_marker and its Windows counterpart: the checks, and a
\* stale staging marker is removed.
Publish(t) ==
    /\ Holding(t, "publish")
    /\ LET g == op[t].gen IN
       IF /\ Scans(dir)
          /\ \A m \in dir["markers"] : m < g
          /\ g \in dir["logs"] /\ ~log[g].tail
          /\ Unix \/ g \in dir["reserved"]
       THEN /\ Visible(Drop(dir, "staged", g))
            /\ Goto(t, IF Unix THEN "baseSync" ELSE "stage")
       ELSE GiveUp(t) /\ UNCHANGED <<dir, disk>>
    /\ NoFault
    /\ UNCHANGED <<log, proof, built, lockVars>>

\* write_synced_staging creates the file ...
Stage(t) ==
    /\ Holding(t, "stage")
    /\ Visible(Add(dir, "staged", op[t].gen))
    /\ proof' = [proof EXCEPT ![op[t].gen] = Torn]
    /\ Goto(t, "fill")
    /\ NoFault
    /\ UNCHANGED <<log, built, lockVars>>

\* ... and writes and syncs the whole marker, or fails.
Fill(t) ==
    /\ Holding(t, "fill")
    /\ \/ /\ NoFault
          /\ proof' = [proof EXCEPT ![op[t].gen] = PrefixProof(op[t].gen)]
          /\ Goto(t, "link")
       \/ Fault /\ GiveUp(t) /\ UNCHANGED proof
    /\ UNCHANGED <<dir, disk, log, built, lockVars>>

\* The final marker appears: a hard link, then a sync; a move on Windows.
Link(t) ==
    /\ Holding(t, "link")
    /\ IF Unix THEN Visible(Add(dir, "markers", op[t].gen))
       ELSE MovedThrough("staged", "markers", op[t].gen)
    /\ Goto(t, IF Unix THEN "linkSync" ELSE "published")
    /\ NoFault
    /\ UNCHANGED <<log, proof, built, lockVars>>

\* The link fails and the staging marker stays, or the move reports an error;
\* then an absent marker's staging file is removed.
LinkErrs(t) ==
    /\ Holding(t, "link")
    /\ Fault
    /\ \/ Unix /\ UNCHANGED <<dir, disk>>
       \/ ~Unix /\ Visible(Drop(dir, "staged", op[t].gen))
       \/ /\ ~Unix
          /\ dir' = Move(dir, "staged", "markers", op[t].gen)
          /\ disk' \in {disk, Move(disk, "staged", "markers", op[t].gen)}
    /\ GiveUp(t)
    /\ UNCHANGED <<log, proof, built, lockVars>>

\* The marker is read back and, on Unix, its staging name removed if that
\* can be.  The final verification only decides what is reported.
Published(t) ==
    /\ Holding(t, "published")
    /\ \/ NoFault /\ Visible(IF Unix THEN Drop(dir, "staged", op[t].gen)
                             ELSE dir)
       \/ Unix /\ Fault /\ UNCHANGED <<dir, disk>>
    /\ Leave(t)
    /\ UNCHANGED <<log, proof, built, lockVars>>

SwitchNext(t) ==
    \/ BeginReserving(t)
    \/ \E g \in Gens : BeginPublishing(t, g)
    \/ SyncDirectory(t) \/ SyncFails(t)
    \/ Reserve(t) \/ ReserveErrs(t) \/ Reserved(t)
    \/ Survey(t) \/ StartCopy(t) \/ CopyErrs(t)
    \/ PublishCopy(t) \/ PublishCopyErrs(t) \/ TidyCopy(t)
    \/ Recheck(t) \/ Publish(t) \/ Stage(t) \/ Fill(t) \/ Link(t)
    \/ LinkErrs(t) \/ Published(t)
=============================================================================
