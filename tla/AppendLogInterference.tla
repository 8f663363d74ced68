----------------------- MODULE AppendLogInterference -----------------------
(***************************************************************************)
(* LogEngine beside a process that does not cooperate: between two calls   *)
(* the file at the path may be appended to, cut, rewritten, damaged,       *)
(* replaced, removed or turned into a symbolic link (the situations of     *)
(* tests/reopen_durability_floor.rs and tests/reopen_identity_anchor.rs).  *)
(* The engine promises no availability here; it promises that a live       *)
(* handle never acknowledges on top of a changed file and never continues  *)
(* with less than it has acknowledged.                                     *)
(***************************************************************************)
EXTENDS AppendLog

\* A well-formed record appended by someone else.
ForeignAppend(op) ==
    /\ path # NoFile /\ files[path].ok /\ ~files[path].tail
    /\ Len(files[path].recs) + 2 <= MaxSequence
    /\ files' = [files EXCEPT ![path].recs =
                    Append(@, RecordOf(Len(@) + 1, op))]
    /\ UNCHANGED <<path, symlink>>

\* The file is cut at a record boundary, or inside its last record.
ForeignTruncate ==
    /\ path # NoFile /\ files[path].recs # << >>
    /\ \E n \in 0 .. Len(files[path].recs) - 1, torn \in BOOLEAN :
          files' = [files EXCEPT ![path].recs = SubSeq(@, 1, n),
                                 ![path].tail = torn]
    /\ UNCHANGED <<path, symlink>>

\* A record is overwritten in place by one with valid checksums.
ForeignRewrite(op) ==
    /\ path # NoFile
    /\ \E i \in DOMAIN files[path].recs :
          files' = [files EXCEPT ![path].recs[i] = RecordOf(i, op)]
    /\ UNCHANGED <<path, symlink>>

\* A complete record or the header stops validating.
ForeignDamage ==
    /\ path # NoFile
    /\ files' = [files EXCEPT ![path].ok = FALSE]
    /\ UNCHANGED <<path, symlink>>

\* Another file takes the path: an empty log or a copy of the current one.
ForeignReplace(f) ==
    /\ path # NoFile /\ f \notin {path, hfile}
    /\ path' = f
    /\ \E content \in {files[path], Created(TRUE)} :
          files' = [files EXCEPT ![f] = content]
    /\ UNCHANGED symlink

ForeignUnlink ==
    /\ path # NoFile
    /\ path' = NoFile
    /\ symlink' = FALSE
    /\ UNCHANGED files

ForeignSymlink ==
    /\ path # NoFile
    /\ symlink' = ~symlink
    /\ UNCHANGED <<path, files>>

Foreign ==
    /\ \/ \E op \in Op : ForeignAppend(op) \/ ForeignRewrite(op)
       \/ \E f \in Inodes : ForeignReplace(f)
       \/ ForeignTruncate \/ ForeignDamage \/ ForeignUnlink \/ ForeignSymlink
    /\ UNCHANGED <<handle, acked, pending>>

InterferenceSpec == Init /\ [][Next \/ Foreign]_vars
-----------------------------------------------------------------------------
\* append's EOF and prefix checks and REOPEN's durability floor: whenever a
\* live handle acknowledges or comes back, it continues everything it had
\* acknowledged, and its file holds exactly that prefix and nothing else.
FloorKept ==
    [][ (status # "closed" /\ status' = "open")
        => /\ Len(ack) <= Len(ack') /\ SubSeq(ack', 1, Len(ack)) = ack
           /\ (ack' # ack \/ status # "open" =>
                 files'[hfile'] = [ok |-> TRUE, recs |-> ack', tail |-> FALSE])
      ]_vars

\* REOPEN's identity anchor: a handle that still holds its file never moves
\* to another one, however good the file at the path looks, and never comes
\* back through a symbolic link.
IdentityAnchored ==
    [][ status # "closed" /\ status' = "open" /\ (status # "open" \/ hfile' # hfile)
        => (hfile # NoFile => hfile' = hfile) /\ ~symlink ]_vars

\* A handle whose index came from a file never reports an index that differs
\* from replaying its acknowledged prefix, even while others change the file.
IndexIsAckedPrefix ==
    status = "open" => values = Replay(ack) /\ nextSequence = Len(ack) + 1
=============================================================================
