-------------------------- MODULE AppendLogProofs --------------------------
(***************************************************************************)
(* Proofs about the append log for every choice of keys, values, inodes    *)
(* and sequence limit: first the engine alone, then the engine beside a    *)
(* process that changes its file.                                          *)
(***************************************************************************)
EXTENDS AppendLogInterference, TLAPS

\* The scanner accepts the longer log exactly when the record continues it,
\* and replaying it is the effect of that record: append's in-memory update
\* (values.insert, values.remove) and scan_file's rebuild agree.
LEMMA ReplayAppend ==
    ASSUME NEW recs \in Seq(Record), NEW rec \in Record
    PROVE  Replay(Append(recs, rec)) = Effect(Replay(recs), rec)
<1> DEFINE long == Append(recs, rec)
           n == Len(recs)
<1>1. /\ long \in Seq(Record) /\ Len(long) = n + 1 /\ n \in Nat
      /\ DOMAIN long = 1 .. n + 1 /\ DOMAIN recs = 1 .. n
      /\ long[n + 1] = rec
      /\ \A i \in 1 .. n : long[i] = recs[i] /\ recs[i] \in Record
  OBVIOUS
<1>2. ASSUME NEW k \in Keys
      PROVE  Replay(long)[k] = Effect(Replay(recs), rec)[k]
  <2>1. CASE k = rec.key
    <3>1. \A i \in DOMAIN long : IsLast(long, k, i) <=> i = n + 1
      BY <1>1, <2>1 DEF IsLast
    <3>2. (CHOOSE i \in DOMAIN long : IsLast(long, k, i)) = n + 1
      BY <1>1, <3>1
    <3>3. Replay(long)[k] = rec.val
      BY <1>1, <3>1, <3>2 DEF Replay
    <3> QED BY <2>1, <3>3 DEF Effect, Replay
  <2>2. CASE k # rec.key
    <3>1. \A i \in 1 .. n : IsLast(long, k, i) <=> IsLast(recs, k, i)
      <4> SUFFICES ASSUME NEW i \in 1 .. n
                   PROVE  IsLast(long, k, i) <=> IsLast(recs, k, i)
        OBVIOUS
      <4>1. ASSUME IsLast(long, k, i) PROVE IsLast(recs, k, i)
        BY <1>1, <4>1 DEF IsLast
      <4>2. ASSUME IsLast(recs, k, i) PROVE IsLast(long, k, i)
        <5>1. recs[i].key = k BY <4>2 DEF IsLast
        <5>2. ASSUME NEW j \in i + 1 .. n + 1 PROVE long[j].key # k
          <6>1. CASE j = n + 1 BY <1>1, <2>2, <6>1
          <6>2. CASE j # n + 1
            <7>1. j \in i + 1 .. n BY <1>1, <6>2
            <7>2. recs[j].key # k BY <4>2, <7>1 DEF IsLast
            <7> QED BY <1>1, <7>1, <7>2
          <6> QED BY <6>1, <6>2
        <5> QED BY <1>1, <5>1, <5>2 DEF IsLast
      <4> QED BY <4>1, <4>2
    <3>2. ~IsLast(long, k, n + 1)
      BY <1>1, <2>2 DEF IsLast
    <3>3. \A i \in DOMAIN long :
             i \in DOMAIN recs /\ IsLast(recs, k, i) <=> IsLast(long, k, i)
      BY <1>1, <3>1, <3>2
    <3>4. (\E i \in DOMAIN recs : IsLast(recs, k, i))
             <=> (\E i \in DOMAIN long : IsLast(long, k, i))
      BY <1>1, <3>1, <3>2
    <3>5. (CHOOSE i \in DOMAIN recs : IsLast(recs, k, i))
             = (CHOOSE i \in DOMAIN long : IsLast(long, k, i))
      <4>1. \A i : (i \in DOMAIN recs /\ IsLast(recs, k, i))
                   <=> (i \in DOMAIN long /\ IsLast(long, k, i))
        BY <1>1, <3>1, <3>2
      <4> QED BY <4>1, Zenon
    <3>6. CASE \E i \in DOMAIN recs : IsLast(recs, k, i)
      <4>1. PICK c \in DOMAIN recs :
               c = CHOOSE i \in DOMAIN recs : IsLast(recs, k, i)
        BY <3>6
      <4>2. Replay(recs)[k] = recs[c].val
        BY <3>6, <4>1 DEF Replay
      <4>3. Replay(long)[k] = long[c].val
        BY <3>4, <3>5, <3>6, <4>1 DEF Replay
      <4> QED BY <1>1, <2>2, <4>1, <4>2, <4>3 DEF Effect, Replay
    <3>7. CASE ~\E i \in DOMAIN recs : IsLast(recs, k, i)
      BY <2>2, <3>4, <3>7 DEF Replay, Effect
    <3> QED BY <3>6, <3>7
  <2> QED BY <2>1, <2>2
<1>3. /\ Replay(long) = [k \in Keys |-> Replay(long)[k]]
      /\ Effect(Replay(recs), rec) = [k \in Keys |-> Effect(Replay(recs), rec)[k]]
  BY Zenon DEF Replay, Effect
<1> QED BY <1>2, <1>3, Zenon

\* A log without records replays to the empty map.
LEMMA ReplayEmpty == Replay(<< >>) = EmptyMap
BY DEF Replay, EmptyMap

\* A replay is a map, whatever the records are.
LEMMA ReplayIsMap ==
    ASSUME NEW recs \in Seq(Record)
    PROVE  Replay(recs) \in Map
<1>1. ASSUME NEW k \in Keys PROVE Replay(recs)[k] \in Entry
  <2>1. CASE \E i \in DOMAIN recs : IsLast(recs, k, i)
    <3>1. PICK c \in DOMAIN recs :
             c = CHOOSE i \in DOMAIN recs : IsLast(recs, k, i)
      BY <2>1
    <3>2. Replay(recs)[k] = recs[c].val
      BY <2>1, <3>1 DEF Replay
    <3>3. recs[c] \in Record
      BY <3>1
    <3>4. recs[c].val \in Entry
      BY <3>3 DEF Record
    <3> QED BY <3>2, <3>4
  <2>2. CASE ~\E i \in DOMAIN recs : IsLast(recs, k, i)
    BY <2>2 DEF Replay, Entry
  <2> QED BY <2>1, <2>2
<1>2. Replay(recs) = [k \in Keys |-> Replay(recs)[k]]
  BY Zenon DEF Replay
<1> QED BY <1>1, <1>2, Zenon DEF Map

\* One mutation keeps a map a map.
LEMMA EffectIsMap ==
    ASSUME NEW map \in Map, NEW op, op.val \in Entry
    PROVE  Effect(map, op) \in Map
BY DEF Effect, Map

\* The record append encodes for an operation has that operation's effect.
LEMMA RecordEffect ==
    ASSUME NEW map, NEW op \in Op, NEW seq \in Nat
    PROVE  /\ RecordOf(seq, op) \in Record
           /\ RecordOf(seq, op).seq = seq
           /\ Effect(map, RecordOf(seq, op)) = Effect(map, op)
BY DEF RecordOf, Record, Op, Effect
\* Sequence numbers: there is a first one, and one after a number of records
\* whose successor exists.
LEMMA SequenceNumbers ==
    /\ 1 \in 1 .. MaxSequence
    /\ \A n \in Nat : n + 1 <= MaxSequence => n + 1 \in 1 .. MaxSequence
    /\ \A n \in 1 .. MaxSequence : n \in Nat
BY MaxSequenceIsPositive
-----------------------------------------------------------------------------
\* The initial state satisfies the invariant.
LEMMA InitIInv == Init => IInv
<1> SUFFICES ASSUME Init PROVE IInv
  OBVIOUS
<1>1. EmptyMap \in Map
  BY DEF EmptyMap, Map, Entry
<1>2. Created(FALSE) \in File
  BY DEF Created, File
<1>3. TypeOK
  <2>1. files \in [Inodes -> File]
    BY <1>2 DEF Init
  <2>2. ack \in Seq(Record) /\ nextSequence \in 1 .. MaxSequence
    BY SequenceNumbers DEF Init
  <2>3. values \in Map /\ acked \in Map /\ pending \in SUBSET Op
    BY <1>1 DEF Init
  <2> QED BY <2>1, <2>2, <2>3 DEF Init, TypeOK
<1>4. HandleShape /\ Recoverable /\ IndexMatchesFile /\ ReopenAvailable
  BY DEF Init, HandleShape, Recoverable, IndexMatchesFile, ReopenAvailable
<1> QED BY <1>3, <1>4 DEF IInv

\* A successful from_file on a file that Recoverable describes establishes
\* the invariant: open and REOPEN share it.
LEMMA FromFileKeepsIInv ==
    ASSUME IInv, path # NoFile, Scans(files[path]), FromFile(path)
    PROVE  IInv'
<1> DEFINE recs == files[path].recs
<1>1. /\ path \in Inodes /\ files[path] \in File /\ recs \in Seq(Record)
      /\ ~symlink /\ files[path].ok
  BY DEF IInv, TypeOK, HandleShape, File, Scans
<1>2. /\ files' = [files EXCEPT ![path] = Repaired(files[path])]
      /\ Repaired(files[path]) \in File
      /\ files'[path] = [ok |-> TRUE, recs |-> recs, tail |-> FALSE]
      /\ files' \in [Inodes -> File]
  BY <1>1 DEF FromFile, Repaired, File, IInv, TypeOK
<1>3. TypeOK'
  <2>1. nextSequence' \in 1 .. MaxSequence
    BY <1>1, SequenceNumbers DEF FromFile, Scans
  <2> QED BY <1>1, <1>2, <2>1, ReplayIsMap DEF FromFile, IInv, TypeOK
<1>4. HandleShape'
  BY <1>1 DEF FromFile, IInv, HandleShape
<1>5. Scans(files'[path]) /\ recs = ack' /\ path' = path
  BY <1>2 DEF Scans, FromFile
<1>6. Recoverable'
  BY <1>2, <1>5 DEF Recoverable, FromFile, Scans
<1>7. IndexMatchesFile'
  BY <1>2 DEF IndexMatchesFile, FromFile
<1>8. ReopenAvailable'
  BY <1>1, <1>2, <1>5 DEF ReopenAvailable, FromFile, SameIdentity, Continues,
                          PrefixIntact, Scans
<1> QED BY <1>3, <1>4, <1>6, <1>7, <1>8 DEF IInv

\* A sequence is its own prefix.
LEMMA SubSeqSelf ==
    ASSUME NEW s \in Seq(Record)
    PROVE  Len(s) <= Len(s) /\ SubSeq(s, 1, Len(s)) = s
<1>1. Len(s) \in Nat
  OBVIOUS
<1> QED BY <1>1

\* A file whose header and complete records validate.
Sound(recs, tail) == [ok |-> TRUE, recs |-> recs, tail |-> tail]

\* The fields of a sound file, and what the checks on it come down to.
LEMMA SoundFile ==
    ASSUME NEW recs \in Seq(Record), NEW tail \in BOOLEAN
    PROVE  /\ Sound(recs, tail) \in File
           /\ Sound(recs, tail).recs = recs
           /\ Sound(recs, tail).ok = TRUE
           /\ Scans(Sound(recs, tail)) <=>
                 /\ \A i \in DOMAIN recs : recs[i].seq = i
                 /\ Len(recs) + 1 <= MaxSequence
           /\ PrefixIntact(Sound(recs, tail)) <=>
                 Len(ack) <= Len(recs) /\ SubSeq(recs, 1, Len(ack)) = ack
BY DEF Sound, File, Scans, PrefixIntact

\* The outcomes of an append on a sound file without a tail.
LEMMA AppendToSound ==
    ASSUME NEW recs, NEW rec
    PROVE  /\ AppendTo(Sound(recs, FALSE), rec, "none") = Sound(recs, FALSE)
           /\ AppendTo(Sound(recs, FALSE), rec, "torn") = Sound(recs, TRUE)
           /\ AppendTo(Sound(recs, FALSE), rec, "whole")
                 = Sound(Append(recs, rec), FALSE)
BY DEF AppendTo, Sound

\* What append leaves on disk, for a usable handle that satisfies the
\* invariant: a longer or torn log that still scans, still starts with the
\* acknowledged prefix, and replays to the old map or to the new one.
LEMMA AppendOutcome ==
    ASSUME IInv, status = "open", SequenceAvailable,
           NEW op \in Op, NEW outcome \in Outcomes
    PROVE  LET rec == RecordOf(nextSequence, op)
               file == AppendTo(files[hfile], rec, outcome)
           IN  /\ path \in Inodes /\ hfile = path
               /\ rec \in Record
               /\ file \in File
               /\ Continues(file)
               /\ Replay(file.recs) \in {acked, Effect(acked, op)}
               /\ outcome = "whole" =>
                     /\ file = Sound(Append(ack, rec), FALSE)
                     /\ Replay(file.recs) = Effect(acked, op)
<1> DEFINE rec == RecordOf(nextSequence, op)
           file == AppendTo(files[hfile], rec, outcome)
<1>1. /\ path \in Inodes /\ hfile = path
      /\ files[path] = Sound(ack, FALSE)
      /\ ack \in Seq(Record) /\ nextSequence = Len(ack) + 1 /\ Len(ack) \in Nat
      /\ acked = Replay(ack)
  BY DEF IInv, TypeOK, HandleShape, IndexMatchesFile, Sound
<1>2. rec \in Record /\ rec.seq = Len(ack) + 1 /\ Effect(acked, rec) = Effect(acked, op)
  BY <1>1, RecordEffect
<1>3. \A i \in DOMAIN ack : ack[i].seq = i
  BY <1>1, SoundFile DEF IInv, ReopenAvailable, Continues
<1>4. Len(ack) + 2 <= MaxSequence
  BY <1>1, MaxSequenceIsPositive DEF SequenceAvailable
<1> HIDE DEF rec
<1>5. ASSUME NEW tail \in BOOLEAN, file = Sound(ack, tail)
      PROVE  /\ file \in File /\ Continues(file)
             /\ Replay(file.recs) = acked
  <2>1. SubSeq(ack, 1, Len(ack)) = ack
    BY <1>1
  <2>2. Len(ack) + 1 <= MaxSequence
    BY <1>1, <1>4, MaxSequenceIsPositive
  <2>3. Scans(Sound(ack, tail))
    BY <1>1, <1>3, <2>2, SoundFile
  <2>4. PrefixIntact(Sound(ack, tail))
    BY <1>1, <2>1 DEF PrefixIntact, Sound
  <2> QED BY <1>1, <1>5, <2>3, <2>4, SoundFile DEF Continues
<1>6. ASSUME file = Sound(Append(ack, rec), FALSE)
      PROVE  /\ file \in File /\ Continues(file)
             /\ Replay(file.recs) = Effect(acked, op)
  <2> DEFINE long == Append(ack, rec)
  <2>1. /\ long \in Seq(Record)
        /\ Len(long) = Len(ack) + 1 /\ DOMAIN long = 1 .. Len(ack) + 1
        /\ long[Len(ack) + 1] = rec
        /\ \A i \in 1 .. Len(ack) : long[i] = ack[i]
        /\ SubSeq(long, 1, Len(ack)) = ack
    BY <1>1, <1>2
  <2>2. ASSUME NEW i \in DOMAIN long PROVE long[i].seq = i
    <3>1. CASE i = Len(ack) + 1 BY <1>2, <2>1, <3>1
    <3>2. CASE i # Len(ack) + 1
      <4>1. i \in DOMAIN ack BY <1>1, <2>1, <3>2
      <4> QED BY <1>1, <1>3, <2>1, <4>1
    <3> QED BY <3>1, <3>2
  <2> HIDE DEF long
  <2>3. Len(long) + 1 <= MaxSequence /\ Len(ack) <= Len(long)
    BY <1>1, <1>4, <2>1, MaxSequenceIsPositive
  <2>4. Scans(Sound(long, FALSE))
    BY <2>1, <2>2, <2>3, SoundFile
  <2>5. PrefixIntact(Sound(long, FALSE))
    BY <2>1, <2>3, SoundFile
  <2>6. Replay(long) = Effect(acked, op)
    BY <1>1, <1>2, ReplayAppend DEF long
  <2>7. file = Sound(long, FALSE)
    BY <1>6 DEF long
  <2> QED BY <2>1, <2>4, <2>5, <2>6, <2>7, SoundFile DEF Continues
<1>7. CASE outcome = "none" \/ outcome = "torn"
  <2>1. \E tail \in BOOLEAN : file = Sound(ack, tail)
    BY <1>1, <1>7, AppendToSound
  <2> QED BY <1>1, <1>2, <1>5, <1>7, <2>1 DEF rec
<1>8. CASE outcome = "whole"
  <2>1. file = Sound(Append(ack, rec), FALSE)
    BY <1>1, <1>8, AppendToSound
  <2> QED BY <1>1, <1>2, <1>6, <2>1 DEF rec
<1> QED BY <1>7, <1>8 DEF Outcomes, rec

\* A step that leaves everything alone keeps the invariant.
LEMMA StutterIInv == IInv /\ UNCHANGED vars => IInv'
BY DEF IInv, vars, TypeOK, HandleShape, Recoverable, IndexMatchesFile,
       ReopenAvailable, Continues, Scans, PrefixIntact, SameIdentity

\* A step after which the handle is poisoned or gone keeps the invariant if
\* the file at the path still continues the acknowledged prefix and replays
\* to the acknowledged map or to that map with the mutation in doubt.
LEMMA UnusableIInv ==
    ASSUME IInv, path # NoFile, path' = path, symlink' = symlink, acked' = acked,
           pending' \in SUBSET Op, files' \in [Inodes -> File],
           Continues(files'[path]),
           Replay(files'[path].recs) \in {acked} \cup {Effect(acked, op) : op \in pending'},
           \/ /\ status' = "poisoned" /\ hfile' \in {hfile, NoFile}
              /\ status # "closed"
              /\ UNCHANGED <<values, nextSequence, ack>>
           \/ ForgetHandle
           \/ status = "closed" /\ UNCHANGED handle
    PROVE  IInv'
<1>1. EmptyMap \in Map /\ << >> \in Seq(Record)
  BY DEF EmptyMap, Map, Entry
<1>2. TypeOK'
  <2>1. TypeOK
    BY DEF IInv
  <2>2. CASE status' = "poisoned" /\ hfile' \in {hfile, NoFile}
             /\ UNCHANGED <<values, nextSequence, ack>>
    BY <2>1, <2>2 DEF TypeOK
  <2>3. CASE ForgetHandle
    BY <1>1, <2>1, <2>3, SequenceNumbers DEF TypeOK, ForgetHandle
  <2>4. CASE status = "closed" /\ UNCHANGED handle
    BY <2>1, <2>4 DEF TypeOK, handle
  <2> QED BY <2>2, <2>3, <2>4
<1>3. HandleShape'
  BY DEF IInv, HandleShape, ForgetHandle, handle
<1>4. Recoverable'
  BY DEF Recoverable, Continues, Scans
<1>5. IndexMatchesFile'
  BY DEF IndexMatchesFile, ForgetHandle, handle
<1>6. ReopenAvailable'
  BY DEF IInv, HandleShape, ReopenAvailable, ForgetHandle, handle, Continues, Scans,
         PrefixIntact, SameIdentity
<1> QED BY <1>2, <1>3, <1>4, <1>5, <1>6 DEF IInv

\* Every step of the engine preserves the invariant: one case per action.
LEMMA NextIInv == IInv /\ [Next]_vars => IInv'
<1> SUFFICES ASSUME IInv, [Next]_vars PROVE IInv'
  OBVIOUS
<1> USE DEF IInv
<1>1. ASSUME NEW f \in Inodes, CreateFile(f) PROVE IInv'
  <2>1. << >> \in Seq(Record) /\ Created(TRUE) = Sound(<< >>, FALSE)
    BY DEF Created, Sound
  <2>2. /\ status = "closed" /\ path = NoFile /\ values = EmptyMap /\ ack = << >>
        /\ acked = EmptyMap /\ pending = {} /\ nextSequence = 1 /\ ~symlink
    BY <1>1 DEF CreateFile, HandleShape, Recoverable
  <2>3. /\ path' = f /\ hfile' = f /\ status' = "open" /\ f # NoFile
        /\ files' \in [Inodes -> File]
        /\ files'[f] = Sound(<< >>, FALSE)
    BY <1>1, <2>1, SoundFile, NoFileIsNoInode DEF CreateFile, TypeOK
  <2>4. TypeOK'
    BY <1>1, <2>3 DEF CreateFile, TypeOK
  <2>5. HandleShape'
    BY <1>1, <2>2, <2>3 DEF CreateFile, HandleShape
  <2>6. /\ files'[f].ok = TRUE /\ files'[f].recs = << >>
        /\ files'[f] = [ok |-> TRUE, recs |-> << >>, tail |-> FALSE]
    BY <2>3 DEF Sound
  <2>7. Scans(files'[f])
    BY <2>6, MaxSequenceIsPositive DEF Scans
  <2>8. Recoverable'
    BY <1>1, <2>2, <2>3, <2>6, <2>7, ReplayEmpty DEF CreateFile, Recoverable, Scans
  <2>9. IndexMatchesFile'
    BY <1>1, <2>2, <2>3, <2>6, ReplayEmpty DEF CreateFile, IndexMatchesFile
  <2>10. PrefixIntact(files[path])'
    BY <1>1, <2>1, <2>2, <2>3, <2>6, SubSeqSelf DEF CreateFile, PrefixIntact
  <2>11. ReopenAvailable'
    BY <1>1, <2>2, <2>3, <2>7, <2>10 DEF CreateFile, ReopenAvailable, SameIdentity,
                                         Continues, Scans
  <2> QED BY <2>4, <2>5, <2>8, <2>9, <2>11
<1>2. ASSUME NEW f \in Inodes, CreateInterrupted(f) PROVE IInv'
  <2>1. PICK header \in BOOLEAN : files' = [files EXCEPT ![f] = Created(header)]
    BY <1>2 DEF CreateInterrupted
  <2>2. Created(header) \in File
    BY DEF Created, File
  <2>3. /\ status = "closed" /\ acked = EmptyMap /\ pending = {}
        /\ path' = f /\ f # NoFile
        /\ files' \in [Inodes -> File]
        /\ files'[f] = Created(header)
    BY <1>2, <2>1, <2>2, NoFileIsNoInode DEF CreateInterrupted, TypeOK, Recoverable
  <2>4. TypeOK' /\ HandleShape' /\ IndexMatchesFile' /\ ReopenAvailable'
    BY <1>2, <2>3 DEF CreateInterrupted, handle, TypeOK, HandleShape, IndexMatchesFile, ReopenAvailable
  <2>5. header => Scans(files'[f])
    BY <2>3, MaxSequenceIsPositive DEF Scans, Created
  <2>6. Recoverable'
    BY <1>2, <2>3, <2>5, ReplayEmpty DEF CreateInterrupted, handle, Recoverable, Scans, Created
  <2> QED BY <2>4, <2>6
<1>3. ASSUME OpenExisting PROVE IInv'
  BY <1>3, FromFileKeepsIInv DEF OpenExisting, FromFile
<1>4. ASSUME OpenRefused PROVE IInv'
  BY <1>4, StutterIInv DEF OpenRefused
<1>5. ASSUME OpenInterrupted PROVE IInv'
  <2>1. PICK cut \in BOOLEAN : files' = [files EXCEPT ![path].tail = ~cut]
    BY <1>5 DEF OpenInterrupted
  <2>2. /\ status = "closed" /\ path \in Inodes /\ path # NoFile /\ Scans(files[path])
        /\ ack = << >> /\ files[path] \in File /\ files[path].ok
    BY <1>5 DEF OpenInterrupted, TypeOK, HandleShape, Scans
  <2>3. /\ files'[path] = [ok |-> files[path].ok, recs |-> files[path].recs, tail |-> ~cut]
        /\ files' \in [Inodes -> File]
    BY <2>1, <2>2 DEF TypeOK, File
  <2>4. files'[path].recs = files[path].recs /\ files'[path].ok = files[path].ok
    BY <2>3
  <2>5. Scans(files'[path])
    BY <2>2, <2>4 DEF Scans
  <2>6. /\ Len(ack) = 0 /\ Len(files[path].recs) \in Nat
        /\ SubSeq(files[path].recs, 1, 0) = << >>
    BY <2>2 DEF File
  <2>7. PrefixIntact(files'[path])
    BY <2>2, <2>4, <2>6 DEF PrefixIntact
  <2>8. Replay(files'[path].recs) \in {acked} \cup {Effect(acked, op) : op \in pending}
    BY <2>2, <2>4 DEF Recoverable
  <2> QED BY <1>5, <2>2, <2>3, <2>5, <2>7, <2>8, UnusableIInv
          DEF OpenInterrupted, handle, Continues, TypeOK
<1>6. ASSUME NEW op \in Op, Mutate(op) PROVE IInv'
  <2> DEFINE rec == RecordOf(nextSequence, op)
             file == AppendTo(files[hfile], rec, "whole")
  <2>1. /\ path \in Inodes /\ hfile = path /\ rec \in Record /\ file \in File
        /\ file = Sound(Append(ack, rec), FALSE) /\ Continues(file)
        /\ Replay(file.recs) = Effect(acked, op)
    BY <1>6, AppendOutcome DEF Mutate, Outcomes
  <2>2. /\ ack \in Seq(Record) /\ nextSequence = Len(ack) + 1 /\ acked = values
        /\ status = "open" /\ ~symlink /\ pending = {} /\ path # NoFile
    BY <1>6, <2>1, NoFileIsNoInode DEF Mutate, TypeOK, HandleShape, IndexMatchesFile
  <2>3. /\ ack' = Append(ack, rec) /\ ack' \in Seq(Record) /\ Len(ack') = Len(ack) + 1
        /\ nextSequence' = nextSequence + 1
        /\ values' = Effect(values, op) /\ acked' = Effect(acked, op)
        /\ UNCHANGED <<path, symlink, status, hfile, pending>>
        /\ files' = [files EXCEPT ![hfile] = file]
    BY <1>6, <2>1, <2>2 DEF Mutate
  <2> HIDE DEF rec, file
  <2>4. files' \in [Inodes -> File] /\ files'[path] = file
    BY <2>1, <2>3 DEF TypeOK
  <2>5. file.recs = ack' /\ file.ok = TRUE /\ file = [ok |-> TRUE, recs |-> ack', tail |-> FALSE]
    BY <2>1, <2>3 DEF Sound
  <2>6. TypeOK'
    <3>1. op.val \in Entry BY DEF Op
    <3>2. Effect(values, op) \in Map /\ Effect(acked, op) \in Map
      BY <3>1, EffectIsMap DEF TypeOK
    <3>3. nextSequence' \in 1 .. MaxSequence
      BY <1>6, <2>2, <2>3, SequenceNumbers DEF Mutate, SequenceAvailable, TypeOK
    <3> QED BY <2>3, <2>4, <3>2, <3>3 DEF TypeOK
  <2>7. HandleShape'
    BY <2>2, <2>3 DEF HandleShape
  <2>8. Scans(files'[path])
    BY <2>1, <2>4 DEF Continues
  <2>9. Recoverable'
    BY <2>1, <2>2, <2>3, <2>4, <2>5, <2>8 DEF Recoverable, Scans
  <2>10. IndexMatchesFile'
    BY <2>1, <2>2, <2>3, <2>4, <2>5 DEF IndexMatchesFile
  <2>11. ReopenAvailable'
    BY <2>1, <2>2, <2>3, <2>4, <2>5, <2>8, SubSeqSelf
       DEF ReopenAvailable, SameIdentity, Continues, Scans, PrefixIntact
  <2> QED BY <2>6, <2>7, <2>9, <2>10, <2>11
<1>7. ASSUME NEW op \in Op, MutateExhausted(op) PROVE IInv'
  BY <1>7, StutterIInv DEF MutateExhausted
<1>8. ASSUME NEW op \in Op, MutateRejected(op) PROVE FALSE
  <2>1. /\ hfile = path /\ files[path] = [ok |-> TRUE, recs |-> ack, tail |-> FALSE]
        /\ ack \in Seq(Record)
    BY <1>8 DEF MutateRejected, IndexMatchesFile, TypeOK
  <2>2. ~EofMoved(files[hfile]) /\ PrefixIntact(files[hfile])
    BY <2>1, SubSeqSelf DEF EofMoved, PrefixIntact
  <2> QED BY <1>8, <2>2 DEF MutateRejected
<1>9. ASSUME NEW op \in Op, MutateFails(op) \/ MutateCrashes(op) PROVE IInv'
  <2>1. PICK outcome \in Outcomes :
           files' = [files EXCEPT ![hfile] =
                        AppendTo(files[hfile], RecordOf(nextSequence, op), outcome)]
    BY <1>9 DEF MutateFails, MutateCrashes
  <2> DEFINE file == AppendTo(files[hfile], RecordOf(nextSequence, op), outcome)
  <2>2. /\ path \in Inodes /\ hfile = path /\ file \in File /\ Continues(file)
        /\ Replay(file.recs) \in {acked, Effect(acked, op)}
    BY <1>9, AppendOutcome DEF MutateFails, MutateCrashes
  <2> HIDE DEF file
  <2>3. files' \in [Inodes -> File] /\ files'[path] = file /\ path # NoFile
    BY <2>1, <2>2, NoFileIsNoInode DEF TypeOK, file
  <2>4. pending' = {op} /\ path' = path /\ symlink' = symlink /\ acked' = acked
    BY <1>9 DEF MutateFails, MutateCrashes
  <2>5. \/ ForgetHandle
        \/ /\ status' = "poisoned" /\ hfile' \in {hfile, NoFile} /\ status # "closed"
           /\ UNCHANGED <<values, nextSequence, ack>>
    BY <1>9 DEF MutateFails, MutateCrashes
  <2> QED BY <2>2, <2>3, <2>4, <2>5, UnusableIInv
<1>10. ASSUME status # "closed"
       PROVE  /\ path # NoFile /\ Continues(files[path]) /\ SameIdentity(path) /\ ~symlink
              /\ files \in [Inodes -> File] /\ pending \in SUBSET Op
              /\ Replay(files[path].recs) \in {acked} \cup {Effect(acked, op) : op \in pending}
  BY <1>10 DEF ReopenAvailable, Recoverable, TypeOK, Continues, Scans
<1>11. ASSUME Crash PROVE IInv'
  BY <1>10, <1>11, UnusableIInv DEF Crash, disk
<1>12. ASSUME Reopen PROVE IInv'
  BY <1>12, FromFileKeepsIInv DEF Reopen, FromFile
<1>13. ASSUME ReopenRefused PROVE FALSE
  BY <1>10, <1>13 DEF ReopenRefused
<1>14. ASSUME ReopenIdentityError PROVE IInv'
  BY <1>10, <1>14, UnusableIInv DEF ReopenIdentityError, disk
<1>15. ASSUME ReopenFails PROVE IInv'
  <2>1. CASE UNCHANGED files
    BY <1>10, <1>15, <2>1, UnusableIInv DEF ReopenFails
  <2>2. CASE files' = [files EXCEPT ![path] = Repaired(@)]
    <3>1. /\ path \in Inodes /\ files[path] \in File
      BY <1>10, <1>15 DEF ReopenFails, TypeOK
    <3>2. /\ Repaired(files[path]) \in File
          /\ Repaired(files[path]).recs = files[path].recs
          /\ Repaired(files[path]).ok = files[path].ok
      BY <3>1 DEF Repaired, File
    <3>3. files'[path] = Repaired(files[path]) /\ files' \in [Inodes -> File]
      BY <2>2, <3>1, <3>2 DEF TypeOK
    <3>4. Continues(files'[path])
      BY <1>10, <1>15, <3>2, <3>3 DEF ReopenFails, Continues, Scans, PrefixIntact
    <3> QED BY <1>10, <1>15, <3>2, <3>3, <3>4, UnusableIInv DEF ReopenFails
  <2> QED BY <1>15, <2>1, <2>2 DEF ReopenFails
<1>16. ASSUME UNCHANGED vars PROVE IInv'
  BY <1>16, StutterIInv
<1> QED
  BY <1>1, <1>2, <1>3, <1>4, <1>5, <1>6, <1>7, <1>8, <1>9, <1>11, <1>12, <1>13,
     <1>14, <1>15, <1>16 DEF Next

\* The inductive invariant holds in every reachable state.
THEOREM Invariance == Spec => []IInv
BY InitIInv, NextIInv, PTL DEF Spec

\* Type correctness of the engine's state and of what it leaves on disk.
THEOREM TypeCorrect == Spec => []TypeOK
<1>1. IInv => TypeOK
  BY DEF IInv
<1> QED BY <1>1, Invariance, PTL

\* Durability: whatever write fails or is torn and wherever the process
\* stops, the file can be opened and replays to the acknowledged map, with at
\* most the one mutation in doubt added.
THEOREM Durability == Spec => []Recoverable
<1>1. IInv => Recoverable
  BY DEF IInv
<1> QED BY <1>1, Invariance, PTL

\* A usable handle answers from an index that is the replay of its file.
THEOREM IndexAgreement == Spec => []IndexMatchesFile
<1>1. IInv => IndexMatchesFile
  BY DEF IInv
<1> QED BY <1>1, Invariance, PTL

\* No check of REOPEN ever locks a caller out of a file nobody else touched.
THEOREM ReopenSucceeds == Spec => []ReopenAvailable
<1>1. IInv => ReopenAvailable
  BY DEF IInv
<1> QED BY <1>1, Invariance, PTL
-----------------------------------------------------------------------------
\* A recovery of the engine is a recovery of the abstract store.
LEMMA RecoveryRefines ==
    ASSUME IInv, path # NoFile, FromFile(path)
    PROVE  Kv!Recover
<1>1. Scans(files[path]) /\ files[path].ok
  BY DEF FromFile, Scans
<1>2. Replay(files[path].recs) \in {acked} \cup {Effect(acked, op) : op \in pending}
  BY <1>1 DEF IInv, Recoverable
<1>3. acked' = Replay(files[path].recs) /\ pending' = {} /\ status' = "open"
  BY DEF FromFile
<1> QED BY <1>2, <1>3 DEF Kv!Recover, Kv!Effect, Effect

\* Every step of the engine is a step of the abstract store or leaves it alone.
LEMMA StepRefines == IInv /\ [Next]_vars => [Kv!KvNext]_(Kv!kvVars)
<1> SUFFICES ASSUME IInv, [Next]_vars PROVE [Kv!KvNext]_(Kv!kvVars)
  OBVIOUS
<1> USE DEF Kv!KvNext, Kv!kvVars
<1>0. ASSUME status' = status, acked' = acked, pending' = pending
      PROVE  UNCHANGED Kv!kvVars
  BY <1>0
<1>1. ASSUME NEW f \in Inodes, CreateFile(f) PROVE Kv!Recover
  BY <1>1 DEF CreateFile, IInv, Recoverable, Kv!Recover
<1>2. ASSUME NEW f \in Inodes, CreateInterrupted(f) PROVE UNCHANGED Kv!kvVars
  BY <1>0, <1>2 DEF CreateInterrupted, handle
<1>3. ASSUME OpenExisting \/ Reopen PROVE Kv!Recover
  BY <1>3, RecoveryRefines DEF OpenExisting, Reopen
<1>4. ASSUME OpenRefused \/ OpenInterrupted \/ UNCHANGED vars PROVE UNCHANGED Kv!kvVars
  BY <1>0, <1>4 DEF OpenRefused, OpenInterrupted, vars, handle
<1>5. ASSUME NEW op \in Op, Mutate(op) PROVE Kv!Mutate(op)
  BY <1>5 DEF Mutate, Kv!Mutate, Kv!Effect, Effect
<1>6. ASSUME NEW op \in Op, MutateExhausted(op) PROVE UNCHANGED Kv!kvVars
  BY <1>0, <1>6 DEF MutateExhausted, vars
<1>7. ASSUME NEW op \in Op, MutateFails(op) \/ MutateCrashes(op) PROVE Kv!FailMutation(op)
  BY <1>7 DEF MutateFails, MutateCrashes, ForgetHandle, Kv!FailMutation
<1>8. ASSUME \/ Crash \/ ReopenRefused \/ ReopenIdentityError \/ ReopenFails
             \/ \E op \in Op : MutateRejected(op)
      PROVE  Kv!Lose \/ UNCHANGED Kv!kvVars
  <2>1. status' # "open" /\ acked' = acked /\ pending' = pending
    BY <1>8 DEF Crash, ReopenRefused, ReopenIdentityError, ReopenFails, MutateRejected,
                ForgetHandle
  <2> QED BY <2>1 DEF Kv!Lose
<1>9. Kv!Op = Op
  BY DEF Kv!Op, Op, Kv!Entry, Entry
<1> QED
  BY <1>1, <1>2, <1>3, <1>4, <1>5, <1>6, <1>7, <1>8, <1>9 DEF Next

\* The append log implements the key-value contract of the laboratory.
THEOREM Refinement == Spec => RefinesKvStore
<1>1. Init => Kv!KvInit
  BY DEF Init, Kv!KvInit, Kv!EmptyMap, EmptyMap
<1> QED BY <1>1, StepRefines, Invariance, PTL DEF Spec, RefinesKvStore, Kv!KvSpec
-----------------------------------------------------------------------------
(* Beside a process that changes the file.  Nothing is known of the file   *)
(* here, so the invariant speaks of the handle alone.                      *)

\* What a handle knows by itself: without one there is nothing to remember,
\* a usable one holds a file and indexes its acknowledged prefix.
HandleInv ==
    /\ status = "closed" => values = EmptyMap /\ ack = << >>
    /\ status = "open" => hfile \in Inodes
    /\ nextSequence = Len(ack) + 1
    /\ IndexIsAckedPrefix

InterferenceInv == TypeOK /\ HandleInv
-----------------------------------------------------------------------------
\* The files stay files when the content of one of them changes.
LEMMA FilesUpdate ==
    ASSUME TypeOK, NEW f \in Inodes, NEW content \in File,
           files' = [files EXCEPT ![f] = content]
    PROVE  files' \in [Inodes -> File] /\ files'[f] = content
BY DEF TypeOK

\* An append that ends in any way leaves a file.
LEMMA AppendToIsFile ==
    ASSUME NEW f \in File, NEW rec \in Record, NEW outcome \in Outcomes
    PROVE  AppendTo(f, rec, outcome) \in File
<1>1. CASE outcome = "none"
  BY <1>1 DEF AppendTo
<1>2. CASE outcome = "torn"
  BY <1>2 DEF AppendTo, File
<1>3. CASE outcome = "whole"
  BY <1>3 DEF AppendTo, File
<1> QED BY <1>1, <1>2, <1>3 DEF Outcomes

\* The repair of open and REOPEN cuts the tail and keeps the records.
LEMMA RepairSound ==
    ASSUME NEW f \in File, f.ok = TRUE
    PROVE  Repaired(f) \in File /\ Repaired(f) = Sound(f.recs, FALSE)
<1>1. Repaired(f) \in File
  BY DEF Repaired, File
<1>2. /\ Repaired(f).ok = TRUE /\ Repaired(f).recs = f.recs
      /\ Repaired(f).tail = FALSE
  BY DEF Repaired, File
<1> QED BY <1>1, <1>2 DEF Sound, File

\* A step that leaves the handle alone and the files files keeps the invariant.
LEMMA HandleUntouched ==
    ASSUME InterferenceInv, UNCHANGED handle,
           path' \in Inodes \cup {NoFile}, symlink' \in BOOLEAN,
           files' \in [Inodes -> File],
           acked' \in Map, pending' \in SUBSET Op
    PROVE  InterferenceInv'
BY DEF InterferenceInv, TypeOK, HandleInv, IndexIsAckedPrefix, handle

\* So does one that poisons the handle, which may give up its file.
LEMMA HandlePoisoned ==
    ASSUME InterferenceInv, status # "closed", status' = "poisoned",
           hfile' \in {hfile, NoFile},
           UNCHANGED <<path, symlink, values, nextSequence, ack, acked>>,
           files' \in [Inodes -> File], pending' \in SUBSET Op
    PROVE  InterferenceInv'
BY DEF InterferenceInv, TypeOK, HandleInv, IndexIsAckedPrefix

\* And one that drops it.
LEMMA HandleForgotten ==
    ASSUME InterferenceInv, ForgetHandle,
           UNCHANGED <<path, symlink, acked>>,
           files' \in [Inodes -> File], pending' \in SUBSET Op
    PROVE  InterferenceInv'
<1>1. EmptyMap \in Map /\ << >> \in Seq(Record) /\ Len(<< >>) = 0
  BY DEF EmptyMap, Map, Entry
<1> QED BY <1>1, SequenceNumbers
        DEF InterferenceInv, TypeOK, HandleInv, IndexIsAckedPrefix, ForgetHandle

\* open and REOPEN: a handle from a scanned file indexes exactly that file.
LEMMA FromFileKeepsInv ==
    ASSUME InterferenceInv, NEW f \in Inodes, path = f, FromFile(f)
    PROVE  /\ InterferenceInv'
           /\ files'[f] = Sound(ack', FALSE)
<1> DEFINE recs == files[f].recs
<1>1. files[f] \in File /\ recs \in Seq(Record) /\ Len(recs) \in Nat /\ files[f].ok = TRUE
  BY DEF InterferenceInv, TypeOK, File, FromFile, Scans
<1>2. Repaired(files[f]) \in File /\ Repaired(files[f]) = Sound(recs, FALSE)
  BY <1>1, RepairSound
<1>3. files' \in [Inodes -> File] /\ files'[f] = Repaired(files[f])
  BY <1>2, FilesUpdate DEF InterferenceInv, FromFile
<1>4. Replay(recs) \in Map
  BY <1>1, ReplayIsMap
<1>5. TypeOK'
  <2>1. nextSequence' \in 1 .. MaxSequence
    BY <1>1, SequenceNumbers DEF FromFile, Scans
  <2> QED BY <1>1, <1>3, <1>4, <2>1 DEF InterferenceInv, TypeOK, FromFile
<1>6. HandleInv'
  BY DEF HandleInv, IndexIsAckedPrefix, FromFile
<1> QED BY <1>2, <1>3, <1>5, <1>6 DEF InterferenceInv, FromFile

\* append's checks leave exactly one file they accept: the acknowledged
\* prefix and nothing else.  What the write makes of it is that and the record.
LEMMA MutateOnPrefix ==
    ASSUME InterferenceInv, NEW op \in Op, Mutate(op)
    PROVE  /\ InterferenceInv'
           /\ ack' = Append(ack, RecordOf(nextSequence, op))
           /\ files'[hfile'] = Sound(ack', FALSE)
<1> DEFINE rec == RecordOf(nextSequence, op)
           file == AppendTo(files[hfile], rec, "whole")
<1>1. /\ ack \in Seq(Record) /\ Len(ack) \in Nat /\ nextSequence = Len(ack) + 1
      /\ hfile \in Inodes /\ files[hfile] \in File
      /\ values = Replay(ack) /\ values \in Map /\ acked \in Map
  BY DEF InterferenceInv, TypeOK, HandleInv, IndexIsAckedPrefix, Mutate
<1>2. rec \in Record /\ Effect(values, rec) = Effect(values, op) /\ op.val \in Entry
  BY <1>1, RecordEffect DEF Op
<1>3. /\ files[hfile].ok = TRUE /\ files[hfile].tail = FALSE
      /\ Len(files[hfile].recs) = Len(ack)
      /\ SubSeq(files[hfile].recs, 1, Len(ack)) = ack
  BY <1>1 DEF Mutate, EofMoved, PrefixIntact, File
<1>4. files[hfile].recs = ack
  BY <1>1, <1>3 DEF File
<1>5. /\ file \in File
      /\ file = Sound(Append(ack, rec), FALSE)
  <2>1. file \in File
    BY <1>1, <1>2, AppendToIsFile DEF Outcomes
  <2>2. files[hfile] = Sound(ack, FALSE)
    BY <1>1, <1>3, <1>4 DEF File, Sound
  <2> QED BY <2>1, <2>2, AppendToSound
<1>6. /\ ack' = Append(ack, rec) /\ nextSequence' = nextSequence + 1
      /\ values' = Effect(values, op) /\ acked' = Effect(acked, op)
      /\ files' = [files EXCEPT ![hfile] = file]
      /\ UNCHANGED <<path, symlink, status, hfile, pending>>
  BY DEF Mutate
<1> HIDE DEF rec, file
<1>7. files' \in [Inodes -> File] /\ files'[hfile] = file
  BY <1>1, <1>5, <1>6, FilesUpdate DEF InterferenceInv
<1>8. ack' \in Seq(Record) /\ Len(ack') = Len(ack) + 1
  BY <1>1, <1>2, <1>6
<1>9. values' = Replay(ack')
  BY <1>1, <1>2, <1>6, ReplayAppend
<1>10. values' \in Map /\ acked' \in Map
  BY <1>1, <1>2, <1>6, EffectIsMap
<1>11. TypeOK'
  <2>1. nextSequence' \in 1 .. MaxSequence
    BY <1>6, SequenceNumbers DEF Mutate, SequenceAvailable, InterferenceInv, TypeOK
  <2> QED BY <1>1, <1>6, <1>7, <1>8, <1>10, <2>1 DEF InterferenceInv, TypeOK
<1>12. HandleInv'
  <2>1. status = "open"
    BY DEF Mutate
  <2> QED BY <1>1, <1>6, <1>8, <1>9, <2>1 DEF HandleInv, IndexIsAckedPrefix
<1> QED BY <1>5, <1>6, <1>7, <1>11, <1>12 DEF InterferenceInv, rec
-----------------------------------------------------------------------------
\* A handle that has just been opened agrees with the file.
LEMMA InitInterferenceInv == Init => InterferenceInv
<1>1. EmptyMap \in Map /\ Created(FALSE) \in File /\ << >> \in Seq(Record)
      /\ Len(<< >>) = 0
  BY DEF EmptyMap, Map, Entry, Created, File
<1> SUFFICES ASSUME Init PROVE InterferenceInv
  OBVIOUS
<1>2. files \in [Inodes -> File]
  BY <1>1 DEF Init
<1>3. TypeOK
  BY <1>1, <1>2, SequenceNumbers DEF Init, TypeOK
<1>4. HandleInv
  BY <1>1 DEF Init, HandleInv, IndexIsAckedPrefix
<1> QED BY <1>3, <1>4 DEF InterferenceInv

\* Every step of the engine keeps the invariant, whatever its file holds.
LEMMA NextInterferenceInv == InterferenceInv /\ Next => InterferenceInv'
<1> SUFFICES ASSUME InterferenceInv, Next PROVE InterferenceInv'
  OBVIOUS
<1>0. TypeOK /\ HandleInv
  BY DEF InterferenceInv
<1>1. ASSUME NEW f \in Inodes, CreateFile(f) PROVE InterferenceInv'
  <2>1. Created(TRUE) \in File
    BY DEF Created, File
  <2>2. files' \in [Inodes -> File]
    BY <1>0, <1>1, <2>1, FilesUpdate DEF CreateFile
  <2>3. /\ values = EmptyMap /\ ack = << >> /\ path' = f /\ hfile' = f
        /\ UNCHANGED <<symlink, values, nextSequence, ack, acked, pending>>
        /\ status' = "open"
    BY <1>0, <1>1 DEF CreateFile, HandleInv
  <2>4. TypeOK'
    BY <1>0, <2>2, <2>3 DEF TypeOK
  <2>5. HandleInv'
    BY <1>0, <2>3, ReplayEmpty DEF HandleInv, IndexIsAckedPrefix
  <2> QED BY <2>4, <2>5 DEF InterferenceInv
<1>2. ASSUME NEW f \in Inodes, CreateInterrupted(f) PROVE InterferenceInv'
  <2>1. PICK header \in BOOLEAN : files' = [files EXCEPT ![f] = Created(header)]
    BY <1>2 DEF CreateInterrupted
  <2>2. Created(header) \in File
    BY DEF Created, File
  <2>3. files' \in [Inodes -> File]
    BY <1>0, <2>1, <2>2, FilesUpdate
  <2> QED BY <1>0, <1>2, <2>3, HandleUntouched DEF CreateInterrupted, TypeOK
<1>3. ASSUME OpenExisting \/ Reopen PROVE InterferenceInv'
  <2>1. path \in Inodes /\ FromFile(path)
    BY <1>0, <1>3 DEF OpenExisting, Reopen, TypeOK
  <2> QED BY <2>1, FromFileKeepsInv
<1>4. ASSUME UNCHANGED vars PROVE InterferenceInv'
  BY <1>0, <1>4 DEF vars, InterferenceInv, TypeOK, HandleInv, IndexIsAckedPrefix
<1>5. ASSUME OpenInterrupted PROVE InterferenceInv'
  <2>1. PICK cut \in BOOLEAN : files' = [files EXCEPT ![path].tail = ~cut]
    BY <1>5 DEF OpenInterrupted
  <2>2. path \in Inodes /\ files[path] \in File
    BY <1>0, <1>5 DEF OpenInterrupted, TypeOK
  <2>3. [files[path] EXCEPT !.tail = ~cut] \in File
    BY <2>2 DEF File
  <2>4. files' \in [Inodes -> File]
    BY <1>0, <2>1, <2>2, <2>3 DEF TypeOK
  <2> QED BY <1>0, <1>5, <2>4, HandleUntouched DEF OpenInterrupted, TypeOK
<1>6. ASSUME NEW op \in Op, Mutate(op) PROVE InterferenceInv'
  BY <1>6, MutateOnPrefix
<1>7. ASSUME NEW op \in Op, MutateRejected(op) PROVE InterferenceInv'
  BY <1>0, <1>7, HandlePoisoned DEF MutateRejected, disk, TypeOK
<1>8. ASSUME NEW op \in Op, MutateFails(op) \/ MutateCrashes(op)
      PROVE  InterferenceInv'
  <2>1. PICK outcome \in Outcomes :
           files' = [files EXCEPT ![hfile] =
                        AppendTo(files[hfile], RecordOf(nextSequence, op), outcome)]
    BY <1>8 DEF MutateFails, MutateCrashes
  <2>2. hfile \in Inodes /\ files[hfile] \in File /\ RecordOf(nextSequence, op) \in Record
    BY <1>0, <1>8, RecordEffect, SequenceNumbers
       DEF MutateFails, MutateCrashes, HandleInv, TypeOK
  <2>3. files' \in [Inodes -> File]
    BY <1>0, <2>1, <2>2, AppendToIsFile, FilesUpdate
  <2>4. pending' \in SUBSET Op
    BY <1>8 DEF MutateFails, MutateCrashes
  <2>5. CASE MutateFails(op)
    BY <2>3, <2>4, <2>5, HandlePoisoned DEF MutateFails
  <2>6. CASE MutateCrashes(op)
    BY <2>3, <2>4, <2>6, HandleForgotten DEF MutateCrashes
  <2> QED BY <1>8, <2>5, <2>6
<1>9. ASSUME Crash PROVE InterferenceInv'
  BY <1>0, <1>9, HandleForgotten DEF Crash, disk, TypeOK
<1>10. ASSUME ReopenRefused \/ ReopenIdentityError PROVE InterferenceInv'
  BY <1>0, <1>10, HandlePoisoned DEF ReopenRefused, ReopenIdentityError, disk, TypeOK
<1>11. ASSUME ReopenFails PROVE InterferenceInv'
  <2>1. files' \in [Inodes -> File]
    <3>1. CASE UNCHANGED files
      BY <1>0, <3>1 DEF TypeOK
    <3>2. CASE path # NoFile /\ files' = [files EXCEPT ![path] = Repaired(@)]
      <4>1. path \in Inodes /\ files[path] \in File
        BY <1>0, <3>2 DEF TypeOK
      <4>2. Repaired(files[path]) \in File
        BY <4>1 DEF Repaired, File
      <4> QED BY <1>0, <3>2, <4>1, <4>2, FilesUpdate
    <3> QED BY <1>11, <3>1, <3>2 DEF ReopenFails
  <2> QED BY <1>0, <1>11, <2>1, HandlePoisoned DEF ReopenFails, TypeOK
<1> QED
  BY <1>1, <1>2, <1>3, <1>4, <1>5, <1>6, <1>7, <1>8, <1>9, <1>10, <1>11
     DEF Next, OpenRefused, MutateExhausted

\* What others do to the file does not reach the handle.
LEMMA ForeignInterferenceInv == InterferenceInv /\ Foreign => InterferenceInv'
<1> SUFFICES ASSUME InterferenceInv, Foreign PROVE InterferenceInv'
  OBVIOUS
<1>1. TypeOK /\ UNCHANGED <<handle, acked, pending>>
  BY DEF InterferenceInv, Foreign
<1>2. path \in Inodes => files[path] \in File /\ files[path].recs \in Seq(Record)
  BY <1>1 DEF TypeOK, File
<1>3. SUFFICES /\ path' \in Inodes \cup {NoFile} /\ symlink' \in BOOLEAN
               /\ files' \in [Inodes -> File]
  BY <1>1, <1>3, HandleUntouched DEF TypeOK
<1>4. ASSUME NEW op \in Op, ForeignAppend(op)
      PROVE  files' \in [Inodes -> File] /\ UNCHANGED <<path, symlink>>
  <2>1. path \in Inodes /\ Len(files[path].recs) + 1 \in Nat
    BY <1>1, <1>2, <1>4 DEF ForeignAppend, TypeOK
  <2> DEFINE rec == RecordOf(Len(files[path].recs) + 1, op)
  <2>2. rec \in Record
    BY <2>1, RecordEffect DEF RecordOf, Record, Op
  <2>3. [files[path] EXCEPT !.recs = Append(@, rec)] \in File
    BY <1>2, <2>1, <2>2 DEF File
  <2> QED BY <1>1, <1>4, <2>1, <2>3 DEF ForeignAppend, TypeOK
<1>5. ASSUME NEW op \in Op, ForeignRewrite(op)
      PROVE  files' \in [Inodes -> File] /\ UNCHANGED <<path, symlink>>
  <2>1. PICK i \in DOMAIN files[path].recs :
           files' = [files EXCEPT ![path].recs[i] = RecordOf(i, op)]
    BY <1>5 DEF ForeignRewrite
  <2>2. path \in Inodes /\ i \in Nat
    BY <1>1, <1>2, <1>5, <2>1 DEF ForeignRewrite, TypeOK
  <2>3. RecordOf(i, op) \in Record
    BY <2>2 DEF RecordOf, Record, Op
  <2>4. [files[path].recs EXCEPT ![i] = RecordOf(i, op)] \in Seq(Record)
    BY <1>2, <2>1, <2>2, <2>3
  <2>5. [files[path] EXCEPT !.recs = [@ EXCEPT ![i] = RecordOf(i, op)]] \in File
    BY <1>2, <2>2, <2>4 DEF File
  <2> QED BY <1>1, <1>5, <2>1, <2>2, <2>5 DEF ForeignRewrite, TypeOK
<1>6. ASSUME ForeignTruncate
      PROVE  files' \in [Inodes -> File] /\ UNCHANGED <<path, symlink>>
  <2>1. PICK n \in 0 .. Len(files[path].recs) - 1, torn \in BOOLEAN :
           files' = [files EXCEPT ![path].recs = SubSeq(@, 1, n),
                                  ![path].tail = torn]
    BY <1>6 DEF ForeignTruncate
  <2>2. path \in Inodes
    BY <1>1, <1>6 DEF ForeignTruncate, TypeOK
  <2>3. SubSeq(files[path].recs, 1, n) \in Seq(Record)
    BY <1>2, <2>1, <2>2
  <2>4. [[files[path] EXCEPT !.recs = SubSeq(@, 1, n)] EXCEPT !.tail = torn] \in File
    BY <1>2, <2>2, <2>3 DEF File
  <2> QED BY <1>1, <1>6, <2>1, <2>2, <2>4 DEF ForeignTruncate, TypeOK
<1>7. ASSUME ForeignDamage
      PROVE  files' \in [Inodes -> File] /\ UNCHANGED <<path, symlink>>
  <2>1. path \in Inodes
    BY <1>1, <1>7 DEF ForeignDamage, TypeOK
  <2>2. [files[path] EXCEPT !.ok = FALSE] \in File
    BY <1>2, <2>1 DEF File
  <2> QED BY <1>1, <1>7, <2>1, <2>2 DEF ForeignDamage, TypeOK
<1>8. ASSUME NEW f \in Inodes, ForeignReplace(f)
      PROVE  /\ files' \in [Inodes -> File]
             /\ path' \in Inodes \cup {NoFile} /\ symlink' = symlink
  <2>1. PICK content \in {files[path], Created(TRUE)} :
           files' = [files EXCEPT ![f] = content]
    BY <1>8 DEF ForeignReplace
  <2>2. path \in Inodes /\ Created(TRUE) \in File
    BY <1>1, <1>8 DEF ForeignReplace, TypeOK, Created, File
  <2>3. content \in File
    BY <1>2, <2>2
  <2> QED BY <1>1, <1>8, <2>1, <2>3, FilesUpdate DEF ForeignReplace
<1>9. ASSUME ForeignUnlink \/ ForeignSymlink
      PROVE  /\ files' \in [Inodes -> File]
             /\ path' \in Inodes \cup {NoFile} /\ symlink' \in BOOLEAN
  BY <1>1, <1>9 DEF ForeignUnlink, ForeignSymlink, TypeOK
<1> QED
  BY <1>1, <1>4, <1>5, <1>6, <1>7, <1>8, <1>9 DEF Foreign, TypeOK

\* The invariant holds whatever happens to the file.
THEOREM InterferenceInvariance == InterferenceSpec => []InterferenceInv
<1>1. InterferenceInv /\ UNCHANGED vars => InterferenceInv'
  BY DEF vars, InterferenceInv, TypeOK, HandleInv, IndexIsAckedPrefix
<1>2. InterferenceInv /\ [Next \/ Foreign]_vars => InterferenceInv'
  BY <1>1, NextInterferenceInv, ForeignInterferenceInv
<1> QED BY <1>2, InitInterferenceInv, PTL DEF InterferenceSpec

\* get and scan of a usable handle answer from the prefix it acknowledged,
\* even while others append to, cut, rewrite, replace or remove its file.
THEOREM AnswersFromAckedPrefix == InterferenceSpec => []IndexIsAckedPrefix
<1>1. InterferenceInv => IndexIsAckedPrefix
  BY DEF InterferenceInv, HandleInv
<1> QED BY <1>1, InterferenceInvariance, PTL
-----------------------------------------------------------------------------
\* Only three things leave a live handle usable: an acknowledged append, a
\* successful REOPEN, and whatever does not touch the handle.
LEMMA UsableAfter ==
    ASSUME Next \/ Foreign \/ UNCHANGED vars, status # "closed", status' = "open"
    PROVE  \/ \E op \in Op : Mutate(op)
           \/ Reopen
           \/ UNCHANGED handle
<1>1. CASE Foreign
  BY <1>1 DEF Foreign
<1>2. CASE UNCHANGED vars
  BY <1>2 DEF vars, handle
<1>3. CASE Next
  BY <1>2, <1>3
     DEF Next, CreateFile, CreateInterrupted, OpenExisting, OpenRefused,
         OpenInterrupted, MutateExhausted, MutateRejected, MutateFails,
         MutateCrashes, Crash, ForgetHandle, ReopenRefused, ReopenIdentityError,
         ReopenFails, vars, handle
<1> QED BY <1>1, <1>2, <1>3

\* The durability floor of append and REOPEN: a handle that acknowledges or
\* comes back continues everything it had acknowledged, and its file holds
\* exactly that.
THEOREM FloorIsKept == InterferenceSpec => FloorKept
<1> DEFINE Kept ==
       (status # "closed" /\ status' = "open")
       => /\ Len(ack) <= Len(ack') /\ SubSeq(ack', 1, Len(ack)) = ack
          /\ (ack' # ack \/ status # "open" =>
                files'[hfile'] = [ok |-> TRUE, recs |-> ack', tail |-> FALSE])
<1>1. InterferenceInv /\ [Next \/ Foreign]_vars => Kept
  <2> SUFFICES ASSUME InterferenceInv, [Next \/ Foreign]_vars,
                      status # "closed", status' = "open"
               PROVE  /\ Len(ack) <= Len(ack') /\ SubSeq(ack', 1, Len(ack)) = ack
                      /\ (ack' # ack \/ status # "open" =>
                            files'[hfile'] = Sound(ack', FALSE))
    BY Zenon DEF Sound
  <2>1. ack \in Seq(Record) /\ Len(ack) \in Nat
    BY DEF InterferenceInv, TypeOK
  <2>2. ASSUME NEW op \in Op, Mutate(op)
        PROVE  /\ Len(ack) <= Len(ack') /\ SubSeq(ack', 1, Len(ack)) = ack
               /\ files'[hfile'] = Sound(ack', FALSE)
    <3>1. /\ ack' = Append(ack, RecordOf(nextSequence, op))
          /\ files'[hfile'] = Sound(ack', FALSE)
      BY <2>2, MutateOnPrefix
    <3>2. RecordOf(nextSequence, op) \in Record
      BY RecordEffect DEF InterferenceInv, TypeOK, RecordOf, Record, Op
    <3> QED BY <2>1, <3>1, <3>2
  <2>3. ASSUME Reopen
        PROVE  /\ Len(ack) <= Len(ack') /\ SubSeq(ack', 1, Len(ack)) = ack
               /\ files'[hfile'] = Sound(ack', FALSE)
    <3>1. path \in Inodes /\ FromFile(path) /\ PrefixIntact(files[path])
      BY <2>3 DEF Reopen, Continues, InterferenceInv, TypeOK
    <3>2. files'[path] = Sound(ack', FALSE) /\ hfile' = path
      BY <3>1, FromFileKeepsInv DEF FromFile
    <3>3. ack' = files[path].recs
      BY <3>1 DEF FromFile
    <3> QED BY <3>1, <3>2, <3>3 DEF PrefixIntact
  <2>4. ASSUME UNCHANGED handle
        PROVE  /\ Len(ack) <= Len(ack') /\ SubSeq(ack', 1, Len(ack)) = ack
               /\ ack' = ack /\ status = "open"
    BY <2>1, <2>4, SubSeqSelf DEF handle
  <2>5. \/ \E op \in Op : Mutate(op)
        \/ Reopen
        \/ UNCHANGED handle
    BY UsableAfter
  <2> QED BY <2>2, <2>3, <2>4, <2>5
<1>2. InterferenceInv /\ [Next \/ Foreign]_vars => [Kept]_vars
  BY <1>1
<1> QED BY <1>2, InterferenceInvariance, PTL DEF InterferenceSpec, FloorKept

\* REOPEN's identity anchor: a handle that holds its file comes back to that
\* file and to no other, and not through a symbolic link.
THEOREM IdentityIsAnchored == InterferenceSpec => IdentityAnchored
<1> DEFINE Anchored ==
       status # "closed" /\ status' = "open" /\ (status # "open" \/ hfile' # hfile)
       => (hfile # NoFile => hfile' = hfile) /\ ~symlink
<1>1. [Next \/ Foreign]_vars => Anchored
  <2> SUFFICES ASSUME [Next \/ Foreign]_vars, status # "closed", status' = "open",
                      status # "open" \/ hfile' # hfile
               PROVE  (hfile # NoFile => hfile' = hfile) /\ ~symlink
    OBVIOUS
  <2>1. Reopen
    BY UsableAfter DEF Mutate, handle
  <2> QED BY <2>1 DEF Reopen, SameIdentity, FromFile
<1>2. [Next \/ Foreign]_vars => [Anchored]_vars
  BY <1>1
<1> QED BY <1>2, PTL DEF InterferenceSpec, IdentityAnchored
=============================================================================
