-------------------------------- MODULE Lsm --------------------------------
(***************************************************************************)
(* LsmEngine of db-storage-lsm: WAL, MemTables, immutable SSTables,        *)
(* manifests and the two-slot CURRENT file, with flush, full-set           *)
(* compaction and WAL rotation run inside the mutation that triggers them. *)
(*                                                                         *)
(* Every durable write is a step of its own.  It completes, or reports an  *)
(* error with nothing, a torn prefix or everything on disk; either way of  *)
(* failing, and a crash at any step, leaves no usable handle.  A poisoned  *)
(* handle and a dropped one are one state: open and REOPEN both run        *)
(* open_existing, which reads the disk and nothing of the old handle.      *)
(* A file whose creation was cut short is Torn; its checksums or its       *)
(* length refuse it.  Nobody else writes to the directory, so the EOF,     *)
(* prefix-hash and path checks of Wal::append always pass and are left out *)
(* (module AppendLog models their twins).                                  *)
(***************************************************************************)
EXTENDS Integers, Sequences, FiniteSets, SequencesExt, FiniteSetsExt, KvData

CONSTANTS
    Probes(_, _),    \* Probes(n, k): the bits of k in the filter of n keys
    Torn,            \* contents of a file or slot that fails validation
    NoCurrent,       \* CURRENT does not exist
    NoHandle,        \* no usable engine handle
    PutBytes, DeleteBytes,   \* resident_bytes of a PUT and of a DELETE
    MemTableLimit,   \* MUTABLE_MEMTABLE_BYTES_LIMIT
    Level0Trigger,   \* LEVEL0_COMPACTION_TRIGGER
    MaxSequence,     \* largest WAL sequence number (u64::MAX)
    MaxFaults,       \* bound on crashes and failed writes
    MaxUnremoved     \* bound on the files one reclaim pass fails to remove

ASSUME BytesAssumption ==
    PutBytes \in Nat \ {0} /\ DeleteBytes \in Nat \ {0} /\ MemTableLimit \in Nat \ {0}
ASSUME ProbesAssumption ==
    \A n \in 1 .. Cardinality(Keys), k \in Keys : Probes(n, k) \in (SUBSET Nat) \ {{}}
ASSUME TriggerAssumption == Level0Trigger \in Nat \ {0}
ASSUME BoundsAssumption ==
    MaxSequence \in Nat \ {0} /\ MaxFaults \in Nat /\ MaxUnremoved \in Nat

VARIABLES
    exists,      \* the engine directory exists
    wals,        \* WAL id -> [first, recs, tail], or Torn
    tables,      \* SSTable id -> [durable, entries, filter], or Torn
    manifests,   \* manifest id -> version set without generation, or Torn
    current,     \* NoCurrent, or slot 0, 1 -> [gen, manifest], or Torn
    h,           \* the handle: [version, tabs, mutable, immutable, next*]
    step,        \* where the running mutation stands ("idle" between calls)
    job,         \* the version set being installed, and its tables
    inflight,    \* ghost: {} or the mutation the caller is waiting for
    acked,       \* ghost: the map of acknowledged mutations
    pending,     \* ghost: {} or the mutation in doubt
    high,        \* ghost: largest SSTable, manifest and WAL id ever created
    faults       \* crashes and failed writes so far

disk == <<exists, wals, tables, manifests, current, high>>
vars == <<exists, wals, tables, manifests, current, h, step, job, inflight,
          acked, pending, high, faults>>

NoJob == [kind |-> "none"]
Outcomes == {"done", "none", "torn", "whole"}
-----------------------------------------------------------------------------
(* MemTables and SSTables: partial maps from keys to sequenced entries.    *)

NoEntries == [k \in {} |-> Missing]
EmptyMem == [entries |-> NoEntries, last |-> 0]
FreshMem == [mutable |-> EmptyMem, immutable |-> << >>]

\* MemTable::apply: insert or replace the entry of one key.
Insert(entries, seq, op) ==
    [k \in DOMAIN entries \cup {op.key} |->
        IF k = op.key THEN [seq |-> seq, val |-> op.val] ELSE entries[k]]

\* approximate_bytes after replacements: the sum over the entries present.
ResidentBytes(entries) ==
    MapThenSumSet(LAMBDA k : IF entries[k].val = Missing THEN DeleteBytes ELSE PutBytes,
                  DOMAIN entries)

\* MemTableSet::apply: the mutable table freezes when it reaches the limit.
ApplyToMem(mem, seq, op) ==
    LET table == [entries |-> Insert(mem.mutable.entries, seq, op), last |-> seq]
    IN  IF ResidentBytes(table.entries) >= MemTableLimit
        THEN [mutable |-> EmptyMem, immutable |-> Append(mem.immutable, table)]
        ELSE [mem EXCEPT !.mutable = table]

MutOldestTableFirst(mem, tabs) ==
    <<mem.mutable>> \o Reverse(mem.immutable) \o tabs

\* The order of current_entry: MemTables, then SSTables newest first.
ReadOrder(mem, tabs) ==
    <<mem.mutable>> \o Reverse(mem.immutable) \o Reverse(tabs)

MutFilterSkipsTombstones(entries) ==
    LET n == Cardinality(DOMAIN entries)
    IN  [keys |-> n,
         bits |-> UNION {Probes(n, k) :
                     k \in {j \in DOMAIN entries : entries[j].val # Missing}}]

\* The Bloom filter of an SSTable: the bits of every key in it, tombstones
\* too.  Its length, and with it the bits of a key, follow from the number of
\* keys; two keys may have the same bits, so that a filter may pass a key its
\* table does not have.
BuildFilter(entries) ==
    LET n == Cardinality(DOMAIN entries)
    IN  [keys |-> n, bits |-> UNION {Probes(n, k) : k \in DOMAIN entries}]
MayContain(filter, k) == Probes(filter.keys, k) \subseteq filter.bits

\* The file create_new writes, filter included.
SortedTable(durable, entries) ==
    [durable |-> durable, entries |-> entries, filter |-> BuildFilter(entries)]

\* SsTable::open accepts a file: the filter it carries is for that many keys
\* and denies none of them, and no entry is newer than the table says.
TableAccepted(t) ==
    /\ t.entries # NoEntries
    /\ t.filter.keys = Cardinality(DOMAIN t.entries)
    /\ \A k \in DOMAIN t.entries :
          t.entries[k].seq <= t.durable /\ MayContain(t.filter, k)

\* The table in memory, with the filter decoded from its file.
LoadTable(t) == [entries |-> t.entries, filter |-> t.filter]

\* SsTable::get asks the filter first; MemTables have none.
Answers(layer, k) ==
    /\ "filter" \in DOMAIN layer => MayContain(layer.filter, k)
    /\ k \in DOMAIN layer.entries

\* get: the first layer that has the key answers, a tombstone included.
Get(layers, k) ==
    LET hits == {i \in DOMAIN layers : Answers(layers[i], k)}
    IN  IF hits = {} THEN Missing ELSE layers[Min(hits)].entries[k].val

\* overlay_range and range_scan: the highest sequence of each key wins.
Overlay(layers) ==
    [k \in UNION {DOMAIN layers[i].entries : i \in DOMAIN layers} |->
        LET versions == {layers[i].entries[k] : i \in
                            {j \in DOMAIN layers : k \in DOMAIN layers[j].entries}}
        IN  CHOOSE e \in versions : \A d \in versions : d.seq <= e.seq]

\* What a merge keeps once tombstones are dropped.
Live(entries) == Restrict(entries, {k \in DOMAIN entries : entries[k].val # Missing})
-----------------------------------------------------------------------------
(* Version sets, manifests and CURRENT.                                    *)

Descriptor(id, level, durable) == [id |-> id, level |-> level, durable |-> durable]

\* prepare_install never lets the id watermark fall.
RaisedWatermark(v, ids) == Max(ids \cup {v.watermark})

\* The version set prepare_install derives from the current one.
NextVersion(v, id, durable, gc, wal, first, descriptors) ==
    [gen       |-> v.gen + 1,
     manifest  |-> id,
     durable   |-> durable,
     gc        |-> gc,
     watermark |-> RaisedWatermark(v, {descriptors[i].id : i \in DOMAIN descriptors}),
     wal       |-> wal,
     first     |-> first,
     tables    |-> descriptors]

\* validate_version_set.
ValidVersion(v) ==
    /\ v.gc <= v.durable
    /\ v.durable > 0 => v.watermark > 0
    /\ v.first <= v.durable + 1
    /\ Cardinality({i \in DOMAIN v.tables : v.tables[i].level = 1}) <= 1
    /\ \A i, j \in DOMAIN v.tables : i < j =>
          /\ v.tables[i].id < v.tables[j].id
          /\ v.tables[i].durable < v.tables[j].durable
    /\ \A i \in DOMAIN v.tables : v.tables[i].id <= v.watermark
    /\ v.durable = IF v.tables = << >> THEN v.gc
                   ELSE v.tables[Len(v.tables)].durable

\* prepare_install accepts next after v.
InstallAccepts(v, next) ==
    v.durable <= next.durable /\ v.gc <= next.gc /\ ValidVersion(next)

\* The initial version set of create_initial, and the one open_existing
\* assumes for a WAL-only directory (manifest 0).
BaseVersion(manifest) ==
    [gen |-> 0, manifest |-> manifest, durable |-> 0, gc |-> 0, watermark |-> 0,
     wal |-> 1, first |-> 1, tables |-> << >>]

Slot(gen, manifest) == [gen |-> gen, manifest |-> manifest]

\* write_current_slot picks the slot by the parity of the generation.
MutOneSlot(gen) == 0
SlotOf(gen) == gen % 2

ValidSlots == IF current = NoCurrent THEN {} ELSE {s \in {0, 1} : current[s] # Torn}

\* read_current: the slots that may be read disagree by at most one
\* generation, and the newer one wins.
CurrentReadable ==
    /\ ValidSlots # {}
    /\ \A s, t \in ValidSlots :
          /\ current[s].gen - current[t].gen \in {-1, 0, 1}
          /\ current[s].gen = current[t].gen => current[s].manifest = current[t].manifest
NewestSlot ==
    LET s == CHOOSE s \in ValidSlots : \A t \in ValidSlots : current[t].gen <= current[s].gen
    IN  current[s]

Complete(files, id) == id \in DOMAIN files /\ files[id] # Torn

MaxId(files) == Max(DOMAIN files \cup {0})
-----------------------------------------------------------------------------
(* What files, slots and handles hold.                                     *)

Entries == UNION {[K -> [seq : 1 .. MaxSequence, val : Entry]] : K \in SUBSET Keys}
MemTables == [entries : Entries, last : Nat]
SortedTables ==
    {t \in {SortedTable(durable, entries) :
               durable \in 1 .. MaxSequence, entries \in Entries} : TableAccepted(t)}
Tables == {LoadTable(t) : t \in SortedTables}
\* A segment that validates: header, complete records, perhaps a tail.
WalSegments == [first : 1 .. MaxSequence, recs : Seq(Op), tail : BOOLEAN]
Versions ==
    [gen : Nat, manifest : Nat, durable : Nat, gc : Nat, watermark : Nat, wal : Nat,
     first : Nat, tables : Seq([id : Nat, level : {0, 1}, durable : Nat])]
Slots == [gen : Nat, manifest : Nat]
Handles ==
    [version : Versions, tabs : Seq(Tables),
     mem : [mutable : MemTables, immutable : Seq(MemTables)],
     nextTable : Nat, nextManifest : Nat, nextWal : Nat]

ASSUME TornIsNoContent ==
    /\ Torn \notin WalSegments /\ Torn \notin SortedTables
    /\ Torn \notin Versions /\ Torn \notin Slots
ASSUME NoCurrentIsNotWritten == NoCurrent \notin [{0, 1} -> Slots \cup {Torn}]
ASSUME NoHandleIsNoHandle == NoHandle \notin Handles
-----------------------------------------------------------------------------
(* Opening a directory.                                                    *)

\* validate_layout: CURRENT and manifests come together, or not at all with
\* exactly the first WAL.
WalOnly == current = NoCurrent /\ manifests = << >> /\ tables = << >> /\ DOMAIN wals = {1}
HasVersionSet == current # NoCurrent /\ manifests # << >> /\ wals # << >>

\* manifest::load.
Loadable ==
    \/ WalOnly
    \/ HasVersionSet /\ CurrentReadable /\ Complete(manifests, NewestSlot.manifest)
Loaded ==
    IF WalOnly THEN BaseVersion(0)
    ELSE [manifests[NewestSlot.manifest] EXCEPT !.gen = NewestSlot.gen]

MutSequenceBehind(w) == w.first + Len(w.recs) - 1
\* The next sequence number of a WAL segment.
WalNext(w) == w.first + Len(w.recs)

\* The files version v names are all there, and the WAL reaches past the
\* durable sequence.
FilesOf(v) ==
    /\ \A i \in DOMAIN v.tables :
          /\ Complete(tables, v.tables[i].id)
          /\ tables[v.tables[i].id].durable = v.tables[i].durable
          /\ TableAccepted(tables[v.tables[i].id])
    /\ Complete(wals, v.wal)
    /\ wals[v.wal].first = v.first
    /\ v.durable < WalNext(wals[v.wal])

\* open_existing gets as far as a usable engine.
Opens == exists /\ Loadable /\ FilesOf(Loaded)

\* The WAL records open_existing replays: those above the durable sequence.
Replayed(v, seq) == seq > v.durable

\* The MemTables rebuilt from the first n records of a WAL segment.
ReplayFirst(v, w, n) ==
    LET mem[i \in 0 .. n] ==
            IF i = 0 THEN FreshMem
            ELSE IF Replayed(v, w.first + i - 1)
            THEN ApplyToMem(mem[i - 1], w.first + i - 1, w.recs[i])
            ELSE mem[i - 1]
    IN  mem[n]

\* The MemTables rebuilt from the WAL of version v.
ReplayWal(v) == ReplayFirst(v, wals[v.wal], Len(wals[v.wal].recs))

TablesOf(v) ==
    [i \in DOMAIN v.tables |-> LoadTable(tables[v.tables[i].id])]

MutAllocateAboveFiles(v) == MaxId(tables)
MutAllocateAboveActive(v) == v.watermark
\* Orphan SSTables raise the id watermark of the opened version.
AllocationFloor(v) == Max({v.watermark, MaxId(tables)})

\* The handle open_existing builds for version set loaded.
HandleOf(loaded) ==
    LET v == [loaded EXCEPT !.watermark = AllocationFloor(loaded)]
    IN  [version      |-> v,
         tabs         |-> TablesOf(v),
         mem          |-> ReplayWal(v),
         nextTable    |-> v.watermark + 1,
         nextManifest |-> MaxId(manifests) + 1,
         nextWal      |-> MaxId(wals) + 1]
OpenedHandle == HandleOf(Loaded)

\* The map a reader of handle g sees.
Contents(g) == [k \in Keys |-> Get(ReadOrder(g.mem, g.tabs), k)]
-----------------------------------------------------------------------------
(* Durable writes and what follows them.                                   *)

\* A file created by create_new, with the outcome of its write.
WithFile(files, id, content, outcome) ==
    IF outcome = "none" THEN files
    ELSE [i \in DOMAIN files \cup {id} |->
            IF i # id THEN files[i] ELSE IF outcome = "torn" THEN Torn ELSE content]

\* One record appended to a WAL segment; a torn one is a recoverable tail.
WithRecord(w, op, outcome) ==
    CASE outcome = "none" -> w
      [] outcome = "torn" -> [w EXCEPT !.tail = TRUE]
      [] OTHER -> [w EXCEPT !.recs = Append(@, op)]

\* write_current_slot.
WithSlot(version, outcome) ==
    IF outcome = "none" THEN current
    ELSE [current EXCEPT ![SlotOf(version.gen)] =
            IF outcome = "torn" THEN Torn ELSE Slot(version.gen, version.manifest)]

\* The ghost record of ids ever used by a file name.
Raise(kind, id, outcome) ==
    high' = IF outcome = "none" THEN high ELSE [high EXCEPT ![kind] = Max({@, id})]

\* The running call ends in an error: the handle is poisoned and the caller
\* cannot tell whether its mutation took effect.
GiveUp ==
    /\ faults < MaxFaults
    /\ faults' = faults + 1
    /\ h' = NoHandle
    /\ step' = "idle"
    /\ job' = NoJob
    /\ pending' = inflight
    /\ inflight' = {}

Proceed(next, work) ==
    /\ step' = next
    /\ job' = work
    /\ UNCHANGED <<h, inflight, pending, faults>>

ProceedOrGiveUp(outcome, next, work) ==
    IF outcome = "done" THEN Proceed(next, work) ELSE GiveUp

\* The mutation returns to its caller.
Acknowledge ==
    /\ acked' = [k \in Keys |->
                    IF \E op \in inflight : op.key = k
                    THEN (CHOOSE op \in inflight : op.key = k).val ELSE acked[k]]
    /\ inflight' = {}
    /\ step' = "idle"
    /\ job' = NoJob
    /\ UNCHANGED <<pending, faults>>

\* A best-effort reclaim pass: files that cannot be removed stay, and a pass
\* that cannot list the directory removes nothing.
Reclaimed(files, active) ==
    {Restrict(files, active \cup kept) :
        kept \in {K \in SUBSET (DOMAIN files \ active) :
                    Cardinality(K) <= MaxUnremoved \/ K = DOMAIN files \ active}}
-----------------------------------------------------------------------------
Init ==
    /\ exists = FALSE
    /\ wals = << >> /\ tables = << >> /\ manifests = << >>
    /\ current = NoCurrent
    /\ h = NoHandle
    /\ step = "idle" /\ job = NoJob
    /\ inflight = {} /\ acked = EmptyMap /\ pending = {}
    /\ high = [table |-> 0, manifest |-> 0, wal |-> 0]
    /\ faults = 0

FreshWal(first) == [first |-> first, recs |-> << >>, tail |-> FALSE]
BothSlots(slot) == [s \in {0, 1} |-> slot]

\* create_new, or open of an absent path: directory, WAL, manifest, CURRENT.
Create ==
    /\ ~exists
    /\ exists' = TRUE
    /\ wals' = WithFile(wals, 1, FreshWal(1), "done")
    /\ manifests' = WithFile(manifests, 1, BaseVersion(1), "done")
    /\ current' = BothSlots(Slot(0, 1))
    /\ h' = [version |-> BaseVersion(1), tabs |-> << >>, mem |-> FreshMem,
             nextTable |-> 1, nextManifest |-> 2, nextWal |-> 2]
    /\ high' = [high EXCEPT !.manifest = 1, !.wal = 1]
    /\ UNCHANGED <<tables, step, job, inflight, acked, pending, faults>>

\* initialize_new stops after `stage` of its seven disk states.
CreateInterrupted ==
    /\ ~exists
    /\ exists' = TRUE
    /\ \E stage \in 0 .. 6 :
          /\ wals' = WithFile(wals, 1, FreshWal(1),
                              CASE stage = 0 -> "none" [] stage = 1 -> "torn" [] OTHER -> "whole")
          /\ manifests' = WithFile(manifests, 1, BaseVersion(1),
                              CASE stage < 3 -> "none" [] stage = 3 -> "torn" [] OTHER -> "whole")
          /\ current' = CASE stage < 5 -> NoCurrent
                          [] stage = 5 -> BothSlots(Torn)
                          [] OTHER -> BothSlots(Slot(0, 1))
          /\ high' = [high EXCEPT !.manifest = IF stage < 3 THEN 0 ELSE 1,
                                  !.wal = IF stage = 0 THEN 0 ELSE 1]
    /\ faults < MaxFaults /\ faults' = faults + 1
    /\ UNCHANGED <<tables, h, step, job, inflight, acked, pending>>

\* open of an existing directory, or REOPEN: a torn WAL tail is cut off.
Open ==
    /\ step = "idle" /\ Opens
    /\ h' = OpenedHandle
    /\ wals' = [wals EXCEPT ![Loaded.wal].tail = FALSE]
    /\ acked' = Contents(OpenedHandle)
    /\ pending' = {}
    /\ UNCHANGED <<exists, tables, manifests, current, step, job, inflight, high, faults>>

\* open_existing refuses the directory.
OpenRefused ==
    /\ exists /\ step = "idle" /\ ~Opens
    /\ h' = NoHandle
    /\ UNCHANGED <<disk, step, job, inflight, acked, pending, faults>>

\* An I/O error in open_existing; the tail may have been cut off already.
OpenFails ==
    /\ step = "idle" /\ Opens
    /\ h' = NoHandle
    /\ \E tail \in {FALSE, wals[Loaded.wal].tail} :
          wals' = [wals EXCEPT ![Loaded.wal].tail = tail]
    /\ faults < MaxFaults /\ faults' = faults + 1
    /\ UNCHANGED <<exists, tables, manifests, current, high, step, job, inflight, acked,
                   pending>>

\* The process stops, between calls or inside one.
Crash ==
    /\ h # NoHandle
    /\ GiveUp
    /\ UNCHANGED <<disk, acked>>
-----------------------------------------------------------------------------
(* put and delete: WAL append, MemTable, flush, compaction, rotation.      *)

ActiveWal == wals[h.version.wal]

\* Wal::append and MemTableSet::apply.
Mutate(op) ==
    /\ h # NoHandle /\ step = "idle"
    /\ LET seq == WalNext(ActiveWal)
       IN  /\ seq + 1 <= MaxSequence
           /\ \/ /\ h' = [h EXCEPT !.mem = ApplyToMem(@, seq, op)]
                 /\ wals' = [wals EXCEPT ![h.version.wal] = WithRecord(@, op, "done")]
                 /\ step' = "flush"
                 /\ inflight' = {op}
                 /\ UNCHANGED <<job, pending, faults>>
              \/ /\ \E outcome \in Outcomes \ {"done"} :
                       wals' = [wals EXCEPT ![h.version.wal] = WithRecord(@, op, outcome)]
                 /\ faults < MaxFaults /\ faults' = faults + 1
                 /\ h' = NoHandle
                 /\ pending' = {op}
                 /\ UNCHANGED <<step, job, inflight>>
    /\ UNCHANGED <<exists, tables, manifests, current, acked, high>>

\* The WAL sequence is exhausted: nothing is written, the handle is poisoned.
MutateExhausted ==
    /\ h # NoHandle /\ step = "idle"
    /\ WalNext(ActiveWal) + 1 > MaxSequence
    /\ h' = NoHandle
    /\ UNCHANGED <<disk, step, job, inflight, acked, pending, faults>>

\* The first flush of a WAL-only directory writes its first manifest ...
FlushInitManifest ==
    /\ step = "flush" /\ h.mem.immutable # << >> /\ h.version.manifest = 0
    /\ \E outcome \in Outcomes :
          /\ manifests' = WithFile(manifests, 1, BaseVersion(1), outcome)
          /\ Raise("manifest", 1, outcome)
          /\ ProceedOrGiveUp(outcome, "initCurrent", NoJob)
    /\ UNCHANGED <<exists, wals, tables, current, acked>>

\* ... and CURRENT (create_initial).
FlushInitCurrent ==
    /\ step = "initCurrent"
    /\ \E outcome \in Outcomes :
          /\ current' = CASE outcome = "none" -> NoCurrent
                          [] outcome = "torn" -> BothSlots(Torn)
                          [] OTHER -> BothSlots(Slot(0, 1))
          /\ IF outcome = "done"
             THEN /\ h' = [h EXCEPT !.version = BaseVersion(1), !.nextManifest = 2]
                  /\ step' = "flush"
                  /\ UNCHANGED <<job, inflight, pending, faults>>
             ELSE GiveUp
    /\ UNCHANGED <<exists, wals, tables, manifests, acked, high>>

\* The SSTable that the oldest frozen MemTable becomes.
FlushedTable == SortedTable(Head(h.mem.immutable).last, Head(h.mem.immutable).entries)

\* flush_frozen_memtables: it is written and, with the outcome "done", read
\* back by SsTable::open.
FlushTable ==
    /\ step = "flush" /\ h.mem.immutable # << >> /\ h.version.manifest # 0
    /\ h.nextTable \notin DOMAIN tables
    /\ TableAccepted(FlushedTable)
    /\ LET t == FlushedTable
           v == h.version
           next == NextVersion(v, h.nextManifest, t.durable, v.gc, v.wal, v.first,
                        Append(v.tables, Descriptor(h.nextTable, 0, t.durable)))
       IN  \E outcome \in Outcomes :
              /\ tables' = WithFile(tables, h.nextTable, t, outcome)
              /\ Raise("table", h.nextTable, outcome)
              /\ ProceedOrGiveUp(outcome, "manifest",
                    [kind |-> "flush", next |-> next,
                     tabs |-> Append(h.tabs, LoadTable(t))])
    /\ UNCHANGED <<exists, wals, manifests, current, acked>>

Level0Count(v) == Cardinality({i \in DOMAIN v.tables : v.tables[i].level = 0})

\* maybe_compact_level0 below the trigger.
SkipCompaction ==
    /\ step = "flush" /\ h.mem.immutable = << >>
    /\ Level0Count(h.version) < Level0Trigger
    /\ Proceed("rotate", NoJob)
    /\ UNCHANGED <<disk, acked>>

MutNewestTableOnly(tabs) == Live(tabs[Len(tabs)].entries)
\* The result of the full-set merge, and what the merge requires of its input.
CompactedEntries(tabs) == Live(Overlay(tabs))
MergeAccepted(tabs, durable) ==
    LET merged == Overlay(tabs)
    IN  merged # NoEntries /\ \A k \in DOMAIN merged : merged[k].seq <= durable
CompactedTable == SortedTable(h.version.durable, CompactedEntries(h.tabs))

MutCompactionDeferred ==
    /\ step = "flush" /\ h.mem.immutable = << >>
    /\ Level0Count(h.version) >= Level0Trigger
    /\ Proceed("flush", NoJob)
    /\ UNCHANGED <<disk, acked>>

\* compact_level0_after_trigger: merge every table, drop tombstones, write
\* the L1 table unless nothing is left.
CompactTable ==
    /\ step = "flush" /\ h.mem.immutable = << >>
    /\ Level0Count(h.version) >= Level0Trigger
    /\ MergeAccepted(h.tabs, h.version.durable)
    /\ LET v == h.version
           t == CompactedTable
           Install(descriptors, tabs) ==
              [kind |-> "compact", tabs |-> tabs,
               next |-> NextVersion(v, h.nextManifest, v.durable, v.durable, v.wal,
                                    v.first, descriptors)]
       IN  \/ /\ t.entries = NoEntries
              /\ Proceed("manifest", Install(<< >>, << >>))
              /\ UNCHANGED <<tables, high>>
           \/ /\ t.entries # NoEntries /\ h.nextTable \notin DOMAIN tables
              /\ TableAccepted(t)
              /\ \E outcome \in Outcomes :
                    /\ tables' = WithFile(tables, h.nextTable, t, outcome)
                    /\ Raise("table", h.nextTable, outcome)
                    /\ ProceedOrGiveUp(outcome, "manifest",
                          Install(<<Descriptor(h.nextTable, 1, v.durable)>>,
                                  <<LoadTable(t)>>))
    /\ UNCHANGED <<exists, wals, manifests, current, acked>>

MutRotateWhileUnflushed(v, w) == w.recs # << >> /\ w.first # v.durable + 1
\* maybe_rotate_wal: every record of the segment is in an SSTable.
RotationDue(v, w) ==
    /\ w.recs # << >>
    /\ WalNext(w) = v.durable + 1
    /\ w.first # v.durable + 1

\* The new, empty WAL segment of a rotation.
RotateWal ==
    /\ step = "rotate" /\ RotationDue(h.version, ActiveWal)
    /\ h.nextWal \notin DOMAIN wals
    /\ LET v == h.version
       IN  \E outcome \in Outcomes :
              /\ wals' = WithFile(wals, h.nextWal, FreshWal(v.durable + 1), outcome)
              /\ Raise("wal", h.nextWal, outcome)
              /\ ProceedOrGiveUp(outcome, "manifest",
                    [kind |-> "rotate", tabs |-> h.tabs,
                     next |-> NextVersion(v, h.nextManifest, v.durable, v.gc, h.nextWal,
                                          v.durable + 1, v.tables)])
    /\ UNCHANGED <<exists, tables, manifests, current, acked>>

\* No rotation: the call returns.
SkipRotation ==
    /\ step = "rotate" /\ ~RotationDue(h.version, ActiveWal)
    /\ Acknowledge
    /\ UNCHANGED <<disk, h>>
-----------------------------------------------------------------------------
(* Installing a version set: manifest, CURRENT, and for a version that     *)
(* makes files obsolete the other CURRENT slot, then reclamation.          *)

\* prepare_install; the generation is not part of a manifest.
WriteManifest ==
    /\ step = "manifest"
    /\ InstallAccepts(h.version, job.next)
    /\ job.next.manifest \notin DOMAIN manifests
    /\ \E outcome \in Outcomes :
          /\ manifests' = WithFile(manifests, job.next.manifest,
                                   [job.next EXCEPT !.gen = 0], outcome)
          /\ Raise("manifest", job.next.manifest, outcome)
          /\ ProceedOrGiveUp(outcome, "publish", job)
    /\ UNCHANGED <<exists, wals, tables, current, acked>>

\* publish_prepared; a flush is installed here and its MemTable retired.
Publish ==
    /\ step = "publish"
    /\ \E outcome \in Outcomes :
          /\ current' = WithSlot(job.next, outcome)
          /\ IF outcome = "done" /\ job.kind = "flush"
             THEN /\ h' = [h EXCEPT !.version = job.next, !.tabs = job.tabs,
                                    !.nextTable = @ + 1, !.nextManifest = @ + 1,
                                    !.mem.immutable = Tail(@)]
                  /\ step' = "flush" /\ job' = NoJob
                  /\ UNCHANGED <<inflight, pending, faults>>
             ELSE ProceedOrGiveUp(outcome, "mirror", job)
    /\ UNCHANGED <<exists, wals, tables, manifests, acked, high>>

MutMirrorSkipped(version, outcome) == current
\* mirror_current: the same manifest in the other slot, one generation later.
Mirrored(version) == [version EXCEPT !.gen = @ + 1]
MirrorSlot(version, outcome) == WithSlot(Mirrored(version), outcome)

MirrorFails ==
    /\ step = "mirror"
    /\ \E outcome \in Outcomes \ {"done"} : current' = MirrorSlot(job.next, outcome)
    /\ GiveUp
    /\ UNCHANGED <<exists, wals, tables, manifests, acked, high>>

\* The compacted version is authoritative in both slots: swap it in and
\* reclaim every other SSTable and manifest.
FinishCompaction ==
    /\ step = "mirror" /\ job.kind = "compact"
    /\ current' = MirrorSlot(job.next, "done")
    /\ h' = [h EXCEPT !.version = Mirrored(job.next), !.tabs = job.tabs,
                      !.nextTable = @ + Len(job.tabs), !.nextManifest = @ + 1]
    /\ tables' \in Reclaimed(tables, {d.id : d \in Range(job.next.tables)})
    /\ manifests' \in Reclaimed(manifests, {job.next.manifest})
    /\ step' = "rotate" /\ job' = NoJob
    /\ UNCHANGED <<exists, wals, inflight, acked, pending, high, faults>>

\* The new WAL is authoritative in both slots: swap it in and reclaim every
\* other WAL and manifest; the call returns.
FinishRotation ==
    /\ step = "mirror" /\ job.kind = "rotate"
    /\ current' = MirrorSlot(job.next, "done")
    /\ h' = [h EXCEPT !.version = Mirrored(job.next), !.nextWal = @ + 1,
                      !.nextManifest = @ + 1]
    /\ wals' \in Reclaimed(wals, {job.next.wal})
    /\ manifests' \in Reclaimed(manifests, {job.next.manifest})
    /\ Acknowledge
    /\ UNCHANGED <<exists, tables, high>>

\* The steps of a running put or delete after its WAL append.
RunningCall ==
    \/ FlushInitManifest \/ FlushInitCurrent \/ FlushTable
    \/ SkipCompaction \/ CompactTable
    \/ RotateWal \/ SkipRotation
    \/ WriteManifest \/ Publish \/ MirrorFails
    \/ FinishCompaction \/ FinishRotation

Next ==
    \/ Create \/ CreateInterrupted
    \/ Open \/ OpenRefused \/ OpenFails \/ Crash
    \/ (\E op \in Op : Mutate(op)) \/ MutateExhausted
    \/ RunningCall

Spec == Init /\ [][Next]_vars

\* A call runs on its caller's thread and waits for nobody: its next step is
\* taken as long as the process lives.
FairSpec == Spec /\ WF_vars(RunningCall)
-----------------------------------------------------------------------------
(* Properties.                                                             *)

\* What the caller may find: the acknowledged mutations, and the running one
\* or the one in doubt applied or not.
Candidates == {acked} \cup {Effect(acked, op) : op \in pending \cup inflight}

\* Some CURRENT slot is valid: create_initial has published a version set.
Published == ValidSlots # {}

EntryMap(entries) ==
    /\ DOMAIN entries \subseteq Keys
    /\ \A k \in DOMAIN entries : entries[k] \in [seq : 1 .. MaxSequence, val : Entry]
TableSeq(ts) == \A i \in DOMAIN ts : EntryMap(ts[i].entries)

\* Type invariant: every file is whole or Torn, every SSTable entry carries a
\* WAL sequence number, and only a running mutation has a step and a job.
TypeOK ==
    /\ exists \in BOOLEAN /\ faults \in 0 .. MaxFaults
    /\ \A i \in DOMAIN wals : wals[i] = Torn \/
          (wals[i].first \in 1 .. MaxSequence /\ wals[i].recs \in Seq(Op)
             /\ wals[i].tail \in BOOLEAN)
    /\ \A i \in DOMAIN tables : tables[i] = Torn \/
          (tables[i].durable \in 1 .. MaxSequence /\ EntryMap(tables[i].entries))
    /\ \A i \in DOMAIN manifests : manifests[i] = Torn \/ ValidVersion(manifests[i])
    /\ current = NoCurrent \/ \A s \in {0, 1} : current[s] = Torn \/
          (current[s].gen \in Nat /\ current[s].manifest \in 1 .. high.manifest)
    /\ acked \in Map /\ pending \in SUBSET Op /\ inflight \in SUBSET Op
    /\ Cardinality(pending \cup inflight) <= 1
    /\ h = NoHandle \/
          (ValidVersion(h.version) /\ TableSeq(h.tabs) /\ TableSeq(h.mem.immutable)
             /\ EntryMap(h.mem.mutable.entries))
    /\ step = "idle" <=> inflight = {}
    /\ step # "idle" => h # NoHandle
    /\ job = NoJob <=> step \in {"idle", "flush", "initCurrent", "rotate"}

\* Whatever step of put, delete, flush, compaction or rotation was cut short,
\* open_existing accepts the directory and its WAL replay over the published
\* SSTables shows every acknowledged mutation, no other, and the one in doubt
\* as a whole or not at all.
Recoverable ==
    Published \/ (WalOnly /\ Complete(wals, 1)) =>
        Opens /\ Contents(OpenedHandle) \in Candidates

\* The reason read_current may fall back to the older CURRENT slot: each valid
\* slot by itself names a version set whose manifest, SSTables and WAL are all
\* still there (no reclaim pass removed one).  It recovers the same map, unless
\* it names the WAL that an interrupted rotation has since replaced.
EitherSlotRecovers ==
    \A s \in ValidSlots :
        /\ Complete(manifests, current[s].manifest)
        /\ LET v == manifests[current[s].manifest]
           IN  FilesOf(v) /\ (v.wal = Loaded.wal => Contents(HandleOf(v)) \in Candidates)

\* get and range_scan of a usable handle agree and show exactly the mutations
\* applied so far, whichever of WAL, MemTables and SSTables hold them and at
\* every point of a flush, compaction or rotation.
ReadsAgree ==
    h # NoHandle =>
        /\ Contents(h) \in {Effect(acked, op) : op \in inflight}
                             \cup {m \in {acked} : inflight = {}}
        /\ LET scan == Live(Overlay(ReadOrder(h.mem, h.tabs)))
           IN  /\ DOMAIN scan = {k \in Keys : Contents(h)[k] # Missing}
               /\ \A k \in DOMAIN scan : scan[k].val = Contents(h)[k]

\* The engine never refuses its own maintenance: the file a running step has
\* to create is new to create_new, and prepare_install accepts the version set.
MaintenanceAccepted ==
    /\ step = "flush" => h.nextTable \notin DOMAIN tables
    /\ step = "rotate" => h.nextWal \notin DOMAIN wals
    /\ step = "manifest" => /\ InstallAccepts(h.version, job.next)
                            /\ job.next.manifest \notin DOMAIN manifests

\* The engine never refuses a table it has just built (SsTable::open behind
\* create_new, the checks of compact_level0_after_trigger): a frozen MemTable
\* and a merge hold something, nothing newer than the durable sequence they
\* are written under, and their filter passes every key and tombstone.  The
\* guards of FlushTable and CompactTable only ever see such tables.
TablesAccepted ==
    step = "flush" =>
        IF h.mem.immutable # << >> THEN TableAccepted(FlushedTable)
        ELSE Level0Count(h.version) >= Level0Trigger =>
                /\ MergeAccepted(h.tabs, h.version.durable)
                /\ CompactedTable.entries # NoEntries => TableAccepted(CompactedTable)

NewIdsAbove(old, new, limit) == \A id \in DOMAIN new \ DOMAIN old : id > limit
\* An SSTable, manifest or WAL id is used once in the life of the directory,
\* across reclaim passes, failed writes and reopens: a stale file or slot can
\* never be taken for a newer one.
IdsNeverReused ==
    [][/\ NewIdsAbove(tables, tables', high.table)
       /\ NewIdsAbove(manifests, manifests', high.manifest)
       /\ NewIdsAbove(wals, wals', high.wal)]_vars

\* Recovery never goes back: once a version set is published there is always
\* one, and its durable sequence, tombstone floor and id watermark only grow.
VersionNeverRegresses ==
    [][Published => /\ Published'
                    /\ Loaded.durable <= Loaded'.durable
                    /\ Loaded.gc <= Loaded'.gc
                    /\ AllocationFloor(Loaded) <= AllocationFloor(Loaded)']_vars

\* A mutation returns: the loop of flush_frozen_memtables ends, and no flush,
\* compaction or rotation waits for a file or a version set that cannot come.
MutationReturns == step # "idle" ~> step = "idle"

\* The engine implements the contract of the common key-value interface.
Kv == INSTANCE KvStore WITH store <- acked, usable <- h # NoHandle
RefinesKvStore == Kv!KvSpec

\* The format document makes reopen the recovery boundary of a failed flush,
\* "because the WAL still retains the complete mutation history": a directory
\* with acknowledged mutations and no handle on it can be opened again.
ReopenIsRecoveryBoundary == h = NoHandle /\ acked # EmptyMap => Opens
=============================================================================
