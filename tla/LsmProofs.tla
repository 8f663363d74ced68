------------------------------ MODULE LsmProofs ------------------------------
(***************************************************************************)
(* Proofs about the LSM engine, for every set of keys and values, every    *)
(* MemTable limit, compaction trigger and bound.                           *)
(***************************************************************************)
EXTENDS Lsm, SequenceTheorems, FiniteSetTheorems, WellFoundedInduction, TLAPS

\* Every set of natural numbers with a member has a least one.
LEMMA LeastNatural ==
    ASSUME NEW S \in SUBSET Nat, S # {}
    PROVE  \E m \in S : \A k \in S : m <= k
<1>. DEFINE R == StrictSubsetOrdering(Nat)
            D == FiniteSubsetsOf(Nat)
            T == {0 .. n : n \in S}
<1>1. IsWellFoundedOn(R, D)
  BY FS_StrictSubsetOrderingWellFounded
<1>2. T \subseteq D
  <2>1. \A n \in S : IsFiniteSet(0 .. n)
    BY FS_Interval
  <2>2. \A n \in S : 0 .. n \in D
    <3>. TAKE n \in S
    <3>1. 0 .. n \in SUBSET Nat
      OBVIOUS
    <3>. QED
      BY <2>1, <3>1 DEF FiniteSubsetsOf
  <2>. QED
    BY <2>2
<1>3. T # {}
  OBVIOUS
<1>. HIDE DEF R, D, T
<1>4. PICK x \in T : \A y \in T : ~(<<y, x>> \in R)
  BY <1>1, <1>2, <1>3, WFMin
<1>5. PICK m \in S : x = 0 .. m
  BY DEF T
<1>6. ASSUME NEW k \in S, k < m
      PROVE  FALSE
  <2>1. 0 .. k \in T
    BY DEF T
  <2>2. 0 .. k \subseteq 0 .. m /\ m \in 0 .. m /\ m \notin 0 .. k
    BY <1>6
  <2>3. <<0 .. k, 0 .. m>> \in R
    BY <2>2 DEF R, StrictSubsetOrdering
  <2>. QED
    BY <1>4, <1>5, <2>1, <2>3
<1>. QED
  BY <1>6

\* Induction on the natural numbers.
LEMMA NatSetInduction ==
    ASSUME NEW S \in SUBSET Nat, 0 \in S, \A n \in S : n + 1 \in S
    PROVE  S = Nat
<1>1. ASSUME Nat \ S # {} PROVE FALSE
  <2>1. PICK m \in Nat \ S : \A k \in Nat \ S : m <= k
    BY <1>1, LeastNatural
  <2>2. m - 1 \in Nat /\ m - 1 \in S
    BY <2>1
  <2>. QED
    BY <2>1, <2>2
<1>. QED
  BY <1>1

\* A bounded set of natural numbers with a member has a greatest one.
LEMMA GreatestNatural ==
    ASSUME NEW S \in SUBSET Nat, S # {}, NEW b \in Nat, \A k \in S : k <= b
    PROVE  \E m \in S : \A k \in S : k <= m
<1> DEFINE D == {b - k : k \in S}
<1>1. D \in SUBSET Nat /\ D # {}
  <2>1. \A k \in S : k \in Nat /\ b - k \in Nat
    OBVIOUS
  <2>2. \A d \in D : d \in Nat
    BY <2>1
  <2>3. PICK k \in S : TRUE
    OBVIOUS
  <2>4. b - k \in D
    OBVIOUS
  <2> QED BY <2>2, <2>4
<1> HIDE DEF D
<1>2. PICK d \in D : \A e \in D : d <= e
  BY <1>1, LeastNatural
<1>3. PICK m \in S : d = b - m
  BY <1>2 DEF D
<1>4. ASSUME NEW k \in S PROVE k <= m
  <2>1. b - k \in D
    BY DEF D
  <2>2. d <= b - k
    BY <1>2, <2>1
  <2> QED BY <1>3, <2>2
<1> QED BY <1>4

\* A file name holds a whole content or a torn one.
Files(contents) == UNION {[ids -> contents \cup {Torn}] : ids \in SUBSET (Nat \ {0})}

\* The ids in use are those ever created; the newest WAL and manifest are
\* never reclaimed, and tables come after the first version set.
DiskInv ==
    /\ exists \in BOOLEAN
    /\ high \in [table : Nat, manifest : Nat, wal : Nat]
    /\ wals \in Files(WalSegments) /\ tables \in Files(SortedTables)
    /\ manifests \in Files(Versions)
    /\ current \in {NoCurrent} \cup [{0, 1} -> Slots \cup {Torn}]
    /\ \A i \in DOMAIN tables : i <= high.table
    /\ \A i \in DOMAIN manifests : i <= high.manifest
    /\ \A i \in DOMAIN wals : i <= high.wal
    /\ high.wal # 0 => high.wal \in DOMAIN wals
    /\ high.manifest # 0 => high.manifest \in DOMAIN manifests
    /\ ~exists => high.wal = 0 /\ high.manifest = 0 /\ current = NoCurrent
    /\ current = NoCurrent => high.table = 0

\* WAL segments end within the sequence numbers; manifests are valid and know
\* their own id.
ContentInv ==
    /\ \A i \in DOMAIN wals : wals[i] # Torn => WalNext(wals[i]) <= MaxSequence
    /\ \A i \in DOMAIN manifests : manifests[i] # Torn =>
          ValidVersion(manifests[i]) /\ manifests[i].gen = 0 /\ manifests[i].manifest = i

\* A slot names a version set that is all there, and whoever opens it takes
\* no SSTable id a second time.
GoodSlot(c) ==
    /\ Complete(manifests, c.manifest)
    /\ FilesOf(manifests[c.manifest])
    /\ high.table <= manifests[c.manifest].watermark \/ high.table \in DOMAIN tables

\* The slots alternate, from the two equal ones of the creation on.
SlotsInv ==
    current # NoCurrent =>
        /\ \A s \in {0, 1} : current[s] # Torn =>
              /\ GoodSlot(current[s])
              /\ current[s].gen % 2 = s \/ (current[s].gen = 0 /\ current[1 - s] = current[s])
        /\ current[0] # Torn /\ current[1] # Torn =>
              \/ current[0] = current[1]
              \/ current[0].gen = current[1].gen + 1
              \/ current[1].gen = current[0].gen + 1

\* Where no version set is being installed.
Between == {"idle", "flush", "initCurrent", "rotate"}

\* Frozen MemTables end in order, between the durable sequence and the next.
MemInv(mem, low, next) ==
    /\ \A i \in DOMAIN mem.immutable :
          low < mem.immutable[i].last /\ mem.immutable[i].last < next
    /\ \A i, j \in DOMAIN mem.immutable :
          i < j => mem.immutable[i].last < mem.immutable[j].last

\* A WAL-only directory, as the handle on it sees it.
WalOnlyInv ==
    /\ h.version = BaseVersion(0) /\ h.nextManifest = 1
    /\ current = NoCurrent
    /\ step \in Between
    /\ DOMAIN wals = {1}
    /\ IF step = "initCurrent"
       THEN high.manifest = 1 /\ 1 \in DOMAIN manifests /\ manifests[1] = BaseVersion(1)
       ELSE high.manifest = 0

\* The version set of the handle is the one on disk; its watermark may have
\* been raised when it was opened.
InstalledInv ==
    LET v == h.version
        m == manifests[v.manifest]
    IN  /\ current # NoCurrent
        /\ current[SlotOf(v.gen)] = Slot(v.gen, v.manifest)
        /\ Complete(manifests, v.manifest)
        /\ m.watermark <= v.watermark
        /\ v = [m EXCEPT !.gen = v.gen, !.watermark = v.watermark]
        /\ step # "initCurrent"
        /\ step # "mirror" /\ current[1 - SlotOf(v.gen)] # Torn =>
              current[1 - SlotOf(v.gen)].gen <= v.gen

\* A handle, but for the ids it will use.
GoodHandle(g) ==
    /\ g \in Handles
    /\ ValidVersion(g.version) /\ FilesOf(g.version)
    /\ g.nextTable = g.version.watermark + 1
    /\ MemInv(g.mem, g.version.durable, WalNext(wals[g.version.wal]))

\* The ids a handle will use are free.
HandleInv ==
    h # NoHandle =>
        /\ exists /\ GoodHandle(h)
        /\ IF h.version.manifest = 0 THEN WalOnlyInv ELSE InstalledInv
        /\ step \in Between => high.table < h.nextTable /\ high.wal < h.nextWal
        /\ step \in Between \ {"initCurrent"} => high.manifest < h.nextManifest

\* The installations that may be running.
Jobs == [kind : {"flush", "compact", "rotate"}, next : Versions,
         tabs : Seq(Tables)]

\* What is common to the three kinds of installation, and what is not.
GoodJob(j) ==
    LET v == h.version
        next == j.next
    IN  /\ j \in Jobs /\ v.manifest # 0
        /\ next.gen = v.gen + 1 /\ next.manifest = h.nextManifest
        /\ InstallAccepts(v, next) /\ FilesOf(next)
        /\ v.watermark <= next.watermark /\ high.table <= next.watermark
        /\ j.kind = "flush" =>
              /\ h.mem.immutable # << >> /\ next.durable = Head(h.mem.immutable).last
              /\ next.watermark = h.nextTable /\ next.wal = v.wal
        /\ j.kind = "compact" =>
              /\ next.durable = v.durable /\ next.wal = v.wal
              /\ next.watermark + 1 = h.nextTable + Len(j.tabs)
        /\ j.kind = "rotate" =>
              /\ next.durable = v.durable /\ next.watermark = v.watermark
              /\ next.wal = h.nextWal /\ high.wal = h.nextWal
              /\ wals[next.wal].recs = << >>
              /\ WalNext(wals[v.wal]) = v.durable + 1
        /\ j.kind # "rotate" => high.wal < h.nextWal

\* While an installation runs, its manifest is the newest and complete once
\* written, and its first slot names it when the mirror is due.
JobInv ==
    job # NoJob =>
        /\ step \notin Between /\ GoodJob(job)
        /\ IF step = "manifest" THEN high.manifest < h.nextManifest
           ELSE /\ high.manifest = h.nextManifest
                /\ Complete(manifests, job.next.manifest)
                /\ manifests[job.next.manifest] = [job.next EXCEPT !.gen = 0]
        /\ step = "mirror" =>
              /\ job.kind # "flush"
              /\ current[SlotOf(job.next.gen)] = Slot(job.next.gen, job.next.manifest)

\* The position of the call, its mutation and the installation go together.
StepInv ==
    /\ step \in Between \cup {"manifest", "publish", "mirror"}
    /\ step = "idle" <=> inflight = {}
    /\ step # "idle" => h # NoHandle
    /\ job = NoJob <=> step \in Between
    /\ acked \in Map /\ faults \in 0 .. MaxFaults
    /\ h # NoHandle \/ ~exists => pending = {}
    /\ inflight \in {{}} \cup {{op} : op \in Op} /\ pending \in {{}} \cup {{op} : op \in Op}

\* The inductive invariant.
LsmInv == DiskInv /\ ContentInv /\ SlotsInv /\ HandleInv /\ JobInv /\ StepInv
-----------------------------------------------------------------------------
\* Files.

\* Membership, spelt out.
LEMMA FilesMembers ==
    ASSUME NEW C, NEW f
    PROVE  f \in Files(C) <=>
              /\ f = [i \in DOMAIN f |-> f[i]]
              /\ DOMAIN f \subseteq Nat \ {0}
              /\ \A i \in DOMAIN f : f[i] \in C \cup {Torn}
<1>1. ASSUME f \in Files(C)
      PROVE  /\ f = [i \in DOMAIN f |-> f[i]]
             /\ DOMAIN f \subseteq Nat \ {0}
             /\ \A i \in DOMAIN f : f[i] \in C \cup {Torn}
  <2>1. PICK ids \in SUBSET (Nat \ {0}) : f \in [ids -> C \cup {Torn}]
    BY <1>1 DEF Files
  <2> QED BY <2>1
<1>2. ASSUME f = [i \in DOMAIN f |-> f[i]], DOMAIN f \subseteq Nat \ {0},
             \A i \in DOMAIN f : f[i] \in C \cup {Torn}
      PROVE  f \in Files(C)
  <2>1. f \in [DOMAIN f -> C \cup {Torn}]
    BY <1>2
  <2> QED BY <1>2, <2>1 DEF Files
<1> QED BY <1>1, <1>2

\* What the creation of a file makes of the files, with any outcome.
Added(f, id, content, outcome, g) ==
    /\ outcome = "none" => g = f
    /\ outcome # "none" => DOMAIN g = DOMAIN f \cup {id}
    /\ \A i \in DOMAIN f : i \in DOMAIN g /\ (i # id => g[i] = f[i])
    /\ outcome \in {"done", "whole"} => g[id] = content
    /\ outcome = "torn" => g[id] = Torn

\* That is what it does.
LEMMA WithFileIs ==
    ASSUME NEW C, NEW f \in Files(C), NEW id \in Nat \ {0}, NEW content \in C,
           NEW outcome \in Outcomes
    PROVE  /\ WithFile(f, id, content, outcome) \in Files(C)
           /\ Added(f, id, content, outcome, WithFile(f, id, content, outcome))
<1> DEFINE g == WithFile(f, id, content, outcome)
<1> SUFFICES g \in Files(C) /\ Added(f, id, content, outcome, g)
  OBVIOUS
<1>1. CASE outcome = "none"
  BY <1>1 DEF WithFile, Added
<1>2. CASE outcome # "none"
  <2>1. g = [i \in DOMAIN f \cup {id} |->
               IF i # id THEN f[i] ELSE IF outcome = "torn" THEN Torn ELSE content]
    BY <1>2 DEF WithFile
  <2>2. /\ f = [i \in DOMAIN f |-> f[i]] /\ DOMAIN f \subseteq Nat \ {0}
        /\ \A i \in DOMAIN f : f[i] \in C \cup {Torn}
    BY FilesMembers
  <2>3. DOMAIN g = DOMAIN f \cup {id}
    BY <2>1
  <2>4. \A i \in DOMAIN g :
           g[i] = IF i # id THEN f[i] ELSE IF outcome = "torn" THEN Torn ELSE content
    BY <2>1
  <2>5. \A i \in DOMAIN g : g[i] \in C \cup {Torn}
    BY <2>2, <2>3, <2>4
  <2>6. g = [i \in DOMAIN g |-> g[i]]
    BY <2>1
  <2>7. DOMAIN g \subseteq Nat \ {0}
    BY <2>2, <2>3
  <2>8. g \in Files(C)
    BY <2>5, <2>6, <2>7, FilesMembers
  <2> HIDE DEF g
  <2> QED BY <1>2, <2>3, <2>4, <2>8 DEF Outcomes, Added
<1> QED BY <1>1, <1>2

\* What a reclaim pass leaves.
LEMMA ReclaimedIs ==
    ASSUME NEW C, NEW f \in Files(C), NEW active \in SUBSET DOMAIN f,
           NEW g \in Reclaimed(f, active)
    PROVE  /\ g \in Files(C)
           /\ active \subseteq DOMAIN g /\ DOMAIN g \subseteq DOMAIN f
           /\ \A i \in DOMAIN g : g[i] = f[i]
<1>1. PICK kept \in SUBSET (DOMAIN f \ active) : g = Restrict(f, active \cup kept)
  BY DEF Reclaimed
<1>2. g = [i \in active \cup kept |-> f[i]]
  BY <1>1 DEF Restrict
<1>3. /\ DOMAIN f \subseteq Nat \ {0}
      /\ \A i \in DOMAIN f : f[i] \in C \cup {Torn}
  BY FilesMembers
<1>4. /\ DOMAIN g = active \cup kept
      /\ \A i \in DOMAIN g : g[i] = f[i]
      /\ g = [i \in DOMAIN g |-> g[i]]
  BY <1>2
<1>5. DOMAIN g \subseteq DOMAIN f
  BY <1>1, <1>4
<1>6. g \in Files(C)
  BY <1>3, <1>4, <1>5, FilesMembers
<1> QED BY <1>4, <1>5, <1>6

\* A set with a greatest element has it as its maximum.
LEMMA MaxIs ==
    ASSUME NEW S, NEW m \in S, \A i \in S : m >= i
    PROVE  Max(S) \in S /\ \A i \in S : Max(S) >= i
<1>1. \E x \in S : \A y \in S : x >= y
  OBVIOUS
<1> QED BY <1>1, Zenon DEF Max

\* The largest id in use.
LEMMA MaxIdIs ==
    ASSUME NEW C, NEW f \in Files(C), NEW n \in Nat, \A i \in DOMAIN f : i <= n
    PROVE  /\ MaxId(f) \in Nat /\ MaxId(f) <= n
           /\ \A i \in DOMAIN f : i <= MaxId(f)
           /\ n = 0 \/ n \in DOMAIN f => MaxId(f) = n
<1> DEFINE S == DOMAIN f \cup {0}
<1>1. S \in SUBSET Nat /\ S # {} /\ \A i \in S : i <= n
  BY FilesMembers
<1>2. PICK m \in S : \A i \in S : i <= m
  BY <1>1, GreatestNatural
<1>3. m \in S /\ \A i \in S : m >= i
  BY <1>1, <1>2
<1> HIDE DEF S
<1>4. MaxId(f) = Max(S)
  BY DEF MaxId, S
<1>5. Max(S) \in S /\ \A i \in S : Max(S) >= i
  BY <1>3, MaxIs, Zenon
<1>6. 0 \in S /\ DOMAIN f \subseteq S
  BY DEF S
<1>7. PICK x : x = Max(S)
  OBVIOUS
<1>8. x \in Nat /\ x <= n
  BY <1>1, <1>5, <1>7
<1>9. \A i \in DOMAIN f : i <= x
  BY <1>1, <1>5, <1>6, <1>7
<1>10. ASSUME n = 0 \/ n \in DOMAIN f PROVE x = n
  <2>1. n \in S
    BY <1>6, <1>10
  <2> QED BY <1>5, <1>7, <1>8, <2>1
<1> QED BY <1>4, <1>7, <1>8, <1>9, <1>10

\* Two numbers have a greater one.
LEMMA MaxOfTwo ==
    ASSUME NEW a \in Nat, NEW b \in Nat
    PROVE  /\ Max({a, b}) \in Nat /\ a <= Max({a, b}) /\ b <= Max({a, b})
           /\ Max({a, b}) \in {a, b}
<1>1. PICK m \in {a, b} : \A i \in {a, b} : m >= i
  OBVIOUS
<1>2. Max({a, b}) \in {a, b} /\ \A i \in {a, b} : Max({a, b}) >= i
  BY <1>1, MaxIs, Zenon
<1> QED BY <1>2
-----------------------------------------------------------------------------
\* What is on disk stays there.

\* The next sequence number of a segment.
LEMMA WalNextIs ==
    ASSUME NEW w \in WalSegments
    PROVE  /\ w.first \in 1 .. MaxSequence /\ Len(w.recs) \in Nat
           /\ WalNext(w) = w.first + Len(w.recs) /\ WalNext(w) \in Nat
           /\ w.first <= WalNext(w)
BY DEF WalSegments, WalNext

\* Whole files have their contents.
LEMMA WholeFile ==
    ASSUME NEW C, NEW f \in Files(C), NEW i \in DOMAIN f, f[i] # Torn
    PROVE  f[i] \in C
BY FilesMembers

\* Files are added, and records are appended to WAL segments.
Grown ==
    /\ \A i \in DOMAIN tables : i \in DOMAIN tables' /\ tables'[i] = tables[i]
    /\ \A i \in DOMAIN manifests : i \in DOMAIN manifests' /\ manifests'[i] = manifests[i]
    /\ \A i \in DOMAIN wals :
          /\ i \in DOMAIN wals'
          /\ wals[i] # Torn => /\ wals'[i] # Torn /\ wals'[i].first = wals[i].first
                               /\ WalNext(wals[i]) <= WalNext(wals'[i])

\* The files of a version set are still there when those are that it names.
LEMMA FilesStay ==
    ASSUME DiskInv, DiskInv', NEW v \in Versions, FilesOf(v),
           \A i \in DOMAIN v.tables :
              v.tables[i].id \in DOMAIN tables' /\ tables'[v.tables[i].id] = tables[v.tables[i].id],
           v.wal \in DOMAIN wals', wals'[v.wal] # Torn,
           wals'[v.wal].first = wals[v.wal].first,
           WalNext(wals[v.wal]) <= WalNext(wals'[v.wal])
    PROVE  FilesOf(v)'
<1>1. /\ v.wal \in DOMAIN wals /\ wals[v.wal] # Torn /\ wals[v.wal].first = v.first
      /\ v.durable < WalNext(wals[v.wal])
      /\ \A i \in DOMAIN v.tables :
            /\ v.tables[i].id \in DOMAIN tables /\ tables[v.tables[i].id] # Torn
            /\ tables[v.tables[i].id].durable = v.tables[i].durable
            /\ TableAccepted(tables[v.tables[i].id])
  BY DEF FilesOf, Complete
<1>2. wals \in Files(WalSegments) /\ wals' \in Files(WalSegments)
  BY DEF DiskInv
<1>3. WalNext(wals[v.wal]) \in Nat /\ WalNext(wals'[v.wal]) \in Nat /\ v.durable \in Nat
  <2>1. wals[v.wal] \in WalSegments /\ wals'[v.wal] \in WalSegments
    BY <1>1, <1>2, WholeFile
  <2> QED BY <2>1, WalNextIs DEF Versions
<1>4. v.durable < WalNext(wals'[v.wal])
  BY <1>1, <1>3
<1>5. \A i \in DOMAIN v.tables :
         /\ v.tables[i].id \in DOMAIN tables' /\ tables'[v.tables[i].id] # Torn
         /\ tables'[v.tables[i].id].durable = v.tables[i].durable
         /\ TableAccepted(tables'[v.tables[i].id])
  BY <1>1
<1> QED BY <1>1, <1>4, <1>5 DEF FilesOf, Complete

\* So they are when the disk has only grown.
LEMMA GrownFiles ==
    ASSUME DiskInv, DiskInv', Grown, NEW v \in Versions, FilesOf(v)
    PROVE  FilesOf(v)'
<1>1. /\ v.wal \in DOMAIN wals /\ wals[v.wal] # Torn
      /\ \A i \in DOMAIN v.tables : v.tables[i].id \in DOMAIN tables
  BY DEF FilesOf, Complete
<1> QED BY <1>1, FilesStay DEF Grown

\* And the slots remain good.
LEMMA GrownSlots ==
    ASSUME DiskInv, DiskInv', SlotsInv, Grown, current' = current,
           high'.table = high.table \/ high'.table \in DOMAIN tables'
    PROVE  SlotsInv'
<1>1. ASSUME current # NoCurrent, NEW s \in {0, 1}, current[s] # Torn
      PROVE  GoodSlot(current[s])'
  <2>1. PICK c : c = current[s]
    OBVIOUS
  <2>2. GoodSlot(c)
    BY <1>1, <2>1 DEF SlotsInv
  <2>3. PICK v : v = manifests[c.manifest]
    OBVIOUS
  <2>4. c.manifest \in DOMAIN manifests /\ v # Torn /\ FilesOf(v)
    BY <2>2, <2>3 DEF GoodSlot, Complete
  <2>5. v \in Versions
    <3>1. manifests \in Files(Versions)
      BY DEF DiskInv
    <3> QED BY <2>3, <2>4, <3>1, WholeFile
  <2>6. FilesOf(v)'
    BY <2>4, <2>5, GrownFiles
  <2>7. c.manifest \in DOMAIN manifests' /\ manifests'[c.manifest] = v
    BY <2>3, <2>4 DEF Grown
  <2>8. high'.table <= v.watermark \/ high'.table \in DOMAIN tables'
    <3>1. high.table <= v.watermark \/ high.table \in DOMAIN tables
      BY <2>2, <2>3 DEF GoodSlot
    <3> QED BY <3>1 DEF Grown
  <2>9. GoodSlot(c)'
    <3>1. Complete(manifests, c.manifest)'
      BY <2>4, <2>7 DEF Complete
    <3>2. FilesOf(manifests[c.manifest])'
      BY <2>6, <2>7
    <3>3. (high.table <= manifests[c.manifest].watermark \/ high.table \in DOMAIN tables)'
      BY <2>7, <2>8
    <3> QED BY <3>1, <3>2, <3>3 DEF GoodSlot
  <2> QED BY <2>1, <2>9
<1> QED BY <1>1 DEF SlotsInv
-----------------------------------------------------------------------------
\* Steps that create a file.

\* The greater of two ids.
LEMMA RaiseIs ==
    ASSUME high \in [table : Nat, manifest : Nat, wal : Nat],
           NEW id \in Nat, NEW outcome \in Outcomes
    PROVE  /\ Raise("table", id, outcome) /\ high.table < id =>
                 high' = IF outcome = "none" THEN high
                         ELSE [table |-> id, manifest |-> high.manifest, wal |-> high.wal]
           /\ Raise("manifest", id, outcome) /\ high.manifest <= id =>
                 high' = IF outcome = "none" THEN high
                         ELSE [table |-> high.table, manifest |-> id, wal |-> high.wal]
           /\ Raise("wal", id, outcome) /\ high.wal < id =>
                 high' = IF outcome = "none" THEN high
                         ELSE [table |-> high.table, manifest |-> high.manifest, wal |-> id]
<1>1. /\ high.table \in Nat /\ high.manifest \in Nat /\ high.wal \in Nat
      /\ high = [table |-> high.table, manifest |-> high.manifest, wal |-> high.wal]
  OBVIOUS
<1>2. ASSUME NEW n \in Nat, n <= id PROVE Max({n, id}) = id
  BY <1>2, MaxOfTwo
<1>3. ASSUME Raise("table", id, outcome), high.table < id, outcome # "none"
      PROVE  high' = [table |-> id, manifest |-> high.manifest, wal |-> high.wal]
  <2>1. high' = [high EXCEPT !["table"] = Max({high.table, id})]
    BY <1>3 DEF Raise
  <2>2. Max({high.table, id}) = id
    BY <1>1, <1>2, <1>3
  <2> QED BY <1>1, <2>1, <2>2
<1>4. ASSUME Raise("manifest", id, outcome), high.manifest <= id, outcome # "none"
      PROVE  high' = [table |-> high.table, manifest |-> id, wal |-> high.wal]
  <2>1. high' = [high EXCEPT !["manifest"] = Max({high.manifest, id})]
    BY <1>4 DEF Raise
  <2>2. Max({high.manifest, id}) = id
    BY <1>1, <1>2, <1>4
  <2> QED BY <1>1, <2>1, <2>2
<1>5. ASSUME Raise("wal", id, outcome), high.wal < id, outcome # "none"
      PROVE  high' = [table |-> high.table, manifest |-> high.manifest, wal |-> id]
  <2>1. high' = [high EXCEPT !["wal"] = Max({high.wal, id})]
    BY <1>5 DEF Raise
  <2>2. Max({high.wal, id}) = id
    BY <1>1, <1>2, <1>5
  <2> QED BY <1>1, <2>1, <2>2
<1> QED BY <1>3, <1>4, <1>5 DEF Raise

\* A new SSTable.
LEMMA AddTable ==
    ASSUME DiskInv, ContentInv, SlotsInv, current # NoCurrent,
           NEW id \in Nat, high.table < id, NEW content \in SortedTables,
           NEW outcome \in Outcomes,
           tables' = WithFile(tables, id, content, outcome), Raise("table", id, outcome),
           UNCHANGED <<exists, wals, manifests, current>>
    PROVE  /\ DiskInv' /\ ContentInv' /\ SlotsInv' /\ Grown
           /\ high' = IF outcome = "none" THEN high
                      ELSE [table |-> id, manifest |-> high.manifest, wal |-> high.wal]
           /\ outcome # "none" => id \in DOMAIN tables'
           /\ outcome \in {"done", "whole"} => tables'[id] = content
<1>1. /\ high \in [table : Nat, manifest : Nat, wal : Nat]
      /\ tables \in Files(SortedTables) /\ id \in Nat \ {0}
      /\ \A i \in DOMAIN tables : i <= high.table
  BY DEF DiskInv
<1>2. high' = IF outcome = "none" THEN high
              ELSE [table |-> id, manifest |-> high.manifest, wal |-> high.wal]
  BY <1>1, RaiseIs
<1>3. /\ tables' \in Files(SortedTables)
      /\ outcome = "none" => tables' = tables
      /\ outcome # "none" => DOMAIN tables' = DOMAIN tables \cup {id}
      /\ \A i \in DOMAIN tables : i \in DOMAIN tables' /\ (i # id => tables'[i] = tables[i])
      /\ outcome \in {"done", "whole"} => tables'[id] = content
  <2>1. tables \in Files(SortedTables) /\ id \in Nat \ {0} /\ content \in SortedTables /\ outcome \in Outcomes
    BY <1>1
  <2>2. tables' \in Files(SortedTables) /\ Added(tables, id, content, outcome, tables')
    BY <2>1, WithFileIs
  <2> QED BY <2>2 DEF Added
<1>4. \A i \in DOMAIN tables : i \in Nat /\ i # id
  BY <1>1, FilesMembers
<1>5. \A i \in DOMAIN tables' : i <= high'.table
  BY <1>1, <1>2, <1>3, <1>4
<1>6. /\ high' \in [table : Nat, manifest : Nat, wal : Nat]
      /\ high'.manifest = high.manifest /\ high'.wal = high.wal
  BY <1>1, <1>2
<1>7. DiskInv'
  BY <1>3, <1>5, <1>6 DEF DiskInv
<1>8. ContentInv'
  BY DEF ContentInv
<1>9. Grown
  <2>1. wals \in Files(WalSegments)
    BY DEF DiskInv
  <2>2. \A i \in DOMAIN wals : wals[i] # Torn => WalNext(wals[i]) <= WalNext(wals[i])
    BY <2>1, WholeFile, WalNextIs
  <2> QED BY <1>3, <1>4, <2>2 DEF Grown
<1>10. high'.table = high.table \/ high'.table \in DOMAIN tables'
  BY <1>2, <1>3
<1>11. SlotsInv'
  BY <1>7, <1>9, <1>10, GrownSlots
<1> QED BY <1>2, <1>3, <1>7, <1>8, <1>9, <1>11

\* A new manifest.
LEMMA AddManifest ==
    ASSUME DiskInv, ContentInv, SlotsInv, exists, 
           NEW id \in Nat, high.manifest < id, NEW content \in Versions,
           ValidVersion(content), content.gen = 0, content.manifest = id,
           NEW outcome \in Outcomes,
           manifests' = WithFile(manifests, id, content, outcome),
           Raise("manifest", id, outcome),
           UNCHANGED <<exists, wals, tables, current>>
    PROVE  /\ DiskInv' /\ ContentInv' /\ SlotsInv' /\ Grown
           /\ high' = IF outcome = "none" THEN high
                      ELSE [table |-> high.table, manifest |-> id, wal |-> high.wal]
           /\ outcome \in {"done", "whole"} => id \in DOMAIN manifests' /\ manifests'[id] = content
<1>1. /\ high \in [table : Nat, manifest : Nat, wal : Nat]
      /\ manifests \in Files(Versions) /\ id \in Nat \ {0}
      /\ \A i \in DOMAIN manifests : i <= high.manifest
      /\ high.manifest # 0 => high.manifest \in DOMAIN manifests
  BY DEF DiskInv
<1>2. high' = IF outcome = "none" THEN high
              ELSE [table |-> high.table, manifest |-> id, wal |-> high.wal]
  BY <1>1, RaiseIs
<1>3. /\ manifests' \in Files(Versions)
      /\ outcome = "none" => manifests' = manifests
      /\ outcome # "none" => DOMAIN manifests' = DOMAIN manifests \cup {id}
      /\ \A i \in DOMAIN manifests :
            i \in DOMAIN manifests' /\ (i # id => manifests'[i] = manifests[i])
      /\ outcome \in {"done", "whole"} => manifests'[id] = content
      /\ outcome = "torn" => manifests'[id] = Torn
  <2>1. manifests \in Files(Versions) /\ id \in Nat \ {0} /\ content \in Versions /\ outcome \in Outcomes
    BY <1>1
  <2>2. manifests' \in Files(Versions) /\ Added(manifests, id, content, outcome, manifests')
    BY <2>1, WithFileIs
  <2> QED BY <2>2 DEF Added
<1>4. \A i \in DOMAIN manifests : i \in Nat /\ i # id
  BY <1>1, FilesMembers
<1>5. /\ \A i \in DOMAIN manifests' : i <= high'.manifest
      /\ high'.manifest # 0 => high'.manifest \in DOMAIN manifests'
  BY <1>1, <1>2, <1>3, <1>4
<1>6. /\ high' \in [table : Nat, manifest : Nat, wal : Nat]
      /\ high'.table = high.table /\ high'.wal = high.wal
  BY <1>1, <1>2
<1>7. DiskInv'
  BY <1>3, <1>5, <1>6 DEF DiskInv
<1>8. ContentInv'
  <2>1. ASSUME NEW i \in DOMAIN manifests', manifests'[i] # Torn
        PROVE  ValidVersion(manifests'[i]) /\ manifests'[i].gen = 0 /\ manifests'[i].manifest = i
    <3>1. CASE i \in DOMAIN manifests /\ i # id
      BY <1>3, <2>1, <3>1 DEF ContentInv
    <3>2. CASE ~(i \in DOMAIN manifests /\ i # id)
      <4>1. i = id /\ manifests'[i] = content
        BY <1>3, <1>4, <2>1, <3>2 DEF Outcomes
      <4> QED BY <4>1
    <3> QED BY <3>1, <3>2
  <2> QED BY <2>1 DEF ContentInv
<1>9. Grown
  <2>1. wals \in Files(WalSegments)
    BY DEF DiskInv
  <2>2. \A i \in DOMAIN wals : wals[i] # Torn => WalNext(wals[i]) <= WalNext(wals[i])
    BY <2>1, WholeFile, WalNextIs
  <2> QED BY <1>3, <1>4, <2>2 DEF Grown
<1>11. SlotsInv'
  BY <1>6, <1>7, <1>9, GrownSlots
<1> QED BY <1>2, <1>3, <1>7, <1>8, <1>9, <1>11 DEF Outcomes

\* A new WAL segment.
LEMMA AddWal ==
    ASSUME DiskInv, ContentInv, SlotsInv, exists,
           NEW id \in Nat, high.wal < id, NEW content \in WalSegments,
           WalNext(content) <= MaxSequence,
           NEW outcome \in Outcomes,
           wals' = WithFile(wals, id, content, outcome), Raise("wal", id, outcome),
           UNCHANGED <<exists, tables, manifests, current>>
    PROVE  /\ DiskInv' /\ ContentInv' /\ SlotsInv' /\ Grown
           /\ high' = IF outcome = "none" THEN high
                      ELSE [table |-> high.table, manifest |-> high.manifest, wal |-> id]
           /\ outcome \in {"done", "whole"} => id \in DOMAIN wals' /\ wals'[id] = content
           /\ \A i \in DOMAIN wals : wals'[i] = wals[i]
<1>1. /\ high \in [table : Nat, manifest : Nat, wal : Nat]
      /\ wals \in Files(WalSegments) /\ id \in Nat \ {0}
      /\ \A i \in DOMAIN wals : i <= high.wal
      /\ high.wal # 0 => high.wal \in DOMAIN wals
  BY DEF DiskInv
<1>2. high' = IF outcome = "none" THEN high
              ELSE [table |-> high.table, manifest |-> high.manifest, wal |-> id]
  BY <1>1, RaiseIs
<1>3. /\ wals' \in Files(WalSegments)
      /\ outcome = "none" => wals' = wals
      /\ outcome # "none" => DOMAIN wals' = DOMAIN wals \cup {id}
      /\ \A i \in DOMAIN wals : i \in DOMAIN wals' /\ (i # id => wals'[i] = wals[i])
      /\ outcome \in {"done", "whole"} => wals'[id] = content
      /\ outcome = "torn" => wals'[id] = Torn
  <2>1. wals \in Files(WalSegments) /\ id \in Nat \ {0} /\ content \in WalSegments /\ outcome \in Outcomes
    BY <1>1
  <2>2. wals' \in Files(WalSegments) /\ Added(wals, id, content, outcome, wals')
    BY <2>1, WithFileIs
  <2> QED BY <2>2 DEF Added
<1>4. \A i \in DOMAIN wals : i \in Nat /\ i # id
  BY <1>1, FilesMembers
<1>5. /\ \A i \in DOMAIN wals' : i <= high'.wal
      /\ high'.wal # 0 => high'.wal \in DOMAIN wals'
  BY <1>1, <1>2, <1>3, <1>4
<1>6. /\ high' \in [table : Nat, manifest : Nat, wal : Nat]
      /\ high'.table = high.table /\ high'.manifest = high.manifest
  BY <1>1, <1>2
<1>7. DiskInv'
  BY <1>3, <1>5, <1>6 DEF DiskInv
<1>8. ContentInv'
  <2>1. ASSUME NEW i \in DOMAIN wals', wals'[i] # Torn
        PROVE  WalNext(wals'[i]) <= MaxSequence
    <3>1. CASE i \in DOMAIN wals /\ i # id
      BY <1>3, <2>1, <3>1 DEF ContentInv
    <3>2. CASE ~(i \in DOMAIN wals /\ i # id)
      <4>1. i = id /\ wals'[i] = content
        BY <1>3, <1>4, <2>1, <3>2 DEF Outcomes
      <4> QED BY <4>1
    <3> QED BY <3>1, <3>2
  <2> QED BY <2>1 DEF ContentInv
<1>9. Grown
  <2>2. \A i \in DOMAIN wals : wals[i] # Torn => WalNext(wals[i]) <= WalNext(wals[i])
    BY <1>1, WholeFile, WalNextIs
  <2> QED BY <1>3, <1>4, <2>2 DEF Grown
<1>11. SlotsInv'
  BY <1>6, <1>7, <1>9, GrownSlots
<1> QED BY <1>2, <1>3, <1>4, <1>7, <1>8, <1>9, <1>11 DEF Outcomes
-----------------------------------------------------------------------------
\* WAL segments and MemTables.

\* A segment gets records, or loses its torn tail.
LEMMA WalUpdate ==
    ASSUME DiskInv, ContentInv, SlotsInv, NEW id \in DOMAIN wals, wals[id] # Torn,
           NEW w \in WalSegments, w.first = wals[id].first,
           WalNext(wals[id]) <= WalNext(w), WalNext(w) <= MaxSequence,
           wals' = [wals EXCEPT ![id] = w],
           UNCHANGED <<exists, tables, manifests, current, high>>
    PROVE  /\ DiskInv' /\ ContentInv' /\ SlotsInv' /\ Grown
           /\ DOMAIN wals' = DOMAIN wals /\ wals'[id] = w
           /\ \A i \in DOMAIN wals : i # id => wals'[i] = wals[i]
<1>1. wals \in Files(WalSegments)
  BY DEF DiskInv
<1>2. /\ wals = [i \in DOMAIN wals |-> wals[i]] /\ DOMAIN wals \subseteq Nat \ {0}
      /\ \A i \in DOMAIN wals : wals[i] \in WalSegments \cup {Torn}
  BY <1>1, FilesMembers
<1>3. /\ DOMAIN wals' = DOMAIN wals /\ wals'[id] = w
      /\ \A i \in DOMAIN wals : i # id => wals'[i] = wals[i]
      /\ wals' = [i \in DOMAIN wals' |-> wals'[i]]
  BY <1>2
<1>4. \A i \in DOMAIN wals' : wals'[i] \in WalSegments \cup {Torn}
  BY <1>2, <1>3
<1>5. wals' \in Files(WalSegments)
  BY <1>2, <1>3, <1>4, FilesMembers
<1>6. DiskInv'
  BY <1>3, <1>5 DEF DiskInv
<1>7. ContentInv'
  BY <1>3 DEF ContentInv
<1>8. w # Torn
  BY TornIsNoContent
<1>9. Grown
  <2>1. \A i \in DOMAIN wals : wals[i] # Torn => WalNext(wals[i]) <= WalNext(wals[i])
    BY <1>1, WholeFile, WalNextIs
  <2> QED BY <1>3, <1>8, <2>1 DEF Grown
<1>10. SlotsInv'
  BY <1>6, <1>9, GrownSlots
<1> QED BY <1>3, <1>6, <1>7, <1>9, <1>10

\* An append to a segment, with any outcome.
LEMMA WithRecordIs ==
    ASSUME NEW w \in WalSegments, NEW op \in Op, NEW outcome \in Outcomes
    PROVE  /\ WithRecord(w, op, outcome) \in WalSegments
           /\ WithRecord(w, op, outcome).first = w.first
           /\ WalNext(w) <= WalNext(WithRecord(w, op, outcome))
           /\ WalNext(WithRecord(w, op, outcome)) <= WalNext(w) + 1
           /\ outcome \in {"done", "whole"} =>
                 /\ WithRecord(w, op, outcome).recs = Append(w.recs, op)
                 /\ WalNext(WithRecord(w, op, outcome)) = WalNext(w) + 1
           /\ outcome \in {"none", "torn"} => WithRecord(w, op, outcome).recs = w.recs
<1>1. /\ w.first \in 1 .. MaxSequence /\ w.recs \in Seq(Op) /\ w.tail \in BOOLEAN
      /\ w = [first |-> w.first, recs |-> w.recs, tail |-> w.tail]
      /\ MaxSequence \in Nat
  BY BoundsAssumption DEF WalSegments
<1>2. Append(w.recs, op) \in Seq(Op) /\ Len(Append(w.recs, op)) = Len(w.recs) + 1
  BY <1>1
<1>3. PICK g : g = WithRecord(w, op, outcome)
  OBVIOUS
<1>4. CASE outcome = "none"
  <2>1. g = w
    BY <1>3, <1>4 DEF WithRecord
  <2> QED BY <1>1, <1>3, <1>4, <2>1, WalNextIs
<1>5. CASE outcome = "torn"
  <2>1. g = [w EXCEPT !.tail = TRUE]
    BY <1>3, <1>5 DEF WithRecord
  <2>2. g.first = w.first /\ g.recs = w.recs /\ g \in WalSegments
    BY <1>1, <2>1 DEF WalSegments
  <2>3. WalNext(g) = WalNext(w)
    BY <2>2 DEF WalNext
  <2> QED BY <1>3, <1>5, <2>2, <2>3, WalNextIs
<1>6. CASE outcome \in {"done", "whole"}
  <2>1. g = [w EXCEPT !.recs = Append(w.recs, op)]
    BY <1>3, <1>6 DEF WithRecord
  <2>2. g.first = w.first /\ g.recs = Append(w.recs, op) /\ g \in WalSegments
    BY <1>1, <1>2, <2>1 DEF WalSegments
  <2>3. WalNext(g) = WalNext(w) + 1
    BY <1>1, <1>2, <2>2 DEF WalNext
  <2> QED BY <1>3, <1>6, <2>2, <2>3, WalNextIs
<1> QED BY <1>4, <1>5, <1>6 DEF Outcomes

\* Entries, spelt out.
LEMMA EntriesMembers ==
    ASSUME NEW e
    PROVE  e \in Entries <=>
              /\ e = [k \in DOMAIN e |-> e[k]] /\ DOMAIN e \subseteq Keys
              /\ \A k \in DOMAIN e : e[k] \in [seq : 1 .. MaxSequence, val : Entry]
<1>1. ASSUME e \in Entries
      PROVE  /\ e = [k \in DOMAIN e |-> e[k]] /\ DOMAIN e \subseteq Keys
             /\ \A k \in DOMAIN e : e[k] \in [seq : 1 .. MaxSequence, val : Entry]
  <2>1. PICK K \in SUBSET Keys : e \in [K -> [seq : 1 .. MaxSequence, val : Entry]]
    BY <1>1 DEF Entries
  <2> QED BY <2>1
<1>2. ASSUME e = [k \in DOMAIN e |-> e[k]], DOMAIN e \subseteq Keys,
             \A k \in DOMAIN e : e[k] \in [seq : 1 .. MaxSequence, val : Entry]
      PROVE  e \in Entries
  <2>1. e \in [DOMAIN e -> [seq : 1 .. MaxSequence, val : Entry]]
    BY <1>2
  <2> QED BY <1>2, <2>1 DEF Entries
<1> QED BY <1>1, <1>2

\* One more of them.
LEMMA InsertIs ==
    ASSUME NEW e \in Entries, NEW seq \in 1 .. MaxSequence, NEW op \in Op
    PROVE  /\ Insert(e, seq, op) \in Entries
           /\ DOMAIN Insert(e, seq, op) = DOMAIN e \cup {op.key}
           /\ Insert(e, seq, op)[op.key] = [seq |-> seq, val |-> op.val]
           /\ \A k \in DOMAIN e : k # op.key => Insert(e, seq, op)[k] = e[k]
<1>1. /\ DOMAIN e \subseteq Keys
      /\ \A k \in DOMAIN e : e[k] \in [seq : 1 .. MaxSequence, val : Entry]
  BY EntriesMembers
<1>2. op.key \in Keys /\ op.val \in Entry
  BY DEF Op
<1>3. PICK g : g = Insert(e, seq, op)
  OBVIOUS
<1>4. g = [k \in DOMAIN e \cup {op.key} |->
             IF k = op.key THEN [seq |-> seq, val |-> op.val] ELSE e[k]]
  BY <1>3 DEF Insert
<1>5. /\ DOMAIN g = DOMAIN e \cup {op.key} /\ g = [k \in DOMAIN g |-> g[k]]
      /\ g[op.key] = [seq |-> seq, val |-> op.val]
      /\ \A k \in DOMAIN e : k # op.key => g[k] = e[k]
  BY <1>4
<1>6. \A k \in DOMAIN g : g[k] \in [seq : 1 .. MaxSequence, val : Entry]
  BY <1>1, <1>2, <1>5
<1>7. g \in Entries
  BY <1>1, <1>2, <1>5, <1>6, EntriesMembers
<1> QED BY <1>3, <1>5, <1>7

\* A mutable MemTable and the frozen ones.
MemSets == [mutable : MemTables, immutable : Seq(MemTables)]

\* There is nothing in a new one.
LEMMA FreshMemIs ==
    FreshMem \in MemSets /\ \A low, next \in Nat : MemInv(FreshMem, low, next)
<1>1. NoEntries \in Entries
  BY EntriesMembers DEF NoEntries
<1>2. EmptyMem \in MemTables
  BY <1>1 DEF EmptyMem, MemTables
<1> QED BY <1>2 DEF FreshMem, MemSets, MemInv

\* The table that takes the mutation.
Filled(mem, seq, op) == [entries |-> Insert(mem.mutable.entries, seq, op), last |-> seq]

\* The two ways a mutation enters the MemTables.
LEMMA ApplyToMemIs ==
    ASSUME NEW mem \in MemSets, NEW seq \in 1 .. MaxSequence, NEW op \in Op
    PROVE  /\ Filled(mem, seq, op) \in MemTables
           /\ ApplyToMem(mem, seq, op) \in MemSets
           /\ \/ ApplyToMem(mem, seq, op) =
                    [mutable |-> EmptyMem,
                     immutable |-> Append(mem.immutable, Filled(mem, seq, op))]
              \/ ApplyToMem(mem, seq, op) =
                    [mutable |-> Filled(mem, seq, op), immutable |-> mem.immutable]
<1>1. /\ mem.mutable \in MemTables /\ mem.immutable \in Seq(MemTables)
      /\ mem = [mutable |-> mem.mutable, immutable |-> mem.immutable]
  BY DEF MemSets
<1>2. mem.mutable.entries \in Entries
  BY <1>1 DEF MemTables
<1>3. Filled(mem, seq, op) \in MemTables
  <2>1. seq \in Nat
    BY BoundsAssumption
  <2>2. Insert(mem.mutable.entries, seq, op) \in Entries
    BY <1>2, InsertIs
  <2> QED BY <2>1, <2>2 DEF MemTables, Filled
<1>4. EmptyMem \in MemTables
  BY FreshMemIs DEF FreshMem, MemSets
<1>5. PICK t : t = Filled(mem, seq, op)
  OBVIOUS
<1>6. PICK g : g = ApplyToMem(mem, seq, op)
  OBVIOUS
<1>7. g = IF ResidentBytes(t.entries) >= MemTableLimit
          THEN [mutable |-> EmptyMem, immutable |-> Append(mem.immutable, t)]
          ELSE [mem EXCEPT !.mutable = t]
  BY <1>5, <1>6 DEF ApplyToMem, Filled
<1>8. CASE g = [mutable |-> EmptyMem, immutable |-> Append(mem.immutable, t)]
  BY <1>1, <1>3, <1>4, <1>5, <1>6, <1>8 DEF MemSets
<1>9. CASE g = [mem EXCEPT !.mutable = t]
  BY <1>1, <1>3, <1>5, <1>6, <1>9 DEF MemSets
<1> QED BY <1>7, <1>8, <1>9

\* A mutation with the next sequence number keeps the frozen tables in order.
LEMMA ApplyToMemOrder ==
    ASSUME NEW mem \in MemSets, NEW low \in Nat, NEW seq \in 1 .. MaxSequence,
           NEW op \in Op, MemInv(mem, low, seq), low < seq
    PROVE  MemInv(ApplyToMem(mem, seq, op), low, seq + 1)
<1>1. PICK s : s = mem.immutable
  OBVIOUS
<1>2. s \in Seq(MemTables) /\ Len(s) \in Nat /\ DOMAIN s = 1 .. Len(s)
  BY <1>1 DEF MemSets
<1>3. \A i \in DOMAIN s : s[i].last \in Nat
  <2>1. \A i \in DOMAIN s : s[i] \in MemTables
    BY <1>2
  <2> QED BY <2>1 DEF MemTables
<1>4. /\ \A i \in DOMAIN s : low < s[i].last /\ s[i].last < seq
      /\ \A i, j \in DOMAIN s : i < j => s[i].last < s[j].last
  BY <1>1 DEF MemInv
<1>5. PICK t : t = Filled(mem, seq, op)
  OBVIOUS
<1>6. t.last = seq /\ t \in MemTables
  BY <1>5, ApplyToMemIs DEF Filled
<1>7. PICK u : u = Append(s, t)
  OBVIOUS
<1>8. /\ DOMAIN u = 1 .. Len(s) + 1 /\ u[Len(s) + 1] = t
      /\ \A i \in DOMAIN s : u[i] = s[i]
  BY <1>2, <1>6, <1>7
<1>9. \A i \in DOMAIN u : low < u[i].last /\ u[i].last < seq + 1
  <2> TAKE i \in DOMAIN u
  <2>1. CASE i \in DOMAIN s
    BY <1>3, <1>4, <1>8, <2>1
  <2>2. CASE i = Len(s) + 1
    BY <1>6, <1>8, <2>2
  <2> QED BY <1>2, <1>8, <2>1, <2>2
<1>10. \A i, j \in DOMAIN u : i < j => u[i].last < u[j].last
  <2> SUFFICES ASSUME NEW i \in DOMAIN u, NEW j \in DOMAIN u, i < j
               PROVE  u[i].last < u[j].last
    OBVIOUS
  <2>1. i \in DOMAIN s
    BY <1>2, <1>8
  <2>2. CASE j \in DOMAIN s
    BY <1>4, <1>8, <2>1, <2>2
  <2>3. CASE j = Len(s) + 1
    BY <1>3, <1>4, <1>6, <1>8, <2>1, <2>3
  <2> QED BY <1>2, <1>8, <2>2, <2>3
<1>11. PICK g : g = ApplyToMem(mem, seq, op)
  OBVIOUS
<1>12. g.immutable = u \/ g.immutable = s
  BY <1>1, <1>5, <1>7, <1>11, ApplyToMemIs
<1>13. CASE g.immutable = u
  BY <1>9, <1>10, <1>11, <1>13 DEF MemInv
<1>14. CASE g.immutable = s
  BY <1>3, <1>4, <1>11, <1>14 DEF MemInv
<1> QED BY <1>12, <1>13, <1>14

\* The MemTables that replay passes through.
IsReplay(m, v, w, n) ==
    m = [i \in 0 .. n |->
           IF i = 0 THEN FreshMem
           ELSE IF Replayed(v, w.first + i - 1)
           THEN ApplyToMem(m[i - 1], w.first + i - 1, w.recs[i])
           ELSE m[i - 1]]

\* There is a replay of every number of records.
LEMMA ReplayExists ==
    ASSUME NEW v, NEW w, NEW n \in Nat
    PROVE  \E m : IsReplay(m, v, w, n)
<1> DEFINE S == {i \in Nat : \E m : IsReplay(m, v, w, i)}
<1>1. 0 \in S
  <2>1. IsReplay([i \in 0 .. 0 |-> FreshMem], v, w, 0)
    BY DEF IsReplay
  <2> QED BY <2>1
<1>2. ASSUME NEW j \in S PROVE j + 1 \in S
  <2>1. PICK m : IsReplay(m, v, w, j)
    OBVIOUS
  <2> DEFINE g == [i \in 0 .. j + 1 |->
                     IF i = j + 1
                     THEN IF Replayed(v, w.first + i - 1)
                          THEN ApplyToMem(m[j], w.first + i - 1, w.recs[i]) ELSE m[j]
                     ELSE m[i]]
  <2>2. ASSUME NEW i \in 0 .. j + 1
        PROVE  g[i] = IF i = 0 THEN FreshMem
                      ELSE IF Replayed(v, w.first + i - 1)
                      THEN ApplyToMem(g[i - 1], w.first + i - 1, w.recs[i])
                      ELSE g[i - 1]
    <3>1. CASE i = 0
      BY <2>1, <3>1 DEF IsReplay
    <3>2. CASE i \in 1 .. j
      <4>1. i \in 0 .. j /\ i # 0 /\ i - 1 \in 0 .. j /\ i # j + 1 /\ i - 1 # j + 1
        BY <3>2
      <4>2. g[i] = m[i] /\ g[i - 1] = m[i - 1]
        BY <4>1
      <4>3. m[i] = IF Replayed(v, w.first + i - 1)
                   THEN ApplyToMem(m[i - 1], w.first + i - 1, w.recs[i]) ELSE m[i - 1]
        BY <2>1, <4>1 DEF IsReplay
      <4> QED BY <4>1, <4>2, <4>3, Zenon
    <3>3. CASE i = j + 1
      <4>1. i # 0 /\ i - 1 = j /\ j # j + 1 /\ j \in 0 .. j + 1
        BY <3>3
      <4>2. g[j] = m[j]
        BY <4>1
      <4>3. g[i] = IF Replayed(v, w.first + i - 1)
                   THEN ApplyToMem(m[j], w.first + i - 1, w.recs[i]) ELSE m[j]
        BY <3>3
      <4> HIDE DEF g
      <4> QED BY <4>1, <4>2, <4>3, Zenon
    <3> QED BY <3>1, <3>2, <3>3
  <2>3. IsReplay(g, v, w, j + 1)
    <3>1. g = [i \in 0 .. j + 1 |-> g[i]]
      OBVIOUS
    <3> HIDE DEF g
    <3> QED BY <2>2, <3>1 DEF IsReplay
  <2>4. j + 1 \in Nat
    OBVIOUS
  <2> QED BY <2>3, <2>4
<1>3. S = Nat
  BY <1>1, <1>2, NatSetInduction
<1> QED BY <1>3

\* ReplayFirst is where one of them ends.
LEMMA ReplayFirstIs ==
    ASSUME NEW v, NEW w, NEW n \in Nat
    PROVE  \E m : IsReplay(m, v, w, n) /\ ReplayFirst(v, w, n) = m[n]
<1> DEFINE m == CHOOSE m : IsReplay(m, v, w, n)
<1>1. IsReplay(m, v, w, n)
  BY ReplayExists, Zenon
<1>2. ReplayFirst(v, w, n) = m[n]
  BY Zenon DEF ReplayFirst, IsReplay
<1> QED BY <1>1, <1>2

\* Replays of segments that agree on n records, by versions that agree on the
\* durable sequence, agree after them.
SameRecords(v, u, a, b, n) ==
    /\ u.durable = v.durable /\ a.first = b.first
    /\ \A i \in 1 .. n : a.recs[i] = b.recs[i]
\* By induction on i, one record at a time.
LEMMA ReplaysAgree ==
    ASSUME NEW v, NEW u, NEW a, NEW b, NEW n \in Nat, NEW m \in Nat, n <= m,
           SameRecords(v, u, a, b, n),
           NEW s, IsReplay(s, v, a, n), NEW t, IsReplay(t, u, b, m)
    PROVE  s[n] = t[n]
<1> DEFINE S == {i \in Nat : i <= n => s[i] = t[i]}
<1>1. 0 \in S
  BY DEF IsReplay
<1>2. ASSUME NEW i \in S PROVE i + 1 \in S
  <2>1. SUFFICES ASSUME i + 1 <= n PROVE s[i + 1] = t[i + 1]
    OBVIOUS
  <2>2. /\ i \in Nat /\ i + 1 \in 1 .. n /\ i + 1 \in 0 .. n /\ i + 1 \in 0 .. m
        /\ i + 1 # 0 /\ i + 1 - 1 = i
    BY <2>1
  <2>3. PICK seq : seq = a.first + (i + 1) - 1
    OBVIOUS
  <2>4. s[i + 1] = IF Replayed(v, seq) THEN ApplyToMem(s[i], seq, a.recs[i + 1]) ELSE s[i]
    BY <2>2, <2>3 DEF IsReplay
  <2>8. a.first = b.first
    BY DEF SameRecords
  <2>5. t[i + 1] = IF Replayed(u, seq) THEN ApplyToMem(t[i], seq, b.recs[i + 1]) ELSE t[i]
    BY <2>2, <2>3, <2>8 DEF IsReplay
  <2>6. s[i] = t[i] /\ a.recs[i + 1] = b.recs[i + 1]
    BY <2>1, <2>2 DEF SameRecords
  <2>7. Replayed(v, seq) = Replayed(u, seq)
    BY DEF Replayed, SameRecords
  <2> QED BY <2>4, <2>5, <2>6, <2>7
<1>3. S = Nat
  <2> HIDE DEF S
  <2> QED BY <1>1, <1>2, NatSetInduction DEF S
<1> QED BY <1>3

\* No record gives empty MemTables.
LEMMA ReplayNone ==
    ASSUME NEW v, NEW w
    PROVE  ReplayFirst(v, w, 0) = FreshMem
<1>1. PICK s : IsReplay(s, v, w, 0) /\ ReplayFirst(v, w, 0) = s[0]
  BY ReplayFirstIs
<1> QED BY <1>1 DEF IsReplay

\* The durable sequence and the first n records decide the MemTables.
LEMMA ReplaySame ==
    ASSUME NEW v, NEW u, NEW a, NEW b, NEW n \in Nat, SameRecords(v, u, a, b, n)
    PROVE  ReplayFirst(v, a, n) = ReplayFirst(u, b, n)
<1>1. PICK s : IsReplay(s, v, a, n) /\ ReplayFirst(v, a, n) = s[n]
  BY ReplayFirstIs
<1>2. PICK t : IsReplay(t, u, b, n) /\ ReplayFirst(u, b, n) = t[n]
  BY ReplayFirstIs
<1>3. s[n] = t[n]
  BY <1>1, <1>2, ReplaysAgree
<1> QED BY <1>1, <1>2, <1>3

\* One more record is skipped or applied.
LEMMA ReplayNext ==
    ASSUME NEW v, NEW w, NEW n \in Nat
    PROVE  ReplayFirst(v, w, n + 1) =
              IF Replayed(v, w.first + n)
              THEN ApplyToMem(ReplayFirst(v, w, n), w.first + n, w.recs[n + 1])
              ELSE ReplayFirst(v, w, n)
<1>1. PICK s : IsReplay(s, v, w, n) /\ ReplayFirst(v, w, n) = s[n]
  BY ReplayFirstIs
<1>2. PICK t : IsReplay(t, v, w, n + 1) /\ ReplayFirst(v, w, n + 1) = t[n + 1]
  BY ReplayFirstIs
<1>3. s[n] = t[n]
  <2>1. n <= n + 1 /\ n + 1 \in Nat /\ SameRecords(v, v, w, w, n)
    BY DEF SameRecords
  <2> QED BY <1>1, <1>2, <2>1, ReplaysAgree
<1>4. PICK seq : seq = w.first + (n + 1) - 1
  OBVIOUS
<1>5. t[n + 1] = IF Replayed(v, seq) THEN ApplyToMem(t[n], seq, w.recs[n + 1]) ELSE t[n]
  <2>1. n + 1 \in 0 .. n + 1 /\ n + 1 # 0 /\ n + 1 - 1 = n
    OBVIOUS
  <2> QED BY <1>2, <1>4, <2>1 DEF IsReplay
<1>6. w.first + (n + 1) - 1 = w.first + n
  OBVIOUS
<1> QED BY <1>1, <1>2, <1>3, <1>4, <1>5, <1>6

\* Replay gives MemTables whose frozen ones are in order.
LEMMA ReplayMem ==
    ASSUME NEW v, v.durable \in Nat, NEW w \in WalSegments, WalNext(w) <= MaxSequence,
           NEW n \in 0 .. Len(w.recs)
    PROVE  /\ ReplayFirst(v, w, n) \in MemSets
           /\ MemInv(ReplayFirst(v, w, n), v.durable, w.first + n)
           /\ w.first + n <= v.durable + 1 => ReplayFirst(v, w, n) = FreshMem
<1> DEFINE Good(i) == /\ ReplayFirst(v, w, i) \in MemSets
                      /\ MemInv(ReplayFirst(v, w, i), v.durable, w.first + i)
                      /\ w.first + i <= v.durable + 1 => ReplayFirst(v, w, i) = FreshMem
           S == {i \in Nat : i <= Len(w.recs) => Good(i)}
<1>1. /\ w.first \in 1 .. MaxSequence /\ Len(w.recs) \in Nat /\ w.recs \in Seq(Op)
      /\ WalNext(w) = w.first + Len(w.recs) /\ MaxSequence \in Nat
  BY WalNextIs, BoundsAssumption DEF WalSegments
<1>2. 0 \in S
  <2>1. w.first + 0 \in Nat
    BY <1>1
  <2> QED BY <2>1, ReplayNone, FreshMemIs
<1>3. ASSUME NEW i \in S PROVE i + 1 \in S
  <2>1. SUFFICES ASSUME i + 1 <= Len(w.recs) PROVE Good(i + 1)
    OBVIOUS
  <2>2. i \in Nat /\ Good(i)
    BY <1>1, <2>1
  <2>3. PICK seq : seq = w.first + i
    OBVIOUS
  <2>4. PICK mem : mem = ReplayFirst(v, w, i)
    OBVIOUS
  <2>5. PICK op : op = w.recs[i + 1]
    OBVIOUS
  <2>6. /\ seq \in 1 .. MaxSequence /\ op \in Op /\ seq \in Nat
        /\ w.first + (i + 1) = seq + 1
    <3>1. i + 1 \in 1 .. Len(w.recs)
      BY <1>1, <2>1, <2>2
    <3>2. w.recs[i + 1] \in Op
      BY <1>1, <3>1
    <3>3. w.first \in Nat /\ w.first >= 1 /\ w.first + i < WalNext(w)
      BY <1>1, <2>1, <2>2
    <3>4. w.first + i \in 1 .. MaxSequence
      BY <1>1, <2>2, <3>3
    <3> QED BY <1>1, <2>2, <2>3, <2>5, <3>2, <3>4
  <2>7. /\ mem \in MemSets /\ MemInv(mem, v.durable, seq)
        /\ seq <= v.durable + 1 => mem = FreshMem
    BY <2>2, <2>3, <2>4
  <2>8. ReplayFirst(v, w, i + 1) = IF Replayed(v, seq) THEN ApplyToMem(mem, seq, op) ELSE mem
    BY <2>2, <2>3, <2>4, <2>5, ReplayNext
  <2>9. CASE seq > v.durable
    <3>1. ReplayFirst(v, w, i + 1) = ApplyToMem(mem, seq, op)
      BY <2>8, <2>9 DEF Replayed
    <3>2. v.durable < seq
      BY <2>6, <2>9
    <3>3. ApplyToMem(mem, seq, op) \in MemSets
      BY <2>6, <2>7, ApplyToMemIs
    <3>4. MemInv(ApplyToMem(mem, seq, op), v.durable, seq + 1)
      BY <2>6, <2>7, <3>2, ApplyToMemOrder
    <3>5. ~(seq + 1 <= v.durable + 1)
      BY <2>6, <3>2
    <3> QED BY <2>6, <3>1, <3>3, <3>4, <3>5
  <2>10. CASE ~(seq > v.durable)
    <3>1. ReplayFirst(v, w, i + 1) = mem
      BY <2>8, <2>10 DEF Replayed
    <3>2. mem = FreshMem
      BY <2>6, <2>7, <2>10
    <3>3. MemInv(FreshMem, v.durable, seq + 1)
      BY <2>6, FreshMemIs
    <3> QED BY <2>6, <2>7, <3>1, <3>2, <3>3
  <2> QED BY <2>9, <2>10
<1>4. S = Nat
  <2> HIDE DEF S
  <2> QED BY <1>2, <1>3, NatSetInduction DEF S
<1>5. Good(n)
  BY <1>1, <1>4
<1> QED BY <1>5
-----------------------------------------------------------------------------
\* Version sets.

\* The maximum of a set with a greatest element.
LEMMA MaxEquals ==
    ASSUME NEW S \in SUBSET Nat, NEW m \in S, \A i \in S : i <= m
    PROVE  Max(S) = m
<1>1. \A i \in S : m >= i
  OBVIOUS
<1>2. Max(S) \in S /\ \A i \in S : Max(S) >= i
  BY <1>1, MaxIs, Zenon
<1>3. PICK x : x = Max(S)
  OBVIOUS
<1>4. x \in S /\ x >= m
  BY <1>2, <1>3
<1>5. x \in Nat /\ m \in Nat /\ x <= m
  BY <1>4
<1>6. x = m
  BY <1>4, <1>5
<1> QED BY <1>3, <1>6

\* What a version set says of a table.
Described == [id : Nat, level : {0, 1}, durable : Nat]

\* The parts of a version set.
LEMMA VersionParts ==
    ASSUME NEW v \in Versions
    PROVE  /\ v.gen \in Nat /\ v.manifest \in Nat /\ v.durable \in Nat /\ v.gc \in Nat
           /\ v.watermark \in Nat /\ v.wal \in Nat /\ v.first \in Nat
           /\ v.tables \in Seq(Described) /\ Len(v.tables) \in Nat
           /\ DOMAIN v.tables = 1 .. Len(v.tables)
           /\ \A i \in DOMAIN v.tables :
                 /\ v.tables[i] \in Described /\ v.tables[i].id \in Nat
                 /\ v.tables[i].level \in {0, 1} /\ v.tables[i].durable \in Nat
<1>1. /\ v.gen \in Nat /\ v.manifest \in Nat /\ v.durable \in Nat /\ v.gc \in Nat
      /\ v.watermark \in Nat /\ v.wal \in Nat /\ v.first \in Nat
      /\ v.tables \in Seq(Described)
  BY DEF Versions, Described
<1>2. \A i \in DOMAIN v.tables : v.tables[i] \in Described
  BY <1>1, SMTT(30)
<1> QED BY <1>1, <1>2 DEF Described

\* A version set, part by part.
LEMMA VersionBuilt ==
    ASSUME NEW gen \in Nat, NEW manifest \in Nat, NEW durable \in Nat, NEW gc \in Nat,
           NEW watermark \in Nat, NEW wal \in Nat, NEW first \in Nat,
           NEW ts \in Seq(Described)
    PROVE  [gen |-> gen, manifest |-> manifest, durable |-> durable, gc |-> gc,
            watermark |-> watermark, wal |-> wal, first |-> first, tables |-> ts] \in Versions
BY DEF Versions, Described

\* In a valid version set the last table is the most durable one.
LEMMA TablesDurable ==
    ASSUME NEW v \in Versions, ValidVersion(v), NEW i \in DOMAIN v.tables
    PROVE  v.tables[i].durable <= v.durable /\ v.tables[i].id <= v.watermark
<1>1. v.tables # << >>
  OBVIOUS
<1>2. /\ v.durable = v.tables[Len(v.tables)].durable
      /\ v.tables[i].id <= v.watermark
      /\ \A j, k \in DOMAIN v.tables : j < k => v.tables[j].durable < v.tables[k].durable
  BY <1>1 DEF ValidVersion
<1>3. /\ Len(v.tables) \in Nat /\ DOMAIN v.tables = 1 .. Len(v.tables)
      /\ \A j \in DOMAIN v.tables : v.tables[j].durable \in Nat
  BY VersionParts
<1>4. Len(v.tables) \in DOMAIN v.tables
  BY <1>3
<1>5. CASE i = Len(v.tables)
  BY <1>2, <1>3, <1>5
<1>6. CASE i < Len(v.tables)
  BY <1>2, <1>3, <1>4, <1>6
<1> QED BY <1>3, <1>5, <1>6

\* A flush.
LEMMA FlushAccepted ==
    ASSUME NEW v \in Versions, ValidVersion(v), NEW last \in Nat, v.durable < last,
           NEW mid \in Nat, NEW next,
           next = NextVersion(v, mid, last, v.gc, v.wal, v.first,
                              Append(v.tables, Descriptor(v.watermark + 1, 0, last)))
    PROVE  /\ next \in Versions /\ InstallAccepts(v, next)
           /\ next.gen = v.gen + 1 /\ next.manifest = mid /\ next.durable = last
           /\ next.watermark = v.watermark + 1 /\ next.wal = v.wal /\ next.first = v.first
           /\ next.tables = Append(v.tables, Descriptor(v.watermark + 1, 0, last))
<1>1. PICK id : id = v.watermark + 1
  OBVIOUS
<1>2. PICK d : d = Descriptor(id, 0, last)
  OBVIOUS
<1>3. PICK ts : ts = v.tables
  OBVIOUS
<1>4. PICK ds : ds = Append(ts, d)
  OBVIOUS
<1>5. /\ v.gen \in Nat /\ v.durable \in Nat /\ v.gc \in Nat
      /\ v.watermark \in Nat /\ v.wal \in Nat /\ v.first \in Nat /\ id \in Nat
      /\ ts \in Seq(Described) /\ Len(ts) \in Nat /\ DOMAIN ts = 1 .. Len(ts)
      /\ \A i \in DOMAIN ts : ts[i].id \in Nat /\ ts[i].durable \in Nat
  BY <1>1, <1>3, VersionParts
<1>6. /\ d.id = id /\ d.level = 0 /\ d.durable = last /\ d \in Described
  BY <1>2, <1>5 DEF Descriptor, Described
<1>7. /\ ds \in Seq(Described) /\ Len(ds) = Len(ts) + 1 /\ DOMAIN ds = 1 .. Len(ts) + 1
      /\ ds[Len(ts) + 1] = d /\ \A i \in DOMAIN ts : ds[i] = ts[i]
  BY <1>4, <1>5, <1>6
<1>8. next = NextVersion(v, mid, last, v.gc, v.wal, v.first, ds)
  BY <1>1, <1>2, <1>3, <1>4
<1>10. \A i \in DOMAIN ts : ts[i].durable <= v.durable /\ ts[i].id <= v.watermark
  BY <1>3, TablesDurable
<1>11. \A i \in DOMAIN ds : ds[i].id \in Nat /\ ds[i].id <= id
  <2> TAKE i \in DOMAIN ds
  <2>1. CASE i \in DOMAIN ts
    BY <1>1, <1>5, <1>7, <1>10, <2>1
  <2>2. CASE i = Len(ts) + 1
    BY <1>5, <1>6, <1>7, <2>2
  <2> QED BY <1>5, <1>7, <2>1, <2>2
<1>12. RaisedWatermark(v, {ds[i].id : i \in DOMAIN ds}) = id
  <2> DEFINE S == {ds[i].id : i \in DOMAIN ds} \cup {v.watermark}
  <2>1. S \in SUBSET Nat
    BY <1>5, <1>11
  <2>2. id \in S
    <3>1. Len(ts) + 1 \in DOMAIN ds /\ ds[Len(ts) + 1].id = id
      BY <1>5, <1>6, <1>7
    <3> QED BY <3>1
  <2>3. \A i \in S : i <= id
    BY <1>1, <1>5, <1>11
  <2>4. RaisedWatermark(v, {ds[i].id : i \in DOMAIN ds}) = Max(S)
    BY DEF RaisedWatermark
  <2> HIDE DEF S
  <2> QED BY <2>1, <2>2, <2>3, <2>4, MaxEquals
<1>13. /\ next = [gen |-> v.gen + 1, manifest |-> mid, durable |-> last, gc |-> v.gc,
                  watermark |-> id, wal |-> v.wal, first |-> v.first, tables |-> ds]
       /\ next \in Versions
  <2>1. next = [gen |-> v.gen + 1, manifest |-> mid, durable |-> last, gc |-> v.gc,
                watermark |-> id, wal |-> v.wal, first |-> v.first, tables |-> ds]
    BY <1>8, <1>12 DEF NextVersion
  <2>2. v.gen + 1 \in Nat /\ v.gc \in Nat /\ v.wal \in Nat /\ v.first \in Nat /\ id \in Nat
    <3>1. v.gen \in Nat /\ v.gc \in Nat /\ v.wal \in Nat /\ v.first \in Nat /\ id \in Nat
      BY <1>5, Zenon
    <3> QED BY <3>1
  <2>4. ds \in Seq(Described)
    BY <1>7, Zenon
  <2>3. [gen |-> v.gen + 1, manifest |-> mid, durable |-> last, gc |-> v.gc,
         watermark |-> id, wal |-> v.wal, first |-> v.first, tables |-> ds] \in Versions
    BY <2>2, <2>4, VersionBuilt
  <2> QED BY <2>1, <2>3, Zenon
<1>9. /\ next.gen = v.gen + 1 /\ next.manifest = mid /\ next.durable = last
      /\ next.gc = v.gc /\ next.wal = v.wal /\ next.first = v.first /\ next.tables = ds
      /\ next.watermark = id
  BY <1>13
<1>14. ValidVersion(next)
  <2>1. next.gc <= next.durable
    BY <1>5, <1>9 DEF ValidVersion
  <2>2. next.watermark > 0
    BY <1>1, <1>5, <1>9
  <2>3. next.first <= next.durable + 1
    <3>1. v.first <= v.durable + 1
      BY DEF ValidVersion
    <3> QED BY <1>5, <1>9, <3>1
  <2>4. {i \in DOMAIN ds : ds[i].level = 1} = {i \in DOMAIN ts : ts[i].level = 1}
    BY <1>5, <1>6, <1>7
  <2>5. Cardinality({i \in DOMAIN next.tables : next.tables[i].level = 1}) <= 1
    BY <1>3, <1>9, <2>4 DEF ValidVersion
  <2>6. \A i, j \in DOMAIN ds : i < j => ds[i].id < ds[j].id /\ ds[i].durable < ds[j].durable
    <3> SUFFICES ASSUME NEW i \in DOMAIN ds, NEW j \in DOMAIN ds, i < j
                 PROVE  ds[i].id < ds[j].id /\ ds[i].durable < ds[j].durable
      OBVIOUS
    <3>1. i \in DOMAIN ts
      BY <1>5, <1>7
    <3>2. CASE j \in DOMAIN ts
      BY <1>3, <1>7, <3>1, <3>2 DEF ValidVersion
    <3>3. CASE j = Len(ts) + 1
      BY <1>1, <1>5, <1>6, <1>7, <1>10, <3>1, <3>3
    <3> QED BY <1>5, <1>7, <3>2, <3>3, SMTT(30)
  <2>7. ds # << >> /\ ds[Len(ds)].durable = last
    BY <1>5, <1>6, <1>7
  <2>8. \A i, j \in DOMAIN next.tables : i < j =>
             /\ next.tables[i].id < next.tables[j].id
             /\ next.tables[i].durable < next.tables[j].durable
    BY <1>9, <2>6
  <2>9. next.tables # << >> /\ next.tables[Len(next.tables)].durable = next.durable
    BY <1>9, <2>7
  <2>10. \A i \in DOMAIN next.tables : next.tables[i].id <= next.watermark
    BY <1>9, <1>11
  <2> QED BY <2>1, <2>2, <2>3, <2>5, <2>8, <2>9, <2>10, Zenon DEF ValidVersion
<1> QED BY <1>1, <1>2, <1>3, <1>4, <1>5, <1>9, <1>13, <1>14 DEF InstallAccepts

\* A compaction that leaves nothing.
LEMMA EmptyCompactionAccepted ==
    ASSUME NEW v \in Versions, ValidVersion(v), NEW mid \in Nat, NEW next,
           next = NextVersion(v, mid, v.durable, v.durable, v.wal, v.first, << >>)
    PROVE  /\ next \in Versions /\ InstallAccepts(v, next)
           /\ next.gen = v.gen + 1 /\ next.manifest = mid /\ next.durable = v.durable
           /\ next.watermark = v.watermark /\ next.wal = v.wal /\ next.first = v.first
           /\ next.tables = << >>
<1>1. /\ v.gen \in Nat /\ v.durable \in Nat /\ v.gc \in Nat
      /\ v.watermark \in Nat /\ v.wal \in Nat /\ v.first \in Nat
  BY VersionParts
<1>2. PICK ds : ds = << >>
  OBVIOUS
<1>3. ds \in Seq(Described) /\ DOMAIN ds = {}
  BY <1>2
<1>4. RaisedWatermark(v, {ds[i].id : i \in DOMAIN ds}) = v.watermark
  <2>1. {ds[i].id : i \in DOMAIN ds} \cup {v.watermark} = {v.watermark}
    BY <1>3
  <2>2. {v.watermark} \in SUBSET Nat /\ v.watermark \in {v.watermark}
        /\ \A i \in {v.watermark} : i <= v.watermark
    BY <1>1
  <2>3. Max({v.watermark}) = v.watermark
    BY <2>2, MaxEquals
  <2> QED BY <2>1, <2>3 DEF RaisedWatermark
<1>5. next = [gen |-> v.gen + 1, manifest |-> mid, durable |-> v.durable, gc |-> v.durable,
              watermark |-> v.watermark, wal |-> v.wal, first |-> v.first, tables |-> ds]
  BY <1>2, <1>4 DEF NextVersion
<1>6. next \in Versions
  <2>1. v.gen + 1 \in Nat
    BY <1>1
  <2>2. [gen |-> v.gen + 1, manifest |-> mid, durable |-> v.durable, gc |-> v.durable,
         watermark |-> v.watermark, wal |-> v.wal, first |-> v.first, tables |-> ds] \in Versions
    <3>1. ds \in Seq(Described)
      BY <1>3
    <3> QED BY <1>1, <2>1, <3>1, VersionBuilt
  <2> QED BY <1>5, <2>2, Zenon
<1>7. /\ next.gen = v.gen + 1 /\ next.manifest = mid /\ next.durable = v.durable
      /\ next.gc = v.durable /\ next.watermark = v.watermark /\ next.wal = v.wal
      /\ next.first = v.first /\ next.tables = ds
  BY <1>5, SMTT(30)
<1>8. ValidVersion(next)
  <2>1. (v.durable > 0 => v.watermark > 0) /\ v.first <= v.durable + 1
    BY DEF ValidVersion
  <2>2. Cardinality({i \in DOMAIN ds : ds[i].level = 1}) = 0
    <3>1. {i \in DOMAIN ds : ds[i].level = 1} = {}
      BY <1>3
    <3> QED BY <3>1, FS_EmptySet
  <2>3. /\ next.gc <= next.durable /\ (next.durable > 0 => next.watermark > 0)
        /\ next.first <= next.durable + 1
    BY <1>1, <1>7, <2>1
  <2>4. Cardinality({i \in DOMAIN next.tables : next.tables[i].level = 1}) <= 1
    <3>1. next.tables = ds
      BY <1>7
    <3>2. Cardinality({i \in DOMAIN ds : ds[i].level = 1}) <= 1
      BY <2>2
    <3> QED BY <3>1, <3>2
  <2>5. next.tables = << >> /\ next.durable = next.gc
    BY <1>2, <1>7
  <2> QED BY <1>3, <1>7, <2>3, <2>4, <2>5, Zenon DEF ValidVersion
<1>9. v.gc <= v.durable
  BY DEF ValidVersion
<1> QED BY <1>1, <1>2, <1>6, <1>7, <1>8, <1>9 DEF InstallAccepts

\* A compaction into one table.
LEMMA CompactionAccepted ==
    ASSUME NEW v \in Versions, ValidVersion(v), NEW mid \in Nat, NEW next,
           next = NextVersion(v, mid, v.durable, v.durable, v.wal, v.first,
                              <<Descriptor(v.watermark + 1, 1, v.durable)>>)
    PROVE  /\ next \in Versions /\ InstallAccepts(v, next)
           /\ next.gen = v.gen + 1 /\ next.manifest = mid /\ next.durable = v.durable
           /\ next.watermark = v.watermark + 1 /\ next.wal = v.wal /\ next.first = v.first
           /\ next.tables = <<Descriptor(v.watermark + 1, 1, v.durable)>>
<1>1. /\ v.gen \in Nat /\ v.durable \in Nat /\ v.gc \in Nat
      /\ v.watermark \in Nat /\ v.wal \in Nat /\ v.first \in Nat
  BY VersionParts
<1>2. PICK d : d = Descriptor(v.watermark + 1, 1, v.durable)
  OBVIOUS
<1>3. d.id = v.watermark + 1 /\ d.level = 1 /\ d.durable = v.durable /\ d \in Described
  BY <1>1, <1>2 DEF Descriptor, Described
<1>4. PICK ds : ds = <<d>>
  OBVIOUS
<1>5. ds \in Seq(Described) /\ DOMAIN ds = {1} /\ ds[1] = d /\ Len(ds) = 1 /\ ds # << >>
  BY <1>3, <1>4
<1>6. RaisedWatermark(v, {ds[i].id : i \in DOMAIN ds}) = v.watermark + 1
  <2> DEFINE S == {v.watermark + 1, v.watermark}
  <2>1. {ds[i].id : i \in DOMAIN ds} \cup {v.watermark} = S
    BY <1>3, <1>5
  <2>2. S \in SUBSET Nat /\ v.watermark + 1 \in S /\ \A i \in S : i <= v.watermark + 1
    BY <1>1
  <2> HIDE DEF S
  <2>3. Max(S) = v.watermark + 1
    BY <2>2, MaxEquals
  <2> QED BY <2>1, <2>3 DEF RaisedWatermark
<1>7. next = [gen |-> v.gen + 1, manifest |-> mid, durable |-> v.durable, gc |-> v.durable,
              watermark |-> v.watermark + 1, wal |-> v.wal, first |-> v.first, tables |-> ds]
  BY <1>2, <1>4, <1>6 DEF NextVersion
<1>8. next \in Versions
  <2>1. v.gen + 1 \in Nat /\ v.watermark + 1 \in Nat
    <3>1. v.gen \in Nat /\ v.watermark \in Nat
      BY <1>1, Zenon
    <3> QED BY <3>1
  <2>2. [gen |-> v.gen + 1, manifest |-> mid, durable |-> v.durable, gc |-> v.durable,
         watermark |-> v.watermark + 1, wal |-> v.wal, first |-> v.first, tables |-> ds]
           \in Versions
    BY <1>1, <1>5, <2>1, VersionBuilt
  <2> QED BY <1>7, <2>2, Zenon
<1>9. /\ next.gen = v.gen + 1 /\ next.manifest = mid /\ next.durable = v.durable
      /\ next.gc = v.durable /\ next.watermark = v.watermark + 1 /\ next.wal = v.wal
      /\ next.first = v.first /\ next.tables = ds
  BY <1>7
<1>10. ValidVersion(next)
  <2>1. v.first <= v.durable + 1
    BY DEF ValidVersion
  <2>2. Cardinality({i \in DOMAIN ds : ds[i].level = 1}) = 1
    <3>1. {i \in DOMAIN ds : ds[i].level = 1} = {1}
      BY <1>3, <1>5
    <3> QED BY <3>1, FS_Singleton
  <2>3. \A i, j \in DOMAIN ds : ~(i < j)
    BY <1>5
  <2>4. \A i \in DOMAIN ds : ds[i].id <= v.watermark + 1
    BY <1>1, <1>3, <1>5
  <2>5. /\ next.gc <= next.durable /\ next.watermark > 0
        /\ next.first <= next.durable + 1
    BY <1>1, <1>9, <2>1
  <2>6. Cardinality({i \in DOMAIN next.tables : next.tables[i].level = 1}) <= 1
    <3>1. next.tables = ds
      BY <1>9
    <3>2. Cardinality({i \in DOMAIN ds : ds[i].level = 1}) <= 1
      BY <2>2
    <3> QED BY <3>1, <3>2
  <2>7. /\ next.tables # << >> /\ next.durable = next.tables[Len(next.tables)].durable
        /\ \A i \in DOMAIN next.tables : next.tables[i].id <= next.watermark
        /\ \A i, j \in DOMAIN next.tables : ~(i < j)
    BY <1>3, <1>5, <1>9, <2>3, <2>4
  <2> QED BY <2>5, <2>6, <2>7, Zenon DEF ValidVersion
<1>11. v.gc <= v.durable
  BY DEF ValidVersion
<1> QED BY <1>1, <1>2, <1>4, <1>8, <1>9, <1>10, <1>11 DEF InstallAccepts

\* A rotation.
LEMMA RotationAccepted ==
    ASSUME NEW v \in Versions, ValidVersion(v), NEW mid \in Nat, NEW wal \in Nat, NEW next,
           next = NextVersion(v, mid, v.durable, v.gc, wal, v.durable + 1, v.tables)
    PROVE  /\ next \in Versions /\ InstallAccepts(v, next)
           /\ next.gen = v.gen + 1 /\ next.manifest = mid /\ next.durable = v.durable
           /\ next.watermark = v.watermark /\ next.wal = wal /\ next.first = v.durable + 1
           /\ next.tables = v.tables
<1>1. /\ v.gen \in Nat /\ v.durable \in Nat /\ v.gc \in Nat
      /\ v.watermark \in Nat /\ v.wal \in Nat /\ v.first \in Nat
      /\ v.tables \in Seq(Described) /\ \A i \in DOMAIN v.tables : v.tables[i].id \in Nat
  BY VersionParts
<1>2. PICK ds : ds = v.tables
  OBVIOUS
<1>3. RaisedWatermark(v, {ds[i].id : i \in DOMAIN ds}) = v.watermark
  <2> DEFINE S == {ds[i].id : i \in DOMAIN ds} \cup {v.watermark}
  <2>1. S \in SUBSET Nat /\ v.watermark \in S
    BY <1>1, <1>2
  <2>2. \A i \in S : i <= v.watermark
    BY <1>1, <1>2, TablesDurable
  <2> HIDE DEF S
  <2>3. Max(S) = v.watermark
    BY <2>1, <2>2, MaxEquals
  <2> QED BY <2>3 DEF RaisedWatermark, S
<1>4. next = [gen |-> v.gen + 1, manifest |-> mid, durable |-> v.durable, gc |-> v.gc,
              watermark |-> v.watermark, wal |-> wal, first |-> v.durable + 1, tables |-> ds]
  BY <1>2, <1>3 DEF NextVersion
<1>5. next \in Versions
  <2>1. v.gen + 1 \in Nat /\ v.durable + 1 \in Nat
    <3>1. v.gen \in Nat /\ v.durable \in Nat
      BY <1>1, Zenon
    <3> QED BY <3>1
  <2>2. [gen |-> v.gen + 1, manifest |-> mid, durable |-> v.durable, gc |-> v.gc,
         watermark |-> v.watermark, wal |-> wal, first |-> v.durable + 1, tables |-> ds]
           \in Versions
    BY <1>1, <1>2, <2>1, VersionBuilt, Zenon
  <2> QED BY <1>4, <2>2, Zenon
<1>6. /\ next.gen = v.gen + 1 /\ next.manifest = mid /\ next.durable = v.durable
      /\ next.gc = v.gc /\ next.watermark = v.watermark /\ next.wal = wal
      /\ next.first = v.durable + 1 /\ next.tables = ds
  BY <1>4
<1>7. ValidVersion(next)
  <2>1. /\ v.gc <= v.durable /\ (v.durable > 0 => v.watermark > 0)
        /\ Cardinality({i \in DOMAIN v.tables : v.tables[i].level = 1}) <= 1
        /\ \A i, j \in DOMAIN v.tables : i < j => /\ v.tables[i].id < v.tables[j].id
                                                  /\ v.tables[i].durable < v.tables[j].durable
        /\ \A i \in DOMAIN v.tables : v.tables[i].id <= v.watermark
        /\ v.durable = IF v.tables = << >> THEN v.gc ELSE v.tables[Len(v.tables)].durable
    BY DEF ValidVersion
  <2>2. next.tables = v.tables
    BY <1>2, <1>6
  <2>3. next.gc = v.gc /\ next.durable = v.durable /\ next.watermark = v.watermark
    BY <1>6
  <2>31. next.first <= next.durable + 1
    BY <1>1, <1>6, SMTT(30)
  <2>4. Cardinality({i \in DOMAIN next.tables : next.tables[i].level = 1}) <= 1
    BY <2>1, <2>2
  <2> QED BY <2>1, <2>2, <2>3, <2>31, <2>4, Zenon DEF ValidVersion
<1> QED BY <1>1, <1>2, <1>5, <1>6, <1>7 DEF InstallAccepts
-----------------------------------------------------------------------------
\* What the actions have in common.

\* The fields of a handle.
LEMMA HandleParts ==
    ASSUME NEW g \in Handles
    PROVE  /\ g.version \in Versions /\ g.mem \in MemSets
           /\ g.tabs \in Seq(Tables)
           /\ g.nextTable \in Nat /\ g.nextManifest \in Nat /\ g.nextWal \in Nat
           /\ g = [version |-> g.version, tabs |-> g.tabs, mem |-> g.mem,
                   nextTable |-> g.nextTable, nextManifest |-> g.nextManifest,
                   nextWal |-> g.nextWal]
BY DEF Handles, MemSets

\* And those together.
LEMMA HandleBuilt ==
    ASSUME NEW v \in Versions, NEW tabs \in Seq(Tables),
           NEW mem \in MemSets,
           NEW nextTable \in Nat, NEW nextManifest \in Nat, NEW nextWal \in Nat
    PROVE  [version |-> v, tabs |-> tabs, mem |-> mem, nextTable |-> nextTable,
            nextManifest |-> nextManifest, nextWal |-> nextWal] \in Handles
BY DEF Handles, MemSets

\* A call that gives up leaves neither handle nor job.
LEMMA GiveUpInv ==
    ASSUME LsmInv, h # NoHandle, GiveUp, acked' = acked, exists' = exists
    PROVE  HandleInv' /\ JobInv' /\ StepInv'
<1>1. /\ h' = NoHandle /\ step' = "idle" /\ job' = NoJob
      /\ pending' = inflight /\ inflight' = {}
      /\ faults < MaxFaults /\ faults' = faults + 1
  BY DEF GiveUp
<1>2. HandleInv'
  BY <1>1 DEF HandleInv
<1>3. JobInv'
  BY <1>1 DEF JobInv, NoJob
<1>4. faults' \in 0 .. MaxFaults
  <2>1. faults \in 0 .. MaxFaults /\ MaxFaults \in Nat
    BY BoundsAssumption DEF LsmInv, StepInv
  <2> QED BY <1>1, <2>1
<1>5. acked' \in Map /\ inflight' \in {{}} \cup {{op} : op \in Op}
      /\ pending' \in {{}} \cup {{op} : op \in Op}
  BY <1>1 DEF LsmInv, StepInv
<1>6. exists'
  BY DEF LsmInv, HandleInv
<1>7. StepInv'
  BY <1>1, <1>4, <1>5, <1>6 DEF StepInv, Between
<1> QED BY <1>2, <1>3, <1>7

\* Frozen tables below one sequence number are below a later one.
LEMMA MemInvWider ==
    ASSUME NEW mem \in MemSets, NEW low \in Nat, NEW next \in Nat, NEW later \in Nat,
           MemInv(mem, low, next), next <= later
    PROVE  MemInv(mem, low, later)
<1>1. \A i \in DOMAIN mem.immutable : mem.immutable[i].last \in Nat
  <2>1. mem.immutable \in Seq(MemTables)
    BY DEF MemSets
  <2>2. \A i \in DOMAIN mem.immutable : mem.immutable[i] \in MemTables
    BY <2>1
  <2> QED BY <2>2 DEF MemTables
<1>2. \A i \in DOMAIN mem.immutable :
         low < mem.immutable[i].last /\ mem.immutable[i].last < next
  BY DEF MemInv
<1>3. \A i \in DOMAIN mem.immutable : mem.immutable[i].last < later
  BY <1>1, <1>2
<1> QED BY <1>2, <1>3 DEF MemInv

\* It stays good while the disk only grows.
LEMMA HandleStays ==
    ASSUME DiskInv, DiskInv', Grown, NEW g, GoodHandle(g)
    PROVE  GoodHandle(g)'
<1>1. /\ g \in Handles /\ ValidVersion(g.version) /\ FilesOf(g.version)
      /\ g.nextTable = g.version.watermark + 1
      /\ MemInv(g.mem, g.version.durable, WalNext(wals[g.version.wal]))
  BY DEF GoodHandle
<1>2. PICK v : v = g.version
  OBVIOUS
<1>3. v \in Versions /\ g.mem \in MemSets /\ v.durable \in Nat
  BY <1>1, <1>2, HandleParts, VersionParts
<1>4. FilesOf(v)'
  BY <1>1, <1>2, <1>3, GrownFiles
<1>5. v.wal \in DOMAIN wals /\ wals[v.wal] # Torn
  BY <1>1, <1>2 DEF FilesOf, Complete
<1>6. /\ WalNext(wals[v.wal]) \in Nat /\ WalNext(wals'[v.wal]) \in Nat
      /\ WalNext(wals[v.wal]) <= WalNext(wals'[v.wal])
  <2>1. v.wal \in DOMAIN wals' /\ wals'[v.wal] # Torn
        /\ WalNext(wals[v.wal]) <= WalNext(wals'[v.wal])
    BY <1>5 DEF Grown
  <2>2. wals \in Files(WalSegments) /\ wals' \in Files(WalSegments)
    BY DEF DiskInv
  <2>3. wals[v.wal] \in WalSegments /\ wals'[v.wal] \in WalSegments
    BY <1>5, <2>1, <2>2, WholeFile
  <2> QED BY <2>1, <2>3, WalNextIs
<1>7. MemInv(g.mem, v.durable, WalNext(wals'[v.wal]))
  BY <1>1, <1>2, <1>3, <1>6, MemInvWider
<1> QED BY <1>1, <1>2, <1>4, <1>7 DEF GoodHandle

\* The version set of the handle stays the one on disk.
LEMMA InstalledStays ==
    ASSUME InstalledInv, Grown, h'.version = h.version, current' = current,
           step # "mirror", step' # "initCurrent"
    PROVE  InstalledInv'
<1>1. h.version.manifest \in DOMAIN manifests
  BY DEF InstalledInv, Complete
<1>2. h.version.manifest \in DOMAIN manifests'
      /\ manifests'[h.version.manifest] = manifests[h.version.manifest]
  BY <1>1 DEF Grown
<1> QED BY <1>2 DEF InstalledInv, Complete
-----------------------------------------------------------------------------
\* The initial state, and the creation of the directory.

\* Nothing is on disk and nobody runs.
LEMMA InitInv == Init => LsmInv
<1> SUFFICES ASSUME Init PROVE LsmInv
  OBVIOUS
<1>1. << >> \in Files(WalSegments) /\ << >> \in Files(SortedTables) /\ << >> \in Files(Versions)
  <2>1. ASSUME NEW C PROVE << >> \in Files(C)
    <3>1. PICK e : e = << >>
      OBVIOUS
    <3>2. e \in [1 .. 0 -> C]
      BY <3>1, EmptySeq, LenProperties
    <3>3. 1 .. 0 = {}
      OBVIOUS
    <3>4. e \in [{} -> C]
      BY <3>2, <3>3, Zenon
    <3>5. DOMAIN e = {} /\ e = [i \in DOMAIN e |-> e[i]]
      BY <3>4, Zenon
    <3>6. DOMAIN e \subseteq Nat \ {0} /\ \A i \in DOMAIN e : e[i] \in C \cup {Torn}
      BY <3>5
    <3>7. e \in Files(C)
      BY <3>5, <3>6, FilesMembers, Zenon
    <3> QED BY <3>1, <3>7, Zenon
  <2> QED BY <2>1
<1>2. DOMAIN << >> = {}
  OBVIOUS
<1>3. /\ exists = FALSE /\ wals = << >> /\ tables = << >> /\ manifests = << >>
      /\ current = NoCurrent /\ high = [table |-> 0, manifest |-> 0, wal |-> 0]
  BY DEF Init
<1>4. /\ high.table = 0 /\ high.manifest = 0 /\ high.wal = 0
      /\ high \in [table : Nat, manifest : Nat, wal : Nat]
  BY <1>3
<1>5. DOMAIN wals = {} /\ DOMAIN tables = {} /\ DOMAIN manifests = {}
  BY <1>2, <1>3
<1>6. wals \in Files(WalSegments) /\ tables \in Files(SortedTables)
      /\ manifests \in Files(Versions)
  BY <1>1, <1>3
<1>7. DiskInv
  BY <1>3, <1>4, <1>5, <1>6 DEF DiskInv
<1>8. ContentInv /\ SlotsInv /\ HandleInv /\ JobInv
  BY <1>3, <1>5 DEF Init, ContentInv, SlotsInv, HandleInv, JobInv
<1>9. StepInv
  <2>1. acked \in Map
    BY DEF Init, EmptyMap, Map, Entry
  <2>2. faults \in 0 .. MaxFaults
    BY BoundsAssumption DEF Init
  <2> QED BY <2>1, <2>2 DEF Init, StepInv, Between
<1> QED BY <1>7, <1>8, <1>9 DEF LsmInv

\* The version set of a new directory.
LEMMA BaseVersionIs ==
    ASSUME NEW id \in Nat
    PROVE  /\ BaseVersion(id) \in Versions /\ ValidVersion(BaseVersion(id))
           /\ BaseVersion(id).gen = 0 /\ BaseVersion(id).manifest = id
           /\ BaseVersion(id).durable = 0 /\ BaseVersion(id).gc = 0
           /\ BaseVersion(id).watermark = 0 /\ BaseVersion(id).wal = 1
           /\ BaseVersion(id).first = 1 /\ BaseVersion(id).tables = << >>
<1>1. PICK v : v = BaseVersion(id)
  OBVIOUS
<1>2. PICK ds : ds = << >>
  OBVIOUS
<1>3. ds \in Seq(Described) /\ DOMAIN ds = {}
  BY <1>2
<1>4. v = [gen |-> 0, manifest |-> id, durable |-> 0, gc |-> 0, watermark |-> 0,
           wal |-> 1, first |-> 1, tables |-> ds]
  BY <1>1, <1>2 DEF BaseVersion
<1>5. v \in Versions
  <2>1. 0 \in Nat /\ 1 \in Nat
    OBVIOUS
  <2> QED BY <1>3, <1>4, <2>1, VersionBuilt
<1>6. /\ v.gen = 0 /\ v.manifest = id /\ v.durable = 0 /\ v.gc = 0 /\ v.watermark = 0
      /\ v.wal = 1 /\ v.first = 1 /\ v.tables = ds
  BY <1>4
<1>7. ValidVersion(v)
  <2>1. Cardinality({i \in DOMAIN v.tables : v.tables[i].level = 1}) = 0
    <3>1. {i \in DOMAIN v.tables : v.tables[i].level = 1} = {}
      BY <1>3, <1>6
    <3> QED BY <3>1, FS_EmptySet
  <2>2. v.tables = << >>
    BY <1>2, <1>6
  <2> QED BY <1>3, <1>6, <2>1, <2>2 DEF ValidVersion
<1> QED BY <1>1, <1>2, <1>5, <1>6, <1>7

\* A new segment.
LEMMA FreshWalIs ==
    ASSUME NEW first \in 1 .. MaxSequence
    PROVE  /\ FreshWal(first) \in WalSegments /\ FreshWal(first).first = first
           /\ FreshWal(first).recs = << >> /\ WalNext(FreshWal(first)) = first
<1>1. MaxSequence \in Nat
  BY BoundsAssumption
<1>2. FreshWal(first) \in WalSegments
  BY DEF FreshWal, WalSegments
<1> QED BY <1>1, <1>2 DEF FreshWal, WalNext

\* The files of a new directory, with any outcome of its writes.
LEMMA CreationInv ==
    ASSUME LsmInv, ~exists, exists' = TRUE, tables' = tables,
           NEW walOutcome \in Outcomes, NEW manifestOutcome \in Outcomes,
           wals' = WithFile(wals, 1, FreshWal(1), walOutcome),
           manifests' = WithFile(manifests, 1, BaseVersion(1), manifestOutcome),
           high' = [high EXCEPT !.manifest = IF manifestOutcome = "none" THEN 0 ELSE 1,
                                !.wal = IF walOutcome = "none" THEN 0 ELSE 1],
           \/ current' = NoCurrent
           \/ current' = BothSlots(Torn)
           \/ /\ current' = BothSlots(Slot(0, 1))
              /\ walOutcome \in {"done", "whole"} /\ manifestOutcome \in {"done", "whole"}
    PROVE  /\ DiskInv' /\ ContentInv' /\ SlotsInv'
           /\ h = NoHandle /\ step = "idle" /\ job = NoJob
           /\ high' = [table |-> 0, manifest |-> IF manifestOutcome = "none" THEN 0 ELSE 1,
                       wal |-> IF walOutcome = "none" THEN 0 ELSE 1]
           /\ walOutcome \in {"done", "whole"} =>
                 DOMAIN wals' = {1} /\ wals'[1] = FreshWal(1)
           /\ manifestOutcome \in {"done", "whole"} =>
                 DOMAIN manifests' = {1} /\ manifests'[1] = BaseVersion(1)
           /\ current' = BothSlots(Slot(0, 1)) => FilesOf(BaseVersion(1))'
<1>1. /\ DiskInv /\ ContentInv /\ high \in [table : Nat, manifest : Nat, wal : Nat]
      /\ high.wal = 0 /\ high.manifest = 0 /\ current = NoCurrent /\ high.table = 0
  BY DEF LsmInv, DiskInv
<1>2. h = NoHandle /\ step = "idle" /\ job = NoJob
  <2>1. h = NoHandle
    BY DEF LsmInv, HandleInv
  <2> QED BY <2>1 DEF LsmInv, StepInv, Between
<1>3. wals \in Files(WalSegments) /\ manifests \in Files(Versions)
      /\ tables \in Files(SortedTables)
  BY <1>1 DEF DiskInv
<1>4. DOMAIN wals = {} /\ DOMAIN manifests = {} /\ DOMAIN tables = {}
  <2>1. /\ \A i \in DOMAIN wals : i <= 0
        /\ \A i \in DOMAIN manifests : i <= 0
        /\ \A i \in DOMAIN tables : i <= 0
    BY <1>1 DEF DiskInv
  <2>2. /\ DOMAIN wals \subseteq Nat \ {0} /\ DOMAIN manifests \subseteq Nat \ {0}
        /\ DOMAIN tables \subseteq Nat \ {0}
    BY <1>3, FilesMembers
  <2>3. \A i \in Nat \ {0} : ~(i <= 0)
    OBVIOUS
  <2> QED BY <2>1, <2>2, <2>3
<1>5. 1 \in 1 .. MaxSequence /\ 1 <= MaxSequence
  BY BoundsAssumption
<1>6. /\ FreshWal(1) \in WalSegments /\ FreshWal(1).first = 1
      /\ WalNext(FreshWal(1)) = 1 /\ FreshWal(1) # Torn
  BY <1>5, FreshWalIs, TornIsNoContent
<1>7. PICK v : v = BaseVersion(1)
  OBVIOUS
<1>8. /\ v \in Versions /\ ValidVersion(v) /\ v.gen = 0 /\ v.manifest = 1
      /\ v.durable = 0 /\ v.watermark = 0 /\ v.wal = 1 /\ v.first = 1
      /\ v.tables = << >> /\ v # Torn
  BY <1>7, BaseVersionIs, TornIsNoContent
<1>9. 1 \in Nat \ {0}
  OBVIOUS
<1>10. /\ wals' \in Files(WalSegments)
       /\ walOutcome = "none" => DOMAIN wals' = {}
       /\ walOutcome # "none" => DOMAIN wals' = {1}
       /\ walOutcome \in {"done", "whole"} => wals'[1] = FreshWal(1)
       /\ walOutcome = "torn" => wals'[1] = Torn
  <2>1. wals' \in Files(WalSegments) /\ Added(wals, 1, FreshWal(1), walOutcome, wals')
    BY <1>3, <1>6, <1>9, WithFileIs
  <2> QED BY <1>4, <2>1 DEF Added
<1>11. /\ manifests' \in Files(Versions)
       /\ manifestOutcome = "none" => DOMAIN manifests' = {}
       /\ manifestOutcome # "none" => DOMAIN manifests' = {1}
       /\ manifestOutcome \in {"done", "whole"} => manifests'[1] = v
       /\ manifestOutcome = "torn" => manifests'[1] = Torn
  <2>1. manifests' \in Files(Versions) /\ Added(manifests, 1, v, manifestOutcome, manifests')
    BY <1>3, <1>7, <1>8, <1>9, WithFileIs
  <2> QED BY <1>4, <2>1 DEF Added
<1>12. high' = [table |-> 0, manifest |-> IF manifestOutcome = "none" THEN 0 ELSE 1,
                wal |-> IF walOutcome = "none" THEN 0 ELSE 1]
  BY <1>1
<1>13. /\ high' \in [table : Nat, manifest : Nat, wal : Nat] /\ high'.table = 0
       /\ high'.manifest = IF manifestOutcome = "none" THEN 0 ELSE 1
       /\ high'.wal = IF walOutcome = "none" THEN 0 ELSE 1
  <2>1. PICK m : m = IF manifestOutcome = "none" THEN 0 ELSE 1
    OBVIOUS
  <2>2. PICK w : w = IF walOutcome = "none" THEN 0 ELSE 1
    OBVIOUS
  <2>3. m \in Nat /\ w \in Nat
    BY <2>1, <2>2
  <2>4. PICK g : g = high'
    OBVIOUS
  <2>5. g = [table |-> 0, manifest |-> m, wal |-> w]
    BY <1>12, <2>1, <2>2, <2>4, Zenon
  <2>6. /\ g \in [table : Nat, manifest : Nat, wal : Nat]
        /\ g.table = 0 /\ g.manifest = m /\ g.wal = w
    BY <2>3, <2>5
  <2> QED BY <2>1, <2>2, <2>4, <2>6
<1>14. Slot(0, 1) \in Slots /\ Slot(0, 1).gen = 0 /\ Slot(0, 1).manifest = 1
       /\ Slot(0, 1) # Torn
  <2>1. Slot(0, 1) \in Slots
    BY DEF Slot, Slots
  <2> QED BY <2>1, TornIsNoContent DEF Slot
<1>15. current' \in {NoCurrent} \cup [{0, 1} -> Slots \cup {Torn}]
  BY <1>14 DEF BothSlots
<1>16. DiskInv'
  <2>1. /\ \A i \in DOMAIN tables' : i <= high'.table
        /\ \A i \in DOMAIN manifests' : i <= high'.manifest
        /\ \A i \in DOMAIN wals' : i <= high'.wal
        /\ high'.wal # 0 => high'.wal \in DOMAIN wals'
        /\ high'.manifest # 0 => high'.manifest \in DOMAIN manifests'
    BY <1>4, <1>10, <1>11, <1>13
  <2> QED BY <1>3, <1>10, <1>11, <1>13, <1>15, <2>1 DEF DiskInv
<1>17. ContentInv'
  <2>1. \A i \in DOMAIN wals' : wals'[i] # Torn => WalNext(wals'[i]) <= MaxSequence
    BY <1>5, <1>6, <1>10 DEF Outcomes
  <2>2. \A i \in DOMAIN manifests' : manifests'[i] # Torn =>
           ValidVersion(manifests'[i]) /\ manifests'[i].gen = 0 /\ manifests'[i].manifest = i
    BY <1>8, <1>11 DEF Outcomes
  <2> QED BY <2>1, <2>2 DEF ContentInv
<1>18. ASSUME current' = BothSlots(Slot(0, 1)), current' # NoCurrent, current' # BothSlots(Torn)
       PROVE  FilesOf(v)' /\ SlotsInv'
  <2>1. walOutcome \in {"done", "whole"} /\ manifestOutcome \in {"done", "whole"}
    BY <1>18
  <2>2. /\ DOMAIN wals' = {1} /\ wals'[1] = FreshWal(1)
        /\ DOMAIN manifests' = {1} /\ manifests'[1] = v
    BY <1>10, <1>11, <2>1
  <2>3. FilesOf(v)'
    <3>1. DOMAIN v.tables = {}
      BY <1>8
    <3>2. v.wal \in DOMAIN wals' /\ wals'[v.wal] # Torn /\ wals'[v.wal].first = v.first
          /\ v.durable < WalNext(wals'[v.wal])
      BY <1>6, <1>8, <2>2
    <3> QED BY <3>1, <3>2 DEF FilesOf, Complete
  <2>4. PICK c : c = Slot(0, 1)
    OBVIOUS
  <2>5. c.manifest = 1 /\ c.gen = 0
    BY <1>14, <2>4
  <2>6. GoodSlot(c)'
    <3>1. Complete(manifests, c.manifest)'
      BY <1>8, <2>2, <2>5 DEF Complete
    <3>2. FilesOf(manifests[c.manifest])'
      BY <2>2, <2>3, <2>5
    <3>3. (high.table <= manifests[c.manifest].watermark)'
      BY <1>8, <1>13, <2>2, <2>5
    <3> QED BY <3>1, <3>2, <3>3 DEF GoodSlot
  <2>7. current'[0] = c /\ current'[1] = c
    BY <1>18, <2>4 DEF BothSlots
  <2>8. \A s \in {0, 1} : 1 - s \in {0, 1}
    OBVIOUS
  <2> QED BY <2>3, <2>5, <2>6, <2>7, <2>8 DEF SlotsInv
<1>19. BothSlots(Slot(0, 1)) # NoCurrent /\ BothSlots(Slot(0, 1)) # BothSlots(Torn)
       /\ BothSlots(Torn) # NoCurrent
  <2>1. /\ BothSlots(Slot(0, 1)) \in [{0, 1} -> Slots \cup {Torn}]
        /\ BothSlots(Torn) \in [{0, 1} -> Slots \cup {Torn}]
    BY <1>14 DEF BothSlots
  <2>2. BothSlots(Slot(0, 1))[0] # BothSlots(Torn)[0]
    BY <1>14 DEF BothSlots
  <2> QED BY <2>1, <2>2, NoCurrentIsNotWritten
<1>20. SlotsInv'
  <2>1. CASE current' = NoCurrent
    BY <2>1 DEF SlotsInv
  <2>2. CASE current' = BothSlots(Torn)
    <3>1. current'[0] = Torn /\ current'[1] = Torn
      BY <2>2 DEF BothSlots
    <3> QED BY <3>1 DEF SlotsInv
  <2>3. CASE current' = BothSlots(Slot(0, 1))
    BY <1>18, <1>19, <2>3
  <2> QED BY <2>1, <2>2, <2>3
<1>21. current' = BothSlots(Slot(0, 1)) => FilesOf(v)'
  BY <1>18, <1>19
<1> QED BY <1>2, <1>7, <1>10, <1>11, <1>12, <1>16, <1>17, <1>20, <1>21

\* Nothing is running before the directory exists.
LEMMA CreateInv == LsmInv /\ Create => LsmInv'
<1> SUFFICES ASSUME LsmInv, Create PROVE LsmInv'
  OBVIOUS
<1>1. /\ ~exists /\ exists' = TRUE /\ tables' = tables
      /\ wals' = WithFile(wals, 1, FreshWal(1), "done")
      /\ manifests' = WithFile(manifests, 1, BaseVersion(1), "done")
      /\ current' = BothSlots(Slot(0, 1))
      /\ high' = [high EXCEPT !.manifest = 1, !.wal = 1]
      /\ step' = step /\ job' = job /\ inflight' = inflight /\ acked' = acked
      /\ pending' = pending /\ faults' = faults
  BY DEF Create
<1>2. PICK o \in Outcomes : o = "done"
  BY DEF Outcomes
<1>3. /\ wals' = WithFile(wals, 1, FreshWal(1), o)
      /\ manifests' = WithFile(manifests, 1, BaseVersion(1), o)
      /\ high' = [high EXCEPT !.manifest = IF o = "none" THEN 0 ELSE 1,
                              !.wal = IF o = "none" THEN 0 ELSE 1]
      /\ o \in {"done", "whole"}
  BY <1>1, <1>2
<1>4. /\ DiskInv' /\ ContentInv' /\ SlotsInv'
      /\ h = NoHandle /\ step = "idle" /\ job = NoJob
      /\ high' = [table |-> 0, manifest |-> IF o = "none" THEN 0 ELSE 1,
                  wal |-> IF o = "none" THEN 0 ELSE 1]
      /\ DOMAIN wals' = {1} /\ wals'[1] = FreshWal(1)
      /\ DOMAIN manifests' = {1} /\ manifests'[1] = BaseVersion(1)
      /\ FilesOf(BaseVersion(1))'
  BY <1>1, <1>3, CreationInv
<1>5. high'.table = 0 /\ high'.manifest = 1 /\ high'.wal = 1
  BY <1>2, <1>4
<1>6. JobInv'
  BY <1>1, <1>4 DEF JobInv
<1>7. StepInv'
  <2>1. StepInv
    BY DEF LsmInv
  <2> QED BY <1>1, <1>4, <2>1 DEF StepInv, Between
<1>8. PICK v : v = BaseVersion(1)
  OBVIOUS
<1>9. /\ v \in Versions /\ ValidVersion(v) /\ v.gen = 0 /\ v.manifest = 1
      /\ v.durable = 0 /\ v.watermark = 0 /\ v.wal = 1
  BY <1>8, BaseVersionIs
<1>10. PICK g : g = h'
  OBVIOUS
<1>11. g = [version |-> v, tabs |-> << >>, mem |-> FreshMem,
            nextTable |-> 1, nextManifest |-> 2, nextWal |-> 2]
  BY <1>8, <1>10 DEF Create
<1>12. PICK e : e = << >>
  OBVIOUS
<1>13. g = [version |-> v, tabs |-> e, mem |-> FreshMem,
            nextTable |-> 1, nextManifest |-> 2, nextWal |-> 2]
  BY <1>11, <1>12
<1>14. g \in Handles
  <2>1. e \in Seq(Tables)
    BY <1>12, EmptySeq, Zenon
  <2>2. FreshMem \in MemSets
    BY FreshMemIs
  <2>3. 1 \in Nat /\ 2 \in Nat
    OBVIOUS
  <2> QED BY <1>9, <1>13, <2>1, <2>2, <2>3, HandleBuilt
<1>15. /\ g.version = v /\ g.mem = FreshMem
       /\ g.nextTable = 1 /\ g.nextManifest = 2 /\ g.nextWal = 2
  BY <1>13
<1>16. GoodHandle(g)'
  <2>1. WalNext(wals'[1]) \in Nat
    <3>1. 1 \in 1 .. MaxSequence
      BY BoundsAssumption
    <3>2. WalNext(wals'[1]) = 1
      BY <1>4, <3>1, FreshWalIs
    <3> QED BY <3>2
  <2>2. MemInv(FreshMem, 0, WalNext(wals'[1]))
    BY <2>1, FreshMemIs
  <2>3. (FilesOf(g.version))'
    BY <1>4, <1>8, <1>15
  <2>4. g.nextTable = g.version.watermark + 1
    BY <1>9, <1>15
  <2>5. MemInv(g.mem, g.version.durable, WalNext(wals[g.version.wal]))'
    BY <1>9, <1>15, <2>2
  <2> QED BY <1>9, <1>14, <1>15, <2>3, <2>4, <2>5 DEF GoodHandle
<1>17. Slot(0, 1).gen = 0 /\ Slot(0, 1).manifest = 1
  BY DEF Slot
<1>18. InstalledInv'
  <2>1. current' # NoCurrent
    <3>1. Slot(0, 1) \in Slots
      BY DEF Slot, Slots
    <3>2. current' \in [{0, 1} -> Slots \cup {Torn}]
      BY <1>1, <3>1 DEF BothSlots
    <3> QED BY <3>2, NoCurrentIsNotWritten
  <2>2. current'[0] = Slot(0, 1) /\ current'[1] = Slot(0, 1) /\ SlotOf(0) = 0
    BY <1>1 DEF BothSlots, SlotOf
  <2>3. manifests'[1] = v /\ 1 \in DOMAIN manifests' /\ v # Torn
    BY <1>4, <1>8, <1>9, TornIsNoContent
  <2>4. v = [v EXCEPT !.gen = v.gen, !.watermark = v.watermark]
    BY <1>9 DEF Versions
  <2>5. v.watermark <= v.watermark /\ 0 <= v.gen
    BY <1>9
  <2>6. h'.version = v
    BY <1>10, <1>15
  <2>7. step' = "idle"
    BY <1>1, <1>4
  <2>8. current'[SlotOf(v.gen)] = Slot(v.gen, v.manifest)
    BY <1>9, <2>2
  <2>9. current'[1 - SlotOf(v.gen)].gen <= v.gen
    BY <1>9, <1>17, <2>2
  <2> QED BY <1>9, <2>1, <2>3, <2>4, <2>5, <2>6, <2>7, <2>8, <2>9 DEF InstalledInv, Complete
<1>19. HandleInv'
  BY <1>1, <1>5, <1>9, <1>10, <1>15, <1>16, <1>18 DEF HandleInv
<1> QED BY <1>4, <1>6, <1>7, <1>19 DEF LsmInv

\* An interrupted creation leaves no handle.
LEMMA CreateInterruptedInv == LsmInv /\ CreateInterrupted => LsmInv'
<1> SUFFICES ASSUME LsmInv, CreateInterrupted PROVE LsmInv'
  OBVIOUS
<1>1. PICK stage \in 0 .. 6 :
         /\ wals' = WithFile(wals, 1, FreshWal(1),
                             CASE stage = 0 -> "none" [] stage = 1 -> "torn" [] OTHER -> "whole")
         /\ manifests' = WithFile(manifests, 1, BaseVersion(1),
                             CASE stage < 3 -> "none" [] stage = 3 -> "torn" [] OTHER -> "whole")
         /\ current' = CASE stage < 5 -> NoCurrent
                         [] stage = 5 -> BothSlots(Torn)
                         [] OTHER -> BothSlots(Slot(0, 1))
         /\ high' = [high EXCEPT !.manifest = IF stage < 3 THEN 0 ELSE 1,
                                 !.wal = IF stage = 0 THEN 0 ELSE 1]
  BY Zenon DEF CreateInterrupted
<1>2. /\ ~exists /\ exists' = TRUE /\ tables' = tables /\ h' = h
      /\ step' = step /\ job' = job /\ inflight' = inflight /\ acked' = acked
      /\ pending' = pending /\ faults < MaxFaults /\ faults' = faults + 1
  BY DEF CreateInterrupted
<1>3. PICK ow : ow = CASE stage = 0 -> "none" [] stage = 1 -> "torn" [] OTHER -> "whole"
  OBVIOUS
<1>4. PICK om : om = CASE stage < 3 -> "none" [] stage = 3 -> "torn" [] OTHER -> "whole"
  OBVIOUS
<1>5. /\ stage = 0 => ow = "none"
      /\ stage = 1 => ow = "torn"
      /\ stage # 0 /\ stage # 1 => ow = "whole"
      /\ stage < 3 => om = "none"
      /\ stage = 3 => om = "torn"
      /\ ~(stage < 3) /\ stage # 3 => om = "whole"
  BY <1>3, <1>4
<1>6. /\ ow \in Outcomes /\ om \in Outcomes
      /\ ow = "none" <=> stage = 0
      /\ om = "none" <=> stage < 3
  BY <1>5 DEF Outcomes
<1>7. /\ wals' = WithFile(wals, 1, FreshWal(1), ow)
      /\ manifests' = WithFile(manifests, 1, BaseVersion(1), om)
  BY <1>1, <1>3, <1>4
<1>8. high' = [high EXCEPT !.manifest = IF om = "none" THEN 0 ELSE 1,
                           !.wal = IF ow = "none" THEN 0 ELSE 1]
  BY <1>1, <1>6
<1>9. \/ current' = NoCurrent
      \/ current' = BothSlots(Torn)
      \/ /\ current' = BothSlots(Slot(0, 1))
         /\ ow \in {"done", "whole"} /\ om \in {"done", "whole"}
  <2>1. CASE stage < 5
    BY <1>1, <2>1
  <2>2. CASE stage = 5
    BY <1>1, <2>2
  <2>3. CASE stage = 6
    BY <1>1, <1>5, <2>3
  <2> QED BY <2>1, <2>2, <2>3
<1>10. /\ DiskInv' /\ ContentInv' /\ SlotsInv'
       /\ h = NoHandle /\ step = "idle" /\ job = NoJob
  BY <1>2, <1>6, <1>7, <1>8, <1>9, CreationInv
<1>11. HandleInv' /\ JobInv'
  BY <1>2, <1>10 DEF HandleInv, JobInv
<1>12. StepInv'
  <2>1. StepInv /\ MaxFaults \in Nat
    BY BoundsAssumption DEF LsmInv
  <2>2. faults' \in 0 .. MaxFaults
    BY <1>2, <2>1 DEF StepInv
  <2> QED BY <1>2, <1>10, <2>1, <2>2 DEF StepInv, Between
<1> QED BY <1>10, <1>11, <1>12 DEF LsmInv
-----------------------------------------------------------------------------
\* Which version set is in force.

\* The generation and the watermark have nothing to do with the files.
LEMMA SameFiles ==
    ASSUME NEW v, NEW u, u.tables = v.tables, u.wal = v.wal, u.first = v.first,
           u.durable = v.durable, FilesOf(v)
    PROVE  FilesOf(u)
BY DEF FilesOf

\* A version set with another generation and watermark.
Renumbered(v, gen, watermark) == [v EXCEPT !.gen = gen, !.watermark = watermark]

\* Nor the generation with the validity, which a higher watermark keeps.
LEMMA StaysValid ==
    ASSUME NEW v \in Versions, ValidVersion(v), NEW gen \in Nat,
           NEW watermark \in Nat, v.watermark <= watermark,
           NEW u, u = Renumbered(v, gen, watermark)
    PROVE  /\ u \in Versions /\ ValidVersion(u)
           /\ u.gen = gen /\ u.watermark = watermark /\ u.manifest = v.manifest
           /\ u.durable = v.durable /\ u.gc = v.gc /\ u.wal = v.wal /\ u.first = v.first
           /\ u.tables = v.tables
<1>1. /\ v.gen \in Nat /\ v.manifest \in Nat /\ v.durable \in Nat /\ v.gc \in Nat
      /\ v.watermark \in Nat /\ v.wal \in Nat /\ v.first \in Nat
      /\ v.tables \in Seq(Described) /\ \A i \in DOMAIN v.tables : v.tables[i].id \in Nat
  BY VersionParts
<1>2. u = [gen |-> gen, manifest |-> v.manifest, durable |-> v.durable, gc |-> v.gc,
           watermark |-> watermark, wal |-> v.wal, first |-> v.first, tables |-> v.tables]
  BY DEF Versions, Renumbered
<1>3. /\ u.gen = gen /\ u.watermark = watermark /\ u.manifest = v.manifest
      /\ u.durable = v.durable /\ u.gc = v.gc /\ u.wal = v.wal /\ u.first = v.first
      /\ u.tables = v.tables
  BY <1>2
<1>4. u \in Versions
  <2>1. [gen |-> gen, manifest |-> v.manifest, durable |-> v.durable, gc |-> v.gc,
         watermark |-> watermark, wal |-> v.wal, first |-> v.first, tables |-> v.tables]
           \in Versions
    BY <1>1, VersionBuilt
  <2> QED BY <1>2, <2>1, Zenon
<1>5. ValidVersion(u)
  <2>1. /\ v.gc <= v.durable /\ (v.durable > 0 => v.watermark > 0)
        /\ v.first <= v.durable + 1
        /\ Cardinality({i \in DOMAIN v.tables : v.tables[i].level = 1}) <= 1
        /\ \A i, j \in DOMAIN v.tables : i < j => /\ v.tables[i].id < v.tables[j].id
                                                  /\ v.tables[i].durable < v.tables[j].durable
        /\ \A i \in DOMAIN v.tables : v.tables[i].id <= v.watermark
        /\ v.durable = IF v.tables = << >> THEN v.gc ELSE v.tables[Len(v.tables)].durable
    BY DEF ValidVersion
  <2>2. u.durable > 0 => u.watermark > 0
    BY <1>1, <1>3, <2>1
  <2>3. \A i \in DOMAIN u.tables : u.tables[i].id <= u.watermark
    BY <1>1, <1>3, <2>1
  <2>4. Cardinality({i \in DOMAIN u.tables : u.tables[i].level = 1}) <= 1
    BY <1>3, <2>1
  <2> QED BY <1>3, <2>1, <2>2, <2>3, <2>4 DEF ValidVersion
<1> QED BY <1>3, <1>4, <1>5

\* The slots' contents.
LEMMA SlotsAre ==
    ASSUME DiskInv, current # NoCurrent, NEW s \in {0, 1}, current[s] # Torn
    PROVE  /\ current[s] \in Slots /\ current[s].gen \in Nat /\ current[s].manifest \in Nat
           /\ current[s] = Slot(current[s].gen, current[s].manifest)
<1>1. current[s] \in Slots
  BY DEF DiskInv
<1> QED BY <1>1 DEF Slots, Slot

\* s is a valid slot, and as new as the other one if that is valid.
Newest(s) ==
    /\ s \in {0, 1} /\ current[s] # Torn
    /\ current[1 - s] # Torn => current[1 - s].gen <= current[s].gen

\* Where a version set is published, some slot is the newest.
LEMMA SomeNewest ==
    ASSUME DiskInv, Published
    PROVE  current # NoCurrent /\ \E s \in {0, 1} : Newest(s)
<1>1. PICK s : s \in ValidSlots
  BY DEF Published
<1>2. current # NoCurrent /\ s \in {0, 1} /\ current[s] # Torn
  BY <1>1 DEF ValidSlots
<1>3. 1 - s \in {0, 1} /\ 1 - (1 - s) = s
  BY <1>2
<1>4. CASE current[1 - s] = Torn
  BY <1>2, <1>4 DEF Newest
<1>5. CASE current[1 - s] # Torn
  <2>1. current[s].gen \in Nat /\ current[1 - s].gen \in Nat
    BY <1>2, <1>3, <1>5, SlotsAre
  <2>2. current[1 - s].gen <= current[s].gen \/ current[s].gen <= current[1 - s].gen
    BY <2>1
  <2>3. Newest(s) \/ Newest(1 - s)
    BY <1>2, <1>3, <1>5, <2>2 DEF Newest
  <2> QED BY <1>2, <1>3, <2>3
<1> QED BY <1>2, <1>4, <1>5

\* It is the one that is read.
LEMMA NewestIs ==
    ASSUME DiskInv, SlotsInv, current # NoCurrent, NEW s, Newest(s)
    PROVE  NewestSlot = current[s] /\ Published
<1>1. /\ s \in {0, 1} /\ current[s] # Torn /\ s \in ValidSlots
      /\ \A t \in ValidSlots : t \in {0, 1} /\ current[t] # Torn
      /\ 1 - s \in {0, 1} /\ \A t \in {0, 1} : t = s \/ t = 1 - s
  BY DEF Newest, ValidSlots
<1>2. \A t \in ValidSlots : current[t].gen \in Nat
  BY <1>1, SlotsAre
<1>3. \A t \in ValidSlots : current[t].gen <= current[s].gen
  <2> TAKE t \in ValidSlots
  <2>1. CASE t = s
    BY <1>1, <1>2, <2>1
  <2>2. CASE t = 1 - s
    BY <1>1, <2>2 DEF Newest
  <2> QED BY <1>1, <2>1, <2>2
<1>4. PICK u : u = CHOOSE x \in ValidSlots : \A t \in ValidSlots : current[t].gen <= current[x].gen
  OBVIOUS
<1>5. u \in ValidSlots /\ \A t \in ValidSlots : current[t].gen <= current[u].gen
  BY <1>1, <1>3, <1>4, Zenon
<1>6. NewestSlot = current[u]
  BY <1>4, Zenon DEF NewestSlot
<1>7. current[u].gen = current[s].gen
  BY <1>1, <1>2, <1>3, <1>5
<1>8. CASE u = s
  BY <1>1, <1>6, <1>8 DEF Published
<1>9. CASE u # s
  <2>1. u = 1 - s /\ current[0] # Torn /\ current[1] # Torn
    BY <1>1, <1>5, <1>9
  <2>2. current[0].gen = current[1].gen /\ current[0].gen \in Nat
    BY <1>1, <1>2, <1>5, <1>7, <1>9, <2>1
  <2>3. current[0] = current[1]
    BY <2>1, <2>2 DEF SlotsInv
  <2>4. current[u] = current[s]
    BY <1>1, <1>5, <2>3
  <2> QED BY <1>1, <1>6, <2>4 DEF Published
<1> QED BY <1>8, <1>9

\* What a published directory is opened as.
LEMMA LoadedIs ==
    ASSUME DiskInv, ContentInv, SlotsInv, current # NoCurrent, NEW s, Newest(s)
    PROVE  LET c == current[s]
               m == manifests[c.manifest]
           IN  /\ c.manifest \in DOMAIN manifests /\ m \in Versions /\ m # Torn
               /\ Loaded = [m EXCEPT !.gen = c.gen]
               /\ Loaded \in Versions /\ ValidVersion(Loaded) /\ FilesOf(Loaded)
               /\ Loaded.gen = c.gen /\ Loaded.manifest = c.manifest
               /\ Loaded.watermark = m.watermark /\ Loaded.durable = m.durable
               /\ Loaded.gc = m.gc /\ Loaded.wal = m.wal
               /\ c = Slot(c.gen, c.manifest)
               /\ ~WalOnly
<1>1. PICK c : c = current[s]
  OBVIOUS
<1>2. PICK m : m = manifests[c.manifest]
  OBVIOUS
<1>3. s \in {0, 1} /\ c # Torn
  BY <1>1 DEF Newest
<1>4. c.gen \in Nat /\ c = Slot(c.gen, c.manifest)
  BY <1>1, <1>3, SlotsAre
<1>5. c.manifest \in DOMAIN manifests /\ m # Torn /\ FilesOf(m)
  <2>1. GoodSlot(c)
    BY <1>1, <1>3 DEF SlotsInv
  <2> QED BY <1>2, <2>1 DEF GoodSlot, Complete
<1>6. m \in Versions
  <2>1. manifests \in Files(Versions)
    BY DEF DiskInv
  <2> QED BY <1>2, <1>5, <2>1, WholeFile
<1>7. ValidVersion(m) /\ m.manifest = c.manifest
  BY <1>2, <1>5 DEF ContentInv
<1>8. ~WalOnly
  BY DEF WalOnly
<1>9. PICK v : v = Loaded
  OBVIOUS
<1>10. v = [m EXCEPT !.gen = c.gen]
  BY <1>1, <1>2, <1>8, <1>9, NewestIs DEF Loaded
<1>11. m.watermark \in Nat /\ m.watermark <= m.watermark
  BY <1>6, VersionParts
<1>12. v = Renumbered(m, c.gen, m.watermark)
  BY <1>6, <1>10 DEF Versions, Renumbered
<1>13. /\ v \in Versions /\ ValidVersion(v) /\ v.gen = c.gen
       /\ v.watermark = m.watermark /\ v.manifest = m.manifest
       /\ v.durable = m.durable /\ v.gc = m.gc /\ v.wal = m.wal /\ v.first = m.first
       /\ v.tables = m.tables
  <2>1. PICK g \in Nat : g = c.gen
    BY <1>4
  <2>2. PICK w \in Nat : w = m.watermark
    BY <1>11
  <2>3. m.watermark <= w /\ v = Renumbered(m, g, w)
    BY <1>11, <1>12, <2>1, <2>2
  <2>4. /\ v \in Versions /\ ValidVersion(v) /\ v.gen = g
        /\ v.watermark = w /\ v.manifest = m.manifest
        /\ v.durable = m.durable /\ v.gc = m.gc /\ v.wal = m.wal /\ v.first = m.first
        /\ v.tables = m.tables
    BY <1>6, <1>7, <2>3, StaysValid
  <2> QED BY <2>1, <2>2, <2>4
<1>14. FilesOf(v)
  BY <1>5, <1>13, SameFiles
<1> QED BY <1>1, <1>2, <1>4, <1>5, <1>6, <1>7, <1>8, <1>9, <1>10, <1>13, <1>14
-----------------------------------------------------------------------------
\* What reads and merges return.

\* MemTables and SSTables alike.
Layers == MemTables \cup Tables

\* A file of an SSTable, and the table that is opened from it.
LEMMA SortedTableParts ==
    ASSUME NEW t \in SortedTables
    PROVE  /\ t.durable \in 1 .. MaxSequence /\ t.entries \in Entries
           /\ TableAccepted(t)
           /\ LoadTable(t) \in Tables
           /\ LoadTable(t).entries = t.entries /\ LoadTable(t).filter = t.filter
<1>1. t.durable \in 1 .. MaxSequence /\ t.entries \in Entries /\ TableAccepted(t)
  BY DEF SortedTables, SortedTable
<1>2. LoadTable(t) \in Tables
  BY DEF Tables
<1> QED BY <1>1, <1>2 DEF LoadTable

\* One that is made of these parts, and that open accepts.
LEMMA SortedTableIs ==
    ASSUME NEW durable \in 1 .. MaxSequence, NEW entries \in Entries,
           NEW t, t = SortedTable(durable, entries), TableAccepted(t)
    PROVE  t \in SortedTables /\ t.durable = durable /\ t.entries = entries
BY DEF SortedTables, SortedTable

\* All of them hold entries.
LEMMA LayerIs ==
    ASSUME NEW l \in Layers
    PROVE  l.entries \in Entries
<1>1. CASE l \in MemTables
  BY <1>1 DEF MemTables
<1>2. CASE l \in Tables
  <2>1. PICK t \in SortedTables : l = LoadTable(t)
    BY <1>2 DEF Tables
  <2> QED BY <2>1, SortedTableParts
<1> QED BY <1>1, <1>2 DEF Layers

\* Those of a handle.
LEMMA ReadOrderIs ==
    ASSUME NEW mem \in MemSets, NEW tabs \in Seq(Tables)
    PROVE  ReadOrder(mem, tabs) \in Seq(Layers)
<1>1. mem.mutable \in MemTables /\ mem.immutable \in Seq(MemTables)
  BY DEF MemSets
<1>2. mem.immutable \in Seq(Layers) /\ tabs \in Seq(Layers)
  BY <1>1, SeqMonotonic DEF Layers
<1>3. ASSUME NEW s \in Seq(Layers) PROVE Reverse(s) \in Seq(Layers)
  <2>1. \A i \in 1 .. Len(s) : s[(Len(s) - i) + 1] \in Layers
    <3> TAKE i \in 1 .. Len(s)
    <3>1. (Len(s) - i) + 1 \in 1 .. Len(s)
      OBVIOUS
    <3> QED BY <3>1, ElementOfSeq
  <2> QED BY <2>1 DEF Reverse
<1>4. <<mem.mutable>> \in Seq(Layers)
  BY <1>1 DEF Layers
<1>5. Reverse(mem.immutable) \in Seq(Layers) /\ Reverse(tabs) \in Seq(Layers)
  BY <1>2, <1>3
<1> QED BY <1>4, <1>5 DEF ReadOrder

\* A read finds an entry's value or nothing.
LEMMA GetIs ==
    ASSUME NEW layers \in Seq(Layers), NEW k \in Keys
    PROVE  Get(layers, k) \in Entry
<1> DEFINE hits == {i \in DOMAIN layers : Answers(layers[i], k)}
<1>1. CASE hits = {}
  BY <1>1 DEF Get, Entry
<1>2. CASE hits # {}
  <2>1. hits \in SUBSET Nat /\ hits \subseteq DOMAIN layers
    OBVIOUS
  <2>2. PICK m \in hits : \A i \in hits : m <= i
    BY <1>2, <2>1, LeastNatural
  <2> HIDE DEF hits
  <2>3. Min(hits) \in hits
    BY <2>2, Zenon DEF Min
  <2>4. PICK i : i = Min(hits)
    OBVIOUS
  <2>5. i \in DOMAIN layers /\ k \in DOMAIN layers[i].entries
    BY <2>1, <2>3, <2>4 DEF hits, Answers
  <2>6. layers[i] \in Layers
    BY <2>5
  <2>7. layers[i].entries[k] \in [seq : 1 .. MaxSequence, val : Entry]
    BY <2>5, <2>6, LayerIs, EntriesMembers
  <2>8. Get(layers, k) = layers[i].entries[k].val
    BY <1>2, <2>4 DEF Get, hits
  <2> QED BY <2>7, <2>8
<1> QED BY <1>1, <1>2

\* A handle shows a map.
LEMMA ContentsIs ==
    ASSUME NEW g \in Handles
    PROVE  Contents(g) \in Map
<1>1. ReadOrder(g.mem, g.tabs) \in Seq(Layers)
  BY HandleParts, ReadOrderIs
<1>2. \A k \in Keys : Get(ReadOrder(g.mem, g.tabs), k) \in Entry
  BY <1>1, GetIs
<1> QED BY <1>2 DEF Contents, Map

\* A merge takes every entry from one of the tables.
LEMMA OverlayIs ==
    ASSUME NEW layers \in Seq(Layers)
    PROVE  Overlay(layers) \in Entries
<1> DEFINE versions(k) == {layers[i].entries[k] : i \in
                              {j \in DOMAIN layers : k \in DOMAIN layers[j].entries}}
           newest(k) == CHOOSE e \in versions(k) : \A d \in versions(k) : d.seq <= e.seq
           K == UNION {DOMAIN layers[i].entries : i \in DOMAIN layers}
<1>1. PICK g : g = Overlay(layers)
  OBVIOUS
<1>2. g = [k \in K |-> newest(k)]
  BY <1>1 DEF Overlay
<1>3. \A i \in DOMAIN layers : layers[i].entries \in Entries
  <2>1. \A i \in DOMAIN layers : layers[i] \in Layers
    OBVIOUS
  <2> QED BY <2>1, LayerIs
<1>4. K \subseteq Keys
  BY <1>3, EntriesMembers
<1>5. ASSUME NEW k \in K PROVE newest(k) \in [seq : 1 .. MaxSequence, val : Entry]
  <2> DEFINE V == versions(k)
             seqs == {e.seq : e \in V}
  <2>1. V \subseteq [seq : 1 .. MaxSequence, val : Entry]
    BY <1>3, EntriesMembers
  <2>2. V # {}
    BY <1>5
  <2>3. newest(k) = CHOOSE e \in V : \A d \in V : d.seq <= e.seq
    OBVIOUS
  <2> HIDE DEF V
  <2>4. MaxSequence \in Nat /\ seqs \in SUBSET Nat /\ seqs # {}
        /\ \A n \in seqs : n <= MaxSequence
    BY <2>1, <2>2, BoundsAssumption
  <2>5. PICK n \in seqs : \A m \in seqs : m <= n
    <3> HIDE DEF seqs
    <3> QED BY <2>4, GreatestNatural
  <2>6. \E e \in V : \A d \in V : d.seq <= e.seq
    BY <2>5
  <2>7. newest(k) \in V
    BY <2>3, <2>6, Zenon
  <2> QED BY <2>1, <2>7
<1> HIDE DEF newest, K
<1>6. /\ DOMAIN g = K /\ g = [k \in DOMAIN g |-> g[k]]
      /\ \A k \in DOMAIN g : g[k] = newest(k)
  BY <1>2
<1>7. \A k \in DOMAIN g : g[k] \in [seq : 1 .. MaxSequence, val : Entry]
  BY <1>5, <1>6
<1> QED BY <1>1, <1>4, <1>6, <1>7, EntriesMembers

\* Dropping tombstones leaves entries.
LEMMA LiveIs ==
    ASSUME NEW entries \in Entries
    PROVE  Live(entries) \in Entries
<1>1. PICK g : g = Live(entries)
  OBVIOUS
<1>2. g = [k \in {k \in DOMAIN entries : entries[k].val # Missing} |-> entries[k]]
  BY <1>1 DEF Live, Restrict
<1>3. /\ DOMAIN entries \subseteq Keys
      /\ \A k \in DOMAIN entries : entries[k] \in [seq : 1 .. MaxSequence, val : Entry]
  BY EntriesMembers
<1>4. /\ DOMAIN g \subseteq DOMAIN entries /\ g = [k \in DOMAIN g |-> g[k]]
      /\ \A k \in DOMAIN g : g[k] = entries[k]
  BY <1>2
<1>5. \A k \in DOMAIN g : g[k] \in [seq : 1 .. MaxSequence, val : Entry]
  BY <1>3, <1>4
<1>6. DOMAIN g \subseteq Keys
  BY <1>3, <1>4
<1> QED BY <1>1, <1>4, <1>5, <1>6, EntriesMembers

\* The tables of a version set whose files are there.
LEMMA TablesOfIs ==
    ASSUME DiskInv, NEW v \in Versions, FilesOf(v)
    PROVE  TablesOf(v) \in Seq(Tables)
<1>1. tables \in Files(SortedTables)
  BY DEF DiskInv
<1>2. ASSUME NEW i \in DOMAIN v.tables
      PROVE  LoadTable(tables[v.tables[i].id]) \in Tables
  <2>1. PICK t : t = tables[v.tables[i].id]
    OBVIOUS
  <2>2. v.tables[i].id \in DOMAIN tables /\ t # Torn
    BY <2>1 DEF FilesOf, Complete
  <2>3. t \in SortedTables
    BY <1>1, <2>1, <2>2, WholeFile
  <2> QED BY <2>1, <2>3, SortedTableParts
<1>3. DOMAIN v.tables = 1 .. Len(v.tables) /\ Len(v.tables) \in Nat
  BY VersionParts
<1> QED BY <1>2, <1>3 DEF TablesOf
-----------------------------------------------------------------------------
\* Opening.

\* The largest ids in use are the largest ever used, the tables' unless the
\* version set in force has reserved it.
LEMMA OpenedIds ==
    ASSUME DiskInv, ContentInv, SlotsInv, Opens
    PROVE  /\ Loaded \in Versions /\ ValidVersion(Loaded) /\ FilesOf(Loaded) /\ exists
           /\ AllocationFloor(Loaded) \in Nat /\ Loaded.watermark <= AllocationFloor(Loaded)
           /\ high.table <= AllocationFloor(Loaded)
           /\ MaxId(manifests) = high.manifest /\ MaxId(wals) = high.wal
           /\ current = NoCurrent =>
                 /\ Loaded = BaseVersion(0) /\ AllocationFloor(Loaded) = 0
                 /\ high.manifest = 0 /\ DOMAIN wals = {1}
           /\ current # NoCurrent => \E s \in {0, 1} : Newest(s)
<1>1. /\ high.table \in Nat /\ high.manifest \in Nat /\ high.wal \in Nat
      /\ tables \in Files(SortedTables) /\ manifests \in Files(Versions)
      /\ wals \in Files(WalSegments)
      /\ \A i \in DOMAIN tables : i <= high.table
      /\ \A i \in DOMAIN manifests : i <= high.manifest
      /\ \A i \in DOMAIN wals : i <= high.wal
      /\ high.wal # 0 => high.wal \in DOMAIN wals
      /\ high.manifest # 0 => high.manifest \in DOMAIN manifests
      /\ current = NoCurrent => high.table = 0
  BY DEF DiskInv
<1>2. /\ MaxId(tables) \in Nat
      /\ high.table = 0 \/ high.table \in DOMAIN tables => MaxId(tables) = high.table
  BY <1>1, MaxIdIs
<1>3. MaxId(manifests) = high.manifest
  BY <1>1, MaxIdIs
<1>4. MaxId(wals) = high.wal
  BY <1>1, MaxIdIs
<1>5. exists /\ Loadable /\ FilesOf(Loaded)
  BY DEF Opens
<1>6. PICK v : v = Loaded
  OBVIOUS
<1>7. PICK floor : floor = AllocationFloor(v)
  OBVIOUS
<1>8. ASSUME v.watermark \in Nat
      PROVE  /\ floor \in Nat /\ v.watermark <= floor /\ MaxId(tables) <= floor
             /\ floor \in {v.watermark, MaxId(tables)}
  BY <1>2, <1>7, <1>8, MaxOfTwo DEF AllocationFloor
<1>9. CASE current = NoCurrent
  <2>1. WalOnly
    BY <1>5, <1>9 DEF Loadable, HasVersionSet
  <2>2. v = BaseVersion(0)
    BY <1>6, <2>1 DEF Loaded
  <2>3. v \in Versions /\ ValidVersion(v) /\ v.watermark = 0
    BY <2>2, BaseVersionIs
  <2>4. manifests = << >> /\ DOMAIN wals = {1}
    BY <2>1 DEF WalOnly
  <2>5. high.manifest = 0
    <3>1. DOMAIN << >> = {}
      OBVIOUS
    <3> QED BY <1>1, <2>4, <3>1
  <2>6. MaxId(tables) = 0 /\ high.table = 0
    BY <1>1, <1>2, <1>9
  <2>7. floor = 0
    BY <1>8, <2>3, <2>6
  <2>8. high.table <= floor /\ floor \in Nat /\ v.watermark <= floor
    BY <2>3, <2>6, <2>7
  <2> QED BY <1>3, <1>4, <1>5, <1>6, <1>7, <1>9, <2>2, <2>3, <2>4, <2>5, <2>7, <2>8
<1>10. CASE current # NoCurrent
  <2>1. Published
    BY <1>5, <1>10 DEF Loadable, WalOnly, CurrentReadable, Published
  <2>2. PICK s \in {0, 1} : Newest(s)
    BY <2>1, SomeNewest
  <2>3. PICK c : c = current[s]
    OBVIOUS
  <2>4. /\ v \in Versions /\ ValidVersion(v)
        /\ v.watermark = manifests[c.manifest].watermark
    BY <1>6, <1>10, <2>2, <2>3, LoadedIs
  <2>5. v.watermark \in Nat
    BY <2>4, VersionParts
  <2>6. high.table <= v.watermark \/ high.table \in DOMAIN tables
    <3>1. GoodSlot(c)
      BY <1>10, <2>2, <2>3 DEF SlotsInv, Newest
    <3> QED BY <2>4, <3>1 DEF GoodSlot
  <2>7. floor \in Nat /\ v.watermark <= floor /\ MaxId(tables) <= floor
    BY <1>8, <2>5
  <2>8. high.table <= floor
    BY <1>1, <1>2, <2>5, <2>6, <2>7
  <2> QED BY <1>3, <1>4, <1>5, <1>6, <1>7, <1>10, <2>2, <2>4, <2>7, <2>8
<1> QED BY <1>9, <1>10

\* Cutting off a torn tail changes nothing else.
LEMMA TailInv ==
    ASSUME DiskInv, ContentInv, SlotsInv, NEW id \in DOMAIN wals, wals[id] # Torn,
           NEW tail \in BOOLEAN, wals' = [wals EXCEPT ![id].tail = tail],
           UNCHANGED <<exists, tables, manifests, current, high>>
    PROVE  /\ DiskInv' /\ ContentInv' /\ SlotsInv' /\ Grown
           /\ DOMAIN wals' = DOMAIN wals
<1>1. PICK w : w = [wals[id] EXCEPT !.tail = tail]
  OBVIOUS
<1>2. wals[id] \in WalSegments
  <2>1. wals \in Files(WalSegments)
    BY DEF DiskInv
  <2> QED BY <2>1, WholeFile
<1>3. w \in WalSegments /\ w.first = wals[id].first /\ w.recs = wals[id].recs
  BY <1>1, <1>2 DEF WalSegments
<1>4. WalNext(w) = WalNext(wals[id]) /\ WalNext(w) \in Nat
  BY <1>2, <1>3, WalNextIs
<1>5. WalNext(wals[id]) <= WalNext(w) /\ WalNext(w) <= MaxSequence
  <2>1. WalNext(wals[id]) <= MaxSequence
    BY DEF ContentInv
  <2> QED BY <1>4, <2>1
<1>6. wals' = [wals EXCEPT ![id] = w]
  BY <1>1
<1> QED BY <1>3, <1>5, <1>6, WalUpdate

\* The handle that open_existing builds.
LEMMA OpenInv == LsmInv /\ Open => LsmInv' /\ h' # NoHandle
<1> SUFFICES ASSUME LsmInv, Open PROVE LsmInv' /\ h' # NoHandle
  OBVIOUS
<1>1. /\ DiskInv /\ ContentInv /\ SlotsInv /\ StepInv /\ Opens /\ step = "idle"
      /\ h' = HandleOf(Loaded)
      /\ wals' = [wals EXCEPT ![Loaded.wal].tail = FALSE]
      /\ acked' = Contents(HandleOf(Loaded)) /\ pending' = {}
      /\ UNCHANGED <<exists, tables, manifests, current, high>>
      /\ step' = step /\ job' = job /\ inflight' = inflight /\ faults' = faults
  BY DEF Open, LsmInv, OpenedHandle
<1>2. PICK l : l = Loaded
  OBVIOUS
<1>3. PICK floor : floor = AllocationFloor(l)
  OBVIOUS
<1>4. PICK v : v = [l EXCEPT !.watermark = floor]
  OBVIOUS
<1>5. /\ l \in Versions /\ ValidVersion(l) /\ FilesOf(l) /\ exists
      /\ floor \in Nat /\ l.watermark <= floor /\ high.table <= floor
      /\ MaxId(manifests) = high.manifest /\ MaxId(wals) = high.wal
      /\ current = NoCurrent =>
            l = BaseVersion(0) /\ floor = 0 /\ high.manifest = 0 /\ DOMAIN wals = {1}
      /\ current # NoCurrent => \E s \in {0, 1} : Newest(s)
  BY <1>1, <1>2, <1>3, OpenedIds
<1>6. /\ v \in Versions /\ ValidVersion(v) /\ v.gen = l.gen /\ v.watermark = floor
      /\ v.manifest = l.manifest /\ v.durable = l.durable /\ v.gc = l.gc /\ v.wal = l.wal
      /\ v.first = l.first /\ v.tables = l.tables
  <2>1. l.gen \in Nat
    BY <1>5, VersionParts
  <2>2. v = Renumbered(l, l.gen, floor)
    BY <1>4, <1>5 DEF Renumbered, Versions
  <2>3. PICK g \in Nat : g = l.gen
    BY <2>1
  <2>4. v = Renumbered(l, g, floor)
    BY <2>2, <2>3
  <2>5. /\ v \in Versions /\ ValidVersion(v) /\ v.gen = g /\ v.watermark = floor
        /\ v.manifest = l.manifest /\ v.durable = l.durable /\ v.gc = l.gc /\ v.wal = l.wal
        /\ v.first = l.first /\ v.tables = l.tables
    BY <1>5, <2>4, StaysValid
  <2> QED BY <2>3, <2>5
<1>7. FilesOf(v)
  BY <1>5, <1>6, SameFiles
<1>8. PICK g : g = h'
  OBVIOUS
<1>9. g = [version |-> v, tabs |-> TablesOf(v), mem |-> ReplayWal(v),
           nextTable |-> v.watermark + 1, nextManifest |-> MaxId(manifests) + 1,
           nextWal |-> MaxId(wals) + 1]
  BY <1>1, <1>2, <1>3, <1>4, <1>8, Zenon DEF HandleOf
<1>10. PICK w : w = wals[v.wal]
  OBVIOUS
<1>11. /\ v.wal \in DOMAIN wals /\ w # Torn /\ w \in WalSegments
       /\ v.durable < WalNext(w) /\ WalNext(w) <= MaxSequence /\ WalNext(w) \in Nat
  <2>1. v.wal \in DOMAIN wals /\ w # Torn /\ v.durable < WalNext(w)
    BY <1>7, <1>10 DEF FilesOf, Complete
  <2>2. wals \in Files(WalSegments)
    BY <1>1 DEF DiskInv
  <2>3. w \in WalSegments
    BY <1>10, <2>1, <2>2, WholeFile
  <2>4. WalNext(w) <= MaxSequence
    BY <1>1, <1>10, <2>1 DEF ContentInv
  <2> QED BY <2>1, <2>3, <2>4, WalNextIs
<1>12. DiskInv' /\ ContentInv' /\ SlotsInv' /\ Grown /\ DOMAIN wals' = DOMAIN wals
  <2>1. wals' = [wals EXCEPT ![v.wal].tail = FALSE]
    BY <1>1, <1>2, <1>6
  <2>2. FALSE \in BOOLEAN
    OBVIOUS
  <2> QED BY <1>1, <1>10, <1>11, <2>1, <2>2, TailInv
<1>13. PICK mem : mem = ReplayWal(v)
  OBVIOUS
<1>14. mem \in MemSets /\ MemInv(mem, v.durable, WalNext(w))
  <2>1. v.durable \in Nat
    BY <1>6, VersionParts
  <2>2. Len(w.recs) \in 0 .. Len(w.recs) /\ WalNext(w) = w.first + Len(w.recs)
    BY <1>11, WalNextIs
  <2>3. mem = ReplayFirst(v, w, Len(w.recs))
    BY <1>10, <1>13 DEF ReplayWal
  <2>4. PICK n \in 0 .. Len(w.recs) : n = Len(w.recs)
    BY <2>2
  <2>5. ReplayFirst(v, w, n) \in MemSets /\ MemInv(ReplayFirst(v, w, n), v.durable, w.first + n)
    BY <1>11, <2>1, ReplayMem
  <2> QED BY <2>2, <2>3, <2>4, <2>5
<1>15. high.table \in Nat /\ high.manifest \in Nat /\ high.wal \in Nat
  BY <1>1 DEF DiskInv
<1>16. /\ g.version = v /\ g.mem = mem /\ g.nextTable = v.watermark + 1
       /\ g.nextManifest = high.manifest + 1 /\ g.nextWal = high.wal + 1
  BY <1>5, <1>9, <1>13
<1>17. g \in Handles
  <2>1. TablesOf(v) \in Seq(Tables)
    BY <1>1, <1>6, <1>7, TablesOfIs
  <2>2. v.watermark + 1 \in Nat /\ high.manifest + 1 \in Nat /\ high.wal + 1 \in Nat
    BY <1>5, <1>6, <1>15
  <2>3. g = [version |-> v, tabs |-> TablesOf(v), mem |-> mem,
             nextTable |-> v.watermark + 1, nextManifest |-> high.manifest + 1,
             nextWal |-> high.wal + 1]
    BY <1>5, <1>9, <1>13
  <2> QED BY <1>6, <1>14, <2>1, <2>2, <2>3, HandleBuilt
<1>18. GoodHandle(g)
  BY <1>6, <1>7, <1>10, <1>14, <1>16, <1>17 DEF GoodHandle
<1>19. GoodHandle(g)'
  BY <1>1, <1>12, <1>18, HandleStays
<1>20. ASSUME current = NoCurrent PROVE HandleInv'
  <2>1. v = BaseVersion(0)
    <3>1. BaseVersion(0).watermark = 0 /\ BaseVersion(0) \in Versions
      BY BaseVersionIs
    <3> QED BY <1>4, <1>5, <1>20, <3>1 DEF Versions
  <2>2. WalOnlyInv'
    <3>1. h'.version = BaseVersion(0) /\ h'.nextManifest = 1
      BY <1>5, <1>8, <1>16, <1>20, <2>1
    <3>2. current' = NoCurrent /\ step' = "idle" /\ DOMAIN wals' = {1} /\ high'.manifest = 0
      BY <1>1, <1>5, <1>12, <1>20
    <3> QED BY <3>1, <3>2 DEF WalOnlyInv, Between
  <2>3. g.version.manifest = 0
    BY <1>16, <2>1, BaseVersionIs
  <2>4. /\ high'.table < g.nextTable /\ high'.wal < g.nextWal /\ high'.manifest < g.nextManifest
    BY <1>1, <1>5, <1>6, <1>15, <1>16
  <2> QED BY <1>1, <1>5, <1>8, <1>19, <2>2, <2>3, <2>4 DEF HandleInv
<1>21. ASSUME current # NoCurrent PROVE HandleInv'
  <2>1. PICK s \in {0, 1} : Newest(s)
    BY <1>5, <1>21
  <2>2. PICK c : c = current[s]
    OBVIOUS
  <2>3. PICK m : m = manifests[c.manifest]
    OBVIOUS
  <2>4. /\ c.manifest \in DOMAIN manifests /\ m \in Versions /\ m # Torn
        /\ l = [m EXCEPT !.gen = c.gen]
        /\ l.gen = c.gen /\ l.manifest = c.manifest /\ l.watermark = m.watermark
        /\ c = Slot(c.gen, c.manifest)
    BY <1>1, <1>2, <1>21, <2>1, <2>2, <2>3, LoadedIs
  <2>5. c.manifest # 0
    <3>1. manifests \in Files(Versions)
      BY <1>1 DEF DiskInv
    <3> QED BY <2>4, <3>1, FilesMembers
  <2>6. c # Torn /\ 1 - s \in {0, 1} /\ (current[1 - s] # Torn => current[1 - s].gen <= c.gen)
    BY <2>1, <2>2 DEF Newest
  <2>7. c.gen \in Nat
    BY <1>5, <2>4, VersionParts
  <2>8. \/ SlotOf(c.gen) = s
        \/ SlotOf(c.gen) = 1 - s /\ current[1 - s] = c
    <3>1. c.gen % 2 = s \/ (c.gen = 0 /\ current[1 - s] = c)
      BY <1>1, <1>21, <2>1, <2>2, <2>6 DEF SlotsInv
    <3>2. 0 % 2 = 0
      OBVIOUS
    <3>3. s = 0 \/ s = 1
      OBVIOUS
    <3> QED BY <3>1, <3>2, <3>3 DEF SlotOf
  <2>9. current[SlotOf(c.gen)] = c
    BY <2>2, <2>8
  <2>10. current[1 - SlotOf(c.gen)] # Torn => current[1 - SlotOf(c.gen)].gen <= c.gen
    <3>1. 1 - (1 - s) = s /\ c.gen <= c.gen
      BY <2>7
    <3> QED BY <2>2, <2>6, <2>8, <3>1
  <2>11. v = [m EXCEPT !.gen = v.gen, !.watermark = v.watermark]
    BY <1>4, <1>6, <2>4 DEF Versions
  <2>12. InstalledInv'
    <3>1. h'.version = v /\ v.gen = c.gen /\ v.manifest = c.manifest
      BY <1>6, <1>8, <1>16, <2>4
    <3>2. current' # NoCurrent /\ step' = "idle"
      BY <1>1, <1>21
    <3>3. current'[SlotOf(v.gen)] = Slot(v.gen, v.manifest)
      BY <1>1, <2>4, <2>9, <3>1
    <3>4. v.manifest \in DOMAIN manifests' /\ manifests'[v.manifest] = m
      BY <1>1, <2>3, <2>4, <3>1
    <3>5. m.watermark <= v.watermark
      BY <1>5, <1>6, <2>4
    <3>6. current'[1 - SlotOf(v.gen)] # Torn => current'[1 - SlotOf(v.gen)].gen <= v.gen
      BY <1>1, <2>10, <3>1
    <3> QED BY <2>4, <2>11, <3>1, <3>2, <3>3, <3>4, <3>5, <3>6 DEF InstalledInv, Complete
  <2>13. g.version.manifest # 0
    BY <1>6, <1>16, <2>4, <2>5
  <2>14. /\ high'.table < g.nextTable /\ high'.wal < g.nextWal
         /\ high'.manifest < g.nextManifest
    BY <1>1, <1>5, <1>6, <1>15, <1>16
  <2> QED BY <1>1, <1>5, <1>8, <1>19, <2>12, <2>13, <2>14 DEF HandleInv
<1>22. HandleInv'
  BY <1>20, <1>21
<1>23. JobInv' /\ StepInv'
  <2>1. job = NoJob
    BY <1>1 DEF StepInv, Between
  <2>2. acked' \in Map
    BY <1>1, <1>8, <1>17, ContentsIs
  <2>3. JobInv'
    BY <1>1, <2>1 DEF JobInv
  <2>4. StepInv'
    BY <1>1, <2>1, <2>2 DEF StepInv, Between
  <2> QED BY <2>3, <2>4
<1>24. h' # NoHandle
  BY <1>8, <1>17, NoHandleIsNoHandle
<1> QED BY <1>12, <1>22, <1>23, <1>24 DEF LsmInv
-----------------------------------------------------------------------------
\* Refusals, crashes and the WAL append.

\* Nothing happens on disk.
LEMMA DiskUnchanged ==
    ASSUME DiskInv, ContentInv, SlotsInv, UNCHANGED disk
    PROVE  DiskInv' /\ ContentInv' /\ SlotsInv' /\ Grown
<1>1. /\ exists' = exists /\ wals' = wals /\ tables' = tables /\ manifests' = manifests
      /\ current' = current /\ high' = high
  BY DEF disk
<1>2. Grown
  <2>1. wals \in Files(WalSegments)
    BY DEF DiskInv
  <2>2. \A i \in DOMAIN wals : wals[i] # Torn => WalNext(wals[i]) <= WalNext(wals[i])
    BY <2>1, WholeFile, WalNextIs
  <2> QED BY <1>1, <2>2 DEF Grown
<1>3. DiskInv' /\ ContentInv'
  BY <1>1 DEF DiskInv, ContentInv
<1>4. SlotsInv'
  BY <1>1, <1>2, <1>3, GrownSlots
<1> QED BY <1>2, <1>3, <1>4

\* Between two calls, the handle is lost.
LEMMA HandleLost ==
    ASSUME LsmInv, exists, step = "idle", h' = NoHandle, exists' = exists,
           pending' \in {{}} \cup {{op} : op \in Op}, faults' \in 0 .. MaxFaults,
           UNCHANGED <<step, job, inflight, acked>>
    PROVE  HandleInv' /\ JobInv' /\ StepInv'
<1>1. StepInv
  BY DEF LsmInv
<1>2. job = NoJob
  BY <1>1 DEF StepInv, Between
<1> QED BY <1>1, <1>2 DEF HandleInv, JobInv, StepInv, Between

\* A refused open leaves everything as it is.
LEMMA OpenRefusedInv == LsmInv /\ OpenRefused => LsmInv'
<1> SUFFICES ASSUME LsmInv, OpenRefused PROVE LsmInv'
  OBVIOUS
<1>1. /\ exists /\ step = "idle" /\ h' = NoHandle /\ UNCHANGED disk
      /\ UNCHANGED <<step, job, inflight, acked, pending, faults>>
  BY DEF OpenRefused
<1>2. DiskInv' /\ ContentInv' /\ SlotsInv'
  BY <1>1, DiskUnchanged DEF LsmInv
<1>3. pending' \in {{}} \cup {{op} : op \in Op} /\ faults' \in 0 .. MaxFaults
  BY <1>1 DEF LsmInv, StepInv
<1>4. exists' = exists
  BY <1>1 DEF disk
<1> QED BY <1>1, <1>2, <1>3, <1>4, HandleLost DEF LsmInv

\* So does a failing one, but for the torn tail.
LEMMA OpenFailsInv == LsmInv /\ OpenFails => LsmInv'
<1> SUFFICES ASSUME LsmInv, OpenFails PROVE LsmInv'
  OBVIOUS
<1>1. PICK tail \in {FALSE, wals[Loaded.wal].tail} :
         wals' = [wals EXCEPT ![Loaded.wal].tail = tail]
  BY DEF OpenFails
<1>2. /\ step = "idle" /\ Opens /\ h' = NoHandle
      /\ faults < MaxFaults /\ faults' = faults + 1
      /\ UNCHANGED <<exists, tables, manifests, current, high>>
      /\ UNCHANGED <<step, job, inflight, acked>> /\ pending' = pending
  BY DEF OpenFails
<1>3. PICK v : v = Loaded
  OBVIOUS
<1>4. exists /\ v.wal \in DOMAIN wals /\ wals[v.wal] # Torn
  BY <1>2, <1>3 DEF Opens, FilesOf, Complete
<1>5. wals[v.wal] \in WalSegments
  <2>1. wals \in Files(WalSegments)
    BY DEF LsmInv, DiskInv
  <2> QED BY <1>4, <2>1, WholeFile
<1>6. tail \in BOOLEAN
  BY <1>1, <1>3, <1>5 DEF WalSegments
<1>7. wals' = [wals EXCEPT ![v.wal].tail = tail]
  BY <1>1, <1>3
<1>8. DiskInv' /\ ContentInv' /\ SlotsInv'
  BY <1>2, <1>4, <1>6, <1>7, TailInv DEF LsmInv
<1>9. pending' \in {{}} \cup {{op} : op \in Op} /\ faults' \in 0 .. MaxFaults
  BY <1>2, BoundsAssumption DEF LsmInv, StepInv
<1>10. HandleInv' /\ JobInv' /\ StepInv'
  BY <1>2, <1>4, <1>9, HandleLost
<1> QED BY <1>8, <1>10 DEF LsmInv

\* A crash leaves the disk alone.
LEMMA CrashInv == LsmInv /\ Crash => LsmInv'
<1> SUFFICES ASSUME LsmInv, Crash PROVE LsmInv'
  OBVIOUS
<1>1. h # NoHandle /\ GiveUp /\ UNCHANGED disk /\ acked' = acked
  BY DEF Crash
<1>2. DiskInv' /\ ContentInv' /\ SlotsInv'
  BY <1>1, DiskUnchanged DEF LsmInv
<1>3. exists' = exists
  BY <1>1 DEF disk
<1> QED BY <1>1, <1>2, <1>3, GiveUpInv DEF LsmInv

\* Nothing is written when the sequence numbers are used up.
LEMMA MutateExhaustedInv == LsmInv /\ MutateExhausted => LsmInv'
<1> SUFFICES ASSUME LsmInv, MutateExhausted PROVE LsmInv'
  OBVIOUS
<1>1. /\ h # NoHandle /\ step = "idle" /\ h' = NoHandle /\ UNCHANGED disk
      /\ UNCHANGED <<step, job, inflight, acked, pending, faults>>
  BY DEF MutateExhausted
<1>2. DiskInv' /\ ContentInv' /\ SlotsInv'
  BY <1>1, DiskUnchanged DEF LsmInv
<1>3. pending' \in {{}} \cup {{op} : op \in Op} /\ faults' \in 0 .. MaxFaults
  BY <1>1 DEF LsmInv, StepInv
<1>4. exists' = exists /\ exists
  BY <1>1 DEF disk, LsmInv, HandleInv
<1> QED BY <1>1, <1>2, <1>3, <1>4, HandleLost DEF LsmInv

\* The append and the MemTable that takes the mutation, or a lost handle.
LEMMA MutateInv == ASSUME NEW op \in Op, LsmInv, Mutate(op) PROVE LsmInv'
<1>1. PICK v : v = h.version
  OBVIOUS
<1>2. PICK w : w = wals[v.wal]
  OBVIOUS
<1>3. PICK seq : seq = WalNext(w)
  OBVIOUS
<1>4. /\ h # NoHandle /\ step = "idle" /\ seq + 1 <= MaxSequence
      /\ UNCHANGED <<exists, tables, manifests, current, high>> /\ acked' = acked
      /\ job' = job
  BY <1>1, <1>2, <1>3 DEF Mutate, ActiveWal
<1>5. /\ DiskInv /\ ContentInv /\ SlotsInv /\ HandleInv /\ StepInv
      /\ exists /\ GoodHandle(h)
  BY <1>4 DEF LsmInv, HandleInv
<1>6. /\ h \in Handles /\ v \in Versions /\ h.mem \in MemSets /\ v.durable \in Nat
      /\ MemInv(h.mem, v.durable, seq) /\ FilesOf(v) /\ ValidVersion(v)
      /\ h.nextTable = v.watermark + 1
  <2>1. /\ h \in Handles /\ FilesOf(v) /\ MemInv(h.mem, v.durable, seq) /\ ValidVersion(v)
        /\ h.nextTable = v.watermark + 1
    BY <1>1, <1>2, <1>3, <1>5 DEF GoodHandle
  <2>2. v \in Versions /\ h.mem \in MemSets
    BY <1>1, <2>1, HandleParts
  <2> QED BY <2>1, <2>2, VersionParts
<1>7. /\ v.wal \in DOMAIN wals /\ w # Torn /\ w \in WalSegments /\ v.durable < seq
      /\ seq \in Nat /\ seq \in 1 .. MaxSequence
  <2>1. v.wal \in DOMAIN wals /\ w # Torn /\ v.durable < seq
    BY <1>2, <1>3, <1>6 DEF FilesOf, Complete
  <2>2. wals \in Files(WalSegments)
    BY <1>5 DEF DiskInv
  <2>3. w \in WalSegments
    BY <1>2, <2>1, <2>2, WholeFile
  <2>4. seq \in Nat /\ MaxSequence \in Nat
    BY <1>3, <2>3, WalNextIs, BoundsAssumption
  <2>5. seq \in 1 .. MaxSequence
    BY <1>4, <1>6, <2>1, <2>4
  <2> QED BY <2>1, <2>3, <2>4, <2>5
<1>8. ASSUME NEW outcome \in Outcomes,
             wals' = [wals EXCEPT ![v.wal] = WithRecord(@, op, outcome)]
      PROVE  /\ DiskInv' /\ ContentInv' /\ SlotsInv' /\ Grown /\ DOMAIN wals' = DOMAIN wals
             /\ wals'[v.wal] = WithRecord(w, op, outcome)
  <2>1. PICK r : r = WithRecord(w, op, outcome)
    OBVIOUS
  <2>2. r \in WalSegments /\ r.first = w.first /\ seq <= WalNext(r) /\ WalNext(r) <= seq + 1
    BY <1>3, <1>7, <2>1, WithRecordIs
  <2>3. WalNext(r) <= MaxSequence
    <3>1. WalNext(r) \in Nat /\ MaxSequence \in Nat
      BY <2>2, WalNextIs, BoundsAssumption
    <3> QED BY <1>4, <1>7, <2>2, <3>1
  <2>4. wals' = [wals EXCEPT ![v.wal] = r]
    BY <1>2, <1>8, <2>1
  <2>5. r.first = wals[v.wal].first /\ WalNext(wals[v.wal]) <= WalNext(r) /\ wals[v.wal] # Torn
    BY <1>2, <1>3, <1>7, <2>2
  <2> QED BY <1>4, <1>5, <1>7, <2>1, <2>2, <2>3, <2>4, <2>5, WalUpdate
<1>9. CASE /\ h' = [h EXCEPT !.mem = ApplyToMem(@, seq, op)]
           /\ wals' = [wals EXCEPT ![v.wal] = WithRecord(@, op, "done")]
           /\ step' = "flush" /\ inflight' = {op} /\ pending' = pending /\ faults' = faults
  <2>1. PICK o \in Outcomes : o = "done"
    BY DEF Outcomes
  <2>2. /\ DiskInv' /\ ContentInv' /\ SlotsInv' /\ Grown /\ DOMAIN wals' = DOMAIN wals
        /\ wals'[v.wal] = WithRecord(w, op, o)
    BY <1>8, <1>9, <2>1
  <2>3. WalNext(wals'[v.wal]) = seq + 1
    BY <1>3, <1>7, <2>1, <2>2, WithRecordIs
  <2>4. PICK mem : mem = ApplyToMem(h.mem, seq, op)
    OBVIOUS
  <2>5. mem \in MemSets /\ MemInv(mem, v.durable, seq + 1)
    BY <1>6, <1>7, <2>4, ApplyToMemIs, ApplyToMemOrder
  <2>6. PICK g : g = h'
    OBVIOUS
  <2>7. g = [version |-> v, tabs |-> h.tabs, mem |-> mem, nextTable |-> h.nextTable,
             nextManifest |-> h.nextManifest, nextWal |-> h.nextWal]
    <3>1. h = [version |-> v, tabs |-> h.tabs, mem |-> h.mem, nextTable |-> h.nextTable,
               nextManifest |-> h.nextManifest, nextWal |-> h.nextWal]
      BY <1>1, <1>6, HandleParts
    <3>2. g = [h EXCEPT !.mem = mem]
      BY <1>9, <2>4, <2>6
    <3> QED BY <3>1, <3>2
  <2>8. g \in Handles
    <3>1. h.tabs \in Seq(Tables) /\ h.nextTable \in Nat
          /\ h.nextManifest \in Nat /\ h.nextWal \in Nat
      BY <1>6, HandleParts
    <3> QED BY <1>6, <2>5, <2>7, <3>1, HandleBuilt
  <2>9. /\ g.version = v /\ g.mem = mem /\ g.nextTable = h.nextTable
        /\ g.nextManifest = h.nextManifest /\ g.nextWal = h.nextWal
    BY <2>7
  <2>10. FilesOf(v)'
    BY <1>5, <1>6, <2>2, GrownFiles
  <2>11. GoodHandle(g)'
    BY <1>6, <2>3, <2>5, <2>8, <2>9, <2>10 DEF GoodHandle
  <2>12. h'.version.manifest = 0 => WalOnlyInv'
    <3>1. SUFFICES ASSUME v.manifest = 0 PROVE WalOnlyInv'
      BY <2>6, <2>9
    <3>2. WalOnlyInv
      BY <1>1, <1>4, <1>5, <3>1 DEF HandleInv
    <3> QED BY <1>1, <1>4, <1>9, <2>2, <2>6, <2>9, <3>2 DEF WalOnlyInv, Between
  <2>13. h'.version.manifest # 0 => InstalledInv'
    <3>1. SUFFICES ASSUME v.manifest # 0 PROVE InstalledInv'
      BY <2>6, <2>9
    <3>2. InstalledInv
      BY <1>1, <1>4, <1>5, <3>1 DEF HandleInv
    <3>3. h'.version = h.version /\ step # "mirror" /\ step' # "initCurrent"
      BY <1>1, <1>4, <1>9, <2>6, <2>9
    <3> QED BY <1>4, <2>2, <3>2, <3>3, InstalledStays
  <2>14. high.table < h.nextTable /\ high.wal < h.nextWal /\ high.manifest < h.nextManifest
    BY <1>4, <1>5 DEF HandleInv, Between
  <2>15. HandleInv'
    BY <1>4, <1>5, <2>6, <2>9, <2>11, <2>12, <2>13, <2>14 DEF HandleInv
  <2>16. job = NoJob /\ pending = {}
    BY <1>4, <1>5 DEF StepInv, Between
  <2>17. JobInv'
    BY <1>4, <2>16 DEF JobInv
  <2>18. h' # NoHandle
    BY <2>6, <2>8, NoHandleIsNoHandle
  <2>19. {op} # {}
    OBVIOUS
  <2>20. StepInv'
    BY <1>4, <1>5, <1>9, <2>16, <2>18, <2>19 DEF StepInv, Between
  <2> QED BY <2>2, <2>15, <2>17, <2>20 DEF LsmInv
<1>10. ASSUME NEW outcome \in Outcomes,
              wals' = [wals EXCEPT ![v.wal] = WithRecord(@, op, outcome)],
              faults < MaxFaults, faults' = faults + 1, h' = NoHandle,
              pending' = {op}, step' = step, inflight' = inflight
       PROVE  LsmInv'
  <2>1. DiskInv' /\ ContentInv' /\ SlotsInv'
    BY <1>8, <1>10
  <2>2. pending' \in {{}} \cup {{o} : o \in Op} /\ faults' \in 0 .. MaxFaults
    BY <1>5, <1>10, BoundsAssumption DEF StepInv
  <2>3. HandleInv' /\ JobInv' /\ StepInv'
    BY <1>4, <1>5, <1>10, <2>2, HandleLost
  <2> QED BY <2>1, <2>3 DEF LsmInv
<1>11. \/ /\ h' = [h EXCEPT !.mem = ApplyToMem(@, seq, op)]
          /\ wals' = [wals EXCEPT ![v.wal] = WithRecord(@, op, "done")]
          /\ step' = "flush" /\ inflight' = {op} /\ pending' = pending /\ faults' = faults
       \/ /\ \E outcome \in Outcomes \ {"done"} :
                wals' = [wals EXCEPT ![v.wal] = WithRecord(@, op, outcome)]
          /\ faults < MaxFaults /\ faults' = faults + 1 /\ h' = NoHandle
          /\ pending' = {op} /\ step' = step /\ inflight' = inflight
  BY <1>1, <1>2, <1>3 DEF Mutate, ActiveWal
<1> QED BY <1>9, <1>10, <1>11
-----------------------------------------------------------------------------
\* Steps of a running call.

\* What a step that proceeds keeps, as long as the disk only grows.
LEMMA ProceedKeeps ==
    ASSUME LsmInv, h # NoHandle, step \notin {"idle", "mirror"},
           NEW next \in {"rotate", "manifest", "publish", "mirror", "initCurrent"}, NEW work,
           work = NoJob <=> next \in Between,
           Proceed(next, work), DiskInv', Grown, exists' = exists, acked' = acked
    PROVE  /\ h' = h /\ step' = next /\ job' = work
           /\ exists' /\ GoodHandle(h) /\ GoodHandle(h)' /\ StepInv'
           /\ h.version.manifest # 0 /\ current' = current /\ next # "initCurrent" =>
                 InstalledInv'
<1>1. /\ h' = h /\ step' = next /\ job' = work /\ inflight' = inflight
      /\ pending' = pending /\ faults' = faults
  BY DEF Proceed
<1>2. DiskInv /\ HandleInv /\ StepInv /\ exists /\ GoodHandle(h)
  BY DEF LsmInv, HandleInv
<1>3. GoodHandle(h)'
  <2>1. PICK g : g = h
    OBVIOUS
  <2>2. GoodHandle(g)'
    BY <1>2, <2>1, HandleStays
  <2> QED BY <1>1, <2>1, <2>2
<1>4. StepInv'
  BY <1>1, <1>2 DEF StepInv, Between
<1>5. ASSUME h.version.manifest # 0, current' = current, next # "initCurrent"
      PROVE  InstalledInv'
  <2>1. InstalledInv
    BY <1>2, <1>5 DEF HandleInv
  <2> QED BY <1>1, <1>5, <2>1, InstalledStays
<1> QED BY <1>1, <1>2, <1>3, <1>4, <1>5

\* What the handle of a running call knows.
LEMMA RunningHandle ==
    ASSUME LsmInv, h # NoHandle
    PROVE  LET v == h.version
               w == wals[v.wal]
           IN  /\ h \in Handles /\ v \in Versions /\ ValidVersion(v) /\ FilesOf(v)
               /\ h.mem \in MemSets /\ h.nextTable = v.watermark + 1
               /\ h.tabs \in Seq(Tables)
               /\ h.nextTable \in Nat /\ h.nextManifest \in Nat /\ h.nextWal \in Nat
               /\ MemInv(h.mem, v.durable, WalNext(w))
               /\ v.wal \in DOMAIN wals /\ w # Torn /\ w \in WalSegments
               /\ v.durable \in Nat /\ WalNext(w) \in Nat
               /\ v.durable < WalNext(w) /\ WalNext(w) <= MaxSequence /\ exists
<1>1. PICK v : v = h.version
  OBVIOUS
<1>2. PICK w : w = wals[v.wal]
  OBVIOUS
<1>3. GoodHandle(h) /\ exists /\ DiskInv /\ ContentInv
  BY DEF LsmInv, HandleInv
<1>4. /\ h \in Handles /\ ValidVersion(v) /\ FilesOf(v) /\ h.nextTable = v.watermark + 1
      /\ MemInv(h.mem, v.durable, WalNext(w))
  BY <1>1, <1>2, <1>3 DEF GoodHandle
<1>5. /\ v \in Versions /\ h.mem \in MemSets
      /\ h.tabs \in Seq(Tables)
      /\ h.nextTable \in Nat /\ h.nextManifest \in Nat /\ h.nextWal \in Nat
  BY <1>1, <1>4, HandleParts
<1>6. v.wal \in DOMAIN wals /\ w # Torn /\ v.durable < WalNext(w)
  BY <1>2, <1>4 DEF FilesOf, Complete
<1>7. w \in WalSegments
  <2>1. wals \in Files(WalSegments)
    BY <1>3 DEF DiskInv
  <2> QED BY <1>2, <1>6, <2>1, WholeFile
<1>8. WalNext(w) <= MaxSequence
  BY <1>2, <1>3, <1>6 DEF ContentInv
<1>9. v.durable \in Nat /\ WalNext(w) \in Nat
  BY <1>5, <1>7, VersionParts, WalNextIs
<1> QED BY <1>1, <1>2, <1>3, <1>4, <1>5, <1>6, <1>7, <1>8, <1>9

\* The slots that create_initial writes.
LEMMA FirstSlots ==
    ASSUME DiskInv, ContentInv, SlotsInv, current = NoCurrent,
           1 \in DOMAIN manifests, manifests[1] = BaseVersion(1), FilesOf(BaseVersion(1)),
           UNCHANGED <<exists, wals, tables, manifests, high>>, exists,
           \/ current' = NoCurrent
           \/ current' = BothSlots(Torn)
           \/ current' = BothSlots(Slot(0, 1))
    PROVE  /\ DiskInv' /\ ContentInv' /\ SlotsInv'
           /\ current' = BothSlots(Slot(0, 1)) =>
                 /\ current' # NoCurrent
                 /\ current'[0] = Slot(0, 1) /\ current'[1] = Slot(0, 1)
<1>1. PICK c : c = Slot(0, 1)
  OBVIOUS
<1>2. c \in Slots /\ c.gen = 0 /\ c.manifest = 1
  BY <1>1 DEF Slot, Slots
<1>3. /\ BothSlots(c) \in [{0, 1} -> Slots \cup {Torn}]
      /\ BothSlots(Torn) \in [{0, 1} -> Slots \cup {Torn}]
      /\ BothSlots(c)[0] = c /\ BothSlots(c)[1] = c
      /\ BothSlots(Torn)[0] = Torn /\ BothSlots(Torn)[1] = Torn
  BY <1>2 DEF BothSlots
<1>4. current' \in {NoCurrent} \cup [{0, 1} -> Slots \cup {Torn}]
  BY <1>1, <1>3
<1>5. high.table = 0
  BY DEF DiskInv
<1>6. DiskInv'
  BY <1>4, <1>5 DEF DiskInv
<1>7. ContentInv'
  BY DEF ContentInv
<1>8. PICK v : v = BaseVersion(1)
  OBVIOUS
<1>9. v \in Versions /\ v.watermark = 0 /\ v # Torn
  BY <1>8, BaseVersionIs, TornIsNoContent
<1>10. GoodSlot(c)'
  <2>1. Complete(manifests, c.manifest)'
    BY <1>2, <1>8, <1>9 DEF Complete
  <2>2. FilesOf(manifests[c.manifest])'
    <3>1. FilesOf(v)
      BY <1>8
    <3>2. FilesOf(v)'
      BY <3>1 DEF FilesOf, Complete
    <3> QED BY <1>2, <1>8, <3>2
  <2>3. (high.table <= manifests[c.manifest].watermark)'
    BY <1>2, <1>5, <1>8, <1>9
  <2> QED BY <2>1, <2>2, <2>3 DEF GoodSlot
<1>11. CASE current' = NoCurrent
  <2>1. BothSlots(c) # NoCurrent
    BY <1>3, NoCurrentIsNotWritten
  <2> QED BY <1>1, <1>6, <1>7, <1>11, <2>1 DEF SlotsInv
<1>12. CASE current' = BothSlots(Torn)
  <2>1. BothSlots(c)[0] # BothSlots(Torn)[0]
    BY <1>2, <1>3, TornIsNoContent
  <2>2. SlotsInv'
    BY <1>3, <1>12 DEF SlotsInv
  <2> QED BY <1>1, <1>6, <1>7, <1>12, <2>1, <2>2
<1>13. CASE current' = BothSlots(c)
  <2>1. current'[0] = c /\ current'[1] = c /\ current' # NoCurrent
    BY <1>3, <1>13, NoCurrentIsNotWritten
  <2>2. \A s \in {0, 1} : 1 - s \in {0, 1}
    OBVIOUS
  <2>3. SlotsInv'
    BY <1>2, <1>10, <2>1, <2>2 DEF SlotsInv
  <2> QED BY <1>1, <1>6, <1>7, <2>1, <2>3
<1> QED BY <1>1, <1>11, <1>12, <1>13

\* The first manifest of a WAL-only directory.
LEMMA FlushInitManifestInv == LsmInv /\ FlushInitManifest => LsmInv'
<1> SUFFICES ASSUME LsmInv, FlushInitManifest PROVE LsmInv'
  OBVIOUS
<1>1. PICK outcome \in Outcomes :
         /\ manifests' = WithFile(manifests, 1, BaseVersion(1), outcome)
         /\ Raise("manifest", 1, outcome)
         /\ ProceedOrGiveUp(outcome, "initCurrent", NoJob)
  BY DEF FlushInitManifest
<1>2. /\ step = "flush" /\ h.version.manifest = 0
      /\ UNCHANGED <<exists, wals, tables, current>> /\ acked' = acked
  BY DEF FlushInitManifest
<1>3. DiskInv /\ ContentInv /\ SlotsInv /\ HandleInv /\ StepInv /\ JobInv
  BY DEF LsmInv
<1>4. h # NoHandle
  BY <1>2, <1>3 DEF StepInv
<1>5. exists /\ WalOnlyInv /\ high.manifest = 0 /\ high.table < h.nextTable
      /\ high.wal < h.nextWal
  BY <1>2, <1>3, <1>4 DEF HandleInv, WalOnlyInv, Between
<1>6. PICK v : v = BaseVersion(1)
  OBVIOUS
<1>7. v \in Versions /\ ValidVersion(v) /\ v.gen = 0 /\ v.manifest = 1
  BY <1>6, BaseVersionIs
<1>8. /\ DiskInv' /\ ContentInv' /\ SlotsInv' /\ Grown
      /\ high' = IF outcome = "none" THEN high
                 ELSE [table |-> high.table, manifest |-> 1, wal |-> high.wal]
      /\ outcome \in {"done", "whole"} => 1 \in DOMAIN manifests' /\ manifests'[1] = v
  <2>1. 1 \in Nat /\ high.manifest < 1
    BY <1>5
  <2> QED BY <1>1, <1>2, <1>3, <1>5, <1>6, <1>7, <2>1, AddManifest
<1>9. CASE outcome = "done"
  <2>1. Proceed("initCurrent", NoJob)
    BY <1>1, <1>9 DEF ProceedOrGiveUp
  <2>2. /\ h' = h /\ step' = "initCurrent" /\ job' = NoJob
        /\ exists' /\ GoodHandle(h)' /\ StepInv'
    BY <1>2, <1>4, <1>8, <2>1, ProceedKeeps DEF Between
  <2>3. high'.table = high.table /\ high'.manifest = 1 /\ high'.wal = high.wal
    BY <1>8, <1>9
  <2>4. WalOnlyInv'
    BY <1>2, <1>5, <1>6, <1>8, <1>9, <2>2, <2>3 DEF WalOnlyInv, Between
  <2>5. HandleInv'
    BY <1>2, <1>5, <2>2, <2>3, <2>4 DEF HandleInv
  <2>6. JobInv'
    BY <2>2 DEF JobInv
  <2> QED BY <1>8, <2>2, <2>5, <2>6 DEF LsmInv
<1>10. CASE outcome # "done"
  <2>1. GiveUp
    BY <1>1, <1>10 DEF ProceedOrGiveUp
  <2> QED BY <1>2, <1>4, <1>8, <2>1, GiveUpInv DEF LsmInv
<1> QED BY <1>9, <1>10

\* Its CURRENT file.
LEMMA FlushInitCurrentInv == LsmInv /\ FlushInitCurrent => LsmInv'
<1> SUFFICES ASSUME LsmInv, FlushInitCurrent PROVE LsmInv'
  OBVIOUS
<1>1. PICK outcome \in Outcomes :
         /\ current' = CASE outcome = "none" -> NoCurrent
                         [] outcome = "torn" -> BothSlots(Torn)
                         [] OTHER -> BothSlots(Slot(0, 1))
         /\ IF outcome = "done"
            THEN /\ h' = [h EXCEPT !.version = BaseVersion(1), !.nextManifest = 2]
                 /\ step' = "flush"
                 /\ UNCHANGED <<job, inflight, pending, faults>>
            ELSE GiveUp
  BY DEF FlushInitCurrent
<1>2. /\ step = "initCurrent" /\ UNCHANGED <<exists, wals, tables, manifests, high>>
      /\ acked' = acked
  BY DEF FlushInitCurrent
<1>3. DiskInv /\ ContentInv /\ SlotsInv /\ HandleInv /\ StepInv /\ JobInv
  BY DEF LsmInv
<1>4. h # NoHandle
  BY <1>2, <1>3 DEF StepInv
<1>5. /\ exists /\ h.version = BaseVersion(0) /\ current = NoCurrent /\ high.manifest = 1
      /\ 1 \in DOMAIN manifests /\ manifests[1] = BaseVersion(1)
      /\ high.table < h.nextTable /\ high.wal < h.nextWal
  BY <1>2, <1>3, <1>4 DEF HandleInv, WalOnlyInv, InstalledInv, Between
<1>6. PICK v : v = BaseVersion(1)
  OBVIOUS
<1>7. PICK u : u = BaseVersion(0)
  OBVIOUS
<1>8. /\ v \in Versions /\ ValidVersion(v) /\ v.gen = 0 /\ v.manifest = 1
      /\ v.watermark = 0 /\ v.durable = 0 /\ v.wal = 1 /\ v.first = 1 /\ v.tables = << >>
  BY <1>6, BaseVersionIs
<1>9. /\ u.watermark = 0 /\ u.durable = 0 /\ u.wal = 1 /\ u.first = 1
      /\ u.tables = << >>
  BY <1>7, BaseVersionIs
<1>10. GoodHandle(h) /\ FilesOf(u)
  BY <1>3, <1>4, <1>5, <1>7 DEF HandleInv, GoodHandle
<1>11. FilesOf(v)
  BY <1>8, <1>9, <1>10, SameFiles
<1>12. \/ current' = NoCurrent
       \/ current' = BothSlots(Torn)
       \/ current' = BothSlots(Slot(0, 1))
  BY <1>1
<1>13. /\ DiskInv' /\ ContentInv' /\ SlotsInv'
       /\ current' = BothSlots(Slot(0, 1)) =>
             /\ current' # NoCurrent
             /\ current'[0] = Slot(0, 1) /\ current'[1] = Slot(0, 1)
  BY <1>2, <1>3, <1>5, <1>6, <1>11, <1>12, FirstSlots
<1>14. CASE outcome = "done"
  <2>1. /\ h' = [h EXCEPT !.version = v, !.nextManifest = 2]
        /\ step' = "flush" /\ job' = job /\ inflight' = inflight
        /\ pending' = pending /\ faults' = faults
    BY <1>1, <1>6, <1>14
  <2>2. current' # NoCurrent /\ current'[0] = Slot(0, 1) /\ current'[1] = Slot(0, 1)
    BY <1>1, <1>13, <1>14
  <2>3. /\ h \in Handles /\ h.nextTable = 1 /\ MemInv(h.mem, 0, WalNext(wals[1]))
    BY <1>5, <1>7, <1>9, <1>10 DEF GoodHandle
  <2>4. PICK g : g = h'
    OBVIOUS
  <2>5. g = [version |-> v, tabs |-> h.tabs, mem |-> h.mem, nextTable |-> h.nextTable,
             nextManifest |-> 2, nextWal |-> h.nextWal]
    <3>1. h = [version |-> h.version, tabs |-> h.tabs, mem |-> h.mem,
               nextTable |-> h.nextTable, nextManifest |-> h.nextManifest,
               nextWal |-> h.nextWal]
      BY <2>3, HandleParts
    <3>2. g = [h EXCEPT !.version = v, !.nextManifest = 2]
      BY <2>1, <2>4
    <3> QED BY <3>1, <3>2
  <2>6. g \in Handles
    <3>1. h.tabs \in Seq(Tables) /\ h.mem \in MemSets
          /\ h.nextTable \in Nat /\ h.nextWal \in Nat /\ 2 \in Nat
      BY <2>3, HandleParts
    <3> QED BY <1>8, <2>5, <3>1, HandleBuilt
  <2>7. /\ g.version = v /\ g.mem = h.mem /\ g.nextTable = h.nextTable
        /\ g.nextManifest = 2 /\ g.nextWal = h.nextWal
    BY <2>5
  <2>8. FilesOf(v)'
    BY <1>2, <1>11 DEF FilesOf, Complete
  <2>9. GoodHandle(g)'
    BY <1>2, <1>8, <2>3, <2>6, <2>7, <2>8 DEF GoodHandle
  <2>10. InstalledInv'
    <3>1. SlotOf(0) = 0 /\ Slot(0, 1).gen = 0
      BY DEF SlotOf, Slot
    <3>2. v # Torn /\ 1 \in DOMAIN manifests' /\ manifests'[1] = v
      BY <1>2, <1>5, <1>6, <1>8, TornIsNoContent
    <3>3. v = [v EXCEPT !.gen = v.gen, !.watermark = v.watermark]
      BY <1>8 DEF Versions
    <3>4. h'.version = v /\ step' = "flush"
      BY <2>1, <2>4, <2>7
    <3>5. v.watermark <= v.watermark /\ 0 <= v.gen
      BY <1>8
    <3>6. current'[SlotOf(v.gen)] = Slot(v.gen, v.manifest)
      BY <1>8, <2>2, <3>1
    <3>7. current'[1 - SlotOf(v.gen)].gen <= v.gen
      BY <1>8, <2>2, <3>1
    <3> QED BY <1>8, <2>2, <3>2, <3>3, <3>4, <3>5, <3>6, <3>7 DEF InstalledInv, Complete
  <2>11. HandleInv'
    <3>1. high'.table < g.nextTable /\ high'.wal < g.nextWal /\ high'.manifest < g.nextManifest
      BY <1>2, <1>5, <2>7
    <3> QED BY <1>2, <1>5, <1>8, <2>4, <2>7, <2>9, <2>10, <3>1 DEF HandleInv
  <2>12. job = NoJob
    BY <1>2, <1>3 DEF StepInv, Between
  <2>13. h' # NoHandle
    BY <2>4, <2>6, NoHandleIsNoHandle
  <2>14. JobInv' /\ StepInv'
    BY <1>2, <1>3, <1>4, <2>1, <2>12, <2>13 DEF JobInv, StepInv, Between
  <2> QED BY <1>13, <2>11, <2>14 DEF LsmInv
<1>15. CASE outcome # "done"
  <2>1. GiveUp
    BY <1>1, <1>15
  <2> QED BY <1>2, <1>4, <1>13, <2>1, GiveUpInv DEF LsmInv
<1> QED BY <1>14, <1>15

\* Only a WAL without SSTables starts from nothing.
LEMMA TablesFollow ==
    ASSUME DiskInv, NEW v \in Versions, FilesOf(v), ValidVersion(v), v.tables # << >>
    PROVE  v.durable > 0
<1>1. Len(v.tables) \in DOMAIN v.tables
  <2>1. v.tables \in Seq(Described)
    BY VersionParts
  <2>2. Len(v.tables) \in Nat \ {0} /\ DOMAIN v.tables = 1 .. Len(v.tables)
    BY <2>1, EmptySeq, LenProperties
  <2> QED BY <2>2
<1>2. PICK i : i = Len(v.tables)
  OBVIOUS
<1>3. PICK t : t = tables[v.tables[i].id]
  OBVIOUS
<1>4. v.tables[i].id \in DOMAIN tables /\ t # Torn /\ t.durable = v.tables[i].durable
  BY <1>1, <1>2, <1>3 DEF FilesOf, Complete
<1>5. t \in SortedTables
  <2>1. tables \in Files(SortedTables)
    BY DEF DiskInv
  <2> QED BY <1>3, <1>4, <2>1, WholeFile
<1>6. t.durable \in Nat /\ t.durable > 0
  BY <1>5, SortedTableParts, BoundsAssumption
<1>7. v.durable = v.tables[Len(v.tables)].durable
  BY DEF ValidVersion
<1>8. v.durable = t.durable
  BY <1>2, <1>4, <1>7
<1> QED BY <1>6, <1>8

\* A new version set has the files of the old one and those just written.
LEMMA NextFiles ==
    ASSUME DiskInv', NEW v, FilesOf(v)', NEW next,
           \A i \in DOMAIN next.tables :
              \/ i \in DOMAIN v.tables /\ next.tables[i] = v.tables[i]
              \/ /\ next.tables[i].id \in DOMAIN tables' /\ tables'[next.tables[i].id] # Torn
                 /\ tables'[next.tables[i].id].durable = next.tables[i].durable,
           next.wal \in DOMAIN wals', wals'[next.wal] # Torn,
           wals'[next.wal].first = next.first, next.durable < WalNext(wals'[next.wal])
    PROVE  FilesOf(next)'
<1>1. ASSUME NEW i \in DOMAIN next.tables
      PROVE  /\ Complete(tables, next.tables[i].id)'
             /\ tables'[next.tables[i].id].durable = next.tables[i].durable
             /\ TableAccepted(tables'[next.tables[i].id])
  <2>1. CASE i \in DOMAIN v.tables /\ next.tables[i] = v.tables[i]
    BY <2>1 DEF FilesOf
  <2>2. CASE ~(i \in DOMAIN v.tables /\ next.tables[i] = v.tables[i])
    <3>1. PICK t : t = tables'[next.tables[i].id]
      OBVIOUS
    <3>2. /\ next.tables[i].id \in DOMAIN tables' /\ t # Torn
          /\ t.durable = next.tables[i].durable
      BY <2>2, <3>1
    <3>3. t \in SortedTables
      BY <3>1, <3>2, WholeFile DEF DiskInv
    <3> QED BY <3>1, <3>2, <3>3, SortedTableParts DEF Complete
  <2> QED BY <2>1, <2>2
<1> QED BY <1>1 DEF FilesOf, Complete

\* The parts of a job that are laid down when it starts.
LEMMA JobStarts ==
    ASSUME LsmInv, h # NoHandle, step \in {"flush", "rotate"}, h.version.manifest # 0,
           NEW j \in Jobs, Proceed("manifest", j),
           DiskInv', ContentInv', SlotsInv', Grown,
           UNCHANGED <<exists, current, acked>>,
           high'.manifest = high.manifest, GoodJob(j)'
    PROVE  LsmInv'
<1>1. j # NoJob
  <2>1. j.kind # "none"
    BY DEF Jobs
  <2> QED BY <2>1 DEF NoJob
<1>2. /\ h' = h /\ step' = "manifest" /\ job' = j
      /\ exists' /\ GoodHandle(h)' /\ StepInv' /\ InstalledInv'
  <2>1. step \notin {"idle", "mirror"}
    OBVIOUS
  <2> QED BY <1>1, <2>1, ProceedKeeps DEF Between
<1>3. HandleInv'
  BY <1>2 DEF HandleInv, Between
<1>4. high.manifest < h.nextManifest
  BY DEF LsmInv, HandleInv, Between
<1>5. JobInv'
  BY <1>2, <1>4 DEF JobInv, Between
<1> QED BY <1>2, <1>3, <1>5 DEF LsmInv

\* What a full-set merge keeps are entries.
LEMMA CompactedIs ==
    ASSUME NEW tabs \in Seq(Tables)
    PROVE  CompactedEntries(tabs) \in Entries
<1>1. tabs \in Seq(Layers)
  BY SeqMonotonic DEF Layers
<1> QED BY <1>1, OverlayIs, LiveIs DEF CompactedEntries

\* The SSTable that a flush writes, once open accepts it.
LEMMA FlushedTableIs ==
    ASSUME LsmInv, h # NoHandle, h.mem.immutable # << >>, TableAccepted(FlushedTable)
    PROVE  /\ FlushedTable \in SortedTables
           /\ FlushedTable.durable = Head(h.mem.immutable).last
           /\ FlushedTable.entries = Head(h.mem.immutable).entries
           /\ Head(h.mem.immutable) \in MemTables
           /\ h.version.durable < Head(h.mem.immutable).last
           /\ Head(h.mem.immutable).last < WalNext(wals[h.version.wal])
<1>1. PICK frozen : frozen = Head(h.mem.immutable)
  OBVIOUS
<1>2. PICK low : low = h.version.durable
  OBVIOUS
<1>3. PICK n : n = WalNext(wals[h.version.wal])
  OBVIOUS
<1>4. h.mem \in MemSets /\ MemInv(h.mem, low, n) /\ low \in Nat /\ n \in Nat
      /\ n <= MaxSequence
  BY <1>2, <1>3, RunningHandle
<1>5. frozen \in MemTables /\ low < frozen.last /\ frozen.last < n
  <2>1. h.mem.immutable \in Seq(MemTables)
    BY <1>4 DEF MemSets
  <2>2. 1 \in DOMAIN h.mem.immutable /\ frozen = h.mem.immutable[1]
    BY <1>1, <2>1, EmptySeq, LenProperties
  <2>3. frozen \in MemTables
    BY <2>1, <2>2
  <2> QED BY <1>4, <2>2, <2>3 DEF MemInv
<1>6. frozen.entries \in Entries /\ frozen.last \in 1 .. MaxSequence
  BY <1>4, <1>5, BoundsAssumption DEF MemTables
<1>7. PICK t : t = FlushedTable
  OBVIOUS
<1>8. t \in SortedTables /\ t.durable = frozen.last /\ t.entries = frozen.entries
  BY <1>1, <1>6, <1>7, SortedTableIs DEF FlushedTable
<1> QED BY <1>1, <1>2, <1>3, <1>5, <1>7, <1>8

\* A version set with tables at level 0 has tables.
LEMMA TriggerHasTables ==
    ASSUME NEW v, Level0Count(v) >= Level0Trigger
    PROVE  v.tables # << >>
<1>1. SUFFICES ASSUME v.tables = << >> PROVE FALSE
  OBVIOUS
<1>2. {i \in DOMAIN v.tables : v.tables[i].level = 0} = {}
  BY <1>1
<1>3. Level0Count(v) = 0
  BY <1>2, FS_EmptySet DEF Level0Count
<1> QED BY <1>3, TriggerAssumption

\* The SSTable that a compaction writes, once open accepts it.
LEMMA CompactedTableIs ==
    ASSUME LsmInv, h # NoHandle, Level0Count(h.version) >= Level0Trigger,
           TableAccepted(CompactedTable)
    PROVE  /\ CompactedTable \in SortedTables
           /\ CompactedTable.durable = h.version.durable
           /\ CompactedTable.entries = CompactedEntries(h.tabs)
<1>1. PICK v : v = h.version
  OBVIOUS
<1>2. /\ v \in Versions /\ ValidVersion(v) /\ FilesOf(v) /\ h.tabs \in Seq(Tables)
      /\ v.durable \in Nat /\ WalNext(wals[v.wal]) \in Nat
      /\ v.durable < WalNext(wals[v.wal]) /\ WalNext(wals[v.wal]) <= MaxSequence
  BY <1>1, RunningHandle
<1>3. v.tables # << >>
  BY <1>1, TriggerHasTables
<1>4. v.durable > 0
  BY <1>2, <1>3, TablesFollow DEF LsmInv
<1>5. v.durable \in 1 .. MaxSequence
  BY <1>2, <1>4, BoundsAssumption
<1>6. PICK entries : entries = CompactedEntries(h.tabs)
  OBVIOUS
<1>7. entries \in Entries
  BY <1>2, <1>6, CompactedIs
<1>8. PICK t : t = CompactedTable
  OBVIOUS
<1>9. t \in SortedTables /\ t.durable = v.durable /\ t.entries = entries
  BY <1>1, <1>5, <1>6, <1>7, <1>8, SortedTableIs DEF CompactedTable
<1> QED BY <1>1, <1>6, <1>8, <1>9

\* The oldest frozen MemTable becomes an SSTable.
LEMMA FlushTableInv == LsmInv /\ FlushTable => LsmInv'
<1> SUFFICES ASSUME LsmInv, FlushTable PROVE LsmInv'
  OBVIOUS
<1>1. PICK v : v = h.version
  OBVIOUS
<1>2. PICK frozen : frozen = Head(h.mem.immutable)
  OBVIOUS
<1>3. PICK id : id = h.nextTable
  OBVIOUS
<1>4. PICK mid : mid = h.nextManifest
  OBVIOUS
<1>5. PICK d : d = Descriptor(id, 0, frozen.last)
  OBVIOUS
<1>6. PICK next : next = NextVersion(v, mid, frozen.last, v.gc, v.wal, v.first,
                                     Append(v.tables, d))
  OBVIOUS
<1>7. PICK content : content = SortedTable(frozen.last, frozen.entries)
  OBVIOUS
<1>8. PICK j : j = [kind |-> "flush", next |-> next,
                    tabs |-> Append(h.tabs, LoadTable(content))]
  OBVIOUS
<1>9. PICK outcome \in Outcomes :
         /\ tables' = WithFile(tables, id, content, outcome)
         /\ Raise("table", id, outcome)
         /\ ProceedOrGiveUp(outcome, "manifest", j)
  <2>1. content = FlushedTable /\ content.durable = frozen.last
    BY <1>2, <1>7 DEF FlushedTable, SortedTable
  <2> QED BY <1>1, <1>3, <1>4, <1>5, <1>6, <1>8, <2>1 DEF FlushTable
<1>10. /\ step = "flush" /\ h.mem.immutable # << >> /\ v.manifest # 0
       /\ UNCHANGED <<exists, wals, manifests, current>> /\ acked' = acked
       /\ TableAccepted(content)
  BY <1>1, <1>2, <1>7 DEF FlushTable, FlushedTable
<1>11. DiskInv /\ ContentInv /\ SlotsInv /\ HandleInv /\ StepInv
  BY DEF LsmInv
<1>12. h # NoHandle
  BY <1>10, <1>11 DEF StepInv
<1>13. PICK w : w = wals[v.wal]
  OBVIOUS
<1>14. /\ h \in Handles /\ v \in Versions /\ ValidVersion(v) /\ FilesOf(v)
       /\ h.mem \in MemSets /\ id = v.watermark + 1
       /\ h.tabs \in Seq(Tables)
       /\ id \in Nat /\ mid \in Nat
       /\ MemInv(h.mem, v.durable, WalNext(w))
       /\ v.wal \in DOMAIN wals /\ w # Torn /\ w \in WalSegments
       /\ v.durable \in Nat /\ WalNext(w) \in Nat
       /\ v.durable < WalNext(w) /\ WalNext(w) <= MaxSequence
  BY <1>1, <1>3, <1>4, <1>12, <1>13, RunningHandle
<1>15. high.table < id /\ high.wal < h.nextWal /\ current # NoCurrent
  BY <1>1, <1>3, <1>10, <1>11, <1>12 DEF HandleInv, InstalledInv, Between
<1>16. content = FlushedTable
  BY <1>2, <1>7 DEF FlushedTable
<1>17. /\ frozen \in MemTables /\ frozen.last \in Nat /\ frozen.entries \in Entries
       /\ v.durable < frozen.last /\ frozen.last < WalNext(w)
       /\ content \in SortedTables
       /\ content.durable = frozen.last /\ content.entries = frozen.entries
  BY <1>1, <1>2, <1>10, <1>12, <1>13, <1>16, FlushedTableIs DEF MemTables
<1>18. /\ DiskInv' /\ ContentInv' /\ SlotsInv' /\ Grown
       /\ high' = IF outcome = "none" THEN high
                  ELSE [table |-> id, manifest |-> high.manifest, wal |-> high.wal]
       /\ outcome # "none" => id \in DOMAIN tables'
       /\ outcome \in {"done", "whole"} => tables'[id] = content
  BY <1>9, <1>10, <1>11, <1>14, <1>15, <1>17, AddTable
<1>19. CASE outcome = "done"
  <2>1. Proceed("manifest", j)
    BY <1>9, <1>19 DEF ProceedOrGiveUp
  <2>2. high'.table = id /\ high'.manifest = high.manifest /\ high'.wal = high.wal
        /\ id \in DOMAIN tables' /\ tables'[id] = content
    BY <1>18, <1>19
  <2>3. /\ next \in Versions /\ InstallAccepts(v, next)
        /\ next.gen = v.gen + 1 /\ next.manifest = mid /\ next.durable = frozen.last
        /\ next.watermark = v.watermark + 1 /\ next.wal = v.wal /\ next.first = v.first
        /\ next.tables = Append(v.tables, Descriptor(v.watermark + 1, 0, frozen.last))
    BY <1>5, <1>6, <1>14, <1>17, FlushAccepted
  <2>4. next.tables = Append(v.tables, d)
    BY <1>5, <1>14, <2>3
  <2>5. FilesOf(v)'
    BY <1>11, <1>14, <1>18, GrownFiles
  <2>6. FilesOf(next)'
    <3>1. d.id = id /\ d.durable = frozen.last /\ d \in Described
      BY <1>5, <1>14, <1>17 DEF Descriptor, Described
    <3>2. content # Torn /\ content.durable = frozen.last
      BY <1>17, TornIsNoContent
    <3>3. v.tables \in Seq(Described)
      BY <1>14, VersionParts
    <3>4. ASSUME NEW i \in DOMAIN next.tables
          PROVE  \/ i \in DOMAIN v.tables /\ next.tables[i] = v.tables[i]
                 \/ next.tables[i] = d
      BY <2>4, <3>1, <3>3
    <3>5. /\ d.id \in DOMAIN tables' /\ tables'[d.id] # Torn
          /\ tables'[d.id].durable = d.durable
      BY <2>2, <3>1, <3>2
    <3>6. /\ next.wal \in DOMAIN wals' /\ wals'[next.wal] # Torn
          /\ wals'[next.wal].first = next.first /\ next.durable < WalNext(wals'[next.wal])
      <4>1. w.first = v.first
        BY <1>13, <1>14 DEF FilesOf
      <4> QED BY <1>10, <1>13, <1>14, <1>17, <2>3, <4>1
    <3> QED BY <1>18, <2>5, <3>4, <3>5, <3>6, NextFiles
  <2>7. /\ j \in Jobs /\ j.kind = "flush" /\ j.next = next
    <3>1. LoadTable(content) \in Tables
      BY <1>17, SortedTableParts
    <3>2. PICK tabs : tabs = Append(h.tabs, LoadTable(content))
      OBVIOUS
    <3>3. tabs \in Seq(Tables)
      BY <1>14, <3>1, <3>2
    <3>4. j = [kind |-> "flush", next |-> next, tabs |-> tabs]
      BY <1>8, <3>2
    <3> QED BY <2>3, <3>3, <3>4 DEF Jobs
  <2>8. h' = h
    BY <2>1 DEF Proceed
  <2>9. v.watermark \in Nat
    BY <1>14, VersionParts
  <2>10. v.watermark <= next.watermark /\ high'.table <= next.watermark
    BY <1>14, <2>2, <2>3, <2>9
  <2>11. GoodJob(j)'
    BY <1>1, <1>2, <1>3, <1>4, <1>10, <1>14, <1>15, <2>2, <2>3, <2>6, <2>7, <2>8, <2>10
    DEF GoodJob
  <2> QED BY <1>1, <1>10, <1>12, <1>18, <2>1, <2>2, <2>7, <2>11, JobStarts
<1>20. CASE outcome # "done"
  <2>1. GiveUp
    BY <1>9, <1>20 DEF ProceedOrGiveUp
  <2> QED BY <1>10, <1>12, <1>18, <2>1, GiveUpInv DEF LsmInv
<1> QED BY <1>19, <1>20

\* Below the trigger there is no compaction.
LEMMA SkipCompactionInv == LsmInv /\ SkipCompaction => LsmInv'
<1> SUFFICES ASSUME LsmInv, SkipCompaction PROVE LsmInv'
  OBVIOUS
<1>1. step = "flush" /\ Proceed("rotate", NoJob) /\ UNCHANGED disk /\ acked' = acked
  BY DEF SkipCompaction
<1>2. DiskInv' /\ ContentInv' /\ SlotsInv' /\ Grown
  BY <1>1, DiskUnchanged DEF LsmInv
<1>3. /\ exists' = exists /\ current' = current /\ high' = high /\ manifests' = manifests
      /\ wals' = wals
  BY <1>1 DEF disk
<1>4. HandleInv /\ StepInv /\ h # NoHandle
  BY <1>1 DEF LsmInv, StepInv
<1>5. /\ h' = h /\ step' = "rotate" /\ job' = NoJob
      /\ exists' /\ GoodHandle(h)' /\ StepInv'
      /\ h.version.manifest # 0 => InstalledInv'
  BY <1>1, <1>2, <1>3, <1>4, ProceedKeeps DEF Between
<1>6. h.version.manifest = 0 => WalOnlyInv'
  BY <1>1, <1>3, <1>4, <1>5 DEF HandleInv, WalOnlyInv, Between
<1>7. HandleInv'
  BY <1>1, <1>3, <1>4, <1>5, <1>6 DEF HandleInv, Between
<1>8. JobInv'
  BY <1>5 DEF JobInv
<1> QED BY <1>2, <1>5, <1>7, <1>8 DEF LsmInv

\* The merge of all tables becomes one table, or none.
LEMMA CompactTableInv == LsmInv /\ CompactTable => LsmInv'
<1> SUFFICES ASSUME LsmInv, CompactTable PROVE LsmInv'
  OBVIOUS
<1>1. PICK v : v = h.version
  OBVIOUS
<1>2. PICK entries : entries = CompactedEntries(h.tabs)
  OBVIOUS
<1>3. PICK id : id = h.nextTable
  OBVIOUS
<1>4. PICK mid : mid = h.nextManifest
  OBVIOUS
<1>5. PICK d : d = Descriptor(id, 1, v.durable)
  OBVIOUS
<1>6. PICK content : content = SortedTable(v.durable, entries)
  OBVIOUS
<1>7. PICK empty : empty = [kind |-> "compact", tabs |-> << >>,
         next |-> NextVersion(v, mid, v.durable, v.durable, v.wal, v.first, << >>)]
  OBVIOUS
<1>8. PICK full : full = [kind |-> "compact", tabs |-> <<LoadTable(content)>>,
         next |-> NextVersion(v, mid, v.durable, v.durable, v.wal, v.first, <<d>>)]
  OBVIOUS
<1>9. /\ step = "flush" /\ Level0Count(v) >= Level0Trigger
      /\ UNCHANGED <<exists, wals, manifests, current>> /\ acked' = acked
  BY <1>1 DEF CompactTable
<1>10. \/ Proceed("manifest", empty) /\ UNCHANGED <<tables, high>>
       \/ /\ TableAccepted(content)
          /\ \E outcome \in Outcomes :
                /\ tables' = WithFile(tables, id, content, outcome)
                /\ Raise("table", id, outcome)
                /\ ProceedOrGiveUp(outcome, "manifest", full)
  <2>1. content = CompactedTable
    BY <1>1, <1>2, <1>6 DEF CompactedTable
  <2> QED BY <1>1, <1>3, <1>4, <1>5, <1>7, <1>8, <2>1 DEF CompactTable
<1>11. DiskInv /\ ContentInv /\ SlotsInv /\ HandleInv /\ StepInv
  BY DEF LsmInv
<1>12. h # NoHandle
  BY <1>9, <1>11 DEF StepInv
<1>13. PICK w : w = wals[v.wal]
  OBVIOUS
<1>14. /\ h \in Handles /\ v \in Versions /\ ValidVersion(v) /\ FilesOf(v)
       /\ id = v.watermark + 1
       /\ h.tabs \in Seq(Tables)
       /\ id \in Nat /\ mid \in Nat
       /\ v.wal \in DOMAIN wals /\ w # Torn /\ w \in WalSegments
       /\ v.durable \in Nat /\ WalNext(w) \in Nat
       /\ v.durable < WalNext(w) /\ WalNext(w) <= MaxSequence
  BY <1>1, <1>3, <1>4, <1>12, <1>13, RunningHandle
<1>15. v.watermark \in Nat
  BY <1>14, VersionParts
<1>16. v.tables # << >>
  BY <1>9, TriggerHasTables
<1>17. v.manifest # 0
  <2>1. SUFFICES ASSUME v.manifest = 0 PROVE FALSE
    OBVIOUS
  <2>2. v = BaseVersion(0)
    BY <1>1, <1>11, <1>12, <2>1 DEF HandleInv, WalOnlyInv
  <2> QED BY <1>16, <2>2, BaseVersionIs
<1>18. high.table < id /\ high.wal < h.nextWal /\ current # NoCurrent
  BY <1>1, <1>3, <1>9, <1>11, <1>12, <1>17 DEF HandleInv, InstalledInv, Between
<1>19. w.first = v.first
  BY <1>13, <1>14 DEF FilesOf
<1>20. CASE Proceed("manifest", empty) /\ UNCHANGED <<tables, high>>
  <2>1. PICK next : next = empty.next
    OBVIOUS
  <2>2. PICK tabs : tabs = << >>
    OBVIOUS
  <2>3. empty = [kind |-> "compact", tabs |-> tabs, next |-> next]
    BY <1>7, <2>1, <2>2
  <2>4. next = NextVersion(v, mid, v.durable, v.durable, v.wal, v.first, << >>)
    BY <1>7, <2>1
  <2>5. /\ next \in Versions /\ InstallAccepts(v, next)
        /\ next.gen = v.gen + 1 /\ next.manifest = mid /\ next.durable = v.durable
        /\ next.watermark = v.watermark /\ next.wal = v.wal /\ next.first = v.first
        /\ next.tables = << >>
    BY <1>14, <2>4, EmptyCompactionAccepted
  <2>6. UNCHANGED disk
    BY <1>9, <1>20 DEF disk
  <2>7. DiskInv' /\ ContentInv' /\ SlotsInv' /\ Grown
    BY <1>11, <2>6, DiskUnchanged
  <2>8. FilesOf(v)'
    BY <1>11, <1>14, <2>7, GrownFiles
  <2>9. FilesOf(next)'
    <3>1. DOMAIN next.tables = {}
      BY <2>5
    <3>2. /\ next.wal \in DOMAIN wals' /\ wals'[next.wal] # Torn
          /\ wals'[next.wal].first = next.first /\ next.durable < WalNext(wals'[next.wal])
      BY <1>9, <1>13, <1>14, <1>19, <2>5
    <3> QED BY <2>7, <2>8, <3>1, <3>2, NextFiles
  <2>10. empty \in Jobs /\ empty.kind = "compact" /\ empty.next = next /\ empty.tabs = tabs
         /\ Len(tabs) = 0
    <3>1. tabs \in Seq(Tables) /\ Len(tabs) = 0
      BY <2>2, EmptySeq, Zenon
    <3> QED BY <2>3, <2>5, <3>1 DEF Jobs
  <2>11. h' = h
    BY <1>20 DEF Proceed
  <2>12. v.watermark <= next.watermark /\ high'.table <= next.watermark
         /\ next.watermark + 1 = id + Len(tabs)
    <3>1. high.table \in Nat
      BY <1>11 DEF DiskInv
    <3> QED BY <1>14, <1>15, <1>18, <1>20, <2>5, <2>10, <3>1
  <2>13. GoodJob(empty)'
    BY <1>1, <1>3, <1>4, <1>17, <1>18, <1>20, <2>5, <2>9, <2>10, <2>11, <2>12 DEF GoodJob
  <2>14. high'.manifest = high.manifest
    BY <1>20
  <2> QED BY <1>1, <1>9, <1>12, <1>17, <1>20, <2>7, <2>10, <2>13, <2>14, JobStarts
<1>21. ASSUME TableAccepted(content), NEW outcome \in Outcomes,
              tables' = WithFile(tables, id, content, outcome),
              Raise("table", id, outcome), ProceedOrGiveUp(outcome, "manifest", full)
       PROVE  LsmInv'
  <2>1. content = CompactedTable
    BY <1>1, <1>2, <1>6 DEF CompactedTable
  <2>2. content \in SortedTables /\ content.durable = v.durable
    BY <1>1, <1>9, <1>12, <1>21, <2>1, CompactedTableIs
  <2>3. /\ DiskInv' /\ ContentInv' /\ SlotsInv' /\ Grown
        /\ high' = IF outcome = "none" THEN high
                   ELSE [table |-> id, manifest |-> high.manifest, wal |-> high.wal]
        /\ outcome # "none" => id \in DOMAIN tables'
        /\ outcome \in {"done", "whole"} => tables'[id] = content
    BY <1>9, <1>11, <1>14, <1>18, <1>21, <2>2, AddTable
  <2>4. CASE outcome = "done"
    <3>1. Proceed("manifest", full)
      BY <1>21, <2>4 DEF ProceedOrGiveUp
    <3>2. /\ high'.table = id /\ high'.manifest = high.manifest /\ high'.wal = high.wal
          /\ id \in DOMAIN tables' /\ tables'[id] = content
      BY <2>3, <2>4
    <3>3. PICK next : next = full.next
      OBVIOUS
    <3>4. PICK tabs : tabs = <<LoadTable(content)>>
      OBVIOUS
    <3>5. full = [kind |-> "compact", tabs |-> tabs, next |-> next]
      BY <1>8, <3>3, <3>4
    <3>6. next = NextVersion(v, mid, v.durable, v.durable, v.wal, v.first, <<d>>)
      BY <1>8, <3>3
    <3>7. d = Descriptor(v.watermark + 1, 1, v.durable)
      BY <1>5, <1>14
    <3>8. /\ next \in Versions /\ InstallAccepts(v, next)
          /\ next.gen = v.gen + 1 /\ next.manifest = mid /\ next.durable = v.durable
          /\ next.watermark = v.watermark + 1 /\ next.wal = v.wal /\ next.first = v.first
          /\ next.tables = <<d>>
      <4>1. next = NextVersion(v, mid, v.durable, v.durable, v.wal, v.first,
                               <<Descriptor(v.watermark + 1, 1, v.durable)>>)
        BY <3>6, <3>7, Zenon
      <4>2. v \in Versions /\ ValidVersion(v) /\ mid \in Nat
        BY <1>14
      <4>3. /\ next \in Versions /\ InstallAccepts(v, next)
            /\ next.gen = v.gen + 1 /\ next.manifest = mid /\ next.durable = v.durable
            /\ next.watermark = v.watermark + 1 /\ next.wal = v.wal /\ next.first = v.first
            /\ next.tables = <<Descriptor(v.watermark + 1, 1, v.durable)>>
        BY <4>1, <4>2, CompactionAccepted, ZenonT(180)
      <4> QED BY <3>7, <4>3, Zenon
    <3>9. FilesOf(v)'
      BY <1>11, <1>14, <2>3, GrownFiles
    <3>10. FilesOf(next)'
      <4>1. d.id = id /\ d.durable = v.durable
        BY <1>5 DEF Descriptor
      <4>2. content # Torn /\ content.durable = v.durable
        BY <2>2, TornIsNoContent
      <4>3. \A i \in DOMAIN next.tables : next.tables[i] = d
        BY <3>8
      <4>4. /\ d.id \in DOMAIN tables' /\ tables'[d.id] # Torn
            /\ tables'[d.id].durable = d.durable
        BY <3>2, <4>1, <4>2
      <4>5. /\ next.wal \in DOMAIN wals' /\ wals'[next.wal] # Torn
            /\ wals'[next.wal].first = next.first /\ next.durable < WalNext(wals'[next.wal])
        BY <1>9, <1>13, <1>14, <1>19, <3>8
      <4> QED BY <2>3, <3>9, <4>3, <4>4, <4>5, NextFiles
    <3>11. full \in Jobs /\ full.kind = "compact" /\ full.next = next /\ full.tabs = tabs
           /\ Len(tabs) = 1
      <4>1. LoadTable(content) \in Tables
        BY <2>2, SortedTableParts
      <4>2. tabs \in Seq(Tables) /\ Len(tabs) = 1
        BY <3>4, <4>1
      <4> QED BY <3>5, <3>8, <4>2 DEF Jobs
    <3>12. h' = h
      BY <3>1 DEF Proceed
    <3>13. v.watermark <= next.watermark /\ high'.table <= next.watermark
           /\ next.watermark + 1 = id + Len(tabs)
      BY <1>14, <1>15, <3>2, <3>8, <3>11
    <3>14. GoodJob(full)'
      BY <1>1, <1>3, <1>4, <1>17, <1>18, <3>2, <3>8, <3>10, <3>11, <3>12, <3>13 DEF GoodJob
    <3> QED BY <1>1, <1>9, <1>12, <1>17, <2>3, <3>1, <3>2, <3>11, <3>14, JobStarts
  <2>5. CASE outcome # "done"
    <3>1. GiveUp
      BY <1>21, <2>5 DEF ProceedOrGiveUp
    <3> QED BY <1>9, <1>12, <2>3, <3>1, GiveUpInv DEF LsmInv
  <2> QED BY <2>4, <2>5
<1> QED BY <1>10, <1>20, <1>21

\* A new segment takes over when every record is in an SSTable.
LEMMA RotateWalInv == LsmInv /\ RotateWal => LsmInv'
<1> SUFFICES ASSUME LsmInv, RotateWal PROVE LsmInv'
  OBVIOUS
<1>1. PICK v : v = h.version
  OBVIOUS
<1>2. PICK w : w = wals[v.wal]
  OBVIOUS
<1>3. PICK id : id = h.nextWal
  OBVIOUS
<1>4. PICK mid : mid = h.nextManifest
  OBVIOUS
<1>5. PICK content : content = FreshWal(v.durable + 1)
  OBVIOUS
<1>6. PICK next : next = NextVersion(v, mid, v.durable, v.gc, id, v.durable + 1, v.tables)
  OBVIOUS
<1>7. PICK j : j = [kind |-> "rotate", tabs |-> h.tabs, next |-> next]
  OBVIOUS
<1>8. PICK outcome \in Outcomes :
         /\ wals' = WithFile(wals, id, content, outcome)
         /\ Raise("wal", id, outcome)
         /\ ProceedOrGiveUp(outcome, "manifest", j)
  BY <1>1, <1>3, <1>4, <1>5, <1>6, <1>7 DEF RotateWal
<1>9. /\ step = "rotate" /\ RotationDue(v, w)
      /\ UNCHANGED <<exists, tables, manifests, current>> /\ acked' = acked
  BY <1>1, <1>2 DEF RotateWal, ActiveWal
<1>10. DiskInv /\ ContentInv /\ SlotsInv /\ HandleInv /\ StepInv
  BY DEF LsmInv
<1>11. h # NoHandle
  BY <1>9, <1>10 DEF StepInv
<1>12. /\ h \in Handles /\ v \in Versions /\ ValidVersion(v) /\ FilesOf(v) /\ exists
       /\ h.tabs \in Seq(Tables)
       /\ h.nextTable = v.watermark + 1 /\ id \in Nat /\ mid \in Nat
       /\ v.wal \in DOMAIN wals /\ w # Torn /\ w \in WalSegments
       /\ v.durable \in Nat /\ WalNext(w) \in Nat
       /\ v.durable < WalNext(w) /\ WalNext(w) <= MaxSequence
  BY <1>1, <1>2, <1>3, <1>4, <1>11, RunningHandle
<1>13. w.recs # << >> /\ WalNext(w) = v.durable + 1
  BY <1>9 DEF RotationDue
<1>14. v.manifest # 0
  <2>1. SUFFICES ASSUME v.manifest = 0 PROVE FALSE
    OBVIOUS
  <2>2. v = BaseVersion(0)
    BY <1>1, <1>10, <1>11, <2>1 DEF HandleInv, WalOnlyInv
  <2>3. v.durable = 0
    BY <2>2, BaseVersionIs
  <2>4. w.recs \in Seq(Op) /\ w.first \in Nat /\ w.first >= 1
    BY <1>12, BoundsAssumption DEF WalSegments
  <2>5. Len(w.recs) \in Nat \ {0}
    BY <1>13, <2>4, EmptySeq
  <2>6. WalNext(w) = w.first + Len(w.recs)
    BY DEF WalNext
  <2> QED BY <1>13, <2>3, <2>4, <2>5, <2>6
<1>15. high.wal < id /\ high.table < h.nextTable /\ current # NoCurrent
       /\ high.table \in Nat
  BY <1>1, <1>3, <1>9, <1>10, <1>11, <1>14 DEF HandleInv, InstalledInv, Between, DiskInv
<1>16. v.durable + 1 \in 1 .. MaxSequence
  BY <1>12, BoundsAssumption
<1>17. /\ content \in WalSegments /\ content.first = v.durable + 1
       /\ content.recs = << >> /\ WalNext(content) = v.durable + 1 /\ content # Torn
  BY <1>5, <1>16, FreshWalIs, TornIsNoContent
<1>18. WalNext(content) <= MaxSequence
  BY <1>12, <1>13, <1>17
<1>19. /\ DiskInv' /\ ContentInv' /\ SlotsInv' /\ Grown
       /\ high' = IF outcome = "none" THEN high
                  ELSE [table |-> high.table, manifest |-> high.manifest, wal |-> id]
       /\ outcome \in {"done", "whole"} => id \in DOMAIN wals' /\ wals'[id] = content
       /\ \A i \in DOMAIN wals : wals'[i] = wals[i]
  BY <1>8, <1>9, <1>10, <1>12, <1>15, <1>17, <1>18, AddWal
<1>20. CASE outcome = "done"
  <2>1. Proceed("manifest", j)
    BY <1>8, <1>20 DEF ProceedOrGiveUp
  <2>2. high'.table = high.table /\ high'.manifest = high.manifest /\ high'.wal = id
        /\ id \in DOMAIN wals' /\ wals'[id] = content /\ wals'[v.wal] = w
    BY <1>2, <1>12, <1>19, <1>20
  <2>3. /\ next \in Versions /\ InstallAccepts(v, next)
        /\ next.gen = v.gen + 1 /\ next.manifest = mid /\ next.durable = v.durable
        /\ next.watermark = v.watermark /\ next.wal = id /\ next.first = v.durable + 1
        /\ next.tables = v.tables
    BY <1>6, <1>12, RotationAccepted
  <2>4. FilesOf(v)'
    BY <1>10, <1>12, <1>19, GrownFiles
  <2>5. FilesOf(next)'
    <3>1. \A i \in DOMAIN next.tables :
             i \in DOMAIN v.tables /\ next.tables[i] = v.tables[i]
      BY <2>3
    <3>2. /\ next.wal \in DOMAIN wals' /\ wals'[next.wal] # Torn
          /\ wals'[next.wal].first = next.first /\ next.durable < WalNext(wals'[next.wal])
      BY <1>12, <1>17, <2>2, <2>3
    <3> QED BY <1>19, <2>4, <3>1, <3>2, NextFiles
  <2>6. j \in Jobs /\ j.kind = "rotate" /\ j.next = next
    BY <1>7, <1>12, <2>3 DEF Jobs
  <2>7. h' = h
    BY <2>1 DEF Proceed
  <2>8. v.watermark <= next.watermark /\ high'.table <= next.watermark
    <3>1. v.watermark \in Nat
      BY <1>12, VersionParts
    <3> QED BY <1>12, <1>15, <2>2, <2>3, <3>1
  <2>9. GoodJob(j)'
    BY <1>1, <1>3, <1>4, <1>13, <1>14, <1>17, <2>2, <2>3, <2>5, <2>6, <2>7, <2>8
    DEF GoodJob
  <2> QED BY <1>1, <1>9, <1>11, <1>14, <1>19, <2>1, <2>2, <2>6, <2>9, JobStarts
<1>21. CASE outcome # "done"
  <2>1. GiveUp
    BY <1>8, <1>21 DEF ProceedOrGiveUp
  <2> QED BY <1>9, <1>11, <1>19, <2>1, GiveUpInv DEF LsmInv
<1> QED BY <1>20, <1>21

\* What is acknowledged is a map.
LEMMA AckedMap ==
    ASSUME StepInv, Acknowledge
    PROVE  acked' \in Map
<1>1. acked \in Map /\ inflight \subseteq Op
  BY DEF StepInv
<1>2. \A k \in Keys : acked[k] \in Entry
  BY <1>1 DEF Map
<1>3. ASSUME NEW k \in Keys, \E op \in inflight : op.key = k
      PROVE  (CHOOSE op \in inflight : op.key = k).val \in Entry
  <2>1. PICK op : op = CHOOSE o \in inflight : o.key = k
    OBVIOUS
  <2>2. op \in inflight
    BY <1>3, <2>1, Zenon
  <2>3. op.val \in Entry
    BY <1>1, <2>2 DEF Op
  <2> QED BY <2>1, <2>3
<1>4. PICK a : a = acked'
  OBVIOUS
<1>5. a = [k \in Keys |->
             IF \E op \in inflight : op.key = k
             THEN (CHOOSE op \in inflight : op.key = k).val ELSE acked[k]]
  BY <1>4 DEF Acknowledge
<1>6. \A k \in Keys : a[k] \in Entry
  BY <1>2, <1>3, <1>5
<1>7. a \in Map
  BY <1>5, <1>6 DEF Map
<1> QED BY <1>4, <1>7

\* The call returns.
LEMMA SkipRotationInv == LsmInv /\ SkipRotation => LsmInv'
<1> SUFFICES ASSUME LsmInv, SkipRotation PROVE LsmInv'
  OBVIOUS
<1>1. step = "rotate" /\ Acknowledge /\ UNCHANGED disk /\ h' = h
  BY DEF SkipRotation
<1>2. DiskInv' /\ ContentInv' /\ SlotsInv' /\ Grown
  BY <1>1, DiskUnchanged DEF LsmInv
<1>3. /\ exists' = exists /\ current' = current /\ high' = high /\ manifests' = manifests
      /\ wals' = wals
  BY <1>1 DEF disk
<1>4. DiskInv /\ HandleInv /\ StepInv /\ h # NoHandle
  BY <1>1 DEF LsmInv, StepInv
<1>5. step' = "idle" /\ job' = NoJob /\ inflight' = {} /\ pending' = pending /\ faults' = faults
  BY <1>1 DEF Acknowledge
<1>6. GoodHandle(h)'
  <2>1. PICK g : g = h
    OBVIOUS
  <2>2. GoodHandle(g)'
    BY <1>2, <1>4, <2>1, HandleStays DEF HandleInv
  <2> QED BY <1>1, <2>1, <2>2
<1>7. h.version.manifest # 0 => InstalledInv'
  BY <1>1, <1>2, <1>3, <1>4, <1>5, InstalledStays DEF HandleInv
<1>8. h.version.manifest = 0 => WalOnlyInv'
  BY <1>1, <1>3, <1>4, <1>5 DEF HandleInv, WalOnlyInv, Between
<1>9. HandleInv'
  BY <1>1, <1>3, <1>4, <1>5, <1>6, <1>7, <1>8 DEF HandleInv, Between
<1>10. JobInv'
  BY <1>5 DEF JobInv
<1>11. acked' \in Map
  BY <1>1, <1>4, AckedMap
<1>12. StepInv'
  BY <1>1, <1>3, <1>4, <1>5, <1>11 DEF StepInv, Between
<1> QED BY <1>2, <1>9, <1>10, <1>12 DEF LsmInv

\* A version set being installed stays installable while the disk only grows
\* and neither the segments nor the handle change.
LEMMA JobStays ==
    ASSUME DiskInv, DiskInv', Grown, wals' = wals, h' = h,
           high'.table = high.table, high'.wal = high.wal, NEW j, GoodJob(j)
    PROVE  GoodJob(j)'
<1>1. PICK next : next = j.next
  OBVIOUS
<1>2. next \in Versions /\ FilesOf(next)
  BY <1>1 DEF GoodJob, Jobs
<1>3. FilesOf(next)'
  BY <1>2, GrownFiles
<1> QED BY <1>1, <1>3 DEF GoodJob

\* prepare_install writes the manifest.
LEMMA WriteManifestInv == LsmInv /\ WriteManifest => LsmInv'
<1> SUFFICES ASSUME LsmInv, WriteManifest PROVE LsmInv'
  OBVIOUS
<1>1. PICK next : next = job.next
  OBVIOUS
<1>2. PICK j : j = job
  OBVIOUS
<1>3. PICK id : id = next.manifest
  OBVIOUS
<1>4. PICK content : content = [next EXCEPT !.gen = 0]
  OBVIOUS
<1>5. PICK outcome \in Outcomes :
         /\ manifests' = WithFile(manifests, id, content, outcome)
         /\ Raise("manifest", id, outcome)
         /\ ProceedOrGiveUp(outcome, "publish", j)
  BY <1>1, <1>2, <1>3, <1>4 DEF WriteManifest
<1>6. step = "manifest" /\ UNCHANGED <<exists, wals, tables, current>> /\ acked' = acked
  BY DEF WriteManifest
<1>7. DiskInv /\ ContentInv /\ SlotsInv /\ HandleInv /\ JobInv /\ StepInv
  BY DEF LsmInv
<1>8. h # NoHandle /\ job # NoJob /\ exists
  BY <1>6, <1>7 DEF StepInv, HandleInv, Between
<1>9. GoodJob(j) /\ high.manifest < h.nextManifest
  BY <1>2, <1>6, <1>7, <1>8 DEF JobInv
<1>10. /\ next \in Versions /\ ValidVersion(next) /\ id = h.nextManifest
       /\ h.version.manifest # 0
  BY <1>1, <1>2, <1>3, <1>9 DEF GoodJob, Jobs, InstallAccepts
<1>11. id \in Nat /\ high.manifest < id
  BY <1>3, <1>9, <1>10, VersionParts
<1>12. content \in Versions /\ ValidVersion(content) /\ content.gen = 0 /\ content.manifest = id
  <2>1. PICK mark : mark = next.watermark
    OBVIOUS
  <2>2. PICK u : u = Renumbered(next, 0, mark)
    OBVIOUS
  <2>3. mark \in Nat /\ next.watermark <= mark /\ 0 \in Nat
    BY <1>10, <2>1, VersionParts
  <2>4. u = content
    <3>1. content = [gen |-> 0, manifest |-> next.manifest, durable |-> next.durable,
                     gc |-> next.gc, watermark |-> mark, wal |-> next.wal,
                     first |-> next.first, tables |-> next.tables]
      BY <1>4, <1>10, <2>1 DEF Versions
    <3>2. u = [gen |-> 0, manifest |-> next.manifest, durable |-> next.durable,
               gc |-> next.gc, watermark |-> mark, wal |-> next.wal,
               first |-> next.first, tables |-> next.tables]
      BY <1>10, <2>2 DEF Versions, Renumbered
    <3> QED BY <3>1, <3>2, Zenon
  <2>5. u \in Versions /\ ValidVersion(u) /\ u.gen = 0 /\ u.manifest = next.manifest
    BY <1>10, <2>2, <2>3, StaysValid
  <2> QED BY <1>3, <2>4, <2>5
<1>13. /\ DiskInv' /\ ContentInv' /\ SlotsInv' /\ Grown
       /\ high' = IF outcome = "none" THEN high
                  ELSE [table |-> high.table, manifest |-> id, wal |-> high.wal]
       /\ outcome \in {"done", "whole"} => id \in DOMAIN manifests' /\ manifests'[id] = content
  BY <1>5, <1>6, <1>7, <1>8, <1>11, <1>12, AddManifest
<1>14. CASE outcome = "done"
  <2>1. Proceed("publish", j)
    BY <1>5, <1>14 DEF ProceedOrGiveUp
  <2>2. /\ h' = h /\ step' = "publish" /\ job' = j
        /\ exists' /\ GoodHandle(h)' /\ StepInv' /\ InstalledInv'
    <3>1. step \notin {"idle", "mirror"} /\ j # NoJob
      BY <1>2, <1>6, <1>8
    <3> QED BY <1>6, <1>8, <1>10, <1>13, <2>1, <3>1, ProceedKeeps DEF Between
  <2>3. HandleInv'
    BY <1>10, <2>2 DEF HandleInv, Between
  <2>4. high'.table = high.table /\ high'.wal = high.wal /\ high'.manifest = id
    BY <1>13, <1>14
  <2>5. GoodJob(j)'
    BY <1>6, <1>7, <1>9, <1>13, <2>2, <2>4, JobStays
  <2>6. Complete(manifests', id) /\ manifests'[id] = content
    <3>1. content # Torn
      BY <1>12, TornIsNoContent
    <3> QED BY <1>13, <1>14, <3>1 DEF Complete
  <2>7. JobInv'
    BY <1>1, <1>2, <1>3, <1>4, <1>10, <2>2, <2>4, <2>5, <2>6 DEF JobInv, Between
  <2> QED BY <1>13, <2>2, <2>3, <2>7 DEF LsmInv
<1>15. CASE outcome # "done"
  <2>1. GiveUp
    BY <1>5, <1>15 DEF ProceedOrGiveUp
  <2> QED BY <1>6, <1>8, <1>13, <2>1, GiveUpInv DEF LsmInv
<1> QED BY <1>14, <1>15

\* Two slots, and the parity that picks them.
LEMMA SlotParity ==
    ASSUME NEW gen \in Nat
    PROVE  /\ SlotOf(gen) \in {0, 1} /\ SlotOf(gen + 1) = 1 - SlotOf(gen)
           /\ \A s \in {0, 1} : s = SlotOf(gen) \/ s = 1 - SlotOf(gen)
           /\ 1 - SlotOf(gen) \in {0, 1} /\ 1 - SlotOf(gen) # SlotOf(gen)
BY DEF SlotOf

\* One slot written over, with a generation more than the other one has.
LEMMA WithSlotInv ==
    ASSUME DiskInv, current # NoCurrent,
           NEW version \in Versions, NEW gen \in Nat, NEW manifest \in Nat,
           version.gen = gen + 1,
           current[SlotOf(gen)] = Slot(gen, manifest),
           NEW outcome \in Outcomes \ {"none"}, current' = WithSlot(version, outcome),
           GoodSlot(Slot(gen, manifest))',
           GoodSlot(Slot(version.gen, version.manifest))'
    PROVE  /\ current' \in [{0, 1} -> Slots \cup {Torn}] /\ current' # NoCurrent
           /\ SlotsInv'
           /\ current'[SlotOf(gen)] = Slot(gen, manifest)
           /\ outcome # "torn" =>
                 current'[1 - SlotOf(gen)] = Slot(version.gen, version.manifest)
           /\ outcome = "torn" => current'[1 - SlotOf(gen)] = Torn
<1>1. PICK a : a = SlotOf(gen)
  OBVIOUS
<1>2. PICK b : b = 1 - a
  OBVIOUS
<1>3. PICK old : old = Slot(gen, manifest)
  OBVIOUS
<1>4. PICK new : new = Slot(version.gen, version.manifest)
  OBVIOUS
<1>5. PICK content : content = IF outcome = "torn" THEN Torn ELSE new
  OBVIOUS
<1>6. a \in {0, 1} /\ b \in {0, 1} /\ a # b /\ SlotOf(version.gen) = b
      /\ a = 1 - b /\ \A s \in {0, 1} : s = a \/ s = b
  BY <1>1, <1>2, SlotParity
<1>7. version.manifest \in Nat /\ version.gen \in Nat
  BY VersionParts
<1>8. old \in Slots /\ new \in Slots /\ old.gen = gen /\ new.gen = gen + 1
      /\ old # Torn /\ new # Torn
  BY <1>3, <1>4, <1>7, TornIsNoContent DEF Slot, Slots
<1>9. current \in [{0, 1} -> Slots \cup {Torn}] /\ current[a] = old
  BY <1>1, <1>3 DEF DiskInv
<1>10. current' = [current EXCEPT ![b] = content]
  BY <1>4, <1>5, <1>6 DEF WithSlot
<1>11. current' \in [{0, 1} -> Slots \cup {Torn}]
  BY <1>5, <1>6, <1>8, <1>9, <1>10
<1>12. current'[a] = old /\ current'[b] = content
  BY <1>6, <1>9, <1>10
<1>13. current' # NoCurrent
  BY <1>11, NoCurrentIsNotWritten
<1>14. gen % 2 = a /\ (gen + 1) % 2 = b
  BY <1>1, <1>2 DEF SlotOf
<1>15. GoodSlot(old)' /\ GoodSlot(new)'
  BY <1>3, <1>4
<1>16. SlotsInv'
  <2>1. PICK c : c = current'
    OBVIOUS
  <2>2. c[a] = old /\ c[b] = content /\ (content = Torn \/ content = new)
    BY <1>5, <1>12, <2>1
  <2>3. ASSUME NEW s \in {0, 1}, c[s] # Torn
        PROVE  GoodSlot(c[s])' /\ c[s].gen % 2 = s
    <3>1. CASE s = a
      BY <1>8, <1>14, <1>15, <2>2, <3>1
    <3>2. CASE s = b
      BY <1>8, <1>14, <1>15, <2>2, <2>3, <3>2
    <3> QED BY <1>6, <3>1, <3>2
  <2>4. ASSUME c[0] # Torn, c[1] # Torn
        PROVE  c[0].gen = c[1].gen + 1 \/ c[1].gen = c[0].gen + 1
    <3>1. c[b].gen = c[a].gen + 1
      BY <1>6, <1>8, <2>2, <2>4
    <3> QED BY <1>6, <3>1
  <2> QED BY <2>1, <2>3, <2>4 DEF SlotsInv
<1> QED BY <1>1, <1>2, <1>3, <1>4, <1>5, <1>11, <1>12, <1>13, <1>16

\* A slot that names the manifest of the job is a good one.
LEMMA JobSlot ==
    ASSUME LsmInv, step \in {"publish", "mirror"}, NEW gen \in Nat, NEW id,
           id = job.next.manifest
    PROVE  GoodSlot(Slot(gen, id))
<1>1. PICK next : next = job.next
  OBVIOUS
<1>2. PICK m : m = manifests[id]
  OBVIOUS
<1>3. job # NoJob /\ GoodJob(job) /\ Complete(manifests, id)
      /\ m = [next EXCEPT !.gen = 0]
  BY <1>1, <1>2 DEF LsmInv, StepInv, JobInv, Between
<1>4. next \in Versions /\ FilesOf(next) /\ high.table <= next.watermark
  BY <1>1, <1>3 DEF GoodJob, Jobs
<1>5. /\ m.tables = next.tables /\ m.wal = next.wal /\ m.first = next.first
      /\ m.durable = next.durable /\ m.watermark = next.watermark
  BY <1>3, <1>4 DEF Versions
<1>6. FilesOf(m)
  BY <1>4, <1>5, SameFiles
<1>7. Slot(gen, id).manifest = id
  BY DEF Slot
<1> QED BY <1>2, <1>3, <1>4, <1>5, <1>6, <1>7 DEF GoodSlot

\* A slot stays good while the files do.
LEMMA SlotStaysGood ==
    ASSUME wals' = wals, tables' = tables, manifests' = manifests, high' = high,
           NEW c, GoodSlot(c)
    PROVE  GoodSlot(c)'
<1>1. ASSUME NEW v, FilesOf(v) PROVE FilesOf(v)'
  BY <1>1 DEF FilesOf
<1>2. PICK m : m = manifests[c.manifest]
  OBVIOUS
<1>3. FilesOf(m)'
  BY <1>1, <1>2 DEF GoodSlot
<1>4. m = manifests'[c.manifest]
  BY <1>2
<1> QED BY <1>2, <1>3, <1>4 DEF GoodSlot

\* A slot written over while every file stays.
LEMMA SlotStep ==
    ASSUME LsmInv, current # NoCurrent,
           NEW version \in Versions, NEW gen \in Nat, NEW manifest \in Nat,
           version.gen = gen + 1,
           current[SlotOf(gen)] = Slot(gen, manifest),
           NEW outcome \in Outcomes, current' = WithSlot(version, outcome),
           GoodSlot(Slot(gen, manifest)), GoodSlot(Slot(version.gen, version.manifest)),
           UNCHANGED <<exists, wals, tables, manifests, high>>
    PROVE  /\ DiskInv' /\ ContentInv' /\ SlotsInv' /\ Grown /\ current' # NoCurrent
           /\ outcome = "done" =>
                 /\ current'[SlotOf(gen)] = Slot(gen, manifest)
                 /\ current'[1 - SlotOf(gen)] = Slot(version.gen, version.manifest)
<1>1. DiskInv /\ ContentInv /\ SlotsInv
  BY DEF LsmInv
<1>2. CASE outcome = "none"
  <2>1. UNCHANGED disk
    BY <1>2 DEF WithSlot, disk
  <2>2. current' = current
    BY <1>2 DEF WithSlot
  <2> QED BY <1>1, <1>2, <2>1, <2>2, DiskUnchanged
<1>3. CASE outcome # "none"
  <2>1. GoodSlot(Slot(gen, manifest))' /\ GoodSlot(Slot(version.gen, version.manifest))'
    <3>1. \A c : GoodSlot(c) => GoodSlot(c)'
      BY SlotStaysGood
    <3>2. PICK a : a = Slot(gen, manifest)
      OBVIOUS
    <3>3. PICK b : b = Slot(version.gen, version.manifest)
      OBVIOUS
    <3>4. GoodSlot(a)' /\ GoodSlot(b)'
      BY <3>1, <3>2, <3>3
    <3> QED BY <3>2, <3>3, <3>4
  <2>2. /\ current' \in [{0, 1} -> Slots \cup {Torn}] /\ current' # NoCurrent
        /\ SlotsInv'
        /\ current'[SlotOf(gen)] = Slot(gen, manifest)
        /\ outcome # "torn" =>
              current'[1 - SlotOf(gen)] = Slot(version.gen, version.manifest)
    BY <1>1, <1>3, <2>1, WithSlotInv
  <2>3. current # NoCurrent /\ exists
    BY <1>1 DEF DiskInv
  <2>4. DiskInv'
    BY <1>1, <2>2, <2>3 DEF DiskInv
  <2>5. ContentInv'
    BY <1>1 DEF ContentInv
  <2>6. Grown
    <3>1. wals \in Files(WalSegments)
      BY <1>1 DEF DiskInv
    <3>2. \A i \in DOMAIN wals : wals[i] # Torn => WalNext(wals[i]) <= WalNext(wals[i])
      BY <3>1, WholeFile, WalNextIs
    <3> QED BY <3>2 DEF Grown
  <2> QED BY <1>3, <2>2, <2>4, <2>5, <2>6
<1> QED BY <1>2, <1>3

\* The version set of the handle is the one just published.
LEMMA InstalledNow ==
    ASSUME NEW next \in Versions, NEW v \in Versions, v = [next EXCEPT !.gen = v.gen],
           h'.version = v, current' # NoCurrent,
           current'[SlotOf(v.gen)] = Slot(v.gen, v.manifest),
           Complete(manifests', v.manifest), manifests'[v.manifest] = [next EXCEPT !.gen = 0],
           step' \in {"flush", "rotate", "idle"},
           current'[1 - SlotOf(v.gen)].gen <= v.gen
    PROVE  InstalledInv'
<1>1. PICK m : m = manifests'[v.manifest]
  OBVIOUS
<1>2. m = [next EXCEPT !.gen = 0]
  BY <1>1
<1>3. m.watermark = v.watermark /\ v.watermark \in Nat
  BY <1>2, VersionParts DEF Versions
<1>4. v = [m EXCEPT !.gen = v.gen, !.watermark = v.watermark]
  <2>1. [m EXCEPT !.gen = v.gen, !.watermark = v.watermark] =
           [gen |-> v.gen, manifest |-> next.manifest, durable |-> next.durable,
            gc |-> next.gc, watermark |-> v.watermark, wal |-> next.wal,
            first |-> next.first, tables |-> next.tables]
    <3>1. m = [gen |-> 0, manifest |-> next.manifest, durable |-> next.durable,
               gc |-> next.gc, watermark |-> next.watermark, wal |-> next.wal,
               first |-> next.first, tables |-> next.tables]
      BY <1>2 DEF Versions
    <3>2. PICK mark : mark = v.watermark
      OBVIOUS
    <3>3. PICK gen : gen = v.gen
      OBVIOUS
    <3>4. [m EXCEPT !.gen = gen, !.watermark = mark] =
             [gen |-> gen, manifest |-> next.manifest, durable |-> next.durable,
              gc |-> next.gc, watermark |-> mark, wal |-> next.wal,
              first |-> next.first, tables |-> next.tables]
      <4>1. m \in Versions
        BY <3>1, VersionParts, VersionBuilt
      <4>2. PICK u : u = [m EXCEPT !.gen = gen, !.watermark = mark]
        OBVIOUS
      <4>3. u = [gen |-> gen, manifest |-> m.manifest, durable |-> m.durable,
                 gc |-> m.gc, watermark |-> mark, wal |-> m.wal,
                 first |-> m.first, tables |-> m.tables]
        BY <4>1, <4>2 DEF Versions
      <4>4. /\ m.manifest = next.manifest /\ m.durable = next.durable /\ m.gc = next.gc
            /\ m.wal = next.wal /\ m.first = next.first /\ m.tables = next.tables
        BY <3>1
      <4> QED BY <4>2, <4>3, <4>4
    <3> QED BY <3>2, <3>3, <3>4, Zenon
  <2>2. v = [gen |-> v.gen, manifest |-> next.manifest, durable |-> next.durable,
             gc |-> next.gc, watermark |-> next.watermark, wal |-> next.wal,
             first |-> next.first, tables |-> next.tables]
    BY DEF Versions
  <2>3. v.watermark = next.watermark
    BY <2>2
  <2> QED BY <2>1, <2>2, <2>3
<1>5. m.watermark <= v.watermark
  BY <1>3
<1>6. PICK g : g = h'
  OBVIOUS
<1>7. g.version = v
  BY <1>6
<1>8. step' # "initCurrent" /\ step' # "mirror"
  OBVIOUS
<1> QED BY <1>1, <1>4, <1>5, <1>8 DEF InstalledInv, Complete

\* What is known of a job whose manifest is written.
LEMMA RunningJob ==
    ASSUME LsmInv, step \in {"publish", "mirror"}
    PROVE  LET v == h.version
               next == job.next
           IN  /\ h # NoHandle /\ job \in Jobs /\ GoodJob(job) /\ exists
               /\ v \in Versions /\ v.gen \in Nat /\ v.manifest \in Nat /\ v.manifest # 0
               /\ next \in Versions /\ next.gen = v.gen + 1
               /\ next.manifest = h.nextManifest /\ next.manifest \in Nat \ {0}
               /\ FilesOf(next) /\ ValidVersion(next)
               /\ high.manifest = next.manifest /\ next.manifest \in DOMAIN manifests
               /\ manifests[next.manifest] = [next EXCEPT !.gen = 0]
               /\ current # NoCurrent
               /\ current[SlotOf(v.gen)] = Slot(v.gen, v.manifest)
               /\ GoodSlot(Slot(v.gen, v.manifest))
               /\ inflight # {} /\ job # NoJob
<1>1. PICK v : v = h.version
  OBVIOUS
<1>2. PICK next : next = job.next
  OBVIOUS
<1>3. DiskInv /\ SlotsInv /\ HandleInv /\ JobInv /\ StepInv
  BY DEF LsmInv
<1>4. h # NoHandle /\ job # NoJob /\ inflight # {}
  BY <1>3 DEF StepInv, Between
<1>5. GoodJob(job) /\ exists /\ v \in Versions
  BY <1>1, <1>3, <1>4, RunningHandle DEF JobInv, HandleInv
<1>6. /\ job \in Jobs /\ v.manifest # 0 /\ next.gen = v.gen + 1
      /\ next.manifest = h.nextManifest /\ FilesOf(next) /\ ValidVersion(next)
  BY <1>1, <1>2, <1>5 DEF GoodJob, InstallAccepts
<1>7. next \in Versions
  BY <1>2, <1>6 DEF Jobs
<1>8. /\ high.manifest = next.manifest /\ next.manifest \in DOMAIN manifests
      /\ manifests[next.manifest] = [next EXCEPT !.gen = 0]
  BY <1>2, <1>3, <1>4, <1>6 DEF JobInv, Complete
<1>9. next.manifest \in Nat \ {0}
  BY <1>3, <1>8, FilesMembers DEF DiskInv
<1>10. v.gen \in Nat /\ v.manifest \in Nat
  BY <1>5, VersionParts
<1>11. current # NoCurrent /\ current[SlotOf(v.gen)] = Slot(v.gen, v.manifest)
  BY <1>1, <1>3, <1>4, <1>6 DEF HandleInv, InstalledInv
<1>12. GoodSlot(Slot(v.gen, v.manifest))
  <2>1. PICK s \in {0, 1} : s = SlotOf(v.gen)
    BY <1>10, SlotParity
  <2>2. Slot(v.gen, v.manifest) \in Slots
    BY <1>10 DEF Slot, Slots
  <2>3. current[s] # Torn
    BY <1>11, <2>1, <2>2, TornIsNoContent
  <2> QED BY <1>3, <1>11, <2>1, <2>3 DEF SlotsInv
<1> QED BY <1>1, <1>2, <1>4, <1>5, <1>6, <1>7, <1>8, <1>9, <1>10, <1>11, <1>12

\* The MemTables left when the oldest frozen one is retired.
LEMMA RetiredMem ==
    ASSUME NEW mem \in MemSets, mem.immutable # << >>, NEW low \in Nat, NEW next \in Nat,
           MemInv(mem, low, next), NEW m,
           m = [mutable |-> mem.mutable, immutable |-> Tail(mem.immutable)]
    PROVE  m \in MemSets /\ MemInv(m, Head(mem.immutable).last, next)
<1>1. PICK imm : imm = mem.immutable
  OBVIOUS
<1>2. PICK rest : rest = Tail(imm)
  OBVIOUS
<1>3. imm \in Seq(MemTables) /\ imm # << >> /\ mem.mutable \in MemTables
  BY <1>1 DEF MemSets
<1>4. /\ rest \in Seq(MemTables) /\ Len(rest) = Len(imm) - 1 /\ Len(imm) \in Nat
      /\ \A i \in 1 .. Len(rest) : rest[i] = imm[i + 1] /\ i + 1 \in DOMAIN imm
      /\ 1 \in DOMAIN imm /\ Head(imm) = imm[1] /\ DOMAIN rest = 1 .. Len(rest)
  BY <1>2, <1>3
<1>5. m \in MemSets
  BY <1>1, <1>2, <1>3, <1>4 DEF MemSets
<1>6. /\ \A i \in DOMAIN imm : low < imm[i].last /\ imm[i].last < next
      /\ \A i, j \in DOMAIN imm : i < j => imm[i].last < imm[j].last
  BY <1>1 DEF MemInv
<1>7. ASSUME NEW i \in DOMAIN rest
      PROVE  Head(imm).last < rest[i].last /\ rest[i].last < next
  <2>1. i \in Nat /\ 1 < i + 1 /\ i + 1 \in DOMAIN imm /\ rest[i] = imm[i + 1]
        /\ 1 \in DOMAIN imm /\ Head(imm) = imm[1]
    BY <1>4
  <2>2. PICK k \in DOMAIN imm : k = i + 1
    BY <2>1
  <2> QED BY <1>6, <2>1, <2>2
<1>8. ASSUME NEW i \in DOMAIN rest, NEW j \in DOMAIN rest, i < j
      PROVE  rest[i].last < rest[j].last
  <2>1. i \in Nat /\ j \in Nat /\ i + 1 < j + 1
    BY <1>4, <1>8
  <2> QED BY <1>4, <1>6, <1>8, <2>1
<1>9. m.immutable = rest
  BY <1>1, <1>2
<1> QED BY <1>1, <1>5, <1>7, <1>8, <1>9 DEF MemInv

\* publish_prepared writes the slot of the new generation.
LEMMA PublishInv == LsmInv /\ Publish => LsmInv'
<1> SUFFICES ASSUME LsmInv, Publish PROVE LsmInv'
  OBVIOUS
<1>1. PICK v : v = h.version
  OBVIOUS
<1>2. PICK next : next = job.next
  OBVIOUS
<1>3. PICK j : j = job
  OBVIOUS
<1>4. /\ step = "publish" /\ acked' = acked
      /\ UNCHANGED <<exists, wals, tables, manifests, high>>
  BY DEF Publish
<1>5. PICK outcome \in Outcomes :
         /\ current' = WithSlot(next, outcome)
         /\ IF outcome = "done" /\ j.kind = "flush"
            THEN /\ h' = [h EXCEPT !.version = next, !.tabs = j.tabs,
                                   !.nextTable = @ + 1, !.nextManifest = @ + 1,
                                   !.mem.immutable = Tail(@)]
                 /\ step' = "flush" /\ job' = NoJob
                 /\ UNCHANGED <<inflight, pending, faults>>
            ELSE ProceedOrGiveUp(outcome, "mirror", j)
  BY <1>2, <1>3 DEF Publish
<1>6. DiskInv /\ ContentInv /\ SlotsInv /\ HandleInv /\ JobInv /\ StepInv
  BY DEF LsmInv
<1>7. /\ h # NoHandle /\ j \in Jobs /\ GoodJob(j) /\ exists
      /\ v \in Versions /\ v.gen \in Nat /\ v.manifest \in Nat /\ v.manifest # 0
      /\ next \in Versions /\ next.gen = v.gen + 1
      /\ next.manifest = h.nextManifest /\ next.manifest \in Nat \ {0}
      /\ FilesOf(next) /\ ValidVersion(next)
      /\ high.manifest = next.manifest /\ next.manifest \in DOMAIN manifests
      /\ manifests[next.manifest] = [next EXCEPT !.gen = 0]
      /\ current # NoCurrent
      /\ current[SlotOf(v.gen)] = Slot(v.gen, v.manifest)
      /\ GoodSlot(Slot(v.gen, v.manifest))
      /\ inflight # {} /\ j # NoJob
  BY <1>1, <1>2, <1>3, <1>4, RunningJob
<1>8. next.gen \in Nat /\ GoodSlot(Slot(next.gen, next.manifest))
  <2>1. next.gen \in Nat
    BY <1>7, VersionParts
  <2> QED BY <1>2, <1>4, <2>1, JobSlot
<1>9. /\ DiskInv' /\ ContentInv' /\ SlotsInv' /\ Grown /\ current' # NoCurrent
      /\ outcome = "done" =>
            /\ current'[SlotOf(v.gen)] = Slot(v.gen, v.manifest)
            /\ current'[1 - SlotOf(v.gen)] = Slot(next.gen, next.manifest)
  BY <1>4, <1>5, <1>7, <1>8, SlotStep
<1>10. SlotOf(next.gen) = 1 - SlotOf(v.gen) /\ 1 - SlotOf(next.gen) = SlotOf(v.gen)
  <2>1. SlotOf(v.gen) \in {0, 1} /\ SlotOf(next.gen) = 1 - SlotOf(v.gen)
    BY <1>7, SlotParity
  <2> QED BY <2>1
<1>11. manifests'[next.manifest] = [next EXCEPT !.gen = 0] /\ Complete(manifests', next.manifest)
  <2>1. GoodSlot(Slot(next.gen, next.manifest))
    BY <1>8
  <2>2. Complete(manifests, next.manifest)
    BY <1>2, <1>3, <1>4, <1>6, <1>7 DEF JobInv
  <2> QED BY <1>4, <1>7, <2>2
<1>12. CASE outcome = "done" /\ j.kind = "flush"
  <2>1. /\ h' = [h EXCEPT !.version = next, !.tabs = j.tabs,
                          !.nextTable = @ + 1, !.nextManifest = @ + 1,
                          !.mem.immutable = Tail(@)]
        /\ step' = "flush" /\ job' = NoJob
        /\ UNCHANGED <<inflight, pending, faults>>
    BY <1>5, <1>12
  <2>2. /\ h.mem.immutable # << >> /\ next.durable = Head(h.mem.immutable).last
        /\ next.watermark = h.nextTable /\ next.wal = v.wal
        /\ high.table <= next.watermark /\ high.wal < h.nextWal
    BY <1>1, <1>2, <1>3, <1>7, <1>12 DEF GoodJob
  <2>3. /\ h \in Handles /\ h.mem \in MemSets
        /\ h.nextTable \in Nat /\ h.nextManifest \in Nat /\ h.nextWal \in Nat
        /\ MemInv(h.mem, v.durable, WalNext(wals[v.wal]))
        /\ v.durable \in Nat /\ WalNext(wals[v.wal]) \in Nat
    BY <1>1, <1>7, RunningHandle
  <2>4. PICK g : g = h'
    OBVIOUS
  <2>5. PICK mem : mem = [mutable |-> h.mem.mutable, immutable |-> Tail(h.mem.immutable)]
    OBVIOUS
  <2>6. g = [version |-> next, tabs |-> j.tabs, mem |-> mem, nextTable |-> h.nextTable + 1,
             nextManifest |-> h.nextManifest + 1, nextWal |-> h.nextWal]
    <3>1. h = [version |-> v, tabs |-> h.tabs, mem |-> h.mem, nextTable |-> h.nextTable,
               nextManifest |-> h.nextManifest, nextWal |-> h.nextWal]
      BY <1>1, <2>3, HandleParts
    <3>2. [h.mem EXCEPT !.immutable = Tail(@)] = mem
      <4>1. PICK old : old = h.mem
        OBVIOUS
      <4>2. PICK rest : rest = Tail(old.immutable)
        OBVIOUS
      <4>3. [old EXCEPT !.immutable = rest] = [mutable |-> old.mutable, immutable |-> rest]
        BY <2>3, <4>1 DEF MemSets
      <4> QED BY <2>5, <4>1, <4>2, <4>3
    <3> QED BY <2>1, <2>4, <3>1, <3>2
  <2>7. mem \in MemSets /\ MemInv(mem, next.durable, WalNext(wals[v.wal]))
    BY <2>2, <2>3, <2>5, RetiredMem
  <2>8. g \in Handles
    <3>1. j.tabs \in Seq(Tables)
      BY <1>7 DEF Jobs
    <3>2. h.nextTable + 1 \in Nat /\ h.nextManifest + 1 \in Nat
      BY <2>3
    <3> QED BY <1>7, <2>3, <2>6, <2>7, <3>1, <3>2, HandleBuilt
  <2>9. /\ g.version = next /\ g.mem = mem /\ g.nextTable = next.watermark + 1
        /\ g.nextManifest = h.nextManifest + 1 /\ g.nextWal = h.nextWal
    BY <2>2, <2>6
  <2>10. GoodHandle(g)'
    <3>1. FilesOf(next)'
      BY <1>6, <1>7, <1>9, GrownFiles
    <3>2. MemInv(mem, next.durable, WalNext(wals'[next.wal]))
      BY <1>4, <2>2, <2>7
    <3> QED BY <1>7, <2>8, <2>9, <3>1, <3>2 DEF GoodHandle
  <2>11. InstalledInv'
    <3>1. next = [next EXCEPT !.gen = next.gen]
      BY <1>7 DEF Versions
    <3>2. current'[1 - SlotOf(next.gen)].gen <= next.gen
      BY <1>7, <1>9, <1>10, <1>12 DEF Slot
    <3>3. current'[SlotOf(next.gen)] = Slot(next.gen, next.manifest)
      BY <1>9, <1>10, <1>12
    <3>4. h'.version = next
      BY <2>4, <2>9
    <3> QED BY <1>7, <1>9, <1>11, <2>1, <3>1, <3>2, <3>3, <3>4, InstalledNow
  <2>12. high.table < g.nextTable /\ high.wal < g.nextWal /\ high.manifest < g.nextManifest
    <3>1. high.table \in Nat /\ next.watermark \in Nat
      BY <1>6, <1>7, VersionParts DEF DiskInv
    <3> QED BY <1>7, <2>2, <2>3, <2>9, <3>1
  <2>13. HandleInv'
    BY <1>4, <1>7, <2>1, <2>4, <2>9, <2>10, <2>11, <2>12 DEF HandleInv, Between
  <2>14. JobInv'
    BY <2>1 DEF JobInv
  <2>15. h' # NoHandle
    BY <2>4, <2>8, NoHandleIsNoHandle
  <2>16. StepInv'
    BY <1>4, <1>6, <1>7, <2>1, <2>15 DEF StepInv, Between
  <2> QED BY <1>9, <2>13, <2>14, <2>16 DEF LsmInv
<1>13. CASE outcome = "done" /\ j.kind # "flush"
  <2>1. Proceed("mirror", j)
    BY <1>5, <1>13 DEF ProceedOrGiveUp
  <2>2. /\ h' = h /\ step' = "mirror" /\ job' = j
        /\ exists' /\ GoodHandle(h)' /\ StepInv'
    <3>1. step \notin {"idle", "mirror"}
      BY <1>4
    <3> QED BY <1>4, <1>7, <1>9, <2>1, <3>1, ProceedKeeps DEF Between
  <2>3. InstalledInv'
    <3>1. InstalledInv
      BY <1>1, <1>6, <1>7 DEF HandleInv
    <3> QED BY <1>1, <1>4, <1>9, <1>13, <2>2, <3>1 DEF InstalledInv, Complete
  <2>4. HandleInv'
    BY <1>1, <1>7, <2>2, <2>3 DEF HandleInv, Between
  <2>5. GoodJob(j)'
    BY <1>4, <1>6, <1>7, <1>9, <2>2, JobStays
  <2>6. JobInv'
    <3>1. current'[SlotOf(next.gen)] = Slot(next.gen, next.manifest)
      BY <1>9, <1>10, <1>13
    <3> QED BY <1>2, <1>3, <1>4, <1>7, <1>11, <1>13, <2>2, <2>5, <3>1 DEF JobInv, Between
  <2> QED BY <1>9, <2>2, <2>4, <2>6 DEF LsmInv
<1>14. CASE outcome # "done"
  <2>1. GiveUp
    BY <1>5, <1>14 DEF ProceedOrGiveUp
  <2> QED BY <1>4, <1>7, <1>9, <2>1, GiveUpInv DEF LsmInv
<1> QED BY <1>12, <1>13, <1>14

\* The next generation of a version set.
LEMMA MirroredIs ==
    ASSUME NEW next \in Versions, ValidVersion(next), NEW v, v = Mirrored(next)
    PROVE  /\ v \in Versions /\ ValidVersion(v) /\ v = [next EXCEPT !.gen = v.gen]
           /\ v.gen = next.gen + 1 /\ v.manifest = next.manifest
           /\ v.watermark = next.watermark /\ v.durable = next.durable
           /\ v.wal = next.wal /\ v.first = next.first /\ v.tables = next.tables
<1>1. PICK gen : gen = next.gen + 1
  OBVIOUS
<1>2. PICK mark : mark = next.watermark
  OBVIOUS
<1>3. gen \in Nat /\ mark \in Nat /\ mark <= mark
  BY <1>1, <1>2, VersionParts
<1>4. v = [gen |-> gen, manifest |-> next.manifest, durable |-> next.durable,
           gc |-> next.gc, watermark |-> mark, wal |-> next.wal,
           first |-> next.first, tables |-> next.tables]
  BY <1>1, <1>2 DEF Mirrored, Versions
<1>5. PICK u : u = Renumbered(next, gen, mark)
  OBVIOUS
<1>6. u = [gen |-> gen, manifest |-> next.manifest, durable |-> next.durable,
           gc |-> next.gc, watermark |-> mark, wal |-> next.wal,
           first |-> next.first, tables |-> next.tables]
  BY <1>5 DEF Renumbered, Versions
<1>7. u = v
  BY <1>4, <1>6, Zenon
<1>8. u \in Versions /\ ValidVersion(u) /\ u.gen = gen /\ u.watermark = mark
      /\ u.manifest = next.manifest /\ u.durable = next.durable
      /\ u.wal = next.wal /\ u.first = next.first /\ u.tables = next.tables
  BY <1>2, <1>3, <1>5, StaysValid
<1>9. v = [next EXCEPT !.gen = v.gen]
  BY DEF Mirrored, Versions
<1> QED BY <1>1, <1>2, <1>7, <1>8, <1>9

\* The second slot is not written, or nobody knows.
LEMMA MirrorFailsInv == LsmInv /\ MirrorFails => LsmInv'
<1> SUFFICES ASSUME LsmInv, MirrorFails PROVE LsmInv'
  OBVIOUS
<1>1. PICK next : next = job.next
  OBVIOUS
<1>2. PICK v : v = Mirrored(next)
  OBVIOUS
<1>3. /\ step = "mirror" /\ GiveUp /\ acked' = acked
      /\ UNCHANGED <<exists, wals, tables, manifests, high>>
  BY DEF MirrorFails
<1>4. PICK outcome \in Outcomes : current' = WithSlot(v, outcome)
  BY <1>1, <1>2 DEF MirrorFails, MirrorSlot
<1>5. /\ h # NoHandle /\ next \in Versions /\ ValidVersion(next)
      /\ next.manifest \in Nat /\ current # NoCurrent
  BY <1>1, <1>3, RunningJob
<1>6. /\ v \in Versions /\ v.gen = next.gen + 1 /\ v.manifest = next.manifest
      /\ next.gen \in Nat /\ v.gen \in Nat
  BY <1>2, <1>5, MirroredIs, VersionParts
<1>7. current[SlotOf(next.gen)] = Slot(next.gen, next.manifest)
  BY <1>1, <1>3, <1>5 DEF LsmInv, JobInv, StepInv, Between
<1>8. GoodSlot(Slot(next.gen, next.manifest)) /\ GoodSlot(Slot(v.gen, v.manifest))
  BY <1>1, <1>3, <1>6, JobSlot
<1>9. DiskInv' /\ ContentInv' /\ SlotsInv'
  BY <1>3, <1>4, <1>5, <1>6, <1>7, <1>8, SlotStep
<1> QED BY <1>3, <1>5, <1>9, GiveUpInv DEF LsmInv
-----------------------------------------------------------------------------
\* The end of a compaction and of a rotation.

\* The disk after a reclaim pass that leaves what the new version set names,
\* with both slots naming it.
LEMMA FinishDisk ==
    ASSUME LsmInv, step = "mirror", NEW next, next = job.next, NEW v, v = Mirrored(next),
           exists' = exists, high' = high, current' = WithSlot(v, "done"),
           tables' \in Files(SortedTables), DOMAIN tables' \subseteq DOMAIN tables,
           \A i \in DOMAIN tables' : tables'[i] = tables[i],
           \A i \in DOMAIN next.tables : next.tables[i].id \in DOMAIN tables',
           wals' \in Files(WalSegments), DOMAIN wals' \subseteq DOMAIN wals,
           \A i \in DOMAIN wals' : wals'[i] = wals[i],
           next.wal \in DOMAIN wals', high.wal # 0 => high.wal \in DOMAIN wals',
           manifests' \in Reclaimed(manifests, {next.manifest})
    PROVE  /\ DiskInv' /\ ContentInv' /\ SlotsInv'
           /\ FilesOf(v)' /\ v \in Versions /\ ValidVersion(v)
           /\ v.manifest = next.manifest /\ v.watermark = next.watermark
           /\ v.durable = next.durable /\ v.wal = next.wal
           /\ step' \in {"idle", "rotate"} /\ h'.version = v => InstalledInv'
<1>1. /\ next \in Versions /\ ValidVersion(next) /\ FilesOf(next)
      /\ next.manifest \in Nat \ {0}
      /\ high.manifest = next.manifest /\ next.manifest \in DOMAIN manifests
      /\ manifests[next.manifest] = [next EXCEPT !.gen = 0]
      /\ current # NoCurrent /\ GoodJob(job) /\ exists /\ job # NoJob
  BY RunningJob
<1>2. DiskInv /\ ContentInv /\ SlotsInv /\ JobInv
  BY DEF LsmInv
<1>3. /\ v \in Versions /\ ValidVersion(v) /\ v = [next EXCEPT !.gen = v.gen]
      /\ v.gen = next.gen + 1 /\ v.manifest = next.manifest
      /\ v.watermark = next.watermark /\ v.durable = next.durable
      /\ v.wal = next.wal /\ v.first = next.first /\ v.tables = next.tables
  BY <1>1, MirroredIs
<1>4. next.gen \in Nat
  BY <1>1, VersionParts
<1>5. /\ manifests' \in Files(Versions) /\ next.manifest \in DOMAIN manifests'
      /\ DOMAIN manifests' \subseteq DOMAIN manifests
      /\ \A i \in DOMAIN manifests' : manifests'[i] = manifests[i]
  <2>1. manifests \in Files(Versions) /\ {next.manifest} \in SUBSET DOMAIN manifests
    BY <1>1, <1>2 DEF DiskInv
  <2> QED BY <2>1, ReclaimedIs
<1>6. current \in [{0, 1} -> Slots \cup {Torn}]
  BY <1>1, <1>2 DEF DiskInv
<1>7. current' \in [{0, 1} -> Slots \cup {Torn}] /\ current' # NoCurrent
  <2>1. SlotOf(v.gen) \in {0, 1}
    BY <1>3, <1>4, SlotParity
  <2>2. Slot(v.gen, v.manifest) \in Slots
    BY <1>3, VersionParts DEF Slot, Slots
  <2>3. current' = [current EXCEPT ![SlotOf(v.gen)] = Slot(v.gen, v.manifest)]
    BY DEF WithSlot
  <2>4. current' \in [{0, 1} -> Slots \cup {Torn}]
    BY <1>6, <2>1, <2>2, <2>3
  <2> QED BY <2>4, NoCurrentIsNotWritten
<1>8. DiskInv'
  <2>1. /\ \A i \in DOMAIN tables : i <= high.table
        /\ \A i \in DOMAIN manifests : i <= high.manifest
        /\ \A i \in DOMAIN wals : i <= high.wal
        /\ high \in [table : Nat, manifest : Nat, wal : Nat]
    BY <1>2 DEF DiskInv
  <2> QED BY <1>1, <1>5, <1>7, <2>1 DEF DiskInv
<1>9. ContentInv'
  BY <1>2, <1>5 DEF ContentInv
<1>10. FilesOf(next)'
  <2>1. next.wal \in DOMAIN wals /\ wals[next.wal] # Torn /\ wals'[next.wal] = wals[next.wal]
    BY <1>1 DEF FilesOf, Complete
  <2>2. WalNext(wals[next.wal]) <= WalNext(wals'[next.wal])
    <3>1. wals \in Files(WalSegments)
      BY <1>2 DEF DiskInv
    <3>2. wals[next.wal] \in WalSegments
      BY <2>1, <3>1, WholeFile
    <3>3. WalNext(wals[next.wal]) \in Nat
      BY <3>2, WalNextIs
    <3>4. WalNext(wals'[next.wal]) = WalNext(wals[next.wal])
      BY <2>1
    <3> QED BY <3>3, <3>4
  <2> QED BY <1>1, <1>2, <1>8, <2>1, <2>2, FilesStay
<1>11. FilesOf(v)'
  BY <1>3, <1>10 DEF FilesOf
<1>12. GoodSlot(Slot(next.gen, next.manifest))' /\ GoodSlot(Slot(v.gen, v.manifest))'
  <2>1. PICK m : m = manifests'[next.manifest]
    OBVIOUS
  <2>2. m = [next EXCEPT !.gen = 0]
    BY <1>1, <1>5, <2>1
  <2>3. /\ m.tables = next.tables /\ m.wal = next.wal /\ m.first = next.first
        /\ m.durable = next.durable /\ m.watermark = next.watermark /\ m \in Versions
    BY <1>1, <2>2 DEF Versions
  <2>4. FilesOf(m)'
    BY <1>10, <2>3 DEF FilesOf
  <2>5. high.table <= next.watermark
    BY <1>1 DEF GoodJob
  <2>6. Complete(manifests', next.manifest)
    BY <1>5, <2>1, <2>3, TornIsNoContent DEF Complete
  <2>7. ASSUME NEW c, c.manifest = next.manifest PROVE GoodSlot(c)'
    BY <2>1, <2>3, <2>4, <2>5, <2>6, <2>7 DEF GoodSlot
  <2>8. PICK a : a = Slot(next.gen, next.manifest)
    OBVIOUS
  <2>9. PICK b : b = Slot(v.gen, v.manifest)
    OBVIOUS
  <2>10. a.manifest = next.manifest /\ b.manifest = next.manifest
    BY <1>3, <2>8, <2>9 DEF Slot
  <2>11. GoodSlot(a)' /\ GoodSlot(b)'
    BY <2>7, <2>10
  <2> QED BY <2>8, <2>9, <2>11
<1>13. current[SlotOf(next.gen)] = Slot(next.gen, next.manifest)
  BY <1>1, <1>2 DEF JobInv
<1>14. /\ SlotsInv'
       /\ current'[SlotOf(next.gen)] = Slot(next.gen, next.manifest)
       /\ current'[1 - SlotOf(next.gen)] = Slot(v.gen, v.manifest)
  <2>1. "done" \in Outcomes \ {"none"} /\ "done" # "torn"
    BY DEF Outcomes
  <2>2. next.manifest \in Nat
    BY <1>1
  <2> QED BY <1>1, <1>2, <1>3, <1>4, <1>12, <1>13, <2>1, <2>2, WithSlotInv
<1>15. ASSUME step' \in {"idle", "rotate"}, h'.version = v PROVE InstalledInv'
  <2>1. SlotOf(v.gen) = 1 - SlotOf(next.gen) /\ 1 - SlotOf(v.gen) = SlotOf(next.gen)
    <3>1. SlotOf(next.gen) \in {0, 1} /\ SlotOf(v.gen) = 1 - SlotOf(next.gen)
      BY <1>3, <1>4, SlotParity
    <3> QED BY <3>1
  <2>2. current'[1 - SlotOf(v.gen)].gen <= v.gen
    BY <1>3, <1>4, <1>14, <2>1 DEF Slot
  <2>3. Complete(manifests', v.manifest) /\ manifests'[v.manifest] = [next EXCEPT !.gen = 0]
    <3>1. PICK m : m = manifests'[next.manifest]
      OBVIOUS
    <3>2. m = [next EXCEPT !.gen = 0]
      BY <1>1, <1>5, <3>1
    <3>3. m \in Versions
      BY <1>1, <3>2 DEF Versions
    <3>4. m # Torn
      BY <3>3, TornIsNoContent
    <3> QED BY <1>3, <1>5, <3>1, <3>2, <3>4 DEF Complete
  <2>4. current'[SlotOf(v.gen)] = Slot(v.gen, v.manifest)
    BY <1>14, <2>1
  <2> QED BY <1>1, <1>3, <1>7, <1>15, <2>2, <2>3, <2>4, InstalledNow
<1> QED BY <1>3, <1>8, <1>9, <1>11, <1>14, <1>15

\* The compacted version set takes over.
LEMMA FinishCompactionInv == LsmInv /\ FinishCompaction => LsmInv'
<1> SUFFICES ASSUME LsmInv, FinishCompaction PROVE LsmInv'
  OBVIOUS
<1>1. PICK next : next = job.next
  OBVIOUS
<1>2. PICK v : v = Mirrored(next)
  OBVIOUS
<1>3. PICK j : j = job
  OBVIOUS
<1>4. PICK old : old = h.version
  OBVIOUS
<1>5. /\ step = "mirror" /\ j.kind = "compact" /\ current' = WithSlot(v, "done")
      /\ h' = [h EXCEPT !.version = v, !.tabs = j.tabs,
                        !.nextTable = @ + Len(j.tabs), !.nextManifest = @ + 1]
      /\ tables' \in Reclaimed(tables, {d.id : d \in Range(next.tables)})
      /\ manifests' \in Reclaimed(manifests, {next.manifest})
      /\ step' = "rotate" /\ job' = NoJob
      /\ UNCHANGED <<exists, wals, inflight, acked, pending, high, faults>>
  BY <1>1, <1>2, <1>3 DEF FinishCompaction, MirrorSlot
<1>6. /\ h # NoHandle /\ j \in Jobs /\ GoodJob(j) /\ exists
      /\ next \in Versions /\ FilesOf(next) /\ next.manifest = h.nextManifest
      /\ next.manifest \in Nat \ {0} /\ high.manifest = next.manifest /\ inflight # {}
  BY <1>1, <1>3, <1>5, RunningJob
<1>7. DiskInv /\ StepInv
  BY DEF LsmInv
<1>8. /\ h \in Handles /\ h.mem \in MemSets /\ h.nextTable \in Nat
      /\ h.nextManifest \in Nat /\ h.nextWal \in Nat
      /\ MemInv(h.mem, old.durable, WalNext(wals[old.wal]))
  BY <1>4, <1>6, RunningHandle
<1>9. /\ next.durable = old.durable /\ next.wal = old.wal
      /\ next.watermark + 1 = h.nextTable + Len(j.tabs)
      /\ high.table <= next.watermark /\ high.wal < h.nextWal
  BY <1>1, <1>3, <1>4, <1>5, <1>6 DEF GoodJob
<1>10. /\ tables' \in Files(SortedTables) /\ DOMAIN tables' \subseteq DOMAIN tables
       /\ \A i \in DOMAIN tables' : tables'[i] = tables[i]
       /\ \A i \in DOMAIN next.tables : next.tables[i].id \in DOMAIN tables'
  <2>1. PICK active : active = {d.id : d \in Range(next.tables)}
    OBVIOUS
  <2>2. active = {next.tables[i].id : i \in DOMAIN next.tables}
    BY <2>1 DEF Range
  <2>3. \A i \in DOMAIN next.tables : next.tables[i].id \in active
    BY <2>2
  <2>4. active \in SUBSET DOMAIN tables
    <3>1. \A i \in DOMAIN next.tables : next.tables[i].id \in DOMAIN tables
      BY <1>6 DEF FilesOf, Complete
    <3> QED BY <2>2, <3>1
  <2>5. tables \in Files(SortedTables) /\ tables' \in Reclaimed(tables, active)
    BY <1>5, <1>7, <2>1 DEF DiskInv
  <2>6. /\ tables' \in Files(SortedTables)
        /\ active \subseteq DOMAIN tables' /\ DOMAIN tables' \subseteq DOMAIN tables
        /\ \A i \in DOMAIN tables' : tables'[i] = tables[i]
    BY <2>4, <2>5, ReclaimedIs
  <2> QED BY <2>3, <2>6
<1>11. /\ wals' \in Files(WalSegments) /\ DOMAIN wals' \subseteq DOMAIN wals
       /\ \A i \in DOMAIN wals' : wals'[i] = wals[i]
       /\ next.wal \in DOMAIN wals' /\ (high.wal # 0 => high.wal \in DOMAIN wals')
  <2>1. next.wal \in DOMAIN wals
    BY <1>6 DEF FilesOf, Complete
  <2> QED BY <1>5, <1>7, <2>1 DEF DiskInv
<1>12. exists' = exists /\ high' = high
  BY <1>5
<1>13. /\ DiskInv' /\ ContentInv' /\ SlotsInv'
       /\ FilesOf(v)' /\ v \in Versions /\ ValidVersion(v)
       /\ v.manifest = next.manifest /\ v.watermark = next.watermark
       /\ v.durable = next.durable /\ v.wal = next.wal
       /\ step' \in {"idle", "rotate"} /\ h'.version = v => InstalledInv'
  BY <1>1, <1>2, <1>5, <1>10, <1>11, <1>12, FinishDisk
<1>14. PICK g : g = h'
  OBVIOUS
<1>15. j.tabs \in Seq(Tables) /\ Len(j.tabs) \in Nat
  BY <1>6 DEF Jobs
<1>16. g = [version |-> v, tabs |-> j.tabs, mem |-> h.mem,
            nextTable |-> h.nextTable + Len(j.tabs),
            nextManifest |-> h.nextManifest + 1, nextWal |-> h.nextWal]
  <2>1. h = [version |-> h.version, tabs |-> h.tabs, mem |-> h.mem, nextTable |-> h.nextTable,
             nextManifest |-> h.nextManifest, nextWal |-> h.nextWal]
    BY <1>8, HandleParts
  <2> QED BY <1>5, <1>14, <2>1
<1>17. g \in Handles
  <2>1. h.nextTable + Len(j.tabs) \in Nat /\ h.nextManifest + 1 \in Nat
    BY <1>8, <1>15
  <2> QED BY <1>8, <1>13, <1>15, <1>16, <2>1, HandleBuilt
<1>18. /\ g.version = v /\ g.mem = h.mem /\ g.nextTable = v.watermark + 1
       /\ g.nextManifest = h.nextManifest + 1 /\ g.nextWal = h.nextWal
  BY <1>9, <1>13, <1>16
<1>19. GoodHandle(g)'
  <2>1. MemInv(h.mem, v.durable, WalNext(wals'[v.wal]))
    BY <1>5, <1>8, <1>9, <1>13
  <2> QED BY <1>13, <1>17, <1>18, <2>1 DEF GoodHandle
<1>20. InstalledInv'
  BY <1>5, <1>13, <1>14, <1>18
<1>21. high.table < g.nextTable /\ high.wal < g.nextWal /\ high.manifest < g.nextManifest
  <2>1. high.table \in Nat /\ next.watermark \in Nat
    BY <1>6, <1>7, VersionParts DEF DiskInv
  <2>2. high.table < g.nextTable
    BY <1>9, <1>13, <1>18, <2>1
  <2>3. high.wal < g.nextWal
    BY <1>9, <1>18
  <2>4. high.manifest < g.nextManifest
    BY <1>6, <1>8, <1>18
  <2> QED BY <2>2, <2>3, <2>4
<1>22. HandleInv'
  BY <1>5, <1>6, <1>13, <1>14, <1>18, <1>19, <1>20, <1>21 DEF HandleInv, Between
<1>23. JobInv'
  BY <1>5 DEF JobInv
<1>24. h' # NoHandle
  BY <1>14, <1>17, NoHandleIsNoHandle
<1>25. StepInv'
  BY <1>5, <1>6, <1>7, <1>24 DEF StepInv, Between
<1> QED BY <1>13, <1>22, <1>23, <1>25 DEF LsmInv

\* The new segment takes over, and the call returns.
LEMMA FinishRotationInv == LsmInv /\ FinishRotation => LsmInv' /\ h' # NoHandle
<1> SUFFICES ASSUME LsmInv, FinishRotation PROVE LsmInv' /\ h' # NoHandle
  OBVIOUS
<1>1. PICK next : next = job.next
  OBVIOUS
<1>2. PICK v : v = Mirrored(next)
  OBVIOUS
<1>3. PICK j : j = job
  OBVIOUS
<1>4. PICK old : old = h.version
  OBVIOUS
<1>5. /\ step = "mirror" /\ j.kind = "rotate" /\ current' = WithSlot(v, "done")
      /\ h' = [h EXCEPT !.version = v, !.nextWal = @ + 1, !.nextManifest = @ + 1]
      /\ wals' \in Reclaimed(wals, {next.wal})
      /\ manifests' \in Reclaimed(manifests, {next.manifest})
      /\ Acknowledge
      /\ UNCHANGED <<exists, tables, high>>
  BY <1>1, <1>2, <1>3 DEF FinishRotation, MirrorSlot
<1>6. /\ h # NoHandle /\ j \in Jobs /\ GoodJob(j) /\ exists
      /\ next \in Versions /\ FilesOf(next) /\ next.manifest = h.nextManifest
      /\ next.manifest \in Nat \ {0} /\ high.manifest = next.manifest
  BY <1>1, <1>3, <1>5, RunningJob
<1>7. DiskInv /\ StepInv
  BY DEF LsmInv
<1>8. /\ h \in Handles /\ h.mem \in MemSets /\ h.nextTable \in Nat
      /\ h.tabs \in Seq(Tables)
      /\ h.nextManifest \in Nat /\ h.nextWal \in Nat
      /\ h.nextTable = old.watermark + 1 /\ old.durable \in Nat
      /\ MemInv(h.mem, old.durable, WalNext(wals[old.wal]))
  BY <1>4, <1>6, RunningHandle
<1>9. /\ next.durable = old.durable /\ next.watermark = old.watermark
      /\ next.wal = h.nextWal /\ high.wal = h.nextWal
      /\ WalNext(wals[old.wal]) = old.durable + 1 /\ high.table <= next.watermark
  BY <1>1, <1>3, <1>4, <1>5, <1>6 DEF GoodJob
<1>10. next.wal \in DOMAIN wals /\ wals[next.wal] # Torn
       /\ next.durable < WalNext(wals[next.wal])
  BY <1>6 DEF FilesOf, Complete
<1>11. /\ wals' \in Files(WalSegments) /\ DOMAIN wals' \subseteq DOMAIN wals
       /\ \A i \in DOMAIN wals' : wals'[i] = wals[i]
       /\ next.wal \in DOMAIN wals' /\ (high.wal # 0 => high.wal \in DOMAIN wals')
  <2>1. wals \in Files(WalSegments) /\ {next.wal} \in SUBSET DOMAIN wals
    BY <1>7, <1>10 DEF DiskInv
  <2>2. /\ wals' \in Files(WalSegments)
        /\ {next.wal} \subseteq DOMAIN wals' /\ DOMAIN wals' \subseteq DOMAIN wals
        /\ \A i \in DOMAIN wals' : wals'[i] = wals[i]
    BY <1>5, <2>1, ReclaimedIs
  <2> QED BY <1>9, <2>2
<1>12. /\ tables' \in Files(SortedTables) /\ DOMAIN tables' \subseteq DOMAIN tables
       /\ \A i \in DOMAIN tables' : tables'[i] = tables[i]
       /\ \A i \in DOMAIN next.tables : next.tables[i].id \in DOMAIN tables'
  <2>1. \A i \in DOMAIN next.tables : next.tables[i].id \in DOMAIN tables
    BY <1>6 DEF FilesOf, Complete
  <2> QED BY <1>5, <1>7, <2>1 DEF DiskInv
<1>13. exists' = exists /\ high' = high
  BY <1>5
<1>14. /\ step' = "idle" /\ job' = NoJob /\ inflight' = {} /\ pending' = pending
       /\ faults' = faults
  BY <1>5 DEF Acknowledge
<1>15. /\ DiskInv' /\ ContentInv' /\ SlotsInv'
       /\ FilesOf(v)' /\ v \in Versions /\ ValidVersion(v)
       /\ v.manifest = next.manifest /\ v.watermark = next.watermark
       /\ v.durable = next.durable /\ v.wal = next.wal
       /\ step' \in {"idle", "rotate"} /\ h'.version = v => InstalledInv'
  BY <1>1, <1>2, <1>5, <1>11, <1>12, <1>13, FinishDisk
<1>16. PICK g : g = h'
  OBVIOUS
<1>17. g = [version |-> v, tabs |-> h.tabs, mem |-> h.mem, nextTable |-> h.nextTable,
            nextManifest |-> h.nextManifest + 1, nextWal |-> h.nextWal + 1]
  <2>1. h = [version |-> h.version, tabs |-> h.tabs, mem |-> h.mem, nextTable |-> h.nextTable,
             nextManifest |-> h.nextManifest, nextWal |-> h.nextWal]
    BY <1>8, HandleParts
  <2> QED BY <1>5, <1>16, <2>1
<1>18. g \in Handles
  <2>1. h.nextManifest + 1 \in Nat /\ h.nextWal + 1 \in Nat
    BY <1>8
  <2> QED BY <1>8, <1>15, <1>17, <2>1, HandleBuilt
<1>19. /\ g.version = v /\ g.mem = h.mem /\ g.nextTable = v.watermark + 1
       /\ g.nextManifest = h.nextManifest + 1 /\ g.nextWal = h.nextWal + 1
  BY <1>8, <1>9, <1>15, <1>17
<1>20. GoodHandle(g)'
  <2>1. WalNext(wals'[v.wal]) = WalNext(wals[next.wal])
    BY <1>11, <1>15
  <2>2. WalNext(wals[next.wal]) \in Nat
    <3>1. wals \in Files(WalSegments)
      BY <1>7 DEF DiskInv
    <3>2. wals[next.wal] \in WalSegments
      BY <1>10, <3>1, WholeFile
    <3> QED BY <3>2, WalNextIs
  <2>3. old.durable + 1 \in Nat /\ old.durable + 1 <= WalNext(wals[next.wal])
    BY <1>8, <1>9, <1>10, <2>2
  <2>4. MemInv(h.mem, old.durable, old.durable + 1)
    BY <1>8, <1>9
  <2>5. MemInv(h.mem, old.durable, WalNext(wals[next.wal]))
    BY <1>8, <2>2, <2>3, <2>4, MemInvWider
  <2>6. v.durable = old.durable
    BY <1>9, <1>15
  <2> QED BY <1>15, <1>18, <1>19, <2>1, <2>5, <2>6 DEF GoodHandle
<1>21. InstalledInv'
  BY <1>14, <1>15, <1>16, <1>19
<1>22. high.table < g.nextTable /\ high.wal < g.nextWal /\ high.manifest < g.nextManifest
  <2>1. high.table \in Nat /\ next.watermark \in Nat
    BY <1>6, <1>7, VersionParts DEF DiskInv
  <2>2. high.table < g.nextTable
    BY <1>9, <1>15, <1>19, <2>1
  <2>3. high.wal < g.nextWal
    BY <1>8, <1>9, <1>19
  <2>4. high.manifest < g.nextManifest
    BY <1>6, <1>8, <1>19
  <2> QED BY <2>2, <2>3, <2>4
<1>23. HandleInv'
  BY <1>6, <1>13, <1>14, <1>15, <1>16, <1>19, <1>20, <1>21, <1>22 DEF HandleInv, Between
<1>24. JobInv'
  BY <1>14 DEF JobInv
<1>25. h' # NoHandle
  BY <1>16, <1>18, NoHandleIsNoHandle
<1>26. acked' \in Map
  BY <1>5, <1>7, AckedMap
<1>27. StepInv'
  BY <1>7, <1>6, <1>13, <1>14, <1>25, <1>26 DEF StepInv, Between
<1> QED BY <1>15, <1>23, <1>24, <1>25, <1>27 DEF LsmInv
-----------------------------------------------------------------------------
\* Every step, and stuttering.

\* A step of the engine.
LEMMA NextInv == LsmInv /\ Next => LsmInv'
<1> SUFFICES ASSUME LsmInv, Next PROVE LsmInv'
  OBVIOUS
<1>1. CASE Create
  BY <1>1, CreateInv
<1>2. CASE CreateInterrupted
  BY <1>2, CreateInterruptedInv
<1>3. CASE Open
  BY <1>3, OpenInv
<1>4. CASE OpenRefused
  BY <1>4, OpenRefusedInv
<1>5. CASE OpenFails
  BY <1>5, OpenFailsInv
<1>6. CASE Crash
  BY <1>6, CrashInv
<1>7. CASE \E op \in Op : Mutate(op)
  BY <1>7, MutateInv
<1>8. CASE MutateExhausted
  BY <1>8, MutateExhaustedInv
<1>9. CASE RunningCall
  <2>1. CASE FlushInitManifest
    BY <2>1, FlushInitManifestInv
  <2>2. CASE FlushInitCurrent
    BY <2>2, FlushInitCurrentInv
  <2>3. CASE FlushTable
    BY <2>3, FlushTableInv
  <2>4. CASE SkipCompaction
    BY <2>4, SkipCompactionInv
  <2>5. CASE CompactTable
    BY <2>5, CompactTableInv
  <2>6. CASE RotateWal
    BY <2>6, RotateWalInv
  <2>7. CASE SkipRotation
    BY <2>7, SkipRotationInv
  <2>8. CASE WriteManifest
    BY <2>8, WriteManifestInv
  <2>9. CASE Publish
    BY <2>9, PublishInv
  <2>10. CASE MirrorFails
    BY <2>10, MirrorFailsInv
  <2>11. CASE FinishCompaction
    BY <2>11, FinishCompactionInv
  <2>12. CASE FinishRotation
    BY <2>12, FinishRotationInv
  <2> QED
    BY <1>9, <2>1, <2>2, <2>3, <2>4, <2>5, <2>6, <2>7, <2>8, <2>9, <2>10, <2>11, <2>12
    DEF RunningCall
<1> QED BY <1>1, <1>2, <1>3, <1>4, <1>5, <1>6, <1>7, <1>8, <1>9 DEF Next

\* The parts of the invariant survive a step that changes nothing.
LEMMA StutterInv == LsmInv /\ UNCHANGED vars => LsmInv'
<1> SUFFICES ASSUME LsmInv, UNCHANGED vars PROVE LsmInv'
  OBVIOUS
<1>1. /\ exists' = exists /\ wals' = wals /\ tables' = tables /\ manifests' = manifests
      /\ current' = current /\ h' = h /\ step' = step /\ job' = job /\ inflight' = inflight
      /\ acked' = acked /\ pending' = pending /\ high' = high /\ faults' = faults
  BY DEF vars
<1>2. /\ DiskInv /\ ContentInv /\ SlotsInv /\ HandleInv /\ JobInv /\ StepInv
  BY DEF LsmInv
<1>3. DiskInv' /\ ContentInv' /\ SlotsInv' /\ Grown
  <2>1. UNCHANGED disk
    BY <1>1 DEF disk
  <2> QED BY <1>2, <2>1, DiskUnchanged
<1>4. GoodHandle(h) => GoodHandle(h)'
  BY <1>1 DEF GoodHandle, FilesOf
<1>5. HandleInv'
  BY <1>1, <1>2, <1>4 DEF HandleInv, WalOnlyInv, InstalledInv
<1>6. JobInv'
  <2>1. ASSUME NEW j, GoodJob(j) PROVE GoodJob(j)'
    BY <1>1, <1>2, <1>3, <2>1, JobStays
  <2>2. PICK j : j = job
    OBVIOUS
  <2>3. job # NoJob => GoodJob(j)'
    BY <1>2, <2>1, <2>2 DEF JobInv
  <2> QED BY <1>1, <1>2, <2>2, <2>3 DEF JobInv
<1>7. StepInv'
  BY <1>1, <1>2 DEF StepInv
<1> QED BY <1>3, <1>5, <1>6, <1>7 DEF LsmInv

\* The inductive invariant of the engine: what is on disk, what the handle and
\* the running installation know of it, in every reachable state.
THEOREM LsmInvariant == Spec => []LsmInv
<1>1. LsmInv /\ [Next]_vars => LsmInv'
  BY NextInv, StutterInv
<1> QED BY <1>1, InitInv, PTL DEF Spec
-----------------------------------------------------------------------------
\* What follows from the invariant.

\* The entries of MemTables and SSTables.
LEMMA EntriesAreMaps ==
    ASSUME NEW entries \in Entries
    PROVE  EntryMap(entries)
BY EntriesMembers DEF EntryMap

\* Every part of the state has its type.
LEMMA TypesFollow == LsmInv => TypeOK
<1> SUFFICES ASSUME LsmInv PROVE TypeOK
  OBVIOUS
<1>1. DiskInv /\ ContentInv /\ SlotsInv /\ HandleInv /\ JobInv /\ StepInv
  BY DEF LsmInv
<1>2. exists \in BOOLEAN /\ faults \in 0 .. MaxFaults
  BY <1>1 DEF DiskInv, StepInv
<1>3. ASSUME NEW i \in DOMAIN wals, wals[i] # Torn
      PROVE  wals[i].first \in 1 .. MaxSequence /\ wals[i].recs \in Seq(Op)
             /\ wals[i].tail \in BOOLEAN
  <2>1. wals[i] \in WalSegments
    BY <1>1, <1>3, WholeFile DEF DiskInv
  <2> QED BY <2>1 DEF WalSegments
<1>4. ASSUME NEW i \in DOMAIN tables, tables[i] # Torn
      PROVE  tables[i].durable \in 1 .. MaxSequence /\ EntryMap(tables[i].entries)
  <2>1. tables[i] \in SortedTables
    BY <1>1, <1>4, WholeFile DEF DiskInv
  <2>2. tables[i].durable \in 1 .. MaxSequence /\ tables[i].entries \in Entries
    BY <2>1, SortedTableParts
  <2> QED BY <2>2, EntriesAreMaps
<1>5. \A i \in DOMAIN manifests : manifests[i] = Torn \/ ValidVersion(manifests[i])
  BY <1>1 DEF ContentInv
<1>6. ASSUME current # NoCurrent, NEW s \in {0, 1}, current[s] # Torn
      PROVE  current[s].gen \in Nat /\ current[s].manifest \in 1 .. high.manifest
  <2>1. current[s].gen \in Nat /\ current[s].manifest \in DOMAIN manifests
    BY <1>1, <1>6, SlotsAre DEF SlotsInv, GoodSlot, Complete
  <2>2. manifests \in Files(Versions) /\ high.manifest \in Nat
        /\ current[s].manifest <= high.manifest
    BY <1>1, <2>1 DEF DiskInv
  <2>3. current[s].manifest \in Nat \ {0}
    BY <2>1, <2>2, FilesMembers
  <2> QED BY <2>1, <2>2, <2>3
<1>7. acked \in Map /\ pending \in SUBSET Op /\ inflight \in SUBSET Op
  BY <1>1 DEF StepInv
<1>8. Cardinality(pending \cup inflight) <= 1
  <2>1. pending = {} \/ inflight = {}
    BY <1>1 DEF StepInv
  <2>2. pending \cup inflight \in {{}} \cup {{op} : op \in Op}
    BY <1>1, <2>1 DEF StepInv
  <2>3. Cardinality({}) = 0 /\ \A op : Cardinality({op}) = 1
    BY FS_EmptySet, FS_Singleton
  <2>4. CASE pending \cup inflight = {}
    BY <2>3, <2>4
  <2>5. CASE pending \cup inflight # {}
    <3>1. PICK op \in Op : pending \cup inflight = {op}
      BY <2>2, <2>5
    <3> QED BY <2>3, <3>1
  <2> QED BY <2>4, <2>5
<1>9. ASSUME h # NoHandle
      PROVE  ValidVersion(h.version) /\ TableSeq(h.tabs) /\ TableSeq(h.mem.immutable)
             /\ EntryMap(h.mem.mutable.entries)
  <2>1. /\ ValidVersion(h.version) /\ h.mem \in MemSets
        /\ h.tabs \in Seq(Tables)
    BY <1>9, RunningHandle
  <2>2. TableSeq(h.tabs)
    <3>1. \A i \in DOMAIN h.tabs : h.tabs[i] \in Tables
      BY <2>1
    <3>2. \A i \in DOMAIN h.tabs : h.tabs[i].entries \in Entries
      BY <3>1, LayerIs DEF Layers
    <3> QED BY <3>2, EntriesAreMaps DEF TableSeq
  <2>3. TableSeq(h.mem.immutable) /\ EntryMap(h.mem.mutable.entries)
    <3>1. h.mem.mutable \in MemTables /\ h.mem.immutable \in Seq(MemTables)
      BY <2>1 DEF MemSets
    <3>2. \A i \in DOMAIN h.mem.immutable : h.mem.immutable[i] \in MemTables
      BY <3>1
    <3> QED BY <3>1, <3>2, EntriesAreMaps DEF TableSeq, MemTables
  <2> QED BY <2>1, <2>2, <2>3
<1>10. /\ step = "idle" <=> inflight = {}
       /\ step # "idle" => h # NoHandle
       /\ job = NoJob <=> step \in {"idle", "flush", "initCurrent", "rotate"}
  BY <1>1 DEF StepInv, Between
<1> QED BY <1>2, <1>3, <1>4, <1>5, <1>6, <1>7, <1>8, <1>9, <1>10 DEF TypeOK

\* TypeOK: LsmEngine, its files and its slots hold what their types say.
THEOREM TypeCorrectness == Spec => []TypeOK
BY LsmInvariant, TypesFollow, PTL

\* No maintenance step finds its file name taken or its version set refused.
LEMMA MaintenanceFollows == LsmInv => MaintenanceAccepted
<1> SUFFICES ASSUME LsmInv PROVE MaintenanceAccepted
  OBVIOUS
<1>1. DiskInv /\ HandleInv /\ JobInv /\ StepInv
  BY DEF LsmInv
<1>2. step # "idle" => h # NoHandle /\ h.nextTable \in Nat /\ h.nextWal \in Nat
                       /\ h.nextManifest \in Nat
  BY <1>1, RunningHandle DEF StepInv
<1>3. /\ \A i \in DOMAIN tables : i \in Nat /\ i <= high.table
      /\ \A i \in DOMAIN manifests : i \in Nat /\ i <= high.manifest
      /\ \A i \in DOMAIN wals : i \in Nat /\ i <= high.wal
      /\ high.table \in Nat /\ high.manifest \in Nat /\ high.wal \in Nat
  BY <1>1, FilesMembers DEF DiskInv
<1>4. ASSUME step = "flush" PROVE h.nextTable \notin DOMAIN tables
  <2>1. high.table < h.nextTable
    BY <1>1, <1>2, <1>4 DEF HandleInv, Between
  <2> QED BY <1>2, <1>3, <1>4, <2>1
<1>5. ASSUME step = "rotate" PROVE h.nextWal \notin DOMAIN wals
  <2>1. high.wal < h.nextWal
    BY <1>1, <1>2, <1>5 DEF HandleInv, Between
  <2> QED BY <1>2, <1>3, <1>5, <2>1
<1>6. ASSUME step = "manifest"
      PROVE  InstallAccepts(h.version, job.next) /\ job.next.manifest \notin DOMAIN manifests
  <2>1. job # NoJob
    BY <1>1, <1>6 DEF StepInv, Between
  <2>2. GoodJob(job) /\ high.manifest < h.nextManifest
    BY <1>1, <1>6, <2>1 DEF JobInv
  <2>3. InstallAccepts(h.version, job.next) /\ job.next.manifest = h.nextManifest
    BY <2>2 DEF GoodJob
  <2> QED BY <1>2, <1>3, <1>6, <2>2, <2>3
<1> QED BY <1>4, <1>5, <1>6 DEF MaintenanceAccepted

\* MaintenanceAccepted: create_new never meets an existing file in flush,
\* compaction and rotation, and prepare_install refuses nothing.
THEOREM MaintenanceIsAccepted == Spec => []MaintenanceAccepted
BY LsmInvariant, MaintenanceFollows, PTL
-----------------------------------------------------------------------------
\* Ids are used once, and recovery never goes back.

\* Every SSTable id and every manifest of before is still there.
Kept ==
    /\ \A i \in DOMAIN tables : i \in DOMAIN tables'
    /\ \A i \in DOMAIN manifests : i \in DOMAIN manifests' /\ manifests'[i] = manifests[i]

\* A new file with an id above the limit.
LEMMA NewFile ==
    ASSUME NEW f, NEW limit \in Nat, \A i \in DOMAIN f : i \in Nat /\ i <= limit,
           NEW id \in Nat, limit < id, NEW content, NEW outcome \in Outcomes,
           NEW g, g = WithFile(f, id, content, outcome)
    PROVE  /\ NewIdsAbove(f, g, limit)
           /\ \A i \in DOMAIN f : i \in DOMAIN g /\ g[i] = f[i]
<1>1. CASE outcome = "none"
  BY <1>1 DEF WithFile, NewIdsAbove
<1>2. CASE outcome # "none"
  <2>1. g = [i \in DOMAIN f \cup {id} |->
               IF i # id THEN f[i] ELSE IF outcome = "torn" THEN Torn ELSE content]
    BY <1>2 DEF WithFile
  <2>2. DOMAIN g = DOMAIN f \cup {id} /\ \A i \in DOMAIN f : i # id
    BY <2>1
  <2> QED BY <2>1, <2>2 DEF NewIdsAbove
<1> QED BY <1>1, <1>2

\* Nothing new.
LEMMA NoNewFile ==
    ASSUME NEW f, NEW g, NEW limit, DOMAIN g \subseteq DOMAIN f
    PROVE  NewIdsAbove(f, g, limit)
BY DEF NewIdsAbove

\* What a step makes of the ids of the three kinds of files.
NewIds ==
    /\ NewIdsAbove(tables, tables', high.table)
    /\ NewIdsAbove(manifests, manifests', high.manifest)
    /\ NewIdsAbove(wals, wals', high.wal)

\* The ids on disk.
LEMMA IdsAre ==
    ASSUME LsmInv
    PROVE  /\ high.table \in Nat /\ high.manifest \in Nat /\ high.wal \in Nat
           /\ \A i \in DOMAIN tables : i \in Nat /\ i <= high.table
           /\ \A i \in DOMAIN manifests : i \in Nat /\ i <= high.manifest
           /\ \A i \in DOMAIN wals : i \in Nat /\ i <= high.wal
BY FilesMembers DEF LsmInv, DiskInv

\* The creation of the directory starts with no ids.
LEMMA CreationIds ==
    ASSUME LsmInv, ~exists, tables' = tables,
           NEW walOutcome \in Outcomes, NEW manifestOutcome \in Outcomes,
           wals' = WithFile(wals, 1, FreshWal(1), walOutcome),
           manifests' = WithFile(manifests, 1, BaseVersion(1), manifestOutcome)
    PROVE  NewIds /\ Kept
<1>1. high.manifest = 0 /\ high.wal = 0
  BY DEF LsmInv, DiskInv
<1>2. NewIdsAbove(wals, wals', high.wal)
  BY <1>1, IdsAre, NewFile
<1>3. /\ NewIdsAbove(manifests, manifests', high.manifest)
      /\ \A i \in DOMAIN manifests : i \in DOMAIN manifests' /\ manifests'[i] = manifests[i]
  BY <1>1, IdsAre, NewFile
<1>4. NewIdsAbove(tables, tables', high.table)
  BY NoNewFile
<1> QED BY <1>2, <1>3, <1>4 DEF NewIds, Kept

\* Steps that create no file.
LEMMA NothingNew ==
    ASSUME tables' = tables, manifests' = manifests, DOMAIN wals' = DOMAIN wals
    PROVE  NewIds /\ Kept
BY NoNewFile DEF NewIds, Kept

\* Steps that create one.
LEMMA OneNew ==
    ASSUME LsmInv, NEW id \in Nat, NEW content, NEW outcome \in Outcomes,
           \/ /\ tables' = WithFile(tables, id, content, outcome) /\ high.table < id
              /\ manifests' = manifests /\ wals' = wals
           \/ /\ manifests' = WithFile(manifests, id, content, outcome) /\ high.manifest < id
              /\ tables' = tables /\ wals' = wals
           \/ /\ wals' = WithFile(wals, id, content, outcome) /\ high.wal < id
              /\ tables' = tables /\ manifests' = manifests
    PROVE  NewIds /\ Kept
<1>1. CASE /\ tables' = WithFile(tables, id, content, outcome) /\ high.table < id
           /\ manifests' = manifests /\ wals' = wals
  <2>1. /\ NewIdsAbove(tables, tables', high.table)
        /\ \A i \in DOMAIN tables : i \in DOMAIN tables'
    BY <1>1, IdsAre, NewFile
  <2>2. NewIdsAbove(manifests, manifests', high.manifest) /\ NewIdsAbove(wals, wals', high.wal)
    BY <1>1, NoNewFile
  <2> QED BY <1>1, <2>1, <2>2 DEF NewIds, Kept
<1>2. CASE /\ manifests' = WithFile(manifests, id, content, outcome) /\ high.manifest < id
           /\ tables' = tables /\ wals' = wals
  <2>1. /\ NewIdsAbove(manifests, manifests', high.manifest)
        /\ \A i \in DOMAIN manifests : i \in DOMAIN manifests' /\ manifests'[i] = manifests[i]
    BY <1>2, IdsAre, NewFile
  <2>2. NewIdsAbove(tables, tables', high.table) /\ NewIdsAbove(wals, wals', high.wal)
    BY <1>2, NoNewFile
  <2> QED BY <1>2, <2>1, <2>2 DEF NewIds, Kept
<1>3. CASE /\ wals' = WithFile(wals, id, content, outcome) /\ high.wal < id
           /\ tables' = tables /\ manifests' = manifests
  <2>1. NewIdsAbove(wals, wals', high.wal)
    BY <1>3, IdsAre, NewFile
  <2>2. NewIdsAbove(tables, tables', high.table)
        /\ NewIdsAbove(manifests, manifests', high.manifest)
    BY <1>3, NoNewFile
  <2> QED BY <1>3, <2>1, <2>2 DEF NewIds, Kept
<1> QED BY <1>1, <1>2, <1>3

\* Every step, and those that remove no SSTable and no manifest.
LEMMA StepIds ==
    ASSUME LsmInv, Next
    PROVE  NewIds /\ (Kept \/ FinishCompaction \/ FinishRotation)
<1>1. DiskInv /\ HandleInv /\ JobInv /\ StepInv
  BY DEF LsmInv
<1>2. step # "idle" => h # NoHandle /\ h.nextTable \in Nat /\ h.nextWal \in Nat
                       /\ h.nextManifest \in Nat
  BY <1>1, RunningHandle DEF StepInv
<1>3. CASE Create
  <2>1. "done" \in Outcomes
    BY DEF Outcomes
  <2> QED BY <1>3, <2>1, CreationIds DEF Create
<1>4. CASE CreateInterrupted
  <2>1. PICK stage \in 0 .. 6 :
          /\ wals' = WithFile(wals, 1, FreshWal(1),
                              CASE stage = 0 -> "none" [] stage = 1 -> "torn" [] OTHER -> "whole")
          /\ manifests' = WithFile(manifests, 1, BaseVersion(1),
                              CASE stage < 3 -> "none" [] stage = 3 -> "torn" [] OTHER -> "whole")
    BY <1>4 DEF CreateInterrupted
  <2>2. ~exists /\ tables' = tables
    BY <1>4 DEF CreateInterrupted
  <2>3. PICK a \in Outcomes :
           a = CASE stage = 0 -> "none" [] stage = 1 -> "torn" [] OTHER -> "whole"
    BY DEF Outcomes
  <2>4. PICK b \in Outcomes :
           b = CASE stage < 3 -> "none" [] stage = 3 -> "torn" [] OTHER -> "whole"
    BY DEF Outcomes
  <2> QED BY <2>1, <2>2, <2>3, <2>4, CreationIds
<1>5. CASE Open \/ OpenRefused \/ OpenFails \/ Crash \/ MutateExhausted
  BY <1>5, NothingNew DEF Open, OpenRefused, OpenFails, Crash, MutateExhausted, disk
<1>6. CASE \E op \in Op : Mutate(op)
  <2>1. DOMAIN wals' = DOMAIN wals /\ tables' = tables /\ manifests' = manifests
    BY <1>6 DEF Mutate
  <2> QED BY <2>1, NothingNew
<1>7. CASE FlushInitManifest
  <2>1. PICK outcome \in Outcomes : manifests' = WithFile(manifests, 1, BaseVersion(1), outcome)
    BY <1>7 DEF FlushInitManifest
  <2>2. step = "flush" /\ h.version.manifest = 0 /\ tables' = tables /\ wals' = wals
    BY <1>7 DEF FlushInitManifest
  <2>3. high.manifest = 0
    BY <1>1, <1>2, <2>2 DEF HandleInv, WalOnlyInv
  <2> QED BY <2>1, <2>2, <2>3, OneNew
<1>8. CASE FlushInitCurrent \/ SkipCompaction \/ SkipRotation \/ Publish \/ MirrorFails
  BY <1>8, NothingNew
  DEF FlushInitCurrent, SkipCompaction, SkipRotation, Publish, MirrorFails, disk
<1>9. CASE FlushTable \/ CompactTable
  <2>1. step = "flush" /\ manifests' = manifests /\ wals' = wals
    BY <1>9 DEF FlushTable, CompactTable
  <2>2. high.table < h.nextTable
    BY <1>1, <1>2, <2>1 DEF HandleInv, Between
  <2>3. CASE tables' = tables
    BY <2>1, <2>3, NothingNew
  <2>4. CASE \E outcome \in Outcomes : \E content :
                tables' = WithFile(tables, h.nextTable, content, outcome)
    BY <1>2, <2>1, <2>2, <2>4, OneNew
  <2>5. tables' = tables \/ \E outcome \in Outcomes : \E content :
                tables' = WithFile(tables, h.nextTable, content, outcome)
    BY <1>9 DEF FlushTable, CompactTable
  <2> QED BY <2>3, <2>4, <2>5
<1>10. CASE RotateWal
  <2>1. PICK outcome \in Outcomes : \E content :
           wals' = WithFile(wals, h.nextWal, content, outcome)
    BY <1>10 DEF RotateWal
  <2>2. step = "rotate" /\ tables' = tables /\ manifests' = manifests
    BY <1>10 DEF RotateWal
  <2>3. high.wal < h.nextWal
    BY <1>1, <1>2, <2>2 DEF HandleInv, Between
  <2> QED BY <1>2, <2>1, <2>2, <2>3, OneNew
<1>11. CASE WriteManifest
  <2>1. PICK outcome \in Outcomes : \E content :
           manifests' = WithFile(manifests, job.next.manifest, content, outcome)
    BY <1>11 DEF WriteManifest
  <2>2. step = "manifest" /\ tables' = tables /\ wals' = wals
    BY <1>11 DEF WriteManifest
  <2>3. job # NoJob
    BY <1>1, <2>2 DEF StepInv, Between
  <2>4. high.manifest < h.nextManifest /\ job.next.manifest = h.nextManifest
    BY <1>1, <2>2, <2>3 DEF JobInv, GoodJob
  <2> QED BY <1>2, <2>1, <2>2, <2>4, OneNew
<1>12. ASSUME FinishCompaction \/ FinishRotation PROVE NewIds
  <2>1. PICK next : next = job.next
    OBVIOUS
  <2>2. step = "mirror" /\ manifests' \in Reclaimed(manifests, {next.manifest})
    BY <1>12, <2>1 DEF FinishCompaction, FinishRotation
  <2>3. /\ next.manifest \in DOMAIN manifests /\ FilesOf(next)
        /\ wals \in Files(WalSegments) /\ tables \in Files(SortedTables)
        /\ manifests \in Files(Versions)
    BY <1>1, <2>1, <2>2, RunningJob DEF DiskInv
  <2>4. DOMAIN manifests' \subseteq DOMAIN manifests
    <3>1. {next.manifest} \in SUBSET DOMAIN manifests
      BY <2>3
    <3> QED BY <2>2, <2>3, <3>1, ReclaimedIs
  <2>5. DOMAIN tables' \subseteq DOMAIN tables
    <3>1. CASE FinishCompaction
      <4>1. PICK active : active = {d.id : d \in Range(next.tables)}
        OBVIOUS
      <4>2. active = {next.tables[i].id : i \in DOMAIN next.tables}
        BY <4>1 DEF Range
      <4>3. \A i \in DOMAIN next.tables : next.tables[i].id \in DOMAIN tables
        BY <2>3 DEF FilesOf, Complete
      <4>4. active \in SUBSET DOMAIN tables
        BY <4>2, <4>3
      <4>5. tables' \in Reclaimed(tables, active)
        BY <2>1, <3>1, <4>1 DEF FinishCompaction
      <4> QED BY <2>3, <4>4, <4>5, ReclaimedIs
    <3>2. CASE FinishRotation
      BY <3>2 DEF FinishRotation
    <3> QED BY <1>12, <3>1, <3>2
  <2>6. DOMAIN wals' \subseteq DOMAIN wals
    <3>1. CASE FinishRotation
      <4>1. {next.wal} \in SUBSET DOMAIN wals
        BY <2>3 DEF FilesOf, Complete
      <4>2. wals' \in Reclaimed(wals, {next.wal})
        BY <2>1, <3>1 DEF FinishRotation
      <4> QED BY <2>3, <4>1, <4>2, ReclaimedIs
    <3>2. CASE FinishCompaction
      BY <3>2 DEF FinishCompaction
    <3> QED BY <1>12, <3>1, <3>2
  <2> QED BY <2>4, <2>5, <2>6, NoNewFile DEF NewIds
<1> QED
  BY <1>3, <1>4, <1>5, <1>6, <1>7, <1>8, <1>9, <1>10, <1>11, <1>12 DEF Next, RunningCall

\* IdsNeverReused: create_new allocates every id above all it has ever used,
\* whatever reclaim passes, failed writes and reopens came between.
THEOREM IdsAreNeverReused == Spec => IdsNeverReused
<1>1. LsmInv /\ [Next]_vars
         => [/\ NewIdsAbove(tables, tables', high.table)
             /\ NewIdsAbove(manifests, manifests', high.manifest)
             /\ NewIdsAbove(wals, wals', high.wal)]_vars
  BY StepIds DEF NewIds
<1> QED BY <1>1, LsmInvariant, PTL DEF Spec, IdsNeverReused

\* What open_existing makes of the newest slot, and the id it would go on from.
LoadedFact ==
    Published =>
        /\ current # NoCurrent /\ \E s \in {0, 1} : Newest(s)
        /\ \A s \in {0, 1} : Newest(s) =>
              /\ current[s].manifest \in DOMAIN manifests
              /\ Loaded.durable = manifests[current[s].manifest].durable
              /\ Loaded.gc = manifests[current[s].manifest].gc
              /\ Loaded.watermark = manifests[current[s].manifest].watermark
        /\ Loaded.durable \in Nat /\ Loaded.gc \in Nat /\ Loaded.watermark \in Nat
        /\ AllocationFloor(Loaded) \in Nat /\ Loaded.watermark <= AllocationFloor(Loaded)
        /\ \A i \in DOMAIN tables : i \in Nat /\ i <= AllocationFloor(Loaded)
        /\ AllocationFloor(Loaded) = Loaded.watermark \/ AllocationFloor(Loaded) \in DOMAIN tables

\* It holds.
LEMMA LoadedFactHolds == LsmInv => LoadedFact
<1> SUFFICES ASSUME LsmInv, Published PROVE LoadedFact
  BY DEF LoadedFact
<1>1. DiskInv /\ ContentInv /\ SlotsInv
  BY DEF LsmInv
<1>2. current # NoCurrent /\ \E s \in {0, 1} : Newest(s)
  BY <1>1, SomeNewest
<1>3. ASSUME NEW s \in {0, 1}, Newest(s)
      PROVE  /\ current[s].manifest \in DOMAIN manifests
             /\ Loaded.durable = manifests[current[s].manifest].durable
             /\ Loaded.gc = manifests[current[s].manifest].gc
             /\ Loaded.watermark = manifests[current[s].manifest].watermark
             /\ Loaded \in Versions
  BY <1>1, <1>2, <1>3, LoadedIs
<1>4. PICK l : l = Loaded
  OBVIOUS
<1>5. l \in Versions
  BY <1>2, <1>3, <1>4
<1>6. l.durable \in Nat /\ l.gc \in Nat /\ l.watermark \in Nat
  BY <1>5, VersionParts
<1>7. PICK mark : mark = l.watermark
  OBVIOUS
<1>8. PICK top : top = MaxId(tables)
  OBVIOUS
<1>9. PICK floor : floor = AllocationFloor(l)
  OBVIOUS
<1>10. /\ top \in Nat /\ \A i \in DOMAIN tables : i \in Nat /\ i <= top
       /\ top = 0 \/ top \in DOMAIN tables
  <2>1. tables \in Files(SortedTables) /\ high.table \in Nat
        /\ \A i \in DOMAIN tables : i <= high.table
    BY <1>1 DEF DiskInv
  <2>2. top \in Nat /\ \A i \in DOMAIN tables : i \in Nat /\ i <= top
    BY <1>8, <2>1, MaxIdIs, FilesMembers
  <2>3. top = 0 \/ top \in DOMAIN tables
    <3>1. DOMAIN tables \cup {0} \in SUBSET Nat
      BY <2>2
    <3>2. PICK S : S = DOMAIN tables \cup {0}
      OBVIOUS
    <3>3. top \in S
      <4>1. PICK m \in S : \A i \in S : i <= m
        <5>1. S \in SUBSET Nat /\ S # {} /\ \A i \in S : i <= high.table
          BY <2>1, <3>1, <3>2
        <5> QED BY <2>1, <5>1, GreatestNatural
      <4>2. m \in S /\ \A i \in S : m >= i
        BY <3>1, <3>2, <4>1
      <4>3. Max(S) \in S
        BY <4>2, MaxIs, Zenon
      <4>4. top = Max(S)
        BY <1>8, <3>2 DEF MaxId
      <4> QED BY <4>3, <4>4
    <3> QED BY <3>2, <3>3
  <2> QED BY <2>2, <2>3
<1>11. floor = Max({mark, top})
  BY <1>7, <1>8, <1>9 DEF AllocationFloor
<1>12. floor \in Nat /\ mark <= floor /\ top <= floor /\ (floor = mark \/ floor = top)
  BY <1>6, <1>7, <1>10, <1>11, MaxOfTwo
<1>13. \A i \in DOMAIN tables : i \in Nat /\ i <= floor
  BY <1>10, <1>12
<1>14. floor = mark \/ floor \in DOMAIN tables
  <2>1. CASE floor = top /\ top = 0
    BY <1>6, <1>7, <1>12, <2>1
  <2> QED BY <1>10, <1>12, <2>1
<1> QED BY <1>2, <1>3, <1>4, <1>6, <1>7, <1>9, <1>12, <1>13, <1>14 DEF LoadedFact

\* Recovery does not go back.
Forward ==
    /\ Published'
    /\ Loaded.durable <= Loaded'.durable
    /\ Loaded.gc <= Loaded'.gc
    /\ AllocationFloor(Loaded) <= AllocationFloor(Loaded)'

\* Before and after a step, the newest slots name these two manifests.
LEMMA LoadedGrows ==
    ASSUME LoadedFact, LoadedFact', Published,
           NEW s \in {0, 1}, Newest(s), NEW t \in {0, 1}, Newest(t)', current' # NoCurrent,
           NEW m, m = manifests[current[s].manifest],
           NEW n, n = manifests'[current'[t].manifest],
           m.durable <= n.durable, m.gc <= n.gc, m.watermark <= n.watermark,
           \/ \A i \in DOMAIN tables : i \in DOMAIN tables'
           \/ \A i \in DOMAIN tables : i <= n.watermark
    PROVE  Forward
<1>1. Published'
  BY DEF Published, ValidSlots, Newest
<1>2. PICK a : a = Loaded
  OBVIOUS
<1>3. PICK b : b = Loaded'
  OBVIOUS
<1>4. PICK x : x = AllocationFloor(Loaded)
  OBVIOUS
<1>5. PICK y : y = AllocationFloor(Loaded)'
  OBVIOUS
<1>6. /\ a.durable = m.durable /\ a.gc = m.gc /\ a.watermark = m.watermark
      /\ a.watermark \in Nat /\ x \in Nat
      /\ \A i \in DOMAIN tables : i \in Nat
      /\ x = a.watermark \/ x \in DOMAIN tables
  BY <1>2, <1>4 DEF LoadedFact
<1>7. /\ b.durable = n.durable /\ b.gc = n.gc /\ b.watermark = n.watermark
      /\ b.watermark \in Nat /\ y \in Nat /\ b.watermark <= y
      /\ \A i \in DOMAIN tables' : i <= y
  BY <1>1, <1>3, <1>5 DEF LoadedFact
<1>8. x <= y
  <2>1. CASE x = a.watermark
    BY <1>6, <1>7, <2>1
  <2>2. CASE x \in DOMAIN tables
    BY <1>6, <1>7, <2>2
  <2> QED BY <1>6, <2>1, <2>2
<1> QED BY <1>1, <1>2, <1>3, <1>4, <1>5, <1>6, <1>7, <1>8 DEF Forward

\* The manifests' numbers can be compared.
LEMMA NamedManifest ==
    ASSUME LsmInv, Published, NEW s \in {0, 1}, Newest(s)
    PROVE  LET m == manifests[current[s].manifest]
           IN  /\ current # NoCurrent /\ current[s].manifest \in DOMAIN manifests
               /\ m.durable \in Nat /\ m.gc \in Nat /\ m.watermark \in Nat
               /\ m.durable <= m.durable /\ m.gc <= m.gc /\ m.watermark <= m.watermark
<1>1. PICK m : m = manifests[current[s].manifest]
  OBVIOUS
<1>2. LoadedFact
  BY LoadedFactHolds
<1>3. /\ current # NoCurrent /\ current[s].manifest \in DOMAIN manifests
      /\ m.durable \in Nat /\ m.gc \in Nat /\ m.watermark \in Nat
  BY <1>1, <1>2 DEF LoadedFact
<1> QED BY <1>1, <1>3

\* Where the slots do not change, neither does the version set in force.
LEMMA SameSlots ==
    ASSUME LsmInv, LoadedFact', Published, current' = current, Kept
    PROVE  Forward
<1>1. LoadedFact
  BY LoadedFactHolds
<1>2. PICK s \in {0, 1} : Newest(s)
  BY <1>1 DEF LoadedFact
<1>3. Newest(s)'
  BY <1>2 DEF Newest
<1>4. PICK m : m = manifests[current[s].manifest]
  OBVIOUS
<1>5. /\ current # NoCurrent /\ current[s].manifest \in DOMAIN manifests
      /\ m.durable <= m.durable /\ m.gc <= m.gc /\ m.watermark <= m.watermark
  BY <1>2, <1>4, NamedManifest
<1>6. m = manifests'[current'[s].manifest]
  BY <1>4, <1>5 DEF Kept
<1>7. \A i \in DOMAIN tables : i \in DOMAIN tables'
  BY DEF Kept
<1> QED BY <1>1, <1>2, <1>3, <1>4, <1>5, <1>6, <1>7, LoadedGrows

\* The older slot is written over.
LEMMA SlotMoves ==
    ASSUME LsmInv, LoadedFact', Published, NEW gen \in Nat, NEW p \in Nat,
           current # NoCurrent, current' # NoCurrent,
           current[SlotOf(gen)] = Slot(gen, p),
           current[1 - SlotOf(gen)] # Torn => current[1 - SlotOf(gen)].gen <= gen,
           NEW version \in Versions, version.gen = gen + 1,
           NEW outcome \in Outcomes, current' = WithSlot(version, outcome),
           NEW m, m = manifests[p], m = manifests'[p],
           NEW n, n = manifests'[version.manifest],
           m.durable <= n.durable, m.gc <= n.gc, m.watermark <= n.watermark,
           \/ \A i \in DOMAIN tables : i \in DOMAIN tables'
           \/ outcome = "done" /\ \A i \in DOMAIN tables : i <= n.watermark
    PROVE  Forward
<1>1. PICK s : s = SlotOf(gen)
  OBVIOUS
<1>2. PICK t : t = 1 - s
  OBVIOUS
<1>3. s \in {0, 1} /\ t \in {0, 1} /\ s # t /\ SlotOf(version.gen) = t /\ s = 1 - t
  BY <1>1, <1>2, SlotParity
<1>4. version.manifest \in Nat /\ version.gen \in Nat
  BY VersionParts
<1>5. PICK old : old = Slot(gen, p)
  OBVIOUS
<1>6. PICK new : new = Slot(version.gen, version.manifest)
  OBVIOUS
<1>7. /\ old # Torn /\ new # Torn /\ old.gen = gen /\ old.manifest = p
      /\ new.gen = gen + 1 /\ new.manifest = version.manifest
  BY <1>4, <1>5, <1>6, TornIsNoContent DEF Slot, Slots
<1>8. current \in [{0, 1} -> Slots \cup {Torn}] /\ current[s] = old
  BY <1>1, <1>5 DEF LsmInv, DiskInv
<1>9. current[t] # Torn => current[t].gen <= gen
  BY <1>1, <1>2
<1>10. Newest(s)
  BY <1>2, <1>3, <1>7, <1>8, <1>9 DEF Newest
<1>11. LoadedFact
  BY LoadedFactHolds
<1>12. m = manifests[current[s].manifest]
  BY <1>7, <1>8
<1>13. m.durable <= m.durable /\ m.gc <= m.gc /\ m.watermark <= m.watermark
  BY <1>3, <1>10, <1>12, NamedManifest
<1>14. CASE outcome = "none"
  <2>1. current' = current
    BY <1>14 DEF WithSlot
  <2>2. Newest(s)'
    BY <1>10, <2>1 DEF Newest
  <2>3. m = manifests'[current'[s].manifest]
    BY <1>7, <1>8, <2>1
  <2>4. \A i \in DOMAIN tables : i \in DOMAIN tables'
    BY <1>14
  <2> QED BY <1>3, <1>10, <1>11, <1>12, <1>13, <2>2, <2>3, <2>4, LoadedGrows
<1>15. CASE outcome = "torn"
  <2>1. current' = [current EXCEPT ![t] = Torn]
    BY <1>3, <1>15 DEF WithSlot
  <2>2. current'[s] = old /\ current'[t] = Torn
    BY <1>3, <1>8, <2>1
  <2>3. Newest(s)'
    BY <1>2, <1>3, <1>7, <2>2 DEF Newest
  <2>4. m = manifests'[current'[s].manifest]
    BY <1>7, <2>2
  <2>5. \A i \in DOMAIN tables : i \in DOMAIN tables'
    BY <1>15
  <2> QED BY <1>3, <1>10, <1>11, <1>12, <1>13, <2>3, <2>4, <2>5, LoadedGrows
<1>16. CASE outcome \in {"done", "whole"}
  <2>1. current' = [current EXCEPT ![t] = new]
    BY <1>3, <1>6, <1>16 DEF WithSlot
  <2>2. current'[s] = old /\ current'[t] = new
    BY <1>3, <1>8, <2>1
  <2>3. Newest(t)'
    <3>1. PICK c : c = current'
      OBVIOUS
    <3>2. c[1 - t].gen <= c[t].gen
      BY <1>3, <1>7, <2>2, <3>1
    <3> QED BY <1>3, <1>7, <2>2, <3>1, <3>2 DEF Newest
  <2>4. n = manifests'[current'[t].manifest]
    BY <1>7, <2>2
  <2> QED BY <1>3, <1>10, <1>11, <1>12, <2>3, <2>4, LoadedGrows
<1> QED BY <1>14, <1>15, <1>16 DEF Outcomes

\* publish_prepared puts a version set in force that is no older.
LEMMA PublishForward ==
    ASSUME LsmInv, LsmInv', LoadedFact', Published, Publish
    PROVE  Forward
<1>1. PICK v : v = h.version
  OBVIOUS
<1>2. PICK next : next = job.next
  OBVIOUS
<1>3. step = "publish" /\ tables' = tables /\ manifests' = manifests
  BY DEF Publish
<1>4. PICK outcome \in Outcomes : current' = WithSlot(next, outcome)
  BY <1>2 DEF Publish
<1>5. /\ h # NoHandle /\ GoodJob(job) /\ v \in Versions /\ v.gen \in Nat /\ v.manifest \in Nat
      /\ v.manifest # 0
      /\ next \in Versions /\ next.gen = v.gen + 1
      /\ next.manifest \in DOMAIN manifests
      /\ manifests[next.manifest] = [next EXCEPT !.gen = 0]
      /\ current # NoCurrent /\ current[SlotOf(v.gen)] = Slot(v.gen, v.manifest)
  BY <1>1, <1>2, <1>3, RunningJob
<1>6. PICK m : m = manifests[v.manifest]
  OBVIOUS
<1>7. PICK n : n = manifests'[next.manifest]
  OBVIOUS
<1>8. /\ v = [m EXCEPT !.gen = v.gen, !.watermark = v.watermark] /\ m.watermark <= v.watermark
      /\ v.manifest \in DOMAIN manifests /\ m # Torn
      /\ current[1 - SlotOf(v.gen)] # Torn => current[1 - SlotOf(v.gen)].gen <= v.gen
  BY <1>1, <1>3, <1>5, <1>6 DEF LsmInv, HandleInv, InstalledInv, Complete
<1>9. m \in Versions
  <2>1. manifests \in Files(Versions)
    BY DEF LsmInv, DiskInv
  <2> QED BY <1>6, <1>8, <2>1, WholeFile
<1>10. m.durable = v.durable /\ m.gc = v.gc
  BY <1>8, <1>9 DEF Versions
<1>11. n.durable = next.durable /\ n.gc = next.gc /\ n.watermark = next.watermark
  BY <1>3, <1>5, <1>7 DEF Versions
<1>12. v.durable <= next.durable /\ v.gc <= next.gc /\ v.watermark <= next.watermark
  BY <1>1, <1>2, <1>5 DEF GoodJob, InstallAccepts
<1>13. m.durable <= n.durable /\ m.gc <= n.gc /\ m.watermark <= n.watermark
  <2>1. m.watermark \in Nat /\ v.watermark \in Nat /\ next.watermark \in Nat
    BY <1>5, <1>9, VersionParts
  <2> QED BY <1>8, <1>10, <1>11, <1>12, <2>1
<1>14. current' # NoCurrent
  <2>1. SlotOf(next.gen) \in {0, 1} /\ Slot(next.gen, next.manifest) \in Slots
    <3>1. next.gen \in Nat /\ next.manifest \in Nat
      BY <1>5, VersionParts
    <3> QED BY <3>1, SlotParity DEF Slot, Slots
  <2>2. current \in [{0, 1} -> Slots \cup {Torn}]
    BY <1>5 DEF LsmInv, DiskInv
  <2>3. current' \in [{0, 1} -> Slots \cup {Torn}]
    BY <1>4, <2>1, <2>2 DEF WithSlot
  <2> QED BY <2>3, NoCurrentIsNotWritten
<1> QED BY <1>3, <1>4, <1>5, <1>6, <1>7, <1>8, <1>13, <1>14, SlotMoves

\* The second slot names the manifest of the first.
LEMMA MirrorForward ==
    ASSUME LsmInv, LoadedFact', Published, MirrorFails \/ FinishCompaction \/ FinishRotation
    PROVE  Forward
<1>1. PICK old : old = h.version
  OBVIOUS
<1>2. PICK next : next = job.next
  OBVIOUS
<1>3. PICK v : v = Mirrored(next)
  OBVIOUS
<1>4. step = "mirror"
  BY DEF MirrorFails, FinishCompaction, FinishRotation
<1>5. PICK outcome \in Outcomes :
         current' = WithSlot(v, outcome) /\ (~MirrorFails => outcome = "done")
  BY <1>2, <1>3 DEF MirrorFails, FinishCompaction, FinishRotation, MirrorSlot, Outcomes
<1>6. /\ h # NoHandle /\ GoodJob(job) /\ old \in Versions /\ old.gen \in Nat
      /\ old.manifest \in Nat
      /\ next \in Versions /\ next.gen = old.gen + 1 /\ ValidVersion(next)
      /\ next.manifest \in Nat \ {0} /\ next.manifest \in DOMAIN manifests
      /\ manifests[next.manifest] = [next EXCEPT !.gen = 0] /\ job # NoJob
      /\ current # NoCurrent /\ current[SlotOf(old.gen)] = Slot(old.gen, old.manifest)
  BY <1>1, <1>2, <1>4, RunningJob
<1>7. current[SlotOf(next.gen)] = Slot(next.gen, next.manifest)
  BY <1>2, <1>4, <1>6 DEF LsmInv, JobInv
<1>8. /\ v \in Versions /\ v.gen = next.gen + 1 /\ v.manifest = next.manifest
      /\ next.gen \in Nat /\ next.manifest \in Nat
  BY <1>3, <1>6, MirroredIs
<1>9. 1 - SlotOf(next.gen) = SlotOf(old.gen)
  <2>1. SlotOf(old.gen) \in {0, 1} /\ SlotOf(next.gen) = 1 - SlotOf(old.gen)
    BY <1>6, SlotParity
  <2> QED BY <2>1
<1>10. current[1 - SlotOf(next.gen)].gen <= next.gen
  BY <1>6, <1>9 DEF Slot
<1>11. PICK m : m = manifests[next.manifest]
  OBVIOUS
<1>12. m = manifests'[next.manifest]
  <2>1. CASE MirrorFails
    BY <1>11, <2>1 DEF MirrorFails
  <2>2. CASE FinishCompaction \/ FinishRotation
    <3>1. manifests' \in Reclaimed(manifests, {next.manifest})
      BY <1>2, <2>2 DEF FinishCompaction, FinishRotation
    <3>2. manifests \in Files(Versions) /\ {next.manifest} \in SUBSET DOMAIN manifests
      BY <1>6 DEF LsmInv, DiskInv
    <3>3. next.manifest \in DOMAIN manifests'
          /\ \A i \in DOMAIN manifests' : manifests'[i] = manifests[i]
      BY <3>1, <3>2, ReclaimedIs
    <3> QED BY <1>11, <3>3
  <2> QED BY <2>1, <2>2
<1>13. m.watermark = next.watermark /\ m \in Versions
  <2>1. m = [next EXCEPT !.gen = 0]
    BY <1>6, <1>11
  <2> QED BY <1>6, <2>1 DEF Versions
<1>14. m.durable <= m.durable /\ m.gc <= m.gc /\ m.watermark <= m.watermark
  BY <1>13, VersionParts
<1>15. \/ \A i \in DOMAIN tables : i \in DOMAIN tables'
       \/ outcome = "done" /\ \A i \in DOMAIN tables : i <= m.watermark
  <2>1. CASE MirrorFails \/ FinishRotation
    BY <2>1 DEF MirrorFails, FinishRotation
  <2>2. CASE FinishCompaction
    <3>1. outcome = "done"
      <4>1. ~MirrorFails
        <5>1. PICK g : g = h'
          OBVIOUS
        <5>2. step' = "rotate"
          BY <2>2 DEF FinishCompaction
        <5>3. MirrorFails => step' = "idle"
          BY DEF MirrorFails, GiveUp
        <5> QED BY <5>2, <5>3
      <4> QED BY <1>5, <4>1
    <3>2. high.table <= next.watermark
      BY <1>2, <1>6 DEF GoodJob
    <3>3. next.watermark \in Nat /\ high.table \in Nat
          /\ \A i \in DOMAIN tables : i \in Nat /\ i <= high.table
      BY <1>6, VersionParts, IdsAre
    <3> QED BY <1>13, <3>1, <3>2, <3>3
  <2> QED BY <2>1, <2>2
<1>16. current' # NoCurrent
  <2>1. SlotOf(v.gen) \in {0, 1} /\ Slot(v.gen, v.manifest) \in Slots
    <3>1. v.gen \in Nat /\ v.manifest \in Nat
      BY <1>8, VersionParts
    <3> QED BY <3>1, SlotParity DEF Slot, Slots
  <2>2. current \in [{0, 1} -> Slots \cup {Torn}]
    BY <1>6 DEF LsmInv, DiskInv
  <2>3. current' \in [{0, 1} -> Slots \cup {Torn}]
    BY <1>5, <2>1, <2>2 DEF WithSlot
  <2> QED BY <2>3, NoCurrentIsNotWritten
<1>17. m = manifests'[v.manifest]
  BY <1>8, <1>12
<1>18. /\ current # NoCurrent /\ outcome \in Outcomes /\ current' = WithSlot(v, outcome)
       /\ current[1 - SlotOf(next.gen)] # Torn =>
             current[1 - SlotOf(next.gen)].gen <= next.gen
  BY <1>5, <1>6, <1>10
<1> QED BY <1>7, <1>8, <1>11, <1>12, <1>14, <1>15, <1>16, <1>17, <1>18, SlotMoves

\* No step goes back.
LEMMA StepForward ==
    ASSUME LsmInv, LsmInv', LoadedFact', Published, Next
    PROVE  Forward
<1>1. CASE Publish
  BY <1>1, PublishForward
<1>2. CASE MirrorFails \/ FinishCompaction \/ FinishRotation
  BY <1>2, MirrorForward
<1>3. CASE Create \/ CreateInterrupted \/ FlushInitCurrent
  <2>1. current # NoCurrent
    BY SomeNewest DEF LsmInv
  <2>2. exists
    BY <2>1 DEF LsmInv, DiskInv
  <2>3. FlushInitCurrent
    BY <1>3, <2>2 DEF Create, CreateInterrupted
  <2>4. step = "initCurrent" /\ h # NoHandle
    BY <2>3 DEF FlushInitCurrent, LsmInv, StepInv
  <2>5. current = NoCurrent
    BY <2>4 DEF LsmInv, HandleInv, WalOnlyInv, InstalledInv
  <2> QED BY <2>1, <2>5
<1>4. CASE ~Publish /\ ~(MirrorFails \/ FinishCompaction \/ FinishRotation)
           /\ ~(Create \/ CreateInterrupted \/ FlushInitCurrent)
  <2>1. Kept
    BY <1>4, StepIds
  <2>2. current' = current
    BY <1>4
    DEF Next, RunningCall, Open, OpenRefused, OpenFails, Crash, Mutate, MutateExhausted,
        FlushInitManifest, FlushTable, SkipCompaction, CompactTable, RotateWal, SkipRotation,
        WriteManifest, disk
  <2> QED BY <2>1, <2>2, SameSlots
<1> QED BY <1>1, <1>2, <1>3, <1>4

\* VersionNeverRegresses: what open_existing loads never goes back, whichever
\* slot write, reclaim pass or crash comes between.
THEOREM VersionsNeverRegress == Spec => VersionNeverRegresses
<1>1. LsmInv' => LoadedFact'
  BY LoadedFactHolds, PTL
<1>2. ASSUME LsmInv, LsmInv', [Next]_vars
      PROVE  [Published => /\ Published'
                           /\ Loaded.durable <= Loaded'.durable
                           /\ Loaded.gc <= Loaded'.gc
                           /\ AllocationFloor(Loaded) <= AllocationFloor(Loaded)']_vars
  BY <1>1, <1>2, StepForward DEF Forward
<1> QED BY <1>2, LsmInvariant, PTL DEF Spec, VersionNeverRegresses
=============================================================================
