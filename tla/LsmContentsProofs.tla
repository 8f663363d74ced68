-------------------------- MODULE LsmContentsProofs --------------------------
(***************************************************************************)
(* What the LSM engine holds, for every set of keys and values, every      *)
(* MemTable limit, compaction trigger and bound: the disk, the handle and  *)
(* a running installation always show one map, which is the acknowledged   *)
(* one but for the mutation that runs or is in doubt.  Recovery, the reads *)
(* and the refinement of the key-value contract follow.                    *)
(***************************************************************************)
EXTENDS LsmProofs

\* The map that layers show.
View(layers) == [k \in Keys |-> Get(layers, k)]

\* An entry is newer than those of the same key in the layers below it, and
\* older than the next sequence number.
Sorted(layers, next) ==
    \A j \in DOMAIN layers : \A k \in DOMAIN layers[j].entries :
        /\ layers[j].entries[k].seq < next
        /\ \A i \in DOMAIN layers :
              i < j /\ k \in DOMAIN layers[i].entries =>
                  layers[j].entries[k].seq < layers[i].entries[k].seq

\* The SSTables of version v in the files ts.
TablesIn(ts, v) == [i \in DOMAIN v.tables |-> LoadTable(ts[v.tables[i].id])]

\* Version v opened over SSTable files ts and WAL segment w has MemTables mem
\* and SSTables tabs, which show map m.
Opened(ts, w, v, mem, tabs, m) ==
    /\ mem = ReplayFirst(v, w, Len(w.recs))
    /\ tabs = TablesIn(ts, v)
    /\ Sorted(ReadOrder(mem, tabs), WalNext(w))
    /\ View(ReadOrder(mem, tabs)) = m

\* Version v, opened over these files, shows map m.
Shown(ts, ws, v, m) ==
    Opened(ts, ws[v.wal], v, ReplayFirst(v, ws[v.wal], Len(ws[v.wal].recs)),
           TablesIn(ts, v), m)

\* What the files are opened as shows m; so does the other slot's version,
\* unless it is about another WAL segment.
DiskShows(m) ==
    /\ WalOnly /\ Complete(wals, 1) => 
            FilesOf(BaseVersion(0)) /\ Shown(tables, wals, BaseVersion(0), m)
    /\ current # NoCurrent =>
          \A s, t \in {0, 1} : Newest(s) /\ current[t] # Torn =>
              LET a == manifests[current[s].manifest]
                  u == manifests[current[t].manifest]
              IN  u.wal = a.wal => Shown(tables, wals, u, m)

\* What the caller has been told, and the mutation that runs.
Told == {Effect(acked, op) : op \in inflight} \cup {m \in {acked} : inflight = {}}

\* The handle is what opening its version would give.
HandleShows(m) ==
    h # NoHandle =>
        /\ Opened(tables, wals[h.version.wal], h.version, h.mem, h.tabs, m)
        /\ m \in Told

\* The MemTables that an installation leaves.
Retired(mem) == [mutable |-> mem.mutable, immutable |-> Tail(mem.immutable)]
MemAfter(j, mem) == IF j.kind = "flush" THEN Retired(mem) ELSE mem

\* The version set that is being installed shows what the handle shows.
JobShows(m) ==
    job # NoJob =>
        /\ Opened(tables, wals[job.next.wal], job.next, MemAfter(job, h.mem), job.tabs, m)
        /\ job.kind = "rotate" => job.tabs = h.tabs

\* Nobody was told anything yet.
UntouchedInv == ~exists => acked = EmptyMap

\* What is on disk, what the handle shows and what is being installed is one
\* map, which the caller may find.
ReadsInv ==
    /\ UntouchedInv
    /\ \E m \in Candidates : DiskShows(m) /\ HandleShows(m) /\ JobShows(m)
-----------------------------------------------------------------------------
\* Reading layers.

\* A filter never hides a key of its table.
LEMMA AnswersIs ==
    ASSUME NEW l \in Layers, NEW k
    PROVE  Answers(l, k) <=> k \in DOMAIN l.entries
<1>1. CASE l \in MemTables
  <2>1. "filter" \notin DOMAIN l
    BY <1>1 DEF MemTables
  <2> QED BY <2>1 DEF Answers
<1>2. CASE l \in Tables
  <2>1. PICK t \in SortedTables : l = LoadTable(t)
    BY <1>2 DEF Tables
  <2>2. l.entries = t.entries /\ l.filter = t.filter /\ TableAccepted(t)
    BY <2>1, SortedTableParts
  <2>3. k \in DOMAIN l.entries => MayContain(l.filter, k)
    BY <2>2 DEF TableAccepted
  <2> QED BY <2>3 DEF Answers
<1> QED BY <1>1, <1>2 DEF Layers

\* The first layer that has the key answers.
LEMMA GetAt ==
    ASSUME NEW layers \in Seq(Layers), NEW k, NEW i \in DOMAIN layers,
           k \in DOMAIN layers[i].entries,
           \A j \in DOMAIN layers : j < i => k \notin DOMAIN layers[j].entries
    PROVE  Get(layers, k) = layers[i].entries[k].val
<1> DEFINE hits == {j \in DOMAIN layers : Answers(layers[j], k)}
<1>1. /\ DOMAIN layers \subseteq Nat /\ \A j \in DOMAIN layers : layers[j] \in Layers
  OBVIOUS
<1>2. \A j \in DOMAIN layers : Answers(layers[j], k) <=> k \in DOMAIN layers[j].entries
  BY <1>1, AnswersIs
<1>3. i \in hits /\ \A j \in hits : i <= j
  <2>1. \A j \in hits : ~(j < i) /\ j \in Nat /\ i \in Nat
    BY <1>1, <1>2
  <2> QED BY <1>2, <2>1
<1>4. hits \subseteq Nat
  BY <1>1
<1> HIDE DEF hits
<1>5. Min(hits) \in hits /\ \A j \in hits : Min(hits) <= j
  BY <1>3, Zenon DEF Min
<1>6. Min(hits) = i
  <2>1. PICK x : x = Min(hits)
    OBVIOUS
  <2>2. x \in Nat /\ i \in Nat /\ x <= i /\ i <= x
    BY <1>3, <1>4, <1>5, <2>1
  <2> QED BY <2>1, <2>2
<1> QED BY <1>3, <1>6, Zenon DEF Get, hits

\* Without one the key is missing.
LEMMA GetNone ==
    ASSUME NEW layers \in Seq(Layers), NEW k,
           \A j \in DOMAIN layers : k \notin DOMAIN layers[j].entries
    PROVE  Get(layers, k) = Missing
<1>1. \A j \in DOMAIN layers : ~Answers(layers[j], k)
  <2>1. \A j \in DOMAIN layers : layers[j] \in Layers
    OBVIOUS
  <2> QED BY <2>1, AnswersIs
<1> QED BY <1>1 DEF Get

\* One or the other.
LEMMA FirstHit ==
    ASSUME NEW layers \in Seq(Layers), NEW k
    PROVE  \/ \A j \in DOMAIN layers : k \notin DOMAIN layers[j].entries
           \/ \E i \in DOMAIN layers :
                 /\ k \in DOMAIN layers[i].entries
                 /\ \A j \in DOMAIN layers : j < i => k \notin DOMAIN layers[j].entries
<1> DEFINE hits == {j \in DOMAIN layers : k \in DOMAIN layers[j].entries}
<1>1. hits \in SUBSET Nat
  OBVIOUS
<1>2. CASE hits # {}
  <2>1. PICK i \in hits : \A j \in hits : i <= j
    <3> HIDE DEF hits
    <3> QED BY <1>1, <1>2, LeastNatural
  <2>2. \A j \in DOMAIN layers : j < i => j \notin hits
    BY <1>1, <2>1
  <2> QED BY <2>1, <2>2
<1> QED BY <1>2

\* Entries decide what layers show.
LEMMA SameView ==
    ASSUME NEW a \in Seq(Layers), NEW b \in Seq(Layers), Len(a) = Len(b),
           \A i \in DOMAIN a : a[i].entries = b[i].entries
    PROVE  /\ View(a) = View(b)
           /\ \A n : Sorted(a, n) => Sorted(b, n)
<1>1. DOMAIN a = DOMAIN b
  BY LenProperties
<1>2. ASSUME NEW k \in Keys PROVE Get(a, k) = Get(b, k)
  <2>1. CASE \A j \in DOMAIN a : k \notin DOMAIN a[j].entries
    <3>1. Get(a, k) = Missing
      BY <2>1, GetNone
    <3>2. Get(b, k) = Missing
      BY <1>1, <2>1, GetNone
    <3> QED BY <3>1, <3>2
  <2>2. ASSUME NEW i \in DOMAIN a, k \in DOMAIN a[i].entries,
               \A j \in DOMAIN a : j < i => k \notin DOMAIN a[j].entries
        PROVE  Get(a, k) = Get(b, k)
    <3>1. Get(a, k) = a[i].entries[k].val
      BY <2>2, GetAt
    <3>2. /\ i \in DOMAIN b /\ k \in DOMAIN b[i].entries
          /\ \A j \in DOMAIN b : j < i => k \notin DOMAIN b[j].entries
      BY <1>1, <2>2
    <3>3. Get(b, k) = b[i].entries[k].val
      BY <3>2, GetAt
    <3> QED BY <3>1, <3>3
  <2> QED BY <2>1, <2>2, FirstHit
<1>3. \A n : Sorted(a, n) => Sorted(b, n)
  BY <1>1 DEF Sorted
<1> QED BY <1>2, <1>3 DEF View

\* Layers L are a MemTable x over frozen ones s and SSTables.
Laid(L, x, s, tabs) ==
    LET n == Len(s)
        t == Len(tabs)
    IN  /\ L \in Seq(Layers) /\ n \in Nat /\ t \in Nat
        /\ Len(L) = 1 + n + t /\ DOMAIN L = 1 .. 1 + n + t
        /\ L[1] = x
        /\ \A p \in 1 .. n : L[1 + p] = s[n - p + 1]
        /\ \A q \in 1 .. t : L[1 + n + q] = tabs[t - q + 1]

\* Where the layers of a handle are.
LEMMA ReadOrderAt ==
    ASSUME NEW mem \in MemSets, NEW tabs \in Seq(Tables)
    PROVE  Laid(ReadOrder(mem, tabs), mem.mutable, mem.immutable, tabs)
<1> PICK L : L = ReadOrder(mem, tabs)
  OBVIOUS
<1> PICK n : n = Len(mem.immutable)
  OBVIOUS
<1> PICK t : t = Len(tabs)
  OBVIOUS
<1>1. mem.mutable \in MemTables /\ mem.immutable \in Seq(MemTables)
  BY DEF MemSets
<1>2. n \in Nat /\ t \in Nat
  BY <1>1
<1>3. PICK r : r = Reverse(mem.immutable)
  OBVIOUS
<1>4. PICK u : u = Reverse(tabs)
  OBVIOUS
<1>5. r = [i \in 1 .. n |-> mem.immutable[(n - i) + 1]]
  BY <1>3 DEF Reverse
<1>6. u = [i \in 1 .. t |-> tabs[(t - i) + 1]]
  BY <1>4 DEF Reverse
<1>7. r \in Seq(MemTables) /\ Len(r) = n
  <2>1. \A i \in 1 .. n : mem.immutable[(n - i) + 1] \in MemTables
    <3> TAKE i \in 1 .. n
    <3>1. (n - i) + 1 \in 1 .. n
      BY <1>2
    <3> QED BY <1>1, <3>1
  <2> QED BY <1>2, <1>5, <2>1
<1>8. u \in Seq(Tables) /\ Len(u) = t
  <2>1. \A i \in 1 .. t : tabs[(t - i) + 1] \in Tables
    <3> TAKE i \in 1 .. t
    <3>1. (t - i) + 1 \in 1 .. t
      BY <1>2
    <3> QED BY <3>1
  <2> QED BY <1>2, <1>6, <2>1
<1>9. L = <<mem.mutable>> \o r \o u
  BY <1>3, <1>4 DEF ReadOrder
<1>10. L \in Seq(Layers)
  BY ReadOrderIs
<1>11. PICK x : x = mem.mutable
  OBVIOUS
<1>12. x \in Layers /\ r \in Seq(Layers) /\ u \in Seq(Layers)
  BY <1>1, <1>7, <1>8, <1>11, SeqMonotonic DEF Layers
<1>13. PICK a : a = <<x>> \o r
  OBVIOUS
<1>14. /\ a \in Seq(Layers) /\ Len(a) = 1 + n /\ a[1] = x
       /\ \A p \in 1 .. n : a[1 + p] = r[p]
  <2>1. <<x>> \in Seq(Layers) /\ Len(<<x>>) = 1
    BY <1>12
  <2> QED BY <1>2, <1>7, <1>12, <1>13, <2>1
<1>15. L = a \o u
  BY <1>2, <1>9, <1>11, <1>12, <1>13, ConcatAssociative
<1>16. /\ Len(L) = 1 + n + t /\ DOMAIN L = 1 .. 1 + n + t /\ L[1] = x
       /\ \A p \in 1 .. n : L[1 + p] = r[p]
       /\ \A q \in 1 .. t : L[1 + n + q] = u[q]
  <2>1. /\ Len(L) = Len(a) + Len(u)
        /\ \A i \in 1 .. Len(a) + Len(u) : L[i] = IF i <= Len(a) THEN a[i] ELSE u[i - Len(a)]
    <3>1. a \in Seq(Layers) /\ u \in Seq(Layers)
      BY <1>12, <1>14
    <3>2. /\ Len(a \o u) = Len(a) + Len(u)
          /\ \A i \in 1 .. Len(a) + Len(u) :
                (a \o u)[i] = IF i <= Len(a) THEN a[i] ELSE u[i - Len(a)]
      BY <3>1, ConcatProperties, Zenon
    <3> QED BY <1>15, <3>2, Zenon
  <2>2. /\ Len(L) = 1 + n + t
        /\ \A i \in 1 .. 1 + n + t : L[i] = IF i <= 1 + n THEN a[i] ELSE u[i - (1 + n)]
    BY <1>2, <1>8, <1>14, <2>1
  <2>3. DOMAIN L = 1 .. 1 + n + t
    <3>1. DOMAIN L = 1 .. Len(L)
      BY <1>10, LenProperties, Zenon
    <3>2. Len(L) = 1 + n + t
      BY <2>2, Zenon
    <3> QED BY <3>1, <3>2, Zenon
  <2>4. L[1] = x
    <3>1. 1 \in 1 .. 1 + n + t /\ 1 <= 1 + n
      BY <1>2
    <3>2. L[1] = a[1]
      BY <2>2, <3>1, Zenon
    <3> QED BY <1>14, <3>2
  <2>5. ASSUME NEW p \in 1 .. n PROVE L[1 + p] = r[p]
    <3>1. 1 + p \in 1 .. 1 + n + t /\ 1 + p <= 1 + n
      BY <1>2
    <3> QED BY <1>14, <2>2, <3>1
  <2>6. ASSUME NEW q \in 1 .. t PROVE L[1 + n + q] = u[q]
    <3>1. 1 + n + q \in 1 .. 1 + n + t /\ ~(1 + n + q <= 1 + n) /\ (1 + n + q) - (1 + n) = q
      BY <1>2
    <3> QED BY <2>2, <3>1
  <2> QED BY <2>2, <2>3, <2>4, <2>5, <2>6
<1>17. \A p \in 1 .. n : L[1 + p] = mem.immutable[n - p + 1]
  BY <1>5, <1>16
<1>18. \A q \in 1 .. t : L[1 + n + q] = tabs[t - q + 1]
  BY <1>6, <1>16
<1>19. Laid(L, mem.mutable, mem.immutable, tabs)
  BY <1>2, <1>10, <1>11, <1>16, <1>17, <1>18 DEF Laid
<1> QED BY <1>19

\* Layers a and b differ in the first one.
SameBelow(a, b) ==
    /\ Len(a) = Len(b) /\ 1 \in DOMAIN a
    /\ \A i \in DOMAIN a : i # 1 => b[i].entries = a[i].entries

\* Layers b are a with an empty one on top.
Pushed(a, b) ==
    /\ Len(b) = Len(a) + 1 /\ DOMAIN b[1].entries = {}
    /\ \A i \in DOMAIN a : b[i + 1].entries = a[i].entries

\* A mutation on top of sorted layers.
LEMMA PutView ==
    ASSUME NEW a \in Seq(Layers), NEW b \in Seq(Layers), NEW seq \in 1 .. MaxSequence,
           NEW op \in Op, SameBelow(a, b), Sorted(a, seq),
           b[1].entries = Insert(a[1].entries, seq, op)
    PROVE  /\ View(b) = Effect(View(a), op)
           /\ Sorted(b, seq + 1)
<1>1. /\ DOMAIN a = DOMAIN b /\ DOMAIN a \subseteq Nat /\ \A i \in DOMAIN a : 1 <= i
      /\ seq \in Nat /\ Len(a) = Len(b) /\ 1 \in DOMAIN a
      /\ \A i \in DOMAIN a : i # 1 => b[i].entries = a[i].entries
  BY LenProperties, BoundsAssumption DEF SameBelow
<1>2. a[1] \in Layers /\ a[1].entries \in Entries
  <2>1. a[1] \in Layers
    BY <1>1
  <2> QED BY <2>1, LayerIs
<1>3. /\ DOMAIN b[1].entries = DOMAIN a[1].entries \cup {op.key}
      /\ b[1].entries[op.key] = [seq |-> seq, val |-> op.val]
      /\ \A k \in DOMAIN a[1].entries : k # op.key => b[1].entries[k] = a[1].entries[k]
  <2>1. PICK e \in Entries : e = a[1].entries
    BY <1>2
  <2>2. PICK g : g = b[1].entries
    OBVIOUS
  <2>3. g = Insert(e, seq, op)
    BY <2>1, <2>2
  <2>4. /\ DOMAIN g = DOMAIN e \cup {op.key} /\ g[op.key] = [seq |-> seq, val |-> op.val]
        /\ \A k \in DOMAIN e : k # op.key => g[k] = e[k]
    BY <2>3 DEF Insert
  <2> QED BY <2>1, <2>2, <2>4
<1>4. op.key \in Keys
  BY DEF Op
<1>5. ASSUME NEW k \in Keys, k # op.key PROVE Get(b, k) = Get(a, k)
  <2>1. \A i \in DOMAIN a : k \in DOMAIN b[i].entries <=> k \in DOMAIN a[i].entries
    BY <1>1, <1>3, <1>5
  <2>2. \A i \in DOMAIN a : k \in DOMAIN a[i].entries => b[i].entries[k] = a[i].entries[k]
    BY <1>1, <1>3, <1>5
  <2>3. CASE \A j \in DOMAIN a : k \notin DOMAIN a[j].entries
    <3>1. Get(a, k) = Missing
      BY <2>3, GetNone
    <3>2. Get(b, k) = Missing
      BY <1>1, <2>1, <2>3, GetNone
    <3> QED BY <3>1, <3>2
  <2>4. ASSUME NEW i \in DOMAIN a, k \in DOMAIN a[i].entries,
               \A j \in DOMAIN a : j < i => k \notin DOMAIN a[j].entries
        PROVE  Get(b, k) = Get(a, k)
    <3>1. Get(a, k) = a[i].entries[k].val
      BY <2>4, GetAt
    <3>2. /\ i \in DOMAIN b /\ k \in DOMAIN b[i].entries
          /\ \A j \in DOMAIN b : j < i => k \notin DOMAIN b[j].entries
      BY <1>1, <2>1, <2>4
    <3>3. Get(b, k) = b[i].entries[k].val
      BY <3>2, GetAt
    <3> QED BY <2>2, <2>4, <3>1, <3>3
  <2> QED BY <2>3, <2>4, FirstHit
<1>6. Get(b, op.key) = op.val
  <2>1. /\ 1 \in DOMAIN b /\ op.key \in DOMAIN b[1].entries
        /\ \A j \in DOMAIN b : j < 1 => op.key \notin DOMAIN b[j].entries
    BY <1>1, <1>3
  <2>2. Get(b, op.key) = b[1].entries[op.key].val
    BY <2>1, GetAt
  <2> QED BY <1>3, <2>2
<1>7. View(b) = Effect(View(a), op)
  <2>1. Effect(View(a), op) = [k \in Keys |-> IF k = op.key THEN op.val ELSE Get(a, k)]
    BY DEF Effect, View
  <2>2. \A k \in Keys : Get(b, k) = IF k = op.key THEN op.val ELSE Get(a, k)
    BY <1>5, <1>6
  <2> QED BY <2>1, <2>2 DEF View
<1>8. ASSUME NEW j \in DOMAIN b, NEW k \in DOMAIN b[j].entries
      PROVE  /\ b[j].entries[k].seq < seq + 1
             /\ \A i \in DOMAIN b : i < j /\ k \in DOMAIN b[i].entries =>
                    b[j].entries[k].seq < b[i].entries[k].seq
  <2>1. CASE j = 1
    <3>1. b[j].entries[k].seq < seq + 1
      <4>1. CASE k = op.key
        BY <1>1, <1>3, <2>1, <4>1
      <4>2. CASE k # op.key
        <5>1. k \in DOMAIN a[1].entries /\ b[j].entries[k] = a[1].entries[k]
          BY <1>3, <1>8, <2>1, <4>2
        <5>2. a[1].entries[k].seq < seq /\ a[1].entries[k] \in [seq : 1 .. MaxSequence, val : Entry]
          BY <1>1, <1>2, <5>1, EntriesMembers DEF Sorted
        <5>3. a[1].entries[k].seq \in 1 .. MaxSequence
          BY <5>2
        <5> QED BY <1>1, <5>1, <5>2, <5>3, BoundsAssumption
      <4> QED BY <4>1, <4>2
    <3> QED BY <1>1, <2>1, <3>1
  <2>2. CASE j # 1
    <3>1. b[j].entries = a[j].entries /\ j \in DOMAIN a
      BY <1>1, <2>2
    <3>2. PICK x : x = a[j].entries[k].seq
      OBVIOUS
    <3>3. x < seq /\ x \in Nat
      <4>1. a[j] \in Layers
        BY <3>1
      <4>2. a[j].entries[k] \in [seq : 1 .. MaxSequence, val : Entry]
        BY <1>8, <3>1, <4>1, LayerIs, EntriesMembers
      <4>3. x \in 1 .. MaxSequence
        BY <3>2, <4>2
      <4> QED BY <1>8, <3>1, <3>2, <4>3, BoundsAssumption DEF Sorted
    <3>4. ASSUME NEW i \in DOMAIN b, i < j, k \in DOMAIN b[i].entries
          PROVE  x < b[i].entries[k].seq
      <4>1. CASE k \in DOMAIN a[i].entries /\ b[i].entries[k] = a[i].entries[k]
        BY <1>1, <1>8, <3>1, <3>2, <3>4, <4>1 DEF Sorted
      <4>2. CASE i = 1 /\ k = op.key
        BY <1>3, <3>3, <4>2
      <4> QED BY <1>1, <1>3, <3>4, <4>1, <4>2
    <3> QED BY <1>1, <3>1, <3>2, <3>3, <3>4
  <2> QED BY <2>1, <2>2
<1> QED BY <1>7, <1>8 DEF Sorted

\* An empty layer on top changes nothing.
LEMMA FreezeView ==
    ASSUME NEW a \in Seq(Layers), NEW b \in Seq(Layers), Pushed(a, b)
    PROVE  /\ View(b) = View(a)
           /\ \A n : Sorted(a, n) => Sorted(b, n)
<1>1. /\ Len(a) \in Nat /\ DOMAIN a = 1 .. Len(a) /\ DOMAIN b = 1 .. Len(a) + 1
      /\ DOMAIN b[1].entries = {}
      /\ \A i \in DOMAIN a : b[i + 1].entries = a[i].entries
  BY LenProperties DEF Pushed
<1>2. \A j \in DOMAIN b : j = 1 \/ (j - 1 \in DOMAIN a /\ b[j].entries = a[j - 1].entries)
  <2> TAKE j \in DOMAIN b
  <2>1. CASE j # 1
    <3>1. j - 1 \in DOMAIN a /\ (j - 1) + 1 = j
      BY <1>1, <2>1
    <3>2. b[(j - 1) + 1].entries = a[j - 1].entries
      BY <1>1, <3>1
    <3> QED BY <3>1, <3>2
  <2> QED BY <2>1
<1>3. ASSUME NEW k \in Keys PROVE Get(b, k) = Get(a, k)
  <2>1. CASE \A j \in DOMAIN a : k \notin DOMAIN a[j].entries
    <3>1. Get(a, k) = Missing
      BY <2>1, GetNone
    <3>2. \A j \in DOMAIN b : k \notin DOMAIN b[j].entries
      BY <1>1, <1>2, <2>1
    <3>3. Get(b, k) = Missing
      BY <3>2, GetNone
    <3> QED BY <3>1, <3>3
  <2>2. ASSUME NEW i \in DOMAIN a, k \in DOMAIN a[i].entries,
               \A j \in DOMAIN a : j < i => k \notin DOMAIN a[j].entries
        PROVE  Get(b, k) = Get(a, k)
    <3>1. Get(a, k) = a[i].entries[k].val
      BY <2>2, GetAt
    <3>2. i + 1 \in DOMAIN b /\ b[i + 1].entries = a[i].entries
      BY <1>1
    <3>3. ASSUME NEW j \in DOMAIN b, j < i + 1 PROVE k \notin DOMAIN b[j].entries
      <4>1. CASE j = 1
        BY <1>1, <4>1
      <4>2. CASE j # 1
        <5>1. j - 1 \in DOMAIN a /\ b[j].entries = a[j - 1].entries
          BY <1>2, <4>2
        <5>2. j - 1 < i
          BY <1>1, <3>3
        <5> QED BY <2>2, <5>1, <5>2
      <4> QED BY <4>1, <4>2
    <3>4. Get(b, k) = b[i + 1].entries[k].val
      BY <2>2, <3>2, <3>3, GetAt
    <3> QED BY <3>1, <3>2, <3>4
  <2> QED BY <2>1, <2>2, FirstHit
<1>4. ASSUME NEW n, Sorted(a, n) PROVE Sorted(b, n)
  <2> SUFFICES ASSUME NEW j \in DOMAIN b, NEW k \in DOMAIN b[j].entries
               PROVE  /\ b[j].entries[k].seq < n
                      /\ \A i \in DOMAIN b : i < j /\ k \in DOMAIN b[i].entries =>
                             b[j].entries[k].seq < b[i].entries[k].seq
    BY DEF Sorted
  <2>1. j - 1 \in DOMAIN a /\ b[j].entries = a[j - 1].entries
    BY <1>1, <1>2
  <2>2. b[j].entries[k].seq < n
    BY <1>4, <2>1 DEF Sorted
  <2>3. ASSUME NEW i \in DOMAIN b, i < j, k \in DOMAIN b[i].entries
        PROVE  b[j].entries[k].seq < b[i].entries[k].seq
    <3>1. i - 1 \in DOMAIN a /\ b[i].entries = a[i - 1].entries
      BY <1>1, <1>2, <2>3
    <3>2. i - 1 < j - 1
      BY <1>1, <2>3
    <3> QED BY <1>4, <2>1, <2>3, <3>1, <3>2 DEF Sorted
  <2> QED BY <2>2, <2>3
<1> QED BY <1>3, <1>4 DEF View


\* Layers with the same frozen MemTables and SSTables.
LEMMA OtherTop ==
    ASSUME NEW a, NEW b, NEW x, NEW y, NEW s, NEW tabs, Laid(a, x, s, tabs), Laid(b, y, s, tabs)
    PROVE  SameBelow(a, b)
<1>1. PICK n : n = Len(s)
  OBVIOUS
<1>2. PICK k : k = Len(tabs)
  OBVIOUS
<1>3. /\ n \in Nat /\ k \in Nat /\ Len(a) = 1 + n + k /\ DOMAIN a = 1 .. 1 + n + k
      /\ \A p \in 1 .. n : a[1 + p] = s[n - p + 1]
      /\ \A q \in 1 .. k : a[1 + n + q] = tabs[k - q + 1]
  BY <1>1, <1>2 DEF Laid
<1>4. /\ Len(b) = 1 + n + k
      /\ \A p \in 1 .. n : b[1 + p] = s[n - p + 1]
      /\ \A q \in 1 .. k : b[1 + n + q] = tabs[k - q + 1]
  BY <1>1, <1>2 DEF Laid
<1>5. ASSUME NEW i \in DOMAIN a, i # 1 PROVE b[i] = a[i]
  <2>1. CASE i <= 1 + n
    <3>1. i - 1 \in 1 .. n /\ 1 + (i - 1) = i
      BY <1>3, <1>5, <2>1
    <3> QED BY <1>3, <1>4, <3>1
  <2>2. CASE ~(i <= 1 + n)
    <3>1. i - 1 - n \in 1 .. k /\ 1 + n + (i - 1 - n) = i
      BY <1>3, <1>5, <2>2
    <3> QED BY <1>3, <1>4, <3>1
  <2> QED BY <2>1, <2>2
<1>6. 1 \in DOMAIN a
  BY <1>3
<1> QED BY <1>3, <1>4, <1>5, <1>6 DEF SameBelow

\* Layers with the mutable MemTable frozen.
LEMMA FrozenTop ==
    ASSUME NEW x \in MemTables, NEW s \in Seq(MemTables), NEW tabs,
           NEW a, Laid(a, x, s, tabs), NEW b, Laid(b, EmptyMem, Append(s, x), tabs)
    PROVE  Pushed(a, b)
<1>1. PICK n : n = Len(s)
  OBVIOUS
<1>2. PICK k : k = Len(tabs)
  OBVIOUS
<1>3. PICK u : u = Append(s, x)
  OBVIOUS
<1>4. n \in Nat /\ Len(u) = n + 1 /\ u[n + 1] = x /\ \A i \in 1 .. n : u[i] = s[i]
  BY <1>1, <1>3
<1>5. /\ k \in Nat /\ Len(a) = 1 + n + k /\ DOMAIN a = 1 .. 1 + n + k /\ a[1] = x
      /\ \A p \in 1 .. n : a[1 + p] = s[n - p + 1]
      /\ \A q \in 1 .. k : a[1 + n + q] = tabs[k - q + 1]
  BY <1>1, <1>2 DEF Laid
<1>6. PICK m \in Nat : m = n + 1
  BY <1>4
<1>7. Laid(b, EmptyMem, u, tabs) /\ m = Len(u)
  BY <1>3, <1>4, <1>6
<1>8. /\ Len(b) = 1 + m + k /\ b[1] = EmptyMem
      /\ \A p \in 1 .. m : b[1 + p] = u[m - p + 1]
      /\ \A q \in 1 .. k : b[1 + m + q] = tabs[k - q + 1]
  BY <1>2, <1>7 DEF Laid
<1>9. DOMAIN b[1].entries = {}
  BY <1>8 DEF EmptyMem, NoEntries
<1>10. ASSUME NEW i \in DOMAIN a PROVE b[i + 1] = a[i]
  <2>1. CASE i = 1
    <3>1. 1 \in 1 .. m /\ m - 1 + 1 = n + 1
      BY <1>4, <1>6
    <3>2. b[1 + 1] = u[n + 1]
      BY <1>8, <3>1
    <3> QED BY <1>4, <1>5, <2>1, <3>2
  <2>2. CASE i # 1 /\ i <= 1 + n
    <3>1. PICK p : p = i - 1
      OBVIOUS
    <3>2. /\ p \in 1 .. n /\ 1 + p = i /\ p + 1 \in 1 .. m /\ 1 + (p + 1) = i + 1
          /\ m - (p + 1) + 1 = n - p + 1 /\ n - p + 1 \in 1 .. n
      BY <1>4, <1>5, <1>6, <2>2, <3>1
    <3>3. b[1 + (p + 1)] = u[m - (p + 1) + 1] /\ a[1 + p] = s[n - p + 1]
      BY <1>5, <1>8, <3>2
    <3> QED BY <1>4, <3>2, <3>3
  <2>3. CASE ~(i <= 1 + n)
    <3>1. PICK j \in Int : j = i
      BY <1>5
    <3>2. j <= 1 + n + k /\ ~(j <= 1 + n) /\ n \in Nat /\ k \in Nat
      BY <1>4, <1>5, <2>3, <3>1
    <3>3. PICK q : q = j - 1 - n
      OBVIOUS
    <3>4. q \in 1 .. k /\ 1 + n + q = j /\ 1 + (n + 1) + q = j + 1
      BY <3>2, <3>3
    <3>5. 1 + n + q = i /\ 1 + m + q = i + 1
      BY <1>6, <3>1, <3>4
    <3>6. b[1 + m + q] = tabs[k - q + 1] /\ a[1 + n + q] = tabs[k - q + 1]
      BY <1>5, <1>8, <3>4
    <3> QED BY <3>5, <3>6
  <2> QED BY <1>4, <2>1, <2>2, <2>3
<1>11. Len(b) = Len(a) + 1
  BY <1>4, <1>5, <1>6, <1>8
<1> QED BY <1>9, <1>10, <1>11 DEF Pushed

\* A mutation that enters the MemTables enters the map.
LEMMA ApplyView ==
    ASSUME NEW mem \in MemSets, NEW tabs \in Seq(Tables), NEW seq \in 1 .. MaxSequence,
           NEW op \in Op, NEW a, a = ReadOrder(mem, tabs), Sorted(a, seq),
           NEW b, b = ReadOrder(ApplyToMem(mem, seq, op), tabs)
    PROVE  View(b) = Effect(View(a), op) /\ Sorted(b, seq + 1)
<1>1. PICK t : t = Filled(mem, seq, op)
  OBVIOUS
<1>2. PICK s : s = mem.immutable
  OBVIOUS
<1>3. PICK m : m = [mutable |-> t, immutable |-> s]
  OBVIOUS
<1>4. t \in MemTables /\ t.entries = Insert(mem.mutable.entries, seq, op)
  BY <1>1, ApplyToMemIs DEF Filled
<1>5. s \in Seq(MemTables)
  BY <1>2 DEF MemSets
<1>6. m \in MemSets /\ m.mutable = t /\ m.immutable = s
  BY <1>3, <1>4, <1>5 DEF MemSets
<1>7. PICK c : c = ReadOrder(m, tabs)
  OBVIOUS
<1>8. Laid(a, mem.mutable, s, tabs)
  BY <1>2, ReadOrderAt
<1>9. Laid(c, t, s, tabs)
  BY <1>6, <1>7, ReadOrderAt
<1>10. SameBelow(a, c)
  BY <1>8, <1>9, OtherTop
<1>11. /\ a \in Seq(Layers) /\ c \in Seq(Layers)
       /\ c[1].entries = Insert(a[1].entries, seq, op)
  BY <1>4, <1>8, <1>9 DEF Laid
<1>12. View(c) = Effect(View(a), op) /\ Sorted(c, seq + 1)
  BY <1>10, <1>11, PutView
<1>13. PICK f : f = ApplyToMem(mem, seq, op)
  OBVIOUS
<1>14. f = [mutable |-> EmptyMem, immutable |-> Append(s, t)] \/ f = m
  BY <1>1, <1>2, <1>3, <1>13, ApplyToMemIs
<1>15. CASE f = m
  BY <1>7, <1>12, <1>13, <1>15
<1>16. CASE f = [mutable |-> EmptyMem, immutable |-> Append(s, t)]
  <2>1. f \in MemSets
    BY <1>13, ApplyToMemIs
  <2>2. f.mutable = EmptyMem /\ f.immutable = Append(s, t)
    BY <1>16
  <2>3. Laid(b, EmptyMem, Append(s, t), tabs)
    BY <1>13, <2>1, <2>2, ReadOrderAt
  <2>4. Pushed(c, b) /\ b \in Seq(Layers)
    <3>1. Pushed(c, b)
      BY <1>4, <1>5, <1>9, <2>3, FrozenTop
    <3> QED BY <2>3, <3>1 DEF Laid
  <2> QED BY <1>11, <1>12, <2>4, FreezeView
<1> QED BY <1>14, <1>15, <1>16

\* Layers with the same entries one by one.
Alike(a, b) == Len(a) = Len(b) /\ \A i \in DOMAIN a : a[i].entries = b[i].entries

\* A flush moves the oldest frozen MemTable to the newest SSTable.
LEMMA FlushedAlike ==
    ASSUME NEW x, NEW s \in Seq(MemTables), s # << >>, NEW tabs \in Seq(Tables),
           NEW y \in Tables, y.entries = Head(s).entries,
           NEW a, Laid(a, x, s, tabs), NEW b, Laid(b, x, Tail(s), Append(tabs, y))
    PROVE  Alike(a, b)
<1>1. PICK n : n = Len(s)
  OBVIOUS
<1>2. PICK k : k = Len(tabs)
  OBVIOUS
<1>3. PICK r : r = Tail(s)
  OBVIOUS
<1>4. PICK u : u = Append(tabs, y)
  OBVIOUS
<1>5. n \in Nat /\ n >= 1 /\ k \in Nat
  <2>1. n \in Nat \ {0}
    BY <1>1, EmptySeq
  <2>2. k \in Nat
    BY <1>2
  <2> QED BY <2>1, <2>2
<1>6. PICK m \in Nat : n = m + 1
  <2>1. n - 1 \in Nat /\ n = (n - 1) + 1
    BY <1>5
  <2> QED BY <2>1
<1>7. Len(r) = m /\ \A i \in 1 .. m : r[i] = s[i + 1]
  <2>1. Len(Tail(s)) = Len(s) - 1 /\ \A i \in 1 .. Len(Tail(s)) : Tail(s)[i] = s[i + 1]
    BY HeadTailProperties, Zenon
  <2>2. Len(r) = n - 1 /\ \A i \in 1 .. Len(r) : r[i] = s[i + 1]
    BY <1>1, <1>3, <2>1, Zenon
  <2>3. Len(r) = m
    BY <1>6, <2>2
  <2> QED BY <2>2, <2>3
<1>8. s[1].entries = y.entries
  <2>1. Head(s) = s[1]
    OBVIOUS
  <2> QED BY <2>1
<1>9. Len(u) = k + 1 /\ u[k + 1] = y /\ \A i \in 1 .. k : u[i] = tabs[i]
  BY <1>2, <1>4
<1>10. /\ Len(a) = 1 + n + k /\ DOMAIN a = 1 .. 1 + n + k /\ a[1] = x
       /\ \A p \in 1 .. n : a[1 + p] = s[n - p + 1]
       /\ \A q \in 1 .. k : a[1 + n + q] = tabs[k - q + 1]
  BY <1>1, <1>2 DEF Laid
<1>11. PICK l \in Nat : l = k + 1
  BY <1>5
<1>12. Laid(b, x, r, u) /\ m = Len(r) /\ l = Len(u)
  BY <1>3, <1>4, <1>7, <1>9, <1>11
<1>13. /\ Len(b) = 1 + m + l /\ b[1] = x
       /\ \A p \in 1 .. m : b[1 + p] = r[m - p + 1]
       /\ \A q \in 1 .. l : b[1 + m + q] = u[l - q + 1]
  BY <1>12 DEF Laid
<1>14. ASSUME NEW j \in DOMAIN a PROVE a[j].entries = b[j].entries
  <2>1. PICK i \in Int : i = j
    BY <1>10
  <2>2. 1 <= i /\ i <= 1 + n + k
    BY <1>5, <1>10, <2>1
  <2>3. CASE i = 1
    BY <1>10, <1>13, <2>1, <2>3
  <2>4. CASE i # 1 /\ i <= 1 + m
    <3>1. PICK p : p = i - 1
      OBVIOUS
    <3>2. /\ p \in 1 .. n /\ p \in 1 .. m /\ 1 + p = i
          /\ n - p + 1 = (m - p + 1) + 1 /\ m - p + 1 \in 1 .. m
      BY <1>5, <1>6, <2>2, <2>4, <3>1
    <3>3. a[1 + p] = s[n - p + 1] /\ b[1 + p] = r[m - p + 1]
      BY <1>10, <1>13, <3>2
    <3>4. r[m - p + 1] = s[(m - p + 1) + 1]
      BY <1>7, <3>2
    <3> QED BY <2>1, <3>2, <3>3, <3>4
  <2>5. CASE i = 1 + n
    <3>1. n \in 1 .. n /\ n - n + 1 = 1 /\ 1 \in 1 .. l /\ 1 + m + 1 = i /\ l - 1 + 1 = k + 1
      BY <1>5, <1>6, <1>11, <2>5
    <3>2. a[1 + n] = s[n - n + 1] /\ b[1 + m + 1] = u[l - 1 + 1]
      BY <1>10, <1>13, <3>1
    <3>3. a[i] = s[1] /\ b[i] = y
      BY <1>9, <2>5, <3>1, <3>2
    <3> QED BY <1>8, <2>1, <3>3
  <2>6. CASE i > 1 + n
    <3>1. PICK q : q = i - 1 - n
      OBVIOUS
    <3>2. /\ q \in 1 .. k /\ 1 + n + q = i /\ q + 1 \in 1 .. l /\ 1 + m + (q + 1) = i
          /\ l - (q + 1) + 1 = k - q + 1 /\ k - q + 1 \in 1 .. k
      BY <1>5, <1>6, <1>11, <2>2, <2>6, <3>1
    <3>3. a[1 + n + q] = tabs[k - q + 1] /\ b[1 + m + (q + 1)] = u[l - (q + 1) + 1]
      BY <1>10, <1>13, <3>2
    <3>4. u[k - q + 1] = tabs[k - q + 1]
      BY <1>9, <3>2
    <3> QED BY <2>1, <3>2, <3>3, <3>4
  <2>7. i <= 1 + m \/ i = 1 + n \/ i > 1 + n
    BY <1>5, <1>6
  <2> QED BY <2>3, <2>4, <2>5, <2>6, <2>7
<1>15. Len(a) = Len(b)
  BY <1>5, <1>6, <1>10, <1>11, <1>13
<1> QED BY <1>14, <1>15 DEF Alike

\* The newest entry of a key.
LEMMA OverlayAt ==
    ASSUME NEW layers \in Seq(Layers), NEW g, g = Overlay(layers)
    PROVE  /\ \A k : k \in DOMAIN g <=> \E i \in DOMAIN layers : k \in DOMAIN layers[i].entries
           /\ \A k \in DOMAIN g : \E i \in DOMAIN layers :
                 /\ k \in DOMAIN layers[i].entries /\ g[k] = layers[i].entries[k]
                 /\ \A j \in DOMAIN layers : k \in DOMAIN layers[j].entries =>
                       layers[j].entries[k].seq <= layers[i].entries[k].seq
<1> DEFINE versions(k) == {layers[i].entries[k] : i \in
                              {j \in DOMAIN layers : k \in DOMAIN layers[j].entries}}
           newest(k) == CHOOSE e \in versions(k) : \A d \in versions(k) : d.seq <= e.seq
           K == UNION {DOMAIN layers[i].entries : i \in DOMAIN layers}
<1>1. g = [k \in K |-> newest(k)]
  BY DEF Overlay
<1>2. \A i \in DOMAIN layers : layers[i].entries \in Entries
  <2>1. \A i \in DOMAIN layers : layers[i] \in Layers
    OBVIOUS
  <2> QED BY <2>1, LayerIs
<1>3. ASSUME NEW k \in K
      PROVE  newest(k) \in versions(k) /\ \A d \in versions(k) : d.seq <= newest(k).seq
  <2> DEFINE V == versions(k)
             seqs == {e.seq : e \in V}
  <2>1. V \subseteq [seq : 1 .. MaxSequence, val : Entry]
    BY <1>2, EntriesMembers
  <2>2. V # {}
    BY <1>3
  <2>3. newest(k) = CHOOSE e \in V : \A d \in V : d.seq <= e.seq
    OBVIOUS
  <2> HIDE DEF V
  <2>4. MaxSequence \in Nat /\ seqs \in SUBSET Nat /\ seqs # {}
        /\ \A n \in seqs : n <= MaxSequence
    BY <2>1, <2>2, BoundsAssumption
  <2>5. PICK n \in seqs : \A m \in seqs : m <= n
    <3> HIDE DEF seqs
    <3> QED BY <2>4, GreatestNatural
  <2>6. \E e \in V : \A d \in V : d.seq <= e.seq
    BY <2>5
  <2>7. newest(k) \in V /\ \A d \in V : d.seq <= newest(k).seq
    BY <2>3, <2>6, Zenon
  <2> QED BY <2>7 DEF V
<1>4. DOMAIN g = K /\ \A k \in K : g[k] = newest(k)
  <2> HIDE DEF newest, K
  <2> QED BY <1>1
<1>5. \A k : k \in DOMAIN g <=> \E i \in DOMAIN layers : k \in DOMAIN layers[i].entries
  BY <1>4
<1>6. ASSUME NEW k \in DOMAIN g
      PROVE  \E i \in DOMAIN layers :
                 /\ k \in DOMAIN layers[i].entries /\ g[k] = layers[i].entries[k]
                 /\ \A j \in DOMAIN layers : k \in DOMAIN layers[j].entries =>
                       layers[j].entries[k].seq <= layers[i].entries[k].seq
  <2>1. g[k] \in versions(k) /\ \A d \in versions(k) : d.seq <= g[k].seq
    <3> HIDE DEF newest, K, versions
    <3> QED BY <1>3, <1>4
  <2> HIDE DEF newest, K
  <2> QED BY <2>1
<1> QED BY <1>5, <1>6

\* Newer entries are in higher layers.
LEMMA NewerIsHigher ==
    ASSUME NEW a \in Seq(Layers), NEW n, Sorted(a, n), NEW i \in DOMAIN a, NEW j \in DOMAIN a,
           NEW k \in DOMAIN a[i].entries, k \in DOMAIN a[j].entries,
           a[i].entries[k].seq <= a[j].entries[k].seq
    PROVE  j <= i
<1>1. a[i].entries \in Entries /\ a[j].entries \in Entries /\ i \in Nat /\ j \in Nat
  <2>1. a[i] \in Layers /\ a[j] \in Layers
    OBVIOUS
  <2> QED BY <2>1, LayerIs
<1>2. PICK x : x = a[i].entries[k].seq
  OBVIOUS
<1>3. PICK y : y = a[j].entries[k].seq
  OBVIOUS
<1>4. x \in 1 .. MaxSequence /\ y \in 1 .. MaxSequence
  <2>1. /\ a[i].entries[k] \in [seq : 1 .. MaxSequence, val : Entry]
        /\ a[j].entries[k] \in [seq : 1 .. MaxSequence, val : Entry]
    BY <1>1, EntriesMembers
  <2> QED BY <1>2, <1>3, <2>1
<1>5. i < j => y < x
  BY <1>2, <1>3 DEF Sorted
<1>6. x <= y /\ x \in Int /\ y \in Int
  BY <1>2, <1>3, <1>4
<1> QED BY <1>1, <1>5, <1>6

\* What is left without the tombstones.
LEMMA LiveAt ==
    ASSUME NEW g, NEW c, c = Live(g)
    PROVE  /\ \A k : k \in DOMAIN c <=> k \in DOMAIN g /\ g[k].val # Missing
           /\ \A k \in DOMAIN c : c[k] = g[k]
BY DEF Live, Restrict

\* The entries merged from the layers below the first, which are sorted.
MergedFrom(a, g) ==
    /\ \A k : k \in DOMAIN g <=> \E i \in DOMAIN a : i # 1 /\ k \in DOMAIN a[i].entries
    /\ \A k \in DOMAIN g : \E i \in DOMAIN a :
          /\ i # 1 /\ k \in DOMAIN a[i].entries /\ g[k] = a[i].entries[k]
          /\ \A j \in DOMAIN a : j # 1 /\ k \in DOMAIN a[j].entries => i <= j

\* A full merge of the SSTables is such a one.
LEMMA MergeIs ==
    ASSUME NEW x, NEW tabs \in Seq(Tables), NEW a, Laid(a, x, << >>, tabs),
           NEW n, Sorted(a, n), NEW g, g = Overlay(tabs)
    PROVE  MergedFrom(a, g)
<1>1. PICK t \in Nat : t = Len(tabs)
  OBVIOUS
<1>2. tabs \in Seq(Layers) /\ DOMAIN tabs = 1 .. t
  <2>1. Tables \subseteq Layers
    BY DEF Layers
  <2>2. tabs \in Seq(Layers)
    BY <2>1, SeqMonotonic, Zenon
  <2> QED BY <1>1, <2>2
<1>3. /\ a \in Seq(Layers) /\ DOMAIN a = 1 .. 1 + t
      /\ \A q \in 1 .. t : a[1 + q] = tabs[t - q + 1]
  <2>1. Len(<< >>) = 0
    OBVIOUS
  <2>2. /\ a \in Seq(Layers) /\ DOMAIN a = 1 .. 1 + 0 + t
        /\ \A q \in 1 .. t : a[1 + 0 + q] = tabs[t - q + 1]
    BY <1>1, <2>1 DEF Laid
  <2>3. \A q \in 1 .. t : 1 + 0 + q = 1 + q
    OBVIOUS
  <2>4. 1 + 0 + t = 1 + t
    OBVIOUS
  <2> QED BY <2>2, <2>3, <2>4
<1>4. ASSUME NEW i \in DOMAIN a, i # 1 PROVE \E j \in DOMAIN tabs : tabs[j] = a[i]
  <2>1. PICK q \in 1 .. t : i = 1 + q
    <3>1. i - 1 \in 1 .. t /\ i = 1 + (i - 1)
      BY <1>1, <1>3, <1>4
    <3> QED BY <3>1
  <2>2. t - q + 1 \in 1 .. t
    BY <1>1
  <2> QED BY <1>2, <1>3, <2>1, <2>2
<1>5. ASSUME NEW j \in DOMAIN tabs PROVE \E i \in DOMAIN a : i # 1 /\ tabs[j] = a[i]
  <2>1. j \in 1 .. t
    BY <1>2
  <2>2. PICK q \in 1 .. t : j = t - q + 1
    <3>1. t - j + 1 \in 1 .. t /\ j = t - (t - j + 1) + 1
      BY <1>1, <2>1
    <3> QED BY <3>1
  <2>3. 1 + q \in 1 .. 1 + t /\ 1 + q # 1
    BY <1>1
  <2> QED BY <1>3, <2>2, <2>3
<1>6. /\ \A k : k \in DOMAIN g <=> \E i \in DOMAIN tabs : k \in DOMAIN tabs[i].entries
      /\ \A k \in DOMAIN g : \E i \in DOMAIN tabs :
            /\ k \in DOMAIN tabs[i].entries /\ g[k] = tabs[i].entries[k]
            /\ \A j \in DOMAIN tabs : k \in DOMAIN tabs[j].entries =>
                  tabs[j].entries[k].seq <= tabs[i].entries[k].seq
  BY <1>2, OverlayAt
<1>7. \A k : k \in DOMAIN g <=> \E i \in DOMAIN a : i # 1 /\ k \in DOMAIN a[i].entries
  BY <1>4, <1>5, <1>6
<1>8. ASSUME NEW k \in DOMAIN g
      PROVE  \E i \in DOMAIN a :
          /\ i # 1 /\ k \in DOMAIN a[i].entries /\ g[k] = a[i].entries[k]
          /\ \A j \in DOMAIN a : j # 1 /\ k \in DOMAIN a[j].entries => i <= j
  <2>1. PICK u \in DOMAIN tabs :
            /\ k \in DOMAIN tabs[u].entries /\ g[k] = tabs[u].entries[k]
            /\ \A j \in DOMAIN tabs : k \in DOMAIN tabs[j].entries =>
                  tabs[j].entries[k].seq <= tabs[u].entries[k].seq
    BY <1>6
  <2>2. PICK i \in DOMAIN a : i # 1 /\ tabs[u] = a[i]
    BY <1>5
  <2>3. ASSUME NEW j \in DOMAIN a, j # 1, k \in DOMAIN a[j].entries PROVE i <= j
    <3>1. a[j].entries[k].seq <= a[i].entries[k].seq
      BY <1>4, <2>1, <2>2, <2>3
    <3>2. k \in DOMAIN a[i].entries
      BY <2>1, <2>2
    <3> QED BY <1>3, <2>3, <3>1, <3>2, NewerIsHigher
  <2> QED BY <2>1, <2>2, <2>3
<1> QED BY <1>7, <1>8 DEF MergedFrom

\* Merging everything and dropping the tombstones changes nothing a reader sees.
LEMMA MergedView ==
    ASSUME NEW a \in Seq(Layers), 1 \in DOMAIN a, NEW n, Sorted(a, n),
           NEW g, MergedFrom(a, g), NEW c, c = Live(g),
           NEW b \in Seq(Layers), b[1] = a[1],
           (Len(b) = 1 /\ c = NoEntries) \/ (Len(b) = 2 /\ b[2].entries = c)
    PROVE  View(b) = View(a) /\ Sorted(b, n)
<1>1. /\ DOMAIN a \subseteq Nat /\ \A i \in DOMAIN a : i # 1 => 1 < i
      /\ \A k : k \in DOMAIN c <=> k \in DOMAIN g /\ g[k].val # Missing
      /\ \A k \in DOMAIN c : c[k] = g[k]
  <2>1. DOMAIN a \subseteq Nat /\ \A i \in DOMAIN a : i # 1 => 1 < i
    BY LenProperties
  <2> QED BY <2>1, LiveAt
<1>2. /\ \A j \in DOMAIN b : j = 1 \/ (j = 2 /\ b[j].entries = c)
      /\ 1 \in DOMAIN b
      /\ c # NoEntries => 2 \in DOMAIN b
  <2>1. DOMAIN b = 1 .. Len(b)
    BY LenProperties
  <2> QED BY <2>1
<1>3. c = NoEntries => \A k : k \notin DOMAIN c
  BY DEF NoEntries
<1>4. ASSUME NEW k \in Keys PROVE Get(b, k) = Get(a, k)
  <2>1. CASE k \in DOMAIN a[1].entries
    <3>1. Get(a, k) = a[1].entries[k].val
      <4>1. \A j \in DOMAIN a : ~(j < 1)
        BY LenProperties
      <4> QED BY <2>1, <4>1, GetAt
    <3>2. Get(b, k) = b[1].entries[k].val
      <4>1. \A j \in DOMAIN b : ~(j < 1)
        BY LenProperties
      <4> QED BY <1>2, <2>1, <4>1, GetAt
    <3> QED BY <3>1, <3>2
  <2>2. CASE k \notin DOMAIN a[1].entries /\ k \notin DOMAIN g
    <3>1. \A j \in DOMAIN a : k \notin DOMAIN a[j].entries
      BY <2>2 DEF MergedFrom
    <3>2. \A j \in DOMAIN b : k \notin DOMAIN b[j].entries
      BY <1>1, <1>2, <2>2
    <3>3. Get(a, k) = Missing
      BY <3>1, GetNone
    <3>4. Get(b, k) = Missing
      BY <3>2, GetNone
    <3> QED BY <3>3, <3>4
  <2>3. CASE k \notin DOMAIN a[1].entries /\ k \in DOMAIN g
    <3>1. PICK i \in DOMAIN a :
              /\ i # 1 /\ k \in DOMAIN a[i].entries /\ g[k] = a[i].entries[k]
              /\ \A j \in DOMAIN a : j # 1 /\ k \in DOMAIN a[j].entries => i <= j
      BY <2>3 DEF MergedFrom
    <3>2. \A j \in DOMAIN a : j < i => k \notin DOMAIN a[j].entries
      <4>1. \A j \in DOMAIN a : j < i => ~(i <= j)
        BY <1>1
      <4> QED BY <2>3, <3>1, <4>1
    <3>3. Get(a, k) = g[k].val
      BY <3>1, <3>2, GetAt
    <3>4. CASE g[k].val = Missing
      <4>1. \A j \in DOMAIN b : k \notin DOMAIN b[j].entries
        BY <1>1, <1>2, <2>3, <3>4
      <4>2. Get(b, k) = Missing
        BY <4>1, GetNone
      <4> QED BY <3>3, <3>4, <4>2
    <3>5. CASE g[k].val # Missing
      <4>1. k \in DOMAIN c /\ c[k] = g[k] /\ c # NoEntries
        BY <1>1, <1>3, <2>3, <3>5
      <4>2. 2 \in DOMAIN b /\ b[2].entries = c
        BY <1>2, <4>1
      <4>3. \A j \in DOMAIN b : j < 2 => k \notin DOMAIN b[j].entries
        BY <1>2, <2>3
      <4>4. Get(b, k) = b[2].entries[k].val
        BY <4>1, <4>2, <4>3, GetAt
      <4> QED BY <3>3, <4>1, <4>2, <4>4
    <3> QED BY <3>4, <3>5
  <2> QED BY <2>1, <2>2, <2>3
<1>5. ASSUME NEW j \in DOMAIN b, NEW k \in DOMAIN b[j].entries
      PROVE  /\ b[j].entries[k].seq < n
             /\ \A i \in DOMAIN b : i < j /\ k \in DOMAIN b[i].entries =>
                    b[j].entries[k].seq < b[i].entries[k].seq
  <2>1. CASE j = 1
    <3>1. b[1].entries[k].seq < n
      BY <1>5, <2>1 DEF Sorted
    <3>2. \A i \in DOMAIN b : ~(i < 1)
      BY LenProperties
    <3> QED BY <2>1, <3>1, <3>2
  <2>2. CASE j # 1
    <3>1. j = 2 /\ b[j].entries = c /\ k \in DOMAIN c
      BY <1>2, <1>5, <2>2
    <3>2. k \in DOMAIN g /\ c[k] = g[k]
      BY <1>1, <3>1
    <3>3. PICK i \in DOMAIN a : i # 1 /\ k \in DOMAIN a[i].entries /\ g[k] = a[i].entries[k]
      BY <3>2 DEF MergedFrom
    <3>4. b[j].entries[k] = a[i].entries[k] /\ a[i].entries[k].seq < n
      BY <3>1, <3>2, <3>3 DEF Sorted
    <3>5. k \in DOMAIN a[1].entries => a[i].entries[k].seq < a[1].entries[k].seq
      BY <1>1, <3>3 DEF Sorted
    <3>6. \A u \in DOMAIN b : u < j => u = 1
      BY <1>2, <3>1
    <3> QED BY <3>4, <3>5, <3>6
  <2> QED BY <2>1, <2>2
<1> QED BY <1>4, <1>5 DEF View, Sorted

\* A scan of sorted layers agrees with reads of each key.
LEMMA ScanView ==
    ASSUME NEW a \in Seq(Layers), NEW n, Sorted(a, n), NEW c, c = Live(Overlay(a))
    PROVE  /\ DOMAIN c = {k \in Keys : View(a)[k] # Missing}
           /\ \A k \in DOMAIN c : c[k].val = View(a)[k]
<1>1. PICK g : g = Overlay(a)
  OBVIOUS
<1>2. /\ \A k : k \in DOMAIN g <=> \E i \in DOMAIN a : k \in DOMAIN a[i].entries
      /\ \A k \in DOMAIN g : \E i \in DOMAIN a :
            /\ k \in DOMAIN a[i].entries /\ g[k] = a[i].entries[k]
            /\ \A j \in DOMAIN a : k \in DOMAIN a[j].entries =>
                  a[j].entries[k].seq <= a[i].entries[k].seq
  BY <1>1, OverlayAt
<1>3. /\ \A k : k \in DOMAIN c <=> k \in DOMAIN g /\ g[k].val # Missing
      /\ \A k \in DOMAIN c : c[k] = g[k]
  BY <1>1, LiveAt
<1>4. DOMAIN g \subseteq Keys
  <2>1. \A i \in DOMAIN a : DOMAIN a[i].entries \subseteq Keys
    <3> TAKE i \in DOMAIN a
    <3>1. a[i] \in Layers
      OBVIOUS
    <3> QED BY <3>1, LayerIs, EntriesMembers
  <2> QED BY <1>2, <2>1
<1>5. \A k \in Keys : View(a)[k] = Get(a, k)
  BY DEF View
<1>6. ASSUME NEW k \in DOMAIN g PROVE Get(a, k) = g[k].val
  <2>1. PICK i \in DOMAIN a :
            /\ k \in DOMAIN a[i].entries /\ g[k] = a[i].entries[k]
            /\ \A j \in DOMAIN a : k \in DOMAIN a[j].entries =>
                  a[j].entries[k].seq <= a[i].entries[k].seq
    BY <1>2
  <2>2. ASSUME NEW j \in DOMAIN a, j < i PROVE k \notin DOMAIN a[j].entries
    <3>1. SUFFICES ASSUME k \in DOMAIN a[j].entries PROVE FALSE
      OBVIOUS
    <3>2. a[j].entries[k].seq <= a[i].entries[k].seq
      BY <2>1, <3>1
    <3>3. i <= j
      BY <2>1, <3>1, <3>2, NewerIsHigher
    <3>4. i \in Nat /\ j \in Nat
      BY LenProperties
    <3> QED BY <2>2, <3>3, <3>4
  <2>3. Get(a, k) = a[i].entries[k].val
    BY <2>1, <2>2, GetAt
  <2> QED BY <2>1, <2>3
<1>7. ASSUME NEW k \in Keys, k \notin DOMAIN g PROVE Get(a, k) = Missing
  <2>1. \A j \in DOMAIN a : k \notin DOMAIN a[j].entries
    BY <1>2, <1>7
  <2> QED BY <2>1, GetNone
<1>8. DOMAIN c \subseteq Keys
  BY <1>3, <1>4
<1>9. \A k \in Keys : k \in DOMAIN c <=> View(a)[k] # Missing
  BY <1>3, <1>5, <1>6, <1>7
<1>10. \A k \in DOMAIN c : c[k].val = View(a)[k]
  BY <1>3, <1>5, <1>6, <1>8
<1> QED BY <1>8, <1>9, <1>10
-----------------------------------------------------------------------------
\* What opening a version set shows.

\* It depends on its tables, its durable sequence and its records.
LEMMA SameOpened ==
    ASSUME NEW ts, NEW us, NEW w \in WalSegments, NEW x \in WalSegments, NEW v, NEW u,
           NEW mem, NEW tabs, NEW m, Opened(ts, w, v, mem, tabs, m),
           u.durable = v.durable, u.tables = v.tables,
           x.first = w.first, x.recs = w.recs,
           \A i \in DOMAIN v.tables : us[v.tables[i].id] = ts[v.tables[i].id]
    PROVE  Opened(us, x, u, mem, tabs, m)
<1>1. ReplayFirst(v, w, Len(w.recs)) = ReplayFirst(u, x, Len(x.recs))
  <2>1. PICK n : n = Len(w.recs)
    OBVIOUS
  <2>2. n \in Nat
    BY <2>1, WalNextIs
  <2>3. SameRecords(v, u, w, x, n)
    BY DEF SameRecords
  <2>4. ReplayFirst(v, w, n) = ReplayFirst(u, x, n)
    BY <2>2, <2>3, ReplaySame
  <2>5. n = Len(x.recs)
    BY <2>1
  <2> QED BY <2>1, <2>4, <2>5
<1>2. TablesIn(ts, v) = TablesIn(us, u)
  BY DEF TablesIn
<1>3. WalNext(x) = WalNext(w)
  BY DEF WalNext
<1>4. /\ mem = ReplayFirst(v, w, Len(w.recs)) /\ tabs = TablesIn(ts, v)
      /\ Sorted(ReadOrder(mem, tabs), WalNext(w)) /\ View(ReadOrder(mem, tabs)) = m
  BY DEF Opened
<1>5. /\ mem = ReplayFirst(u, x, Len(x.recs)) /\ tabs = TablesIn(us, u)
      /\ Sorted(ReadOrder(mem, tabs), WalNext(x)) /\ View(ReadOrder(mem, tabs)) = m
  BY <1>1, <1>2, <1>3, <1>4, Zenon
<1> QED BY <1>5, Zenon DEF Opened

\* An append adds its mutation.
LEMMA AppendOpened ==
    ASSUME NEW ts, NEW w \in WalSegments, NEW x \in WalSegments, NEW v, v.durable \in Nat,
           NEW mem \in MemSets, NEW tabs \in Seq(Tables), NEW m,
           Opened(ts, w, v, mem, tabs, m), NEW op \in Op,
           x.first = w.first, x.recs = Append(w.recs, op),
           NEW seq \in 1 .. MaxSequence, seq = WalNext(w), v.durable < seq
    PROVE  Opened(ts, x, v, ApplyToMem(mem, seq, op), tabs, Effect(m, op))
<1>1. PICK n \in Nat : n = Len(w.recs)
  BY WalNextIs
<1>2. w.recs \in Seq(Op)
  BY DEF WalSegments
<1>3. Len(x.recs) = n + 1 /\ x.recs[n + 1] = op /\ \A i \in 1 .. n : x.recs[i] = w.recs[i]
  BY <1>1, <1>2
<1>4. seq = x.first + n /\ x.first \in Nat /\ seq \in Nat
  <2>1. w.first \in 1 .. MaxSequence /\ WalNext(w) = w.first + Len(w.recs)
    BY WalNextIs
  <2>2. seq = x.first + n
    BY <1>1, <2>1
  <2>3. x.first \in Nat /\ seq \in Nat
    BY <2>1, BoundsAssumption
  <2> QED BY <2>2, <2>3
<1>5. SameRecords(v, v, w, x, n)
  BY <1>3 DEF SameRecords
<1>6. ReplayFirst(v, w, n) = ReplayFirst(v, x, n)
  BY <1>5, ReplaySame
<1>7. /\ mem = ReplayFirst(v, w, n) /\ tabs = TablesIn(ts, v)
      /\ Sorted(ReadOrder(mem, tabs), seq) /\ View(ReadOrder(mem, tabs)) = m
  BY <1>1 DEF Opened
<1>8. Replayed(v, x.first + n)
  BY <1>4 DEF Replayed
<1>9. PICK f : f = ApplyToMem(mem, seq, op)
  OBVIOUS
<1>10. f = ReplayFirst(v, x, n + 1)
  <2>1. ReplayFirst(v, x, n + 1) = ApplyToMem(ReplayFirst(v, x, n), x.first + n, x.recs[n + 1])
    BY <1>8, ReplayNext, Zenon
  <2> QED BY <1>3, <1>4, <1>6, <1>7, <1>9, <2>1, Zenon
<1>11. View(ReadOrder(f, tabs)) = Effect(m, op) /\ Sorted(ReadOrder(f, tabs), seq + 1)
  <2>1. PICK a : a = ReadOrder(mem, tabs)
    OBVIOUS
  <2>2. PICK b : b = ReadOrder(f, tabs)
    OBVIOUS
  <2>3. Sorted(a, seq) /\ View(a) = m
    BY <1>7, <2>1, Zenon
  <2>4. View(b) = Effect(View(a), op) /\ Sorted(b, seq + 1)
    BY <1>9, <2>1, <2>2, <2>3, ApplyView
  <2> QED BY <2>2, <2>3, <2>4, Zenon
<1>12. WalNext(x) = seq + 1
  <2>1. WalNext(x) = x.first + (n + 1)
    BY <1>3 DEF WalNext
  <2> QED BY <1>1, <1>4, <2>1
<1>13. f = ReplayFirst(v, x, Len(x.recs))
  BY <1>3, <1>10, Zenon
<1> QED BY <1>7, <1>9, <1>11, <1>12, <1>13, Zenon DEF Opened

\* The head and the tail of a sequence that is appended to.
LEMMA AppendTail ==
    ASSUME NEW S, NEW s \in Seq(S), s # << >>, NEW e \in S, NEW t, t = Append(s, e)
    PROVE  t # << >> /\ Head(t) = Head(s) /\ Tail(t) = Append(Tail(s), e)
<1>1. PICK n \in Nat : n = Len(s)
  OBVIOUS
<1>2. n # 0
  BY <1>1, EmptySeq
<1>3. /\ t \in Seq(S) /\ Len(t) = n + 1 /\ t[n + 1] = e
      /\ \A i \in 1 .. n : t[i] = s[i]
  BY <1>1
<1>4. t # << >>
  BY <1>1, <1>3, EmptySeq
<1>5. Head(t) = Head(s)
  <2>1. Head(t) = t[1] /\ Head(s) = s[1]
    OBVIOUS
  <2> QED BY <1>1, <1>2, <1>3, <2>1
<1>6. PICK r : r = Tail(s)
  OBVIOUS
<1>7. PICK q : q = Tail(t)
  OBVIOUS
<1>8. r \in Seq(S) /\ Len(r) = n - 1 /\ \A i \in 1 .. Len(r) : r[i] = s[i + 1]
  BY <1>1, <1>6, HeadTailProperties, Zenon
<1>9. q \in Seq(S) /\ Len(q) = Len(t) - 1 /\ \A i \in 1 .. Len(q) : q[i] = t[i + 1]
  BY <1>3, <1>4, <1>7, HeadTailProperties, Zenon
<1>10. PICK p : p = Append(r, e)
  OBVIOUS
<1>11. PICK k \in Nat : n = k + 1
  <2>1. n - 1 \in Nat /\ n = (n - 1) + 1
    BY <1>1, <1>2
  <2> QED BY <2>1
<1>12. Len(r) = k /\ Len(q) = k + 1
  BY <1>3, <1>8, <1>9, <1>11
<1>13. p \in Seq(S) /\ Len(p) = k + 1 /\ p[k + 1] = e /\ \A i \in 1 .. k : p[i] = r[i]
  BY <1>8, <1>10, <1>12
<1>14. \A i \in 1 .. k + 1 : q[i] = p[i]
  <2> TAKE i \in 1 .. k + 1
  <2>1. CASE i = k + 1
    BY <1>3, <1>9, <1>11, <1>12, <1>13, <2>1
  <2>2. CASE i # k + 1
    <3>1. i \in 1 .. k /\ i \in 1 .. k + 1 /\ i + 1 \in 1 .. n
      BY <1>11, <2>2
    <3>2. q[i] = t[i + 1] /\ p[i] = r[i] /\ r[i] = s[i + 1] /\ t[i + 1] = s[i + 1]
      BY <1>3, <1>8, <1>9, <1>12, <1>13, <3>1
    <3> QED BY <3>2
  <2> QED BY <2>1, <2>2
<1>15. q = p
  BY <1>9, <1>12, <1>13, <1>14, SeqEqual
<1> QED BY <1>4, <1>5, <1>6, <1>7, <1>10, <1>15, Zenon

\* Retiring the oldest frozen table and applying a mutation commute.
LEMMA ApplyRetired ==
    ASSUME NEW mem \in MemSets, mem.immutable # << >>, NEW seq \in 1 .. MaxSequence,
           NEW op \in Op, NEW f, f = ApplyToMem(mem, seq, op)
    PROVE  /\ ApplyToMem(Retired(mem), seq, op) = Retired(f)
           /\ f.immutable # << >> /\ Head(f.immutable) = Head(mem.immutable)
<1>1. PICK t : t = Filled(mem, seq, op)
  OBVIOUS
<1>2. t \in MemTables
  BY <1>1, ApplyToMemIs
<1>3. PICK r : r = Retired(mem)
  OBVIOUS
<1>4. r.mutable = mem.mutable /\ r.immutable = Tail(mem.immutable)
  BY <1>3 DEF Retired
<1>5. t = Filled(r, seq, op)
  BY <1>1, <1>4 DEF Filled
<1>6. mem.immutable \in Seq(MemTables)
  BY DEF MemSets
<1>7. r \in MemSets
  <2>1. Tail(mem.immutable) \in Seq(MemTables) /\ mem.mutable \in MemTables
    BY <1>6, HeadTailProperties DEF MemSets
  <2> QED BY <1>3, <2>1 DEF Retired, MemSets
<1>8. mem = [mutable |-> mem.mutable, immutable |-> mem.immutable]
  BY DEF MemSets
<1>9. PICK full : full = (ResidentBytes(t.entries) >= MemTableLimit)
  OBVIOUS
<1>10. f = IF ResidentBytes(t.entries) >= MemTableLimit
           THEN [mutable |-> EmptyMem, immutable |-> Append(mem.immutable, t)]
           ELSE [mem EXCEPT !.mutable = t]
  BY <1>1 DEF ApplyToMem, Filled
<1>11. ApplyToMem(r, seq, op) =
           IF ResidentBytes(t.entries) >= MemTableLimit
           THEN [mutable |-> EmptyMem, immutable |-> Append(r.immutable, t)]
           ELSE [r EXCEPT !.mutable = t]
  BY <1>5 DEF ApplyToMem, Filled
<1>12. CASE ResidentBytes(t.entries) >= MemTableLimit
  <2>1. f = [mutable |-> EmptyMem, immutable |-> Append(mem.immutable, t)]
    BY <1>10, <1>12, Zenon
  <2>2. ApplyToMem(r, seq, op) = [mutable |-> EmptyMem, immutable |-> Append(r.immutable, t)]
    BY <1>11, <1>12, Zenon
  <2>3. f.mutable = EmptyMem /\ f.immutable = Append(mem.immutable, t)
    BY <2>1
  <2>4. /\ f.immutable # << >> /\ Head(f.immutable) = Head(mem.immutable)
        /\ Tail(f.immutable) = Append(r.immutable, t)
    BY <1>2, <1>4, <1>6, <2>3, AppendTail
  <2>5. Retired(f) = [mutable |-> EmptyMem, immutable |-> Append(r.immutable, t)]
    BY <2>3, <2>4 DEF Retired
  <2> QED BY <1>3, <2>2, <2>4, <2>5, Zenon
<1>13. CASE ~(ResidentBytes(t.entries) >= MemTableLimit)
  <2>1. f = [mem EXCEPT !.mutable = t]
    BY <1>10, <1>13, Zenon
  <2>2. ApplyToMem(r, seq, op) = [r EXCEPT !.mutable = t]
    BY <1>11, <1>13, Zenon
  <2>3. f.mutable = t /\ f.immutable = mem.immutable
    BY <1>8, <2>1 
  <2>4. r = [mutable |-> r.mutable, immutable |-> r.immutable]
    BY <1>7 DEF MemSets
  <2>5. [r EXCEPT !.mutable = t] = [mutable |-> t, immutable |-> r.immutable]
    BY <2>4
  <2>6. Retired(f) = [mutable |-> t, immutable |-> r.immutable]
    BY <1>4, <2>3 DEF Retired
  <2> QED BY <1>3, <2>2, <2>3, <2>5, <2>6, Zenon
<1> QED BY <1>12, <1>13

\* Replaying above the last sequence number of the first frozen table, by
\* version u instead of v, leaves everything but that table.
Skips(v, u, w, i) ==
    LET a == ReplayFirst(v, w, i)
    IN  a.immutable # << >> /\ Head(a.immutable).last = u.durable =>
            ReplayFirst(u, w, i) = Retired(a)

\* One record more.
LEMMA SkipsNext ==
    ASSUME NEW v, v.durable \in Nat, NEW u, u.durable \in Nat, NEW w \in WalSegments,
           WalNext(w) <= MaxSequence, NEW i \in Nat, i < Len(w.recs), Skips(v, u, w, i)
    PROVE  Skips(v, u, w, i + 1)
<1>1. PICK seq : seq = w.first + i
  OBVIOUS
<1>2. PICK op : op = w.recs[i + 1]
  OBVIOUS
<1>3. /\ w.first \in 1 .. MaxSequence /\ Len(w.recs) \in Nat
      /\ WalNext(w) = w.first + Len(w.recs)
  BY WalNextIs
<1>4. seq \in 1 .. MaxSequence /\ seq \in Nat /\ w.first + (i + 1) = seq + 1
  <2>1. w.first \in Nat /\ w.first >= 1 /\ MaxSequence \in Nat
    BY <1>3, BoundsAssumption
  <2>2. w.first + i < WalNext(w) /\ WalNext(w) \in Nat
    <3>1. \A f, n \in Nat : i < n => f + i < f + n /\ f + n \in Nat
      OBVIOUS
    <3>2. w.first + i < w.first + Len(w.recs) /\ w.first + Len(w.recs) \in Nat
      BY <1>3, <2>1, <3>1, Zenon
    <3> QED BY <1>3, <3>2, Zenon
  <2>3. w.first + i \in Nat /\ w.first + i >= 1 /\ w.first + i <= MaxSequence
    BY <2>1, <2>2
  <2> QED BY <1>1, <2>1, <2>3
<1>5. op \in Op
  <2>1. w.recs \in Seq(Op) /\ i + 1 \in 1 .. Len(w.recs)
    BY <1>3 DEF WalSegments
  <2> QED BY <1>2, <2>1
<1>6. PICK a : a = ReplayFirst(v, w, i)
  OBVIOUS
<1>7. PICK b : b = ReplayFirst(u, w, i)
  OBVIOUS
<1>8. i \in 0 .. Len(w.recs) /\ i + 1 \in 0 .. Len(w.recs)
  BY <1>3
<1>9. a \in MemSets /\ MemInv(a, v.durable, seq)
  BY <1>1, <1>6, <1>8, ReplayMem
<1>10. ReplayFirst(v, w, i + 1) = IF Replayed(v, seq) THEN ApplyToMem(a, seq, op) ELSE a
  BY <1>1, <1>2, <1>6, ReplayNext, Zenon
<1>11. ReplayFirst(u, w, i + 1) = IF Replayed(u, seq) THEN ApplyToMem(b, seq, op) ELSE b
  BY <1>1, <1>2, <1>7, ReplayNext, Zenon
<1>12. a.immutable # << >> /\ Head(a.immutable).last = u.durable => b = Retired(a)
  BY <1>6, <1>7, Zenon DEF Skips
<1>13. ASSUME a.immutable # << >>, Head(a.immutable).last = u.durable
       PROVE  v.durable < u.durable /\ u.durable < seq
  <2>1. 1 \in DOMAIN a.immutable /\ a.immutable[1] = Head(a.immutable)
    <3>1. a.immutable \in Seq(MemTables)
      BY <1>9 DEF MemSets
    <3>2. Len(a.immutable) \in Nat /\ Len(a.immutable) # 0
      BY <1>13, <3>1, EmptySeq
    <3> QED BY <3>1, <3>2
  <2>2. v.durable < a.immutable[1].last /\ a.immutable[1].last < seq
    BY <1>9, <2>1 DEF MemInv
  <2> QED BY <1>13, <2>1, <2>2
<1>14. CASE ~Replayed(v, seq)
  <2>1. ReplayFirst(v, w, i + 1) = a
    BY <1>10, <1>14, Zenon
  <2>2. ASSUME a.immutable # << >>, Head(a.immutable).last = u.durable
        PROVE  ReplayFirst(u, w, i + 1) = Retired(a)
    <3>1. ~Replayed(u, seq)
      BY <1>4, <1>13, <1>14, <2>2 DEF Replayed
    <3> QED BY <1>11, <1>12, <2>2, <3>1, Zenon
  <2> QED BY <2>1, <2>2, Zenon DEF Skips
<1>15. CASE Replayed(v, seq)
  <2>1. PICK f : f = ApplyToMem(a, seq, op)
    OBVIOUS
  <2>2. ReplayFirst(v, w, i + 1) = f
    BY <1>10, <1>15, <2>1, Zenon
  <2>3. SUFFICES ASSUME f.immutable # << >>, Head(f.immutable).last = u.durable
                 PROVE  ReplayFirst(u, w, i + 1) = Retired(f)
    BY <2>2, Zenon DEF Skips
  <2>4. CASE a.immutable # << >>
    <3>1. Head(f.immutable) = Head(a.immutable)
      BY <1>4, <1>5, <1>9, <2>1, <2>4, ApplyRetired
    <3>2. ApplyToMem(Retired(a), seq, op) = Retired(f)
      BY <1>4, <1>5, <1>9, <2>1, <2>4, ApplyRetired
    <3>3. Head(a.immutable).last = u.durable
      BY <2>3, <3>1, Zenon
    <3>4. Replayed(u, seq)
      BY <1>4, <1>13, <2>4, <3>3 DEF Replayed
    <3>5. b = Retired(a)
      BY <1>12, <2>4, <3>3, Zenon
    <3> QED BY <1>11, <3>2, <3>4, <3>5, Zenon
  <2>5. CASE a.immutable = << >>
    <3>1. PICK t : t = Filled(a, seq, op)
      OBVIOUS
    <3>2. \/ f = [mutable |-> EmptyMem, immutable |-> Append(a.immutable, t)]
          \/ f = [mutable |-> t, immutable |-> a.immutable]
      BY <1>4, <1>5, <1>9, <2>1, <3>1, ApplyToMemIs
    <3>3. f = [mutable |-> EmptyMem, immutable |-> Append(a.immutable, t)]
      <4>1. f = [mutable |-> t, immutable |-> a.immutable] => f.immutable = a.immutable
        OBVIOUS
      <4> QED BY <2>3, <2>5, <3>2, <4>1, Zenon
    <3>4. f.mutable = EmptyMem /\ f.immutable = <<t>>
      BY <2>5, <3>3
    <3>5. u.durable = seq
      BY <2>3, <3>1, <3>4 DEF Filled
    <3>6. ReplayFirst(u, w, i + 1) = FreshMem
      <4>1. w.first + (i + 1) <= u.durable + 1
        BY <1>4, <3>5
      <4> QED BY <1>8, <4>1, ReplayMem
    <3>7. Retired(f) = FreshMem
      BY <3>4 DEF Retired, FreshMem
    <3> QED BY <3>6, <3>7
  <2> QED BY <2>4, <2>5
<1> QED BY <1>14, <1>15

\* So by induction for every number of records.
LEMMA ReplaySkips ==
    ASSUME NEW v, v.durable \in Nat, NEW u, u.durable \in Nat, NEW w \in WalSegments,
           WalNext(w) <= MaxSequence
    PROVE  Skips(v, u, w, Len(w.recs))
<1> DEFINE S == {i \in Nat : i <= Len(w.recs) => Skips(v, u, w, i)}
<1>1. Len(w.recs) \in Nat
  BY WalNextIs
<1>2. 0 \in S
  <2>1. ReplayFirst(v, w, 0).immutable = << >>
    BY ReplayNone DEF FreshMem
  <2>2. Skips(v, u, w, 0)
    BY <2>1 DEF Skips
  <2> QED BY <2>2
<1>3. ASSUME NEW i \in S PROVE i + 1 \in S
  <2>1. i \in Nat /\ (i <= Len(w.recs) => Skips(v, u, w, i))
    BY <1>3
  <2>2. ASSUME i + 1 <= Len(w.recs) PROVE Skips(v, u, w, i + 1)
    <3>1. i < Len(w.recs) /\ i <= Len(w.recs)
      BY <1>1, <2>1, <2>2
    <3> QED BY <2>1, <3>1, SkipsNext
  <2> QED BY <2>1, <2>2
<1>4. S \in SUBSET Nat
  OBVIOUS
<1> HIDE DEF S
<1>5. S = Nat
  BY <1>2, <1>3, <1>4, NatSetInduction
<1>6. Len(w.recs) \in S
  BY <1>1, <1>5
<1> QED BY <1>1, <1>6 DEF S

\* Layers one by one alike show the same.
LEMMA AlikeView ==
    ASSUME NEW a \in Seq(Layers), NEW b \in Seq(Layers), Alike(a, b)
    PROVE  /\ View(b) = View(a)
           /\ \A n : Sorted(a, n) => Sorted(b, n)
BY SameView DEF Alike

\* A flush changes nothing a reader sees.
LEMMA FlushOpened ==
    ASSUME NEW ts, NEW us, NEW w \in WalSegments, WalNext(w) <= MaxSequence,
           NEW v \in Versions, NEW next \in Versions,
           NEW mem \in MemSets, mem.immutable # << >>, NEW tabs \in Seq(Tables), NEW m,
           Opened(ts, w, v, mem, tabs, m),
           NEW frozen, frozen = Head(mem.immutable), next.durable = frozen.last,
           NEW d, next.tables = Append(v.tables, d),
           us[d.id] \in SortedTables, us[d.id].entries = frozen.entries,
           \A i \in DOMAIN v.tables : us[v.tables[i].id] = ts[v.tables[i].id]
    PROVE  Opened(us, w, next, Retired(mem), Append(tabs, LoadTable(us[d.id])), m)
<1>1. /\ mem = ReplayFirst(v, w, Len(w.recs)) /\ tabs = TablesIn(ts, v)
      /\ Sorted(ReadOrder(mem, tabs), WalNext(w)) /\ View(ReadOrder(mem, tabs)) = m
  BY DEF Opened
<1>2. v.durable \in Nat /\ next.durable \in Nat /\ v.tables \in Seq(Described)
      /\ Len(v.tables) \in Nat /\ DOMAIN v.tables = 1 .. Len(v.tables)
      /\ next.tables \in Seq(Described)
  BY VersionParts
<1>3. Retired(mem) = ReplayFirst(next, w, Len(w.recs))
  <2>1. Skips(v, next, w, Len(w.recs))
    BY <1>2, ReplaySkips
  <2> QED BY <1>1, <2>1, Zenon DEF Skips
<1>4. PICK y : y = LoadTable(us[d.id])
  OBVIOUS
<1>5. PICK u : u = Append(tabs, y)
  OBVIOUS
<1>6. mem.immutable \in Seq(MemTables) /\ frozen \in MemTables
  <2>1. mem.immutable \in Seq(MemTables)
    BY DEF MemSets
  <2>2. Head(mem.immutable) \in MemTables
    BY <2>1, HeadTailProperties
  <2> QED BY <2>1, <2>2
<1>7. y \in Tables /\ y.entries = frozen.entries
  BY <1>4, SortedTableParts
<1>8. u \in Seq(Tables)
  BY <1>5, <1>7
<1>9. u = TablesIn(us, next)
  <2>1. PICK k \in Nat : k = Len(v.tables)
    BY <1>2
  <2>2. /\ Len(next.tables) = k + 1 /\ next.tables[k + 1] = d
        /\ DOMAIN next.tables = 1 .. k + 1
        /\ \A i \in 1 .. k : next.tables[i] = v.tables[i]
    BY <1>2, <2>1
  <2>3. tabs = [i \in 1 .. k |-> LoadTable(ts[v.tables[i].id])]
    BY <1>1, <1>2, <2>1 DEF TablesIn
  <2>4. Len(tabs) = k
    BY <2>1, <2>3, SMTT(30)
  <2>5. u = [i \in 1 .. k + 1 |-> IF i = k + 1 THEN y ELSE tabs[i]]
    BY <1>5, <2>1, <2>3, <2>4
  <2>6. PICK c : c = TablesIn(us, next)
    OBVIOUS
  <2>7. c = [i \in 1 .. k + 1 |-> LoadTable(us[next.tables[i].id])]
    BY <2>2, <2>6 DEF TablesIn
  <2>8. ASSUME NEW i \in 1 .. k + 1 PROVE u[i] = c[i]
    <3>1. CASE i = k + 1
      <4>1. c[i] = LoadTable(us[d.id])
        BY <2>2, <2>7, <2>8, <3>1
      <4>2. u[i] = y
        BY <2>5, <2>8, <3>1
      <4> QED BY <1>4, <4>1, <4>2
    <3>2. CASE i # k + 1
      <4>1. i \in 1 .. k
        BY <2>1, <3>2
      <4>2. c[i] = LoadTable(us[v.tables[i].id])
        BY <2>2, <2>7, <2>8, <4>1
      <4>3. u[i] = LoadTable(ts[v.tables[i].id])
        BY <2>3, <2>5, <2>8, <3>2, <4>1
      <4>4. us[v.tables[i].id] = ts[v.tables[i].id]
        BY <1>2, <2>1, <4>1
      <4> QED BY <4>2, <4>3, <4>4
    <3> QED BY <3>1, <3>2
  <2>9. u = c
    BY <2>5, <2>7, <2>8
  <2> QED BY <2>6, <2>9
<1>10. PICK r : r = Retired(mem)
  OBVIOUS
<1>11. r.mutable = mem.mutable /\ r.immutable = Tail(mem.immutable) /\ r \in MemSets
  <2>1. Tail(mem.immutable) \in Seq(MemTables) /\ mem.mutable \in MemTables
    BY <1>6, HeadTailProperties DEF MemSets
  <2> QED BY <1>10, <2>1 DEF Retired, MemSets
<1>12. PICK a : a = ReadOrder(mem, tabs)
  OBVIOUS
<1>13. PICK b : b = ReadOrder(r, u)
  OBVIOUS
<1>14. Laid(a, mem.mutable, mem.immutable, tabs)
  BY <1>12, ReadOrderAt
<1>15. Laid(b, mem.mutable, Tail(mem.immutable), Append(tabs, y))
  <2>1. Laid(b, r.mutable, r.immutable, u)
    BY <1>8, <1>11, <1>13, ReadOrderAt
  <2> QED BY <1>5, <1>11, <2>1, Zenon
<1>16. Alike(a, b)
  <2>1. y.entries = Head(mem.immutable).entries
    BY <1>7
  <2> QED BY <1>6, <1>7, <1>14, <1>15, <2>1, FlushedAlike
<1>17. a \in Seq(Layers) /\ b \in Seq(Layers)
  BY <1>14, <1>15 DEF Laid
<1>18. View(b) = View(a) /\ \A n : Sorted(a, n) => Sorted(b, n)
  BY <1>16, <1>17, AlikeView
<1>19. View(b) = m /\ Sorted(b, WalNext(w))
  BY <1>1, <1>12, <1>18, Zenon
<1>20. Opened(us, w, next, r, u, m)
  BY <1>3, <1>9, <1>10, <1>13, <1>19, Zenon DEF Opened
<1> QED BY <1>4, <1>5, <1>10, <1>20, Zenon

\* A full compaction changes nothing a reader sees.
LEMMA CompactOpened ==
    ASSUME NEW ts, NEW us, NEW w \in WalSegments, NEW v, NEW next,
           NEW mem \in MemSets, mem.immutable = << >>, NEW tabs \in Seq(Tables), NEW m,
           Opened(ts, w, v, mem, tabs, m), next.durable = v.durable,
           NEW entries \in Entries, entries = CompactedEntries(tabs), NEW news, NEW t,
           \/ entries = NoEntries /\ next.tables = << >> /\ news = << >>
           \/ /\ t \in SortedTables /\ t.entries = entries /\ news = <<LoadTable(t)>>
              /\ \E d : next.tables = <<d>> /\ us[d.id] = t
    PROVE  Opened(us, w, next, mem, news, m)
<1>1. /\ mem = ReplayFirst(v, w, Len(w.recs)) /\ tabs = TablesIn(ts, v)
      /\ Sorted(ReadOrder(mem, tabs), WalNext(w)) /\ View(ReadOrder(mem, tabs)) = m
  BY DEF Opened
<1>2. mem = ReplayFirst(next, w, Len(w.recs))
  <2>1. PICK n \in Nat : n = Len(w.recs)
    BY WalNextIs
  <2>2. SameRecords(v, next, w, w, n)
    BY DEF SameRecords
  <2>3. ReplayFirst(v, w, n) = ReplayFirst(next, w, n)
    BY <2>2, ReplaySame
  <2> QED BY <1>1, <2>1, <2>3
<1>3. news = TablesIn(us, next)
  <2>1. CASE next.tables = << >> /\ news = << >>
    BY <2>1 DEF TablesIn
  <2>2. ASSUME NEW d, next.tables = <<d>>, us[d.id] = t, news = <<LoadTable(t)>>
        PROVE  news = TablesIn(us, next)
    <3>1. TablesIn(us, next) = [i \in 1 .. 1 |-> LoadTable(us[next.tables[i].id])]
      BY <2>2 DEF TablesIn
    <3>2. \A i \in 1 .. 1 : i = 1
      OBVIOUS
    <3>3. next.tables[1] = d
      BY <2>2
    <3>4. TablesIn(us, next) = [i \in 1 .. 1 |-> LoadTable(t)]
      BY <2>2, <3>1, <3>2, <3>3
    <3>5. news = [i \in 1 .. 1 |-> LoadTable(t)]
      BY <2>2, <3>2
    <3> QED BY <3>4, <3>5
  <2> QED BY <2>1, <2>2
<1>4. PICK y : y = LoadTable(t)
  OBVIOUS
<1>5. (entries = NoEntries /\ news = << >>)
      \/ (news = <<y>> /\ y \in Tables /\ y.entries = entries)
  BY <1>4, SortedTableParts
<1>6. /\ news \in Seq(Tables)
      /\ ((Len(news) = 0 /\ entries = NoEntries) \/ (Len(news) = 1 /\ news[1].entries = entries))
  <2>1. CASE entries = NoEntries /\ news = << >>
    <3>1. news \in Seq(Tables) /\ Len(news) = 0
      BY <2>1
    <3> QED BY <2>1, <3>1
  <2>2. CASE news = <<y>> /\ y \in Tables /\ y.entries = entries
    <3>1. news \in Seq(Tables) /\ Len(news) = 1 /\ news[1] = y
      BY <2>2
    <3> QED BY <2>2, <3>1
  <2> QED BY <1>5, <2>1, <2>2
<1>7. PICK a : a = ReadOrder(mem, tabs)
  OBVIOUS
<1>8. PICK b : b = ReadOrder(mem, news)
  OBVIOUS
<1>9. Laid(a, mem.mutable, << >>, tabs)
  BY <1>7, ReadOrderAt
<1>10. Laid(b, mem.mutable, << >>, news)
  BY <1>6, <1>8, ReadOrderAt
<1>11. /\ a \in Seq(Layers) /\ 1 \in DOMAIN a /\ a[1] = mem.mutable
  BY <1>9 DEF Laid
<1>12. /\ b \in Seq(Layers) /\ b[1] = mem.mutable
       /\ (Len(b) = 1 /\ entries = NoEntries) \/ (Len(b) = 2 /\ b[2].entries = entries)
  <2>1. Len(<< >>) = 0
    OBVIOUS
  <2>2. /\ b \in Seq(Layers) /\ b[1] = mem.mutable /\ Len(b) = 1 + Len(news)
        /\ \A q \in 1 .. Len(news) : b[1 + 0 + q] = news[Len(news) - q + 1]
    BY <1>6, <1>10, <2>1 DEF Laid
  <2>3. CASE Len(news) = 0 /\ entries = NoEntries
    BY <2>2, <2>3
  <2>4. CASE Len(news) = 1 /\ news[1].entries = entries
    <3>1. 1 \in 1 .. Len(news) /\ 1 + 0 + 1 = 2 /\ Len(news) - 1 + 1 = 1
      BY <2>4
    <3>2. b[2] = news[1]
      BY <2>2, <3>1
    <3> QED BY <2>2, <2>4, <3>2
  <2> QED BY <1>6, <2>3, <2>4
<1>13. PICK g : g = Overlay(tabs)
  OBVIOUS
<1>14. Sorted(a, WalNext(w)) /\ View(a) = m
  BY <1>1, <1>7, Zenon
<1>15. MergedFrom(a, g)
  BY <1>9, <1>13, <1>14, MergeIs
<1>16. entries = Live(g)
  BY <1>13 DEF CompactedEntries
<1>17. View(b) = View(a) /\ Sorted(b, WalNext(w))
  BY <1>11, <1>12, <1>14, <1>15, <1>16, MergedView
<1>18. View(b) = m /\ Sorted(b, WalNext(w))
  BY <1>14, <1>17, Zenon
<1> QED BY <1>2, <1>3, <1>8, <1>18, Zenon DEF Opened

\* A rotation changes nothing when every record is in an SSTable.
LEMMA RotateOpened ==
    ASSUME NEW ts, NEW w \in WalSegments, WalNext(w) <= MaxSequence,
           NEW x \in WalSegments, NEW v, v.durable \in Nat,
           NEW next, NEW mem, NEW tabs, NEW m, Opened(ts, w, v, mem, tabs, m),
           WalNext(w) = v.durable + 1, x.recs = << >>, x.first = v.durable + 1,
           next.tables = v.tables
    PROVE  Opened(ts, x, next, mem, tabs, m)
<1>1. /\ mem = ReplayFirst(v, w, Len(w.recs)) /\ tabs = TablesIn(ts, v)
      /\ Sorted(ReadOrder(mem, tabs), WalNext(w)) /\ View(ReadOrder(mem, tabs)) = m
  BY DEF Opened
<1>2. mem = FreshMem
  <2>1. PICK n : n = Len(w.recs)
    OBVIOUS
  <2>2. n \in 0 .. Len(w.recs) /\ w.first + n <= v.durable + 1
    <3>1. Len(w.recs) \in Nat /\ WalNext(w) = w.first + n
      BY <2>1, WalNextIs
    <3> QED BY <2>1, <3>1
  <2>3. ReplayFirst(v, w, n) = FreshMem
    BY <2>2, ReplayMem
  <2> QED BY <1>1, <2>1, <2>3
<1>3. Len(x.recs) = 0
  OBVIOUS
<1>4. ReplayFirst(next, x, Len(x.recs)) = FreshMem
  BY <1>3, ReplayNone
<1>5. WalNext(x) = WalNext(w)
  <2>1. WalNext(x) = x.first + 0
    BY <1>3 DEF WalNext
  <2> QED BY <2>1
<1>6. TablesIn(ts, next) = TablesIn(ts, v)
  BY DEF TablesIn
<1> QED BY <1>1, <1>2, <1>4, <1>5, <1>6, Zenon DEF Opened

\* A new directory is empty.
LEMMA FreshOpened ==
    ASSUME NEW ts, NEW first, NEW v, v.tables = << >>
    PROVE  Opened(ts, FreshWal(first), v, FreshMem, << >>, EmptyMap)
<1>1. PICK w : w = FreshWal(first)
  OBVIOUS
<1>2. Len(w.recs) = 0
  BY <1>1 DEF FreshWal
<1>3. FreshMem = ReplayFirst(v, w, Len(w.recs))
  BY <1>2, ReplayNone
<1>4. << >> = TablesIn(ts, v)
  BY DEF TablesIn
<1>5. PICK e : e = << >> /\ e \in Seq(Tables) /\ Len(e) = 0
  <2>1. << >> \in Seq(Tables) /\ Len(<< >>) = 0
    OBVIOUS
  <2> QED BY <2>1
<1>6. PICK a : a = ReadOrder(FreshMem, e)
  OBVIOUS
<1>7. Laid(a, EmptyMem, e, e)
  <2>1. Laid(a, FreshMem.mutable, FreshMem.immutable, e)
    BY <1>5, <1>6, FreshMemIs, ReadOrderAt
  <2> QED BY <1>5, <2>1 DEF FreshMem
<1>8. a \in Seq(Layers) /\ DOMAIN a = 1 .. 1 /\ a[1] = EmptyMem
  BY <1>5, <1>7 DEF Laid
<1>9. \A j \in DOMAIN a : DOMAIN a[j].entries = {}
  <2>1. \A j \in DOMAIN a : a[j] = EmptyMem
    BY <1>8
  <2> QED BY <2>1 DEF EmptyMem, NoEntries
<1>10. \A k \in Keys : Get(a, k) = Missing
  BY <1>8, <1>9, GetNone
<1>11. View(a) = EmptyMap
  BY <1>10 DEF View, EmptyMap
<1>12. Sorted(a, WalNext(w))
  BY <1>9 DEF Sorted
<1> QED BY <1>1, <1>3, <1>4, <1>5, <1>6, <1>11, <1>12, Zenon DEF Opened
-----------------------------------------------------------------------------
\* What steps keep of what is shown.

\* MemTables and SSTables are what the files make of them.
LEMMA ShownIs ==
    ASSUME NEW ts, NEW ws, NEW v, NEW mem, NEW tabs, NEW m
    PROVE  /\ Opened(ts, ws[v.wal], v, mem, tabs, m) => Shown(ts, ws, v, m)
           /\ Shown(ts, ws, v, m) => \E f, t : Opened(ts, ws[v.wal], v, f, t, m)
<1>1. ASSUME Opened(ts, ws[v.wal], v, mem, tabs, m) PROVE Shown(ts, ws, v, m)
  <2>1. mem = ReplayFirst(v, ws[v.wal], Len(ws[v.wal].recs)) /\ tabs = TablesIn(ts, v)
    BY <1>1, Zenon DEF Opened
  <2> QED BY <1>1, <2>1, Zenon DEF Shown
<1>2. Shown(ts, ws, v, m) => \E f, t : Opened(ts, ws[v.wal], v, f, t, m)
  BY Zenon DEF Shown
<1> QED BY <1>1, <1>2

\* The records of every segment stay.
RecsKept ==
    \A i \in DOMAIN wals :
        /\ i \in DOMAIN wals'
        /\ wals[i] = Torn => wals'[i] = Torn
        /\ wals[i] # Torn => /\ wals'[i] # Torn /\ wals'[i].first = wals[i].first
                             /\ wals'[i].recs = wals[i].recs

\* So do its version sets, with what they show.
LEMMA KeptOpened ==
    ASSUME DiskInv, DiskInv', NEW v, FilesOf(v),
           \A i \in DOMAIN v.tables : tables'[v.tables[i].id] = tables[v.tables[i].id],
           v.wal \in DOMAIN wals', wals'[v.wal] # Torn,
           wals'[v.wal].first = wals[v.wal].first, wals'[v.wal].recs = wals[v.wal].recs,
           NEW u, u.durable = v.durable, u.tables = v.tables,
           NEW mem, NEW tabs, NEW m, Opened(tables, wals[v.wal], v, mem, tabs, m)
    PROVE  Opened(tables', wals'[v.wal], u, mem, tabs, m)
<1>1. PICK w : w = wals[v.wal]
  OBVIOUS
<1>2. PICK x : x = wals'[v.wal]
  OBVIOUS
<1>3. w \in WalSegments
  BY <1>1, WholeFile DEF DiskInv, FilesOf, Complete
<1>4. x \in WalSegments
  BY <1>2, WholeFile DEF DiskInv
<1>5. x.first = w.first /\ x.recs = w.recs
  BY <1>1, <1>2
<1>6. PICK ts : ts = tables
  OBVIOUS
<1>7. PICK us : us = tables'
  OBVIOUS
<1>8. \A i \in DOMAIN v.tables : us[v.tables[i].id] = ts[v.tables[i].id]
  BY <1>6, <1>7
<1>9. Opened(ts, w, v, mem, tabs, m)
  BY <1>1, <1>6
<1>10. Opened(us, x, u, mem, tabs, m)
  BY <1>3, <1>4, <1>5, <1>8, <1>9, SameOpened, SMTT(30)
<1> QED BY <1>2, <1>7, <1>10

\* In particular when files are only added.
LEMMA GrownOpened ==
    ASSUME DiskInv, DiskInv', Grown, RecsKept, NEW v, FilesOf(v),
           NEW mem, NEW tabs, NEW m, Opened(tables, wals[v.wal], v, mem, tabs, m)
    PROVE  Opened(tables', wals'[v.wal], v, mem, tabs, m)
<1>1. \A i \in DOMAIN v.tables : tables'[v.tables[i].id] = tables[v.tables[i].id]
  BY DEF Grown, FilesOf, Complete
<1>2. /\ v.wal \in DOMAIN wals' /\ wals'[v.wal] # Torn
      /\ wals'[v.wal].first = wals[v.wal].first /\ wals'[v.wal].recs = wals[v.wal].recs
  BY DEF RecsKept, FilesOf, Complete
<1> QED BY <1>1, <1>2, KeptOpened

\* And shown.
LEMMA GrownShown ==
    ASSUME DiskInv, DiskInv', Grown, RecsKept, NEW v, FilesOf(v), NEW m,
           Shown(tables, wals, v, m)
    PROVE  Shown(tables', wals', v, m)
<1>1. PICK f, t : Opened(tables, wals[v.wal], v, f, t, m)
  BY ShownIs
<1>2. Opened(tables', wals'[v.wal], v, f, t, m)
  BY <1>1, GrownOpened
<1> QED BY <1>2, ShownIs

\* The version set that a valid slot names.
LEMMA SlotNames ==
    ASSUME SlotsInv, current # NoCurrent, NEW s \in {0, 1}, current[s] # Torn
    PROVE  /\ current[s].manifest \in DOMAIN manifests
           /\ manifests[current[s].manifest] # Torn
           /\ FilesOf(manifests[current[s].manifest])
BY DEF SlotsInv, GoodSlot, Complete

\* The files show what they showed when they are only added to.
LEMMA DiskStays ==
    ASSUME DiskInv, DiskInv', SlotsInv, Grown, RecsKept, current' = current,
           DOMAIN wals' = DOMAIN wals \/ current # NoCurrent, NEW m, DiskShows(m)
    PROVE  DiskShows(m)'
<1>1. ASSUME (WalOnly /\ Complete(wals, 1))'
      PROVE  (FilesOf(BaseVersion(0)))' /\ Shown(tables', wals', BaseVersion(0), m)
  <2>1. current = NoCurrent /\ DOMAIN wals = {1}
    BY <1>1 DEF WalOnly
  <2>2. manifests = << >>
    <3>1. DOMAIN manifests = {}
      <4>1. manifests' = << >>
        BY <1>1 DEF WalOnly
      <4>2. DOMAIN manifests' = {}
        BY <4>1
      <4> QED BY <4>2 DEF Grown
    <3>2. manifests = [i \in DOMAIN manifests |-> manifests[i]]
      BY FilesMembers DEF DiskInv
    <3> QED BY <3>1, <3>2
  <2>3. tables = << >>
    <3>1. DOMAIN tables = {}
      <4>1. tables' = << >>
        BY <1>1 DEF WalOnly
      <4>2. DOMAIN tables' = {}
        BY <4>1
      <4> QED BY <4>2 DEF Grown
    <3>2. tables = [i \in DOMAIN tables |-> tables[i]]
      BY FilesMembers DEF DiskInv
    <3> QED BY <3>1, <3>2
  <2>4. Complete(wals, 1)
    BY <1>1, <2>1 DEF Complete, RecsKept
  <2>5. FilesOf(BaseVersion(0)) /\ Shown(tables, wals, BaseVersion(0), m)
    BY <2>1, <2>2, <2>3, <2>4 DEF WalOnly, DiskShows
  <2>6. BaseVersion(0) \in Versions
    BY BaseVersionIs
  <2>7. FilesOf(BaseVersion(0))'
    BY <2>5, <2>6, GrownFiles
  <2>8. Shown(tables', wals', BaseVersion(0), m)
    <3>1. PICK v : v = BaseVersion(0)
      OBVIOUS
    <3>2. FilesOf(v) /\ Shown(tables, wals, v, m)
      BY <2>5, <3>1
    <3>3. Shown(tables', wals', v, m)
      BY <3>2, GrownShown
    <3> QED BY <3>1, <3>3
  <2> QED BY <2>7, <2>8
<1>2. ASSUME current' # NoCurrent, NEW s \in {0, 1}, NEW t \in {0, 1},
             Newest(s)', current'[t] # Torn,
             NEW a, a = manifests'[current'[s].manifest],
             NEW u, u = manifests'[current'[t].manifest], u.wal = a.wal
      PROVE  Shown(tables', wals', u, m)
  <2>1. Newest(s) /\ current # NoCurrent /\ current[t] # Torn
    BY <1>2 DEF Newest
  <2>2. current[s] # Torn
    BY <2>1 DEF Newest
  <2>3. a = manifests[current[s].manifest]
    BY <1>2, <2>1, <2>2, SlotNames DEF Grown
  <2>4. u = manifests[current[t].manifest] /\ FilesOf(u)
    BY <1>2, <2>1, SlotNames DEF Grown
  <2>5. Shown(tables, wals, u, m)
    BY <1>2, <2>1, <2>3, <2>4 DEF DiskShows
  <2> QED BY <2>4, <2>5, GrownShown
<1> QED BY <1>1, <1>2 DEF DiskShows

\* Both slots show the map.
LEMMA SlotsShow ==
    ASSUME current' # NoCurrent, NEW m,
           \A t \in {0, 1} : current'[t] # Torn =>
              Shown(tables', wals', manifests'[current'[t].manifest], m)
    PROVE  DiskShows(m)'
<1>1. ~WalOnly'
  BY DEF WalOnly
<1> QED BY <1>1 DEF DiskShows

\* The handle shows what it showed.
LEMMA HandleShowsStill ==
    ASSUME LsmInv, DiskInv', Grown, RecsKept, UNCHANGED <<h, inflight, acked>>,
           NEW m, HandleShows(m)
    PROVE  HandleShows(m)'
<1>1. CASE h = NoHandle
  BY <1>1 DEF HandleShows
<1>2. CASE h # NoHandle
  <2>1. PICK v : v = h.version
    OBVIOUS
  <2>2. FilesOf(v)
    BY <1>2, <2>1, RunningHandle
  <2>3. Opened(tables, wals[v.wal], v, h.mem, h.tabs, m) /\ m \in Told
    BY <1>2, <2>1 DEF HandleShows
  <2>4. Opened(tables', wals'[v.wal], v, h.mem, h.tabs, m)
    BY <2>2, <2>3, GrownOpened DEF LsmInv
  <2>5. m \in Told'
    BY <2>3 DEF Told
  <2> QED BY <2>1, <2>4, <2>5 DEF HandleShows
<1> QED BY <1>1, <1>2

\* So does what is being installed.
LEMMA JobShowsStill ==
    ASSUME LsmInv, DiskInv', Grown, RecsKept, UNCHANGED <<h, job>>, NEW m, JobShows(m)
    PROVE  JobShows(m)'
<1>1. CASE job = NoJob
  BY <1>1 DEF JobShows
<1>2. CASE job # NoJob
  <2>1. PICK v : v = job.next
    OBVIOUS
  <2>2. FilesOf(v)
    BY <1>2, <2>1 DEF LsmInv, JobInv, GoodJob
  <2>3. PICK mem : mem = MemAfter(job, h.mem)
    OBVIOUS
  <2>4. Opened(tables, wals[v.wal], v, mem, job.tabs, m)
        /\ (job.kind = "rotate" => job.tabs = h.tabs)
    BY <1>2, <2>1, <2>3 DEF JobShows
  <2>5. Opened(tables', wals'[v.wal], v, mem, job.tabs, m)
    BY <2>2, <2>4, GrownOpened DEF LsmInv
  <2>6. mem = MemAfter(job', h'.mem)
    BY <2>3
  <2> QED BY <2>1, <2>4, <2>5, <2>6 DEF JobShows
<1> QED BY <1>1, <1>2

\* The mutations that the caller may find.
LEMMA CandidatesAre ==
    ASSUME StepInv, h # NoHandle
    PROVE  pending = {} /\ Told \subseteq Candidates
BY DEF StepInv, Told, Candidates

\* A call that gives up leaves the caller in doubt about its mutation.
LEMMA GaveUp ==
    ASSUME LsmInv, h # NoHandle, GiveUp, acked' = acked, exists' = exists
    PROVE  /\ Candidates' = Candidates /\ UntouchedInv'
           /\ \A m : HandleShows(m)' /\ JobShows(m)'
<1>1. pending = {} /\ pending' = inflight /\ inflight' = {} /\ h' = NoHandle /\ job' = NoJob
  BY CandidatesAre DEF LsmInv, GiveUp
<1>2. Candidates' = Candidates
  BY <1>1 DEF Candidates
<1>3. UntouchedInv'
  BY RunningHandle DEF UntouchedInv
<1>4. \A m : HandleShows(m)' /\ JobShows(m)'
  BY <1>1 DEF HandleShows, JobShows
<1> QED BY <1>2, <1>3, <1>4

\* A new file leaves the others.
LEMMA NewFileGrown ==
    ASSUME LsmInv, NEW id, NEW content, NEW outcome,
           \/ /\ tables' = WithFile(tables, id, content, outcome) /\ id \notin DOMAIN tables
              /\ manifests' = manifests /\ wals' = wals
           \/ /\ manifests' = WithFile(manifests, id, content, outcome)
              /\ id \notin DOMAIN manifests /\ tables' = tables /\ wals' = wals
           \/ /\ wals' = WithFile(wals, id, content, outcome) /\ id \notin DOMAIN wals
              /\ tables' = tables /\ manifests' = manifests
           \/ UNCHANGED <<tables, manifests, wals>>
    PROVE  Grown /\ RecsKept
<1>1. ASSUME NEW f, NEW g, g = WithFile(f, id, content, outcome), id \notin DOMAIN f
      PROVE  \A i \in DOMAIN f : i \in DOMAIN g /\ g[i] = f[i]
  BY <1>1 DEF WithFile
<1>2. /\ \A i \in DOMAIN tables : i \in DOMAIN tables' /\ tables'[i] = tables[i]
      /\ \A i \in DOMAIN manifests : i \in DOMAIN manifests' /\ manifests'[i] = manifests[i]
      /\ \A i \in DOMAIN wals : i \in DOMAIN wals' /\ wals'[i] = wals[i]
  BY <1>1
<1>3. \A i \in DOMAIN wals : wals[i] # Torn => WalNext(wals[i]) <= WalNext(wals[i])
  <2> TAKE i \in DOMAIN wals
  <2>1. wals[i] # Torn => wals[i] \in WalSegments
    BY WholeFile DEF LsmInv, DiskInv
  <2>2. wals[i] # Torn => WalNext(wals[i]) \in Nat
    BY <2>1, WalNextIs
  <2> QED BY <2>2
<1> QED BY <1>2, <1>3 DEF Grown, RecsKept

\* A step of a running call that proceeds, or gives up, while files are added.
LEMMA StepReads ==
    ASSUME LsmInv, LsmInv', ReadsInv, h # NoHandle, exists' = exists, acked' = acked,
           Grown, RecsKept, current' = current,
           DOMAIN wals' = DOMAIN wals \/ current # NoCurrent,
           NEW outcome, NEW next, NEW work, ProceedOrGiveUp(outcome, next, work),
           \A m : outcome = "done" /\ Proceed(next, work) /\ HandleShows(m) /\ JobShows(m) =>
                     JobShows(m)'
    PROVE  ReadsInv'
<1>1. PICK m \in Candidates : DiskShows(m) /\ HandleShows(m) /\ JobShows(m)
  BY DEF ReadsInv
<1>2. DiskShows(m)'
  BY <1>1, DiskStays DEF LsmInv
<1>3. CASE outcome = "done" /\ Proceed(next, work)
  <2>1. UNCHANGED <<h, inflight, pending>>
    BY <1>3 DEF Proceed
  <2>2. HandleShows(m)'
    BY <1>1, <2>1, HandleShowsStill DEF LsmInv
  <2>3. JobShows(m)'
    BY <1>1, <1>3
  <2>4. m \in Candidates'
    BY <2>1 DEF Candidates
  <2>5. UntouchedInv'
    BY RunningHandle DEF UntouchedInv
  <2> QED BY <1>2, <2>2, <2>3, <2>4, <2>5 DEF ReadsInv
<1>4. CASE GiveUp
  <2>1. /\ Candidates' = Candidates /\ UntouchedInv'
        /\ HandleShows(m)' /\ JobShows(m)'
    BY <1>4, GaveUp
  <2> QED BY <1>1, <1>2, <2>1 DEF ReadsInv
<1> QED BY <1>3, <1>4 DEF ProceedOrGiveUp

\* The first manifest.
LEMMA FlushInitManifestReads ==
    ASSUME LsmInv, LsmInv', ReadsInv, FlushInitManifest
    PROVE  ReadsInv'
<1>1. PICK outcome \in Outcomes :
          /\ manifests' = WithFile(manifests, 1, BaseVersion(1), outcome)
          /\ ProceedOrGiveUp(outcome, "initCurrent", NoJob)
  BY DEF FlushInitManifest
<1>2. UNCHANGED <<exists, wals, tables, current, acked>>
  BY DEF FlushInitManifest
<1>3. h # NoHandle
  BY DEF FlushInitManifest, LsmInv, StepInv
<1>4. 1 \notin DOMAIN manifests
  <2>1. high.manifest = 0
    BY <1>3 DEF FlushInitManifest, LsmInv, HandleInv, WalOnlyInv
  <2> QED BY <2>1 DEF LsmInv, DiskInv
<1>5. Grown /\ RecsKept
  BY <1>1, <1>2, <1>4, NewFileGrown
<1>6. \A m : Proceed("initCurrent", NoJob) /\ HandleShows(m) /\ JobShows(m) => JobShows(m)'
  BY DEF Proceed, JobShows
<1> QED BY <1>1, <1>2, <1>3, <1>5, <1>6, StepReads

\* No compaction is due.
LEMMA SkipCompactionReads ==
    ASSUME LsmInv, LsmInv', ReadsInv, SkipCompaction
    PROVE  ReadsInv'
<1>1. UNCHANGED disk /\ acked' = acked /\ Proceed("rotate", NoJob) /\ h # NoHandle
  BY DEF SkipCompaction, LsmInv, StepInv
<1>2. Grown /\ RecsKept
  BY <1>1, NewFileGrown DEF disk
<1>3. \A m : Proceed("rotate", NoJob) /\ HandleShows(m) /\ JobShows(m) => JobShows(m)'
  BY DEF Proceed, JobShows
<1>4. ProceedOrGiveUp("done", "rotate", NoJob)
  BY <1>1 DEF ProceedOrGiveUp
<1> QED BY <1>1, <1>2, <1>3, <1>4, StepReads DEF disk

\* prepare_install writes the manifest.
LEMMA WriteManifestReads ==
    ASSUME LsmInv, LsmInv', ReadsInv, WriteManifest
    PROVE  ReadsInv'
<1>1. PICK outcome \in Outcomes :
          /\ manifests' = WithFile(manifests, job.next.manifest, [job.next EXCEPT !.gen = 0],
                                   outcome)
          /\ ProceedOrGiveUp(outcome, "publish", job)
  BY DEF WriteManifest
<1>2. UNCHANGED <<exists, wals, tables, current, acked>>
      /\ job.next.manifest \notin DOMAIN manifests
  BY DEF WriteManifest
<1>3. h # NoHandle
  BY DEF WriteManifest, LsmInv, StepInv
<1>4. Grown /\ RecsKept
  BY <1>1, <1>2, NewFileGrown
<1>5. \A m : Proceed("publish", job) /\ HandleShows(m) /\ JobShows(m) => JobShows(m)'
  <2> SUFFICES ASSUME NEW m, Proceed("publish", job), JobShows(m) PROVE JobShows(m)'
    OBVIOUS
  <2>1. UNCHANGED <<h, job>>
    BY DEF Proceed
  <2> QED BY <1>4, <2>1, JobShowsStill DEF LsmInv
<1> QED BY <1>1, <1>2, <1>3, <1>4, <1>5, StepReads

\* The new SSTable shows what the frozen MemTable showed.
LEMMA FlushTableReads ==
    ASSUME LsmInv, LsmInv', ReadsInv, FlushTable
    PROVE  ReadsInv'
<1>1. PICK v : v = h.version
  OBVIOUS
<1>2. PICK frozen : frozen = Head(h.mem.immutable)
  OBVIOUS
<1>3. PICK id : id = h.nextTable
  OBVIOUS
<1>4. PICK ts : ts = Append(v.tables, Descriptor(id, 0, frozen.last))
  OBVIOUS
<1>5. PICK next : next = NextVersion(v, h.nextManifest, frozen.last, v.gc, v.wal, v.first, ts)
  OBVIOUS
<1>6. PICK tabs : tabs = Append(h.tabs, LoadTable(FlushedTable))
  OBVIOUS
<1>7. PICK work : work = [kind |-> "flush", next |-> next, tabs |-> tabs]
  OBVIOUS
<1>8. PICK content : content = FlushedTable
  OBVIOUS
<1>9. PICK outcome \in Outcomes :
          /\ tables' = WithFile(tables, id, content, outcome)
          /\ ProceedOrGiveUp(outcome, "manifest", work)
  <2>1. content.durable = frozen.last
    BY <1>2, <1>8 DEF FlushedTable, SortedTable
  <2> QED BY <1>1, <1>3, <1>4, <1>5, <1>6, <1>7, <1>8, <2>1, Zenon DEF FlushTable
<1>10. /\ UNCHANGED <<exists, wals, manifests, current, acked>>
       /\ h.mem.immutable # << >> /\ id \notin DOMAIN tables
       /\ TableAccepted(FlushedTable)
  BY <1>3 DEF FlushTable
<1>11. h # NoHandle
  BY DEF FlushTable, LsmInv, StepInv
<1>12. Grown /\ RecsKept
  BY <1>9, <1>10, NewFileGrown
<1>13. ASSUME NEW m, outcome = "done", Proceed("manifest", work), HandleShows(m)
       PROVE  JobShows(m)'
  <2>1. h' = h /\ job' = work
    BY <1>13 DEF Proceed
  <2>2. work.kind = "flush" /\ work.next = next /\ work.tabs = tabs
    BY <1>7
  <2>3. next \in Versions
    <3>1. job' # NoJob
      BY <2>1, <2>2 DEF NoJob
    <3>2. GoodJob(job)'
      BY <3>1 DEF LsmInv, JobInv
    <3>3. job' \in Jobs
      BY <3>2 DEF GoodJob
    <3> QED BY <2>1, <2>2, <3>3 DEF Jobs
  <2>4. PICK w : w = wals[v.wal]
    OBVIOUS
  <2>5. /\ v \in Versions /\ FilesOf(v) /\ w \in WalSegments /\ WalNext(w) <= MaxSequence
        /\ h.mem \in MemSets /\ h.tabs \in Seq(Tables)
    BY <1>1, <1>11, <2>4, RunningHandle
  <2>6. next.durable = frozen.last /\ next.wal = v.wal /\ next.tables = ts
    BY <1>5 DEF NextVersion
  <2>7. Opened(tables, w, v, h.mem, h.tabs, m)
    BY <1>1, <1>11, <1>13, <2>4 DEF HandleShows
  <2>8. /\ tables'[id] = content /\ content \in SortedTables
        /\ content.entries = frozen.entries
    <3>1. tables'[id] = content
      BY <1>9, <1>13 DEF WithFile
    <3>2. FlushedTable \in SortedTables /\ FlushedTable.entries = frozen.entries
      BY <1>2, <1>10, <1>11, FlushedTableIs
    <3> QED BY <1>8, <3>1, <3>2
  <2>9. \A i \in DOMAIN v.tables : tables'[v.tables[i].id] = tables[v.tables[i].id]
    BY <1>12, <2>5 DEF Grown, FilesOf, Complete
  <2>10. PICK d : d = Descriptor(id, 0, frozen.last)
    OBVIOUS
  <2>11. d.id = id /\ next.tables = Append(v.tables, d)
    BY <1>4, <2>6, <2>10 DEF Descriptor
  <2>12. PICK us : us = tables'
    OBVIOUS
  <2>13. /\ us[d.id] = content
         /\ \A i \in DOMAIN v.tables : us[v.tables[i].id] = tables[v.tables[i].id]
    BY <2>8, <2>9, <2>11, <2>12
  <2>14. Opened(us, w, next, Retired(h.mem), Append(h.tabs, LoadTable(content)), m)
    <3>1. PICK mem : mem = h.mem
      OBVIOUS
    <3>2. PICK hs : hs = h.tabs
      OBVIOUS
    <3>3. PICK us0 : us0 = tables
      OBVIOUS
    <3>4. /\ mem \in MemSets /\ mem.immutable # << >> /\ hs \in Seq(Tables)
          /\ Opened(us0, w, v, mem, hs, m) /\ frozen = Head(mem.immutable)
          /\ \A i \in DOMAIN v.tables : us[v.tables[i].id] = us0[v.tables[i].id]
      BY <1>2, <1>10, <2>5, <2>7, <2>13, <3>1, <3>2, <3>3
    <3>5. Opened(us, w, next, Retired(mem), Append(hs, LoadTable(us[d.id])), m)
      <4>1. /\ w \in WalSegments /\ WalNext(w) <= MaxSequence /\ v \in Versions
            /\ next.durable = frozen.last /\ next.tables = Append(v.tables, d)
            /\ us[d.id] \in SortedTables /\ us[d.id].entries = frozen.entries
        BY <2>5, <2>6, <2>8, <2>11, <2>13
      <4> QED BY <2>3, <3>4, <4>1, FlushOpened, ZenonT(120)
    <3> QED BY <2>13, <3>1, <3>2, <3>5
  <2>15. wals'[next.wal] = w
    BY <1>10, <2>4, <2>6
  <2>16. MemAfter(job', h'.mem) = Retired(h.mem)
    BY <2>1, <2>2 DEF MemAfter
  <2>17. Opened(tables', wals'[job'.next.wal], job'.next, MemAfter(job', h'.mem), job'.tabs, m)
    BY <1>6, <1>8, <2>1, <2>2, <2>12, <2>14, <2>15, <2>16
  <2>18. job'.kind # "rotate"
    BY <2>1, <2>2
  <2> QED BY <2>17, <2>18 DEF JobShows
<1> QED BY <1>9, <1>10, <1>11, <1>12, <1>13, StepReads

\* The merged SSTable shows what its sources showed.
LEMMA CompactTableReads ==
    ASSUME LsmInv, LsmInv', ReadsInv, CompactTable
    PROVE  ReadsInv'
<1>1. PICK v : v = h.version
  OBVIOUS
<1>2. PICK entries : entries = CompactedEntries(h.tabs)
  OBVIOUS
<1>3. PICK id : id = h.nextTable
  OBVIOUS
<1>4. PICK content : content = CompactedTable
  OBVIOUS
<1> DEFINE Work(ts, tabs) ==
              [kind |-> "compact", tabs |-> tabs,
               next |-> NextVersion(v, h.nextManifest, v.durable, v.durable, v.wal,
                                    v.first, ts)]
<1>5. /\ UNCHANGED <<exists, wals, manifests, current, acked>>
      /\ h.mem.immutable = << >> /\ h # NoHandle
  BY DEF CompactTable, LsmInv, StepInv
<1>6. \/ /\ entries = NoEntries /\ tables' = tables
         /\ Proceed("manifest", Work(<< >>, << >>))
      \/ /\ id \notin DOMAIN tables /\ TableAccepted(content)
         /\ \E outcome \in Outcomes :
              /\ tables' = WithFile(tables, id, content, outcome)
              /\ ProceedOrGiveUp(outcome, "manifest",
                    Work(<<Descriptor(id, 1, v.durable)>>, <<LoadTable(content)>>))
  <2>1. content.entries = entries
    BY <1>2, <1>4 DEF CompactedTable, SortedTable
  <2> QED BY <1>1, <1>3, <1>4, <2>1, Zenon DEF CompactTable
<1>7. PICK w : w = wals[v.wal]
  OBVIOUS
<1>8. /\ FilesOf(v) /\ w \in WalSegments /\ h.mem \in MemSets /\ h.tabs \in Seq(Tables)
  BY <1>1, <1>5, <1>7, RunningHandle
<1>9. entries \in Entries
  BY <1>2, <1>8, CompactedIs
<1>10. ASSUME NEW m, HandleShows(m), NEW ts, NEW tabs, Proceed("manifest", Work(ts, tabs)),
              \/ entries = NoEntries /\ ts = << >> /\ tabs = << >>
              \/ /\ content \in SortedTables /\ content.entries = entries
                 /\ tabs = <<LoadTable(content)>>
                 /\ \E d : ts = <<d>> /\ tables'[d.id] = content
       PROVE  JobShows(m)'
  <2>1. PICK next : next = NextVersion(v, h.nextManifest, v.durable, v.durable, v.wal,
                                       v.first, ts)
    OBVIOUS
  <2>2. h' = h /\ job' = [kind |-> "compact", tabs |-> tabs, next |-> next]
    BY <1>10, <2>1, Zenon DEF Proceed
  <2>3. job'.kind = "compact" /\ job'.tabs = tabs /\ job'.next = next
    BY <2>2
  <2>4. next.durable = v.durable /\ next.wal = v.wal /\ next.tables = ts
    BY <2>1 DEF NextVersion
  <2>5. Opened(tables, w, v, h.mem, h.tabs, m)
    BY <1>1, <1>5, <1>7, <1>10 DEF HandleShows
  <2>6. PICK us : us = tables'
    OBVIOUS
  <2>7. \/ entries = NoEntries /\ next.tables = << >> /\ tabs = << >>
        \/ /\ content \in SortedTables /\ content.entries = entries
           /\ tabs = <<LoadTable(content)>>
           /\ \E d : next.tables = <<d>> /\ us[d.id] = content
    BY <1>10, <2>4, <2>6
  <2>8. Opened(us, w, next, h.mem, tabs, m)
    BY <1>2, <1>5, <1>8, <1>9, <2>4, <2>5, <2>7, CompactOpened
  <2>9. wals'[next.wal] = w
    BY <1>5, <1>7, <2>4
  <2>10. MemAfter(job', h'.mem) = h.mem
    BY <2>2, <2>3 DEF MemAfter
  <2>11. Opened(tables', wals'[job'.next.wal], job'.next, MemAfter(job', h'.mem), job'.tabs, m)
    BY <2>3, <2>6, <2>8, <2>9, <2>10
  <2> QED BY <2>3, <2>11 DEF JobShows
<1> HIDE DEF Work
<1>11. CASE /\ entries = NoEntries /\ tables' = tables
            /\ Proceed("manifest", Work(<< >>, << >>))
  <2>1. Grown /\ RecsKept
    BY <1>5, <1>11, NewFileGrown
  <2>2. ProceedOrGiveUp("done", "manifest", Work(<< >>, << >>))
    BY <1>11 DEF ProceedOrGiveUp
  <2>3. \A m : Proceed("manifest", Work(<< >>, << >>)) /\ HandleShows(m) => JobShows(m)'
    BY <1>10, <1>11
  <2> QED BY <1>5, <2>1, <2>2, <2>3, StepReads
<1>12. ASSUME NEW outcome \in Outcomes, id \notin DOMAIN tables,
              TableAccepted(content),
              tables' = WithFile(tables, id, content, outcome),
              ProceedOrGiveUp(outcome, "manifest",
                    Work(<<Descriptor(id, 1, v.durable)>>, <<LoadTable(content)>>))
       PROVE  ReadsInv'
  <2>1. Grown /\ RecsKept
    BY <1>5, <1>12, NewFileGrown
  <2>2. PICK ts : ts = <<Descriptor(id, 1, v.durable)>>
    OBVIOUS
  <2>3. PICK tabs : tabs = <<LoadTable(content)>>
    OBVIOUS
  <2>4. ASSUME NEW m, outcome = "done", Proceed("manifest", Work(ts, tabs)), HandleShows(m)
        PROVE  JobShows(m)'
    <3>1. PICK d : d = Descriptor(id, 1, v.durable)
      OBVIOUS
    <3>2. d.id = id
      BY <3>1 DEF Descriptor
    <3>3. tables'[id] = content
      BY <1>12, <2>4 DEF WithFile
    <3>4. tables'[d.id] = content /\ content \in SortedTables /\ content.entries = entries
      BY <1>2, <1>4, <1>5, <1>12, <3>2, <3>3, CompactedTableIs DEF CompactTable
    <3>5. ts = <<d>> /\ tabs = <<LoadTable(content)>>
      BY <2>2, <2>3, <3>1
    <3> QED BY <1>10, <2>4, <3>4, <3>5
  <2>5. ProceedOrGiveUp(outcome, "manifest", Work(ts, tabs))
    BY <1>12, <2>2, <2>3
  <2> QED BY <1>5, <2>1, <2>4, <2>5, StepReads
<1> QED BY <1>6, <1>11, <1>12

\* The new segment and the SSTables show what the full one showed.
LEMMA RotateWalReads ==
    ASSUME LsmInv, LsmInv', ReadsInv, RotateWal
    PROVE  ReadsInv'
<1>1. PICK v : v = h.version
  OBVIOUS
<1>2. PICK w : w = wals[v.wal]
  OBVIOUS
<1>3. PICK id : id = h.nextWal
  OBVIOUS
<1>4. PICK x : x = FreshWal(v.durable + 1)
  OBVIOUS
<1>5. PICK next : next = NextVersion(v, h.nextManifest, v.durable, v.gc, id, v.durable + 1,
                                     v.tables)
  OBVIOUS
<1>6. PICK work : work = [kind |-> "rotate", tabs |-> h.tabs, next |-> next]
  OBVIOUS
<1>7. PICK outcome \in Outcomes :
          /\ wals' = WithFile(wals, id, x, outcome)
          /\ ProceedOrGiveUp(outcome, "manifest", work)
  BY <1>1, <1>3, <1>4, <1>5, <1>6, Zenon DEF RotateWal
<1>8. /\ step = "rotate" /\ RotationDue(v, w) /\ id \notin DOMAIN wals
      /\ UNCHANGED <<exists, tables, manifests, current, acked>>
  BY <1>1, <1>2, <1>3 DEF RotateWal, ActiveWal
<1>9. h # NoHandle
  BY <1>8 DEF LsmInv, StepInv
<1>10. /\ v \in Versions /\ FilesOf(v) /\ w \in WalSegments /\ v.durable \in Nat
       /\ WalNext(w) <= MaxSequence /\ WalNext(w) \in Nat
  BY <1>1, <1>2, <1>9, RunningHandle
<1>11. w.recs # << >> /\ WalNext(w) = v.durable + 1
  BY <1>8 DEF RotationDue
<1>12. v.manifest # 0
  <2>1. SUFFICES ASSUME v.manifest = 0 PROVE FALSE
    OBVIOUS
  <2>2. v = BaseVersion(0)
    BY <1>1, <1>9, <2>1 DEF LsmInv, HandleInv, WalOnlyInv
  <2>3. v.durable = 0
    BY <2>2, BaseVersionIs
  <2>4. w.recs \in Seq(Op) /\ w.first \in Nat /\ w.first >= 1
    BY <1>10, BoundsAssumption DEF WalSegments
  <2>5. Len(w.recs) \in Nat \ {0}
    BY <1>11, <2>4, EmptySeq
  <2>6. WalNext(w) = w.first + Len(w.recs)
    BY DEF WalNext
  <2> QED BY <1>11, <2>3, <2>4, <2>5, <2>6
<1>13. current # NoCurrent
  BY <1>1, <1>9, <1>12 DEF LsmInv, HandleInv, InstalledInv
<1>14. Grown /\ RecsKept
  BY <1>7, <1>8, NewFileGrown
<1>15. x \in WalSegments /\ x.first = v.durable + 1 /\ x.recs = << >>
  <2>1. v.durable + 1 \in 1 .. MaxSequence
    BY <1>10, <1>11, BoundsAssumption
  <2> QED BY <1>4, <2>1, FreshWalIs
<1>16. ASSUME NEW m, outcome = "done", Proceed("manifest", work), HandleShows(m)
       PROVE  JobShows(m)'
  <2>1. h' = h /\ job' = work
    BY <1>16 DEF Proceed
  <2>2. work.kind = "rotate" /\ work.next = next /\ work.tabs = h.tabs
    BY <1>6
  <2>3. next.wal = id /\ next.tables = v.tables
    BY <1>5 DEF NextVersion
  <2>4. Opened(tables, w, v, h.mem, h.tabs, m)
    BY <1>1, <1>2, <1>9, <1>16 DEF HandleShows
  <2>5. PICK ts : ts = tables
    OBVIOUS
  <2>6. Opened(ts, w, v, h.mem, h.tabs, m)
    BY <2>4, <2>5
  <2>7. Opened(ts, x, next, h.mem, h.tabs, m)
    BY <1>10, <1>11, <1>15, <2>3, <2>6, RotateOpened
  <2>8. wals'[next.wal] = x
    BY <1>7, <1>16, <2>3 DEF WithFile
  <2>9. MemAfter(job', h'.mem) = h.mem
    BY <2>1, <2>2 DEF MemAfter
  <2>10. Opened(tables', wals'[job'.next.wal], job'.next, MemAfter(job', h'.mem), job'.tabs, m)
    BY <1>8, <2>1, <2>2, <2>5, <2>7, <2>8, <2>9
  <2>11. job'.tabs = h'.tabs
    BY <2>1, <2>2
  <2> QED BY <2>10, <2>11 DEF JobShows
<1> QED BY <1>7, <1>8, <1>9, <1>13, <1>14, <1>16, StepReads

\* The map that is acknowledged is the one that the handle shows.
LEMMA AckedIs ==
    ASSUME LsmInv, Acknowledge, step # "idle", NEW m, m \in Told
    PROVE  /\ acked' = m /\ m \in Told' /\ m \in Candidates' /\ job' = NoJob
<1>1. PICK op \in Op : inflight = {op}
  BY DEF LsmInv, StepInv
<1>2. m = Effect(acked, op)
  BY <1>1 DEF Told
<1>3. acked \in Map
  BY DEF LsmInv, StepInv
<1>4. acked' = Effect(acked, op)
  <2>1. PICK a : a = acked'
    OBVIOUS
  <2>2. a = [k \in Keys |->
               IF \E o \in {op} : o.key = k
               THEN (CHOOSE o \in {op} : o.key = k).val ELSE acked[k]]
    BY <1>1, <2>1 DEF Acknowledge
  <2>3. \A k \in Keys : op.key = k => (CHOOSE o \in {op} : o.key = k) = op
    OBVIOUS
  <2>4. \A k \in Keys : a[k] = IF k = op.key THEN op.val ELSE acked[k]
    BY <2>2, <2>3
  <2>5. PICK e : e = Effect(acked, op)
    OBVIOUS
  <2>6. e = [k \in Keys |-> IF k = op.key THEN op.val ELSE acked[k]]
    BY <1>3, <2>5 DEF Effect, Map
  <2> QED BY <2>1, <2>2, <2>4, <2>5, <2>6
<1>5. inflight' = {} /\ job' = NoJob
  BY DEF Acknowledge
<1> QED BY <1>2, <1>4, <1>5 DEF Told, Candidates

\* The call returns.
LEMMA SkipRotationReads ==
    ASSUME LsmInv, LsmInv', ReadsInv, SkipRotation
    PROVE  ReadsInv'
<1>1. step = "rotate" /\ Acknowledge /\ UNCHANGED disk /\ h' = h
  BY DEF SkipRotation
<1>2. h # NoHandle
  BY <1>1 DEF LsmInv, StepInv
<1>3. Grown /\ RecsKept
  BY <1>1, NewFileGrown DEF disk
<1>4. PICK m \in Candidates : DiskShows(m) /\ HandleShows(m)
  BY DEF ReadsInv
<1>5. m \in Told
  BY <1>2, <1>4 DEF HandleShows
<1>6. acked' = m /\ m \in Told' /\ m \in Candidates' /\ job' = NoJob
  BY <1>1, <1>5, AckedIs
<1>7. DiskShows(m)'
  BY <1>1, <1>3, <1>4, DiskStays DEF LsmInv, disk
<1>8. PICK v : v = h.version
  OBVIOUS
<1>9. Opened(tables', wals'[v.wal], v, h.mem, h.tabs, m)
  <2>1. Opened(tables, wals[v.wal], v, h.mem, h.tabs, m)
    BY <1>2, <1>4, <1>8 DEF HandleShows
  <2> QED BY <1>1, <2>1 DEF disk
<1>10. HandleShows(m)'
  BY <1>1, <1>6, <1>8, <1>9 DEF HandleShows
<1>11. JobShows(m)'
  BY <1>6 DEF JobShows
<1>12. UntouchedInv'
  BY <1>1, <1>2, RunningHandle DEF UntouchedInv, disk
<1> QED BY <1>6, <1>7, <1>10, <1>11, <1>12 DEF ReadsInv

\* The generation, the watermark and the tombstone floor do not matter.
LEMMA SameShown ==
    ASSUME NEW ts, NEW ws, NEW v, NEW u, NEW mem, NEW tabs, NEW m,
           ws[v.wal] \in WalSegments, Opened(ts, ws[v.wal], v, mem, tabs, m),
           u.durable = v.durable, u.tables = v.tables, u.wal = v.wal
    PROVE  /\ Opened(ts, ws[u.wal], u, mem, tabs, m)
           /\ Shown(ts, ws, u, m)
<1>1. PICK w : w = ws[v.wal]
  OBVIOUS
<1>2. w \in WalSegments /\ Opened(ts, w, v, mem, tabs, m)
  BY <1>1
<1>3. Opened(ts, w, u, mem, tabs, m)
  BY <1>2, SameOpened
<1>4. Opened(ts, ws[u.wal], u, mem, tabs, m)
  BY <1>1, <1>3
<1> QED BY <1>4, ShownIs

\* The manifest that the handle's version set comes from shows what it shows.
LEMMA HandleNamed ==
    ASSUME LsmInv, h # NoHandle, h.version.manifest # 0, NEW m, HandleShows(m)
    PROVE  Shown(tables, wals, manifests[h.version.manifest], m)
<1>1. PICK v : v = h.version
  OBVIOUS
<1>2. PICK u : u = manifests[v.manifest]
  OBVIOUS
<1>3. v \in Versions /\ v.manifest \in Nat /\ v.manifest # 0
  BY <1>1, RunningHandle, VersionParts
<1>4. u \in Versions
  <2>1. Complete(manifests, v.manifest)
    BY <1>1, <1>3 DEF LsmInv, HandleInv, InstalledInv
  <2> QED BY <1>2, <2>1, WholeFile DEF LsmInv, DiskInv, Complete
<1>5. v = [u EXCEPT !.gen = v.gen, !.watermark = v.watermark]
  BY <1>1, <1>2, <1>3 DEF LsmInv, HandleInv, InstalledInv
<1>6. u.durable = v.durable /\ u.tables = v.tables /\ u.wal = v.wal
  BY <1>4, <1>5 DEF Versions
<1>7. PICK ts : ts = tables
  OBVIOUS
<1>8. PICK ws : ws = wals
  OBVIOUS
<1>9. ws[v.wal] \in WalSegments
  BY <1>1, <1>8, RunningHandle
<1>10. Opened(ts, ws[v.wal], v, h.mem, h.tabs, m)
  BY <1>1, <1>7, <1>8 DEF HandleShows
<1>11. Shown(ts, ws, u, m)
  BY <1>6, <1>9, <1>10, SameShown
<1> QED BY <1>1, <1>2, <1>7, <1>8, <1>11

\* So does the manifest that is written for an installation.
LEMMA JobNamed ==
    ASSUME LsmInv, step \in {"publish", "mirror"}, NEW m, JobShows(m)
    PROVE  Shown(tables, wals, manifests[job.next.manifest], m)
<1>1. PICK v : v = job.next
  OBVIOUS
<1>2. PICK u : u = manifests[v.manifest]
  OBVIOUS
<1>3. v \in Versions /\ u = [v EXCEPT !.gen = 0] /\ FilesOf(v) /\ job # NoJob
  BY <1>1, <1>2, RunningJob
<1>4. u.durable = v.durable /\ u.tables = v.tables /\ u.wal = v.wal
  BY <1>3 DEF Versions
<1>5. PICK ts : ts = tables
  OBVIOUS
<1>6. PICK ws : ws = wals
  OBVIOUS
<1>7. ws[v.wal] \in WalSegments
  BY <1>3, <1>6, WholeFile DEF LsmInv, DiskInv, FilesOf, Complete
<1>8. PICK mem : mem = MemAfter(job, h.mem)
  OBVIOUS
<1>9. Opened(ts, ws[v.wal], v, mem, job.tabs, m)
  BY <1>1, <1>3, <1>5, <1>6, <1>8 DEF JobShows
<1>10. Shown(ts, ws, u, m)
  BY <1>4, <1>7, <1>9, SameShown
<1> QED BY <1>1, <1>2, <1>5, <1>6, <1>10

\* The first CURRENT file names an empty version set over the same segment.
LEMMA FlushInitCurrentReads ==
    ASSUME LsmInv, LsmInv', ReadsInv, FlushInitCurrent
    PROVE  ReadsInv'
<1>1. PICK outcome \in Outcomes :
          /\ current' = CASE outcome = "none" -> NoCurrent
                          [] outcome = "torn" -> BothSlots(Torn)
                          [] OTHER -> BothSlots(Slot(0, 1))
          /\ IF outcome = "done"
             THEN /\ h' = [h EXCEPT !.version = BaseVersion(1), !.nextManifest = 2]
                  /\ UNCHANGED <<job, inflight, pending>>
             ELSE GiveUp
  BY DEF FlushInitCurrent
<1>2. step = "initCurrent" /\ UNCHANGED <<exists, wals, tables, manifests, acked>>
  BY DEF FlushInitCurrent
<1>3. h # NoHandle /\ job = NoJob
  BY <1>2 DEF LsmInv, StepInv, Between
<1>4. h.version = BaseVersion(0) /\ 1 \in DOMAIN manifests /\ manifests[1] = BaseVersion(1)
  BY <1>2, <1>3 DEF LsmInv, HandleInv, InstalledInv, WalOnlyInv
<1>5. PICK m \in Candidates : HandleShows(m)
  BY DEF ReadsInv
<1>6. PICK v : v = BaseVersion(0)
  OBVIOUS
<1>7. PICK u : u = BaseVersion(1)
  OBVIOUS
<1>8. u.durable = v.durable /\ u.tables = v.tables /\ u.wal = v.wal
  BY <1>6, <1>7, BaseVersionIs
<1>9. PICK ts : ts = tables
  OBVIOUS
<1>10. PICK ws : ws = wals
  OBVIOUS
<1>11. ws[v.wal] \in WalSegments
  BY <1>3, <1>4, <1>6, <1>10, RunningHandle
<1>12. Opened(ts, ws[v.wal], v, h.mem, h.tabs, m)
  BY <1>3, <1>4, <1>5, <1>6, <1>9, <1>10 DEF HandleShows
<1>13. Opened(ts, ws[u.wal], u, h.mem, h.tabs, m) /\ Shown(ts, ws, u, m)
  BY <1>8, <1>11, <1>12, SameShown
<1>14. DiskShows(m)'
  <2>1. CASE current' = NoCurrent
    <3>1. manifests' # << >>
      <4>1. DOMAIN manifests' # {}
        BY <1>2, <1>4
      <4> QED BY <4>1
    <3> QED BY <2>1, <3>1 DEF DiskShows, WalOnly
  <2>2. CASE current' # NoCurrent
    <3>1. \A t \in {0, 1} : current'[t] # Torn => current'[t] = Slot(0, 1)
      BY <1>1, <2>2 DEF BothSlots
    <3>2. \A t \in {0, 1} : current'[t] # Torn =>
              Shown(tables', wals', manifests'[current'[t].manifest], m)
      BY <1>2, <1>4, <1>7, <1>9, <1>10, <1>13, <3>1 DEF Slot
    <3> QED BY <2>2, <3>2, SlotsShow
  <2> QED BY <2>1, <2>2
<1>15. CASE /\ outcome = "done" /\ UNCHANGED <<job, inflight, pending>>
            /\ h' = [h EXCEPT !.version = BaseVersion(1), !.nextManifest = 2]
  <2>1. h'.version = u /\ h'.mem = h.mem /\ h'.tabs = h.tabs
    <3>1. h \in Handles
      BY <1>3, RunningHandle
    <3> QED BY <1>7, <1>15, <3>1 DEF Handles
  <2>2. m \in Told' /\ m \in Candidates'
    BY <1>2, <1>3, <1>5, <1>15 DEF Told, Candidates, HandleShows
  <2>3. HandleShows(m)'
    BY <1>2, <1>9, <1>10, <1>13, <2>1, <2>2 DEF HandleShows
  <2>4. JobShows(m)'
    BY <1>3, <1>15 DEF JobShows
  <2>5. UntouchedInv'
    BY <1>2, <1>3, RunningHandle DEF UntouchedInv
  <2> QED BY <1>14, <2>2, <2>3, <2>4, <2>5 DEF ReadsInv
<1>16. CASE GiveUp
  <2>1. Candidates' = Candidates /\ UntouchedInv' /\ HandleShows(m)' /\ JobShows(m)'
    BY <1>2, <1>3, <1>16, GaveUp
  <2> QED BY <1>5, <1>14, <2>1 DEF ReadsInv
<1> QED BY <1>1, <1>15, <1>16

\* One slot is written over, or its write fails, while the files stay.
LEMMA SlotShows ==
    ASSUME LsmInv, current # NoCurrent, NEW m, DiskShows(m),
           NEW version \in Versions, NEW gen \in Nat, version.gen = gen + 1,
           NEW manifest, current[SlotOf(gen)] = Slot(gen, manifest),
           NEW outcome, current' = WithSlot(version, outcome), LsmInv',
           UNCHANGED <<wals, tables, manifests>>,
           Shown(tables, wals, manifests[manifest], m),
           Shown(tables, wals, manifests[version.manifest], m)
    PROVE  DiskShows(m)'
<1>1. CASE outcome = "none"
  <2>1. current' = current
    BY <1>1 DEF WithSlot
  <2>2. Grown /\ RecsKept
    BY NewFileGrown
  <2> QED BY <2>1, <2>2, DiskStays DEF LsmInv
<1>2. CASE outcome # "none"
  <2>1. current \in [{0, 1} -> Slots \cup {Torn}]
    BY DEF LsmInv, DiskInv
  <2>2. SlotOf(gen) \in {0, 1} /\ SlotOf(version.gen) = 1 - SlotOf(gen)
        /\ (\A s \in {0, 1} : s = SlotOf(gen) \/ s = 1 - SlotOf(gen))
        /\ 1 - SlotOf(gen) \in {0, 1} /\ 1 - SlotOf(gen) # SlotOf(gen)
    BY SlotParity
  <2>3. current' = [current EXCEPT ![1 - SlotOf(gen)] =
                      IF outcome = "torn" THEN Torn ELSE Slot(version.gen, version.manifest)]
    BY <1>2, <2>2 DEF WithSlot
  <2>4. current'[SlotOf(gen)] = Slot(gen, manifest)
    BY <2>1, <2>2, <2>3
  <2>5. current'[1 - SlotOf(gen)] # Torn =>
            current'[1 - SlotOf(gen)] = Slot(version.gen, version.manifest)
    BY <2>1, <2>2, <2>3
  <2>6. Slot(gen, manifest).manifest = manifest
        /\ Slot(version.gen, version.manifest).manifest = version.manifest
    BY DEF Slot
  <2>7. Shown(tables', wals', manifests'[manifest], m)
        /\ Shown(tables', wals', manifests'[version.manifest], m)
    OBVIOUS
  <2>8. \A t \in {0, 1} : current'[t] # Torn =>
            Shown(tables', wals', manifests'[current'[t].manifest], m)
    BY <2>2, <2>4, <2>5, <2>6, <2>7
  <2>9. current' # NoCurrent
    <3>1. Slot(version.gen, version.manifest) \in Slots
      BY VersionParts DEF Slot, Slots
    <3> QED BY <2>1, <2>3, <3>1, NoCurrentIsNotWritten
  <2> QED BY <2>8, <2>9, SlotsShow
<1> QED BY <1>1, <1>2

\* What the handle and the caller have when an installation is over, or a
\* call has given up.
LEMMA PublishReads ==
    ASSUME LsmInv, LsmInv', ReadsInv, Publish
    PROVE  ReadsInv'
<1>1. PICK v : v = h.version
  OBVIOUS
<1>2. PICK next : next = job.next
  OBVIOUS
<1>3. /\ step = "publish" /\ acked' = acked
      /\ UNCHANGED <<exists, wals, tables, manifests, high>>
  BY DEF Publish
<1>4. PICK outcome \in Outcomes :
         /\ current' = WithSlot(next, outcome)
         /\ IF outcome = "done" /\ job.kind = "flush"
            THEN /\ h' = [h EXCEPT !.version = next, !.tabs = job.tabs,
                                   !.nextTable = @ + 1, !.nextManifest = @ + 1,
                                   !.mem.immutable = Tail(@)]
                 /\ job' = NoJob
                 /\ UNCHANGED <<inflight, pending>>
            ELSE ProceedOrGiveUp(outcome, "mirror", job)
  BY <1>2 DEF Publish
<1>5. /\ h # NoHandle /\ v.gen \in Nat /\ v.manifest # 0 /\ job # NoJob
      /\ next \in Versions /\ next.gen = v.gen + 1 /\ current # NoCurrent
      /\ current[SlotOf(v.gen)] = Slot(v.gen, v.manifest)
  BY <1>1, <1>2, <1>3, RunningJob
<1>6. PICK m \in Candidates : DiskShows(m) /\ HandleShows(m) /\ JobShows(m)
  BY DEF ReadsInv
<1>7. DiskShows(m)'
  <2>1. Shown(tables, wals, manifests[v.manifest], m)
    BY <1>1, <1>5, <1>6, HandleNamed
  <2>2. Shown(tables, wals, manifests[next.manifest], m)
    BY <1>2, <1>3, <1>6, JobNamed
  <2> QED BY <1>3, <1>4, <1>5, <1>6, <2>1, <2>2, SlotShows
<1>8. UntouchedInv'
  BY <1>3, <1>5, RunningHandle DEF UntouchedInv
<1>9. CASE outcome = "done" /\ job.kind = "flush"
  <2>1. PICK mem : mem = Retired(h.mem)
    OBVIOUS
  <2>2. h'.version = next /\ h'.tabs = job.tabs /\ h'.mem = mem
    <3>1. PICK old : old = h
      OBVIOUS
    <3>2. old \in Handles
      BY <1>5, <3>1, RunningHandle
    <3>3. PICK rest : rest = Tail(old.mem.immutable)
      OBVIOUS
    <3>4. h' = [old EXCEPT !.version = next, !.tabs = job.tabs,
                           !.nextTable = old.nextTable + 1,
                           !.nextManifest = old.nextManifest + 1,
                           !.mem = [old.mem EXCEPT !.immutable = rest]]
      BY <1>4, <1>9, <3>1, <3>3
    <3>5. old.mem \in MemSets
      BY <3>2, HandleParts
    <3>6. [old.mem EXCEPT !.immutable = rest] = [mutable |-> old.mem.mutable, immutable |-> rest]
      BY <3>5 DEF MemSets
    <3>7. mem = [mutable |-> old.mem.mutable, immutable |-> rest]
      BY <2>1, <3>1, <3>3 DEF Retired
    <3> QED BY <3>2, <3>4, <3>6, <3>7 DEF Handles
  <2>3. Opened(tables, wals[next.wal], next, mem, job.tabs, m)
    BY <1>2, <1>5, <1>6, <1>9, <2>1 DEF JobShows, MemAfter
  <2>4. m \in Told' /\ m \in Candidates'
    BY <1>3, <1>4, <1>5, <1>6, <1>9 DEF Told, Candidates, HandleShows
  <2>5. HandleShows(m)'
    BY <1>3, <2>2, <2>3, <2>4 DEF HandleShows
  <2>6. JobShows(m)'
    BY <1>4, <1>9 DEF JobShows
  <2> QED BY <1>7, <1>8, <2>4, <2>5, <2>6 DEF ReadsInv
<1>10. CASE Proceed("mirror", job)
  <2>1. UNCHANGED <<h, job, inflight, pending>>
    BY <1>10 DEF Proceed
  <2>2. Grown /\ RecsKept
    BY <1>3, NewFileGrown
  <2>3. HandleShows(m)'
    BY <1>3, <1>6, <2>1, <2>2, HandleShowsStill DEF LsmInv
  <2>4. JobShows(m)'
    BY <1>6, <2>1, <2>2, JobShowsStill DEF LsmInv
  <2>5. m \in Candidates'
    BY <1>3, <2>1 DEF Candidates
  <2> QED BY <1>7, <1>8, <2>3, <2>4, <2>5 DEF ReadsInv
<1>11. CASE GiveUp
  <2>1. Candidates' = Candidates /\ HandleShows(m)' /\ JobShows(m)'
    BY <1>3, <1>5, <1>11, GaveUp
  <2> QED BY <1>6, <1>7, <1>8, <2>1 DEF ReadsInv
<1> QED BY <1>4, <1>9, <1>10, <1>11 DEF ProceedOrGiveUp

\* The second slot is not written, or nobody knows.
LEMMA MirrorFailsReads ==
    ASSUME LsmInv, LsmInv', ReadsInv, MirrorFails
    PROVE  ReadsInv'
<1>1. PICK next : next = job.next
  OBVIOUS
<1>2. PICK v : v = Mirrored(next)
  OBVIOUS
<1>3. /\ step = "mirror" /\ GiveUp /\ acked' = acked
      /\ UNCHANGED <<exists, wals, tables, manifests, high>>
  BY DEF MirrorFails
<1>4. PICK outcome \in Outcomes : current' = WithSlot(v, outcome)
  BY <1>1, <1>2 DEF MirrorFails, MirrorSlot
<1>5. /\ h # NoHandle /\ next \in Versions /\ ValidVersion(next) /\ current # NoCurrent
      /\ job # NoJob
  BY <1>1, <1>3, RunningJob
<1>6. v \in Versions /\ v.gen = next.gen + 1 /\ v.manifest = next.manifest /\ next.gen \in Nat
  BY <1>2, <1>5, MirroredIs, VersionParts
<1>7. current[SlotOf(next.gen)] = Slot(next.gen, next.manifest)
  BY <1>1, <1>3, <1>5 DEF LsmInv, JobInv
<1>8. PICK m \in Candidates : DiskShows(m) /\ HandleShows(m) /\ JobShows(m)
  BY DEF ReadsInv
<1>9. Shown(tables, wals, manifests[next.manifest], m)
  BY <1>1, <1>3, <1>8, JobNamed
<1>10. DiskShows(m)'
  BY <1>3, <1>4, <1>5, <1>6, <1>7, <1>8, <1>9, SlotShows
<1>11. Candidates' = Candidates /\ UntouchedInv' /\ HandleShows(m)' /\ JobShows(m)'
  BY <1>3, <1>5, GaveUp
<1> QED BY <1>8, <1>10, <1>11 DEF ReadsInv

\* Both slots name the new version set, and a reclaim pass leaves its files.
LEMMA FinishShows ==
    ASSUME LsmInv, LsmInv', step = "mirror", NEW next, next = job.next,
           NEW v, v = Mirrored(next), current' = WithSlot(v, "done"),
           \A i \in DOMAIN tables' : tables'[i] = tables[i],
           \A i \in DOMAIN next.tables : next.tables[i].id \in DOMAIN tables',
           \A i \in DOMAIN wals' : wals'[i] = wals[i], next.wal \in DOMAIN wals',
           manifests' \in Reclaimed(manifests, {next.manifest}),
           NEW m, JobShows(m)
    PROVE  /\ DiskShows(m)'
           /\ Opened(tables', wals'[v.wal], v, h.mem, job.tabs, m)
<1>1. /\ next \in Versions /\ ValidVersion(next) /\ FilesOf(next) /\ job # NoJob
      /\ next.manifest \in DOMAIN manifests
      /\ manifests[next.manifest] = [next EXCEPT !.gen = 0] /\ current # NoCurrent
  BY RunningJob
<1>2. /\ v \in Versions /\ v.gen = next.gen + 1 /\ v.manifest = next.manifest
      /\ v.durable = next.durable /\ v.wal = next.wal /\ v.tables = next.tables
      /\ next.gen \in Nat
  <2>1. next.gen \in Nat
    BY <1>1, VersionParts
  <2> QED BY <1>1, <2>1, MirroredIs
<1>3. current[SlotOf(next.gen)] = Slot(next.gen, next.manifest) /\ job.kind # "flush"
  BY <1>1 DEF LsmInv, JobInv
<1>4. PICK mem : mem = h.mem
  OBVIOUS
<1>5. PICK tabs : tabs = job.tabs
  OBVIOUS
<1>6. Opened(tables, wals[next.wal], next, mem, tabs, m)
  BY <1>1, <1>3, <1>4, <1>5 DEF JobShows, MemAfter
<1>7. wals'[next.wal] = wals[next.wal] /\ wals'[next.wal] # Torn
  BY <1>1 DEF FilesOf, Complete
<1>8. \A i \in DOMAIN next.tables : tables'[next.tables[i].id] = tables[next.tables[i].id]
  OBVIOUS
<1>9. Opened(tables', wals'[next.wal], v, mem, tabs, m)
  BY <1>1, <1>2, <1>6, <1>7, <1>8, KeptOpened DEF LsmInv
<1>10. manifests'[next.manifest] = manifests[next.manifest]
  <2>1. manifests \in Files(Versions) /\ {next.manifest} \in SUBSET DOMAIN manifests
    BY <1>1 DEF LsmInv, DiskInv
  <2>2. /\ {next.manifest} \subseteq DOMAIN manifests'
        /\ \A i \in DOMAIN manifests' : manifests'[i] = manifests[i]
    BY <2>1, ReclaimedIs
  <2> QED BY <2>2
<1>11. PICK u : u = manifests'[next.manifest]
  OBVIOUS
<1>12. u.durable = v.durable /\ u.tables = v.tables /\ u.wal = v.wal
  BY <1>1, <1>2, <1>10, <1>11 DEF Versions
<1>13. PICK ts : ts = tables'
  OBVIOUS
<1>14. PICK ws : ws = wals'
  OBVIOUS
<1>15. ws[v.wal] \in WalSegments
  BY <1>1, <1>2, <1>7, <1>14, WholeFile DEF LsmInv, DiskInv, FilesOf, Complete
<1>16. Opened(ts, ws[v.wal], v, mem, tabs, m)
  BY <1>2, <1>9, <1>13, <1>14
<1>17. Shown(ts, ws, u, m)
  BY <1>12, <1>15, <1>16, SameShown
<1>18. current \in [{0, 1} -> Slots \cup {Torn}]
  BY <1>1 DEF LsmInv, DiskInv
<1>19. /\ SlotOf(next.gen) \in {0, 1} /\ SlotOf(v.gen) = 1 - SlotOf(next.gen)
       /\ (\A s \in {0, 1} : s = SlotOf(next.gen) \/ s = 1 - SlotOf(next.gen))
       /\ 1 - SlotOf(next.gen) \in {0, 1} /\ 1 - SlotOf(next.gen) # SlotOf(next.gen)
  BY <1>2, SlotParity
<1>20. current' = [current EXCEPT ![1 - SlotOf(next.gen)] = Slot(v.gen, v.manifest)]
  BY <1>19 DEF WithSlot
<1>21. \A s \in {0, 1} : current'[s].manifest = next.manifest
  <2>1. current'[SlotOf(next.gen)] = Slot(next.gen, next.manifest)
    BY <1>3, <1>18, <1>19, <1>20
  <2>2. current'[1 - SlotOf(next.gen)] = Slot(v.gen, v.manifest)
    BY <1>18, <1>19, <1>20
  <2> QED BY <1>2, <1>19, <2>1, <2>2 DEF Slot
<1>22. current' # NoCurrent
  <2>1. Slot(v.gen, v.manifest) \in Slots
    BY <1>2, VersionParts DEF Slot, Slots
  <2> QED BY <1>18, <1>20, <2>1, NoCurrentIsNotWritten
<1>23. DiskShows(m)'
  BY <1>11, <1>13, <1>14, <1>17, <1>21, <1>22, SlotsShow
<1> QED BY <1>4, <1>5, <1>13, <1>14, <1>16, <1>23

\* The compacted version set takes over.
LEMMA FinishCompactionReads ==
    ASSUME LsmInv, LsmInv', ReadsInv, FinishCompaction
    PROVE  ReadsInv'
<1>1. PICK next : next = job.next
  OBVIOUS
<1>2. PICK v : v = Mirrored(next)
  OBVIOUS
<1>3. /\ step = "mirror" /\ job.kind = "compact" /\ current' = WithSlot(v, "done")
      /\ h' = [h EXCEPT !.version = v, !.tabs = job.tabs,
                        !.nextTable = @ + Len(job.tabs), !.nextManifest = @ + 1]
      /\ tables' \in Reclaimed(tables, {d.id : d \in Range(next.tables)})
      /\ manifests' \in Reclaimed(manifests, {next.manifest})
      /\ job' = NoJob /\ UNCHANGED <<exists, wals, inflight, acked, pending>>
  BY <1>1, <1>2 DEF FinishCompaction, MirrorSlot
<1>4. h # NoHandle /\ next \in Versions /\ FilesOf(next) /\ job # NoJob
  BY <1>1, <1>3, RunningJob
<1>5. /\ \A i \in DOMAIN tables' : tables'[i] = tables[i]
      /\ \A i \in DOMAIN next.tables : next.tables[i].id \in DOMAIN tables'
  <2>1. PICK active : active = {d.id : d \in Range(next.tables)}
    OBVIOUS
  <2>2. active = {next.tables[i].id : i \in DOMAIN next.tables}
    BY <2>1 DEF Range
  <2>3. \A i \in DOMAIN next.tables : next.tables[i].id \in active
    BY <2>2
  <2>4. active \in SUBSET DOMAIN tables
    <3>1. \A i \in DOMAIN next.tables : next.tables[i].id \in DOMAIN tables
      BY <1>4 DEF FilesOf, Complete
    <3> QED BY <2>2, <3>1
  <2>5. tables \in Files(SortedTables) /\ tables' \in Reclaimed(tables, active)
    BY <1>3, <2>1 DEF LsmInv, DiskInv
  <2>6. active \subseteq DOMAIN tables' /\ \A i \in DOMAIN tables' : tables'[i] = tables[i]
    BY <2>4, <2>5, ReclaimedIs
  <2> QED BY <2>3, <2>6
<1>6. next.wal \in DOMAIN wals' /\ \A i \in DOMAIN wals' : wals'[i] = wals[i]
  BY <1>3, <1>4 DEF FilesOf, Complete
<1>7. PICK m \in Candidates : HandleShows(m) /\ JobShows(m)
  BY DEF ReadsInv
<1>8. DiskShows(m)' /\ Opened(tables', wals'[v.wal], v, h.mem, job.tabs, m)
  BY <1>1, <1>2, <1>3, <1>5, <1>6, <1>7, FinishShows
<1>9. h'.version = v /\ h'.tabs = job.tabs /\ h'.mem = h.mem
  <2>1. h \in Handles
    BY <1>4, RunningHandle
  <2> QED BY <1>3, <2>1 DEF Handles
<1>10. m \in Told' /\ m \in Candidates'
  BY <1>3, <1>4, <1>7 DEF Told, Candidates, HandleShows
<1>11. HandleShows(m)'
  BY <1>8, <1>9, <1>10 DEF HandleShows
<1>12. JobShows(m)'
  BY <1>3 DEF JobShows
<1>13. UntouchedInv'
  BY <1>3, <1>4, RunningHandle DEF UntouchedInv
<1> QED BY <1>8, <1>10, <1>11, <1>12, <1>13 DEF ReadsInv

\* The new segment takes over, and the call returns.
LEMMA FinishRotationReads ==
    ASSUME LsmInv, LsmInv', ReadsInv, FinishRotation
    PROVE  ReadsInv'
<1>1. PICK next : next = job.next
  OBVIOUS
<1>2. PICK v : v = Mirrored(next)
  OBVIOUS
<1>3. /\ step = "mirror" /\ job.kind = "rotate" /\ current' = WithSlot(v, "done")
      /\ h' = [h EXCEPT !.version = v, !.nextWal = @ + 1, !.nextManifest = @ + 1]
      /\ wals' \in Reclaimed(wals, {next.wal})
      /\ manifests' \in Reclaimed(manifests, {next.manifest})
      /\ Acknowledge /\ UNCHANGED <<exists, tables, high>>
  BY <1>1, <1>2 DEF FinishRotation, MirrorSlot
<1>4. h # NoHandle /\ next \in Versions /\ FilesOf(next) /\ job # NoJob
  BY <1>1, <1>3, RunningJob
<1>5. /\ \A i \in DOMAIN tables' : tables'[i] = tables[i]
      /\ \A i \in DOMAIN next.tables : next.tables[i].id \in DOMAIN tables'
  BY <1>3, <1>4 DEF FilesOf, Complete
<1>6. next.wal \in DOMAIN wals' /\ \A i \in DOMAIN wals' : wals'[i] = wals[i]
  <2>1. wals \in Files(WalSegments) /\ {next.wal} \in SUBSET DOMAIN wals
    BY <1>4 DEF LsmInv, DiskInv, FilesOf, Complete
  <2>2. {next.wal} \subseteq DOMAIN wals' /\ \A i \in DOMAIN wals' : wals'[i] = wals[i]
    BY <1>3, <2>1, ReclaimedIs
  <2> QED BY <2>2
<1>7. PICK m \in Candidates : HandleShows(m) /\ JobShows(m)
  BY DEF ReadsInv
<1>8. DiskShows(m)' /\ Opened(tables', wals'[v.wal], v, h.mem, job.tabs, m)
  BY <1>1, <1>2, <1>3, <1>5, <1>6, <1>7, FinishShows
<1>9. h'.version = v /\ h'.tabs = h.tabs /\ h'.mem = h.mem /\ job.tabs = h.tabs
  <2>1. h \in Handles
    BY <1>4, RunningHandle
  <2>2. job.tabs = h.tabs
    BY <1>3, <1>4, <1>7 DEF JobShows
  <2> QED BY <1>3, <2>1, <2>2 DEF Handles
<1>10. m \in Told' /\ m \in Candidates' /\ job' = NoJob
  <2>1. step # "idle" /\ m \in Told
    BY <1>3, <1>4, <1>7 DEF HandleShows
  <2> QED BY <1>3, <2>1, AckedIs
<1>11. HandleShows(m)'
  BY <1>8, <1>9, <1>10 DEF HandleShows
<1>12. JobShows(m)'
  BY <1>10 DEF JobShows
<1>13. UntouchedInv'
  BY <1>3, <1>4, RunningHandle DEF UntouchedInv
<1> QED BY <1>8, <1>10, <1>11, <1>12, <1>13 DEF ReadsInv

\* The SSTables of a version set whose files are there.
LEMMA TablesInIs ==
    ASSUME DiskInv, NEW v \in Versions, FilesOf(v)
    PROVE  TablesIn(tables, v) \in Seq(Tables)
BY TablesOfIs, Zenon DEF TablesOf, TablesIn

\* One more record in the segment of a version set that shows a map.
LEMMA AppendShown ==
    ASSUME LsmInv, NEW v \in Versions, FilesOf(v), NEW m, Shown(tables, wals, v, m),
           NEW op \in Op, NEW w, w = wals[v.wal], NEW x \in WalSegments,
           x.first = w.first, x.recs = Append(w.recs, op), WalNext(w) + 1 <= MaxSequence,
           tables' = tables, wals'[v.wal] = x
    PROVE  Shown(tables', wals', v, Effect(m, op))
<1>1. w \in WalSegments /\ v.durable < WalNext(w) /\ v.durable \in Nat
  <2>1. v.wal \in DOMAIN wals /\ wals[v.wal] # Torn /\ v.durable < WalNext(w)
    BY DEF FilesOf, Complete
  <2> QED BY <2>1, WholeFile, VersionParts DEF LsmInv, DiskInv
<1>2. PICK n \in Nat : n = Len(w.recs)
  BY <1>1, WalNextIs
<1>3. PICK seq : seq = WalNext(w)
  OBVIOUS
<1>4. seq \in 1 .. MaxSequence /\ WalNext(w) <= MaxSequence
  <2>1. seq \in Nat /\ seq + 1 <= MaxSequence /\ v.durable < seq /\ MaxSequence \in Nat
    BY <1>1, <1>3, WalNextIs, BoundsAssumption
  <2> QED BY <1>1, <1>3, <2>1
<1>5. PICK ts : ts = tables
  OBVIOUS
<1>6. PICK f : f = ReplayFirst(v, w, n)
  OBVIOUS
<1>7. PICK tabs : tabs = TablesIn(ts, v)
  OBVIOUS
<1>8. Opened(ts, w, v, f, tabs, m)
  BY <1>2, <1>5, <1>6, <1>7, Zenon DEF Shown
<1>9. f \in MemSets
  <2>1. n \in 0 .. Len(w.recs)
    BY <1>2
  <2> QED BY <1>1, <1>4, <1>6, <2>1, ReplayMem
<1>10. tabs \in Seq(Tables)
  BY <1>5, <1>7, TablesInIs DEF LsmInv
<1>11. Opened(ts, x, v, ApplyToMem(f, seq, op), tabs, Effect(m, op))
  BY <1>1, <1>3, <1>4, <1>8, <1>9, <1>10, AppendOpened, ZenonT(60)
<1>12. PICK ws : ws = wals'
  OBVIOUS
<1>13. Opened(ts, ws[v.wal], v, ApplyToMem(f, seq, op), tabs, Effect(m, op))
  BY <1>11, <1>12
<1>14. Shown(ts, ws, v, Effect(m, op))
  BY <1>13, ShownIs
<1> QED BY <1>5, <1>12, <1>14

\* The newest slot names the version set of the handle.
LEMMA NewestIsInstalled ==
    ASSUME LsmInv, h # NoHandle, step # "mirror", current # NoCurrent,
           NEW s \in {0, 1}, Newest(s), h.version.manifest # 0
    PROVE  current[s].manifest = h.version.manifest
<1>1. PICK v : v = h.version
  OBVIOUS
<1>2. v.gen \in Nat
  BY <1>1, RunningHandle, VersionParts
<1>3. PICK a : a = SlotOf(v.gen)
  OBVIOUS
<1>4. /\ current[a] = Slot(v.gen, v.manifest)
      /\ current[1 - a] # Torn => current[1 - a].gen <= v.gen
  BY <1>1, <1>3 DEF LsmInv, HandleInv, InstalledInv
<1>5. a \in {0, 1} /\ (s = a \/ s = 1 - a) /\ 1 - (1 - a) = a /\ 1 - a \in {0, 1}
  BY <1>2, <1>3, SlotParity
<1>6. current[a].manifest = v.manifest /\ current[a].gen = v.gen /\ current[a] # Torn
  <2>1. current[a].manifest = v.manifest /\ current[a].gen = v.gen
    BY <1>4 DEF Slot
  <2>2. Slot(v.gen, v.manifest) \in Slots
    BY <1>1, <1>2, RunningHandle, VersionParts DEF Slot, Slots
  <2> QED BY <1>4, <2>1, <2>2, TornIsNoContent
<1>7. CASE s = a
  BY <1>1, <1>6, <1>7
<1>8. CASE s = 1 - a
  <2>1. current[s] # Torn /\ current[a].gen <= current[s].gen
    BY <1>5, <1>6, <1>8 DEF Newest
  <2>2. current[s].gen \in Nat
    BY <2>1, SlotsAre DEF LsmInv
  <2>3. current[s].gen = v.gen
    BY <1>2, <1>4, <1>6, <1>8, <2>1, <2>2
  <2>4. current[s] = current[a]
    <3>1. current[0] # Torn /\ current[1] # Torn /\ current[0].gen = current[1].gen
          /\ current[0].gen \in Nat
      BY <1>2, <1>5, <1>6, <1>8, <2>1, <2>3
    <3>2. current[0] = current[1]
      BY <3>1 DEF LsmInv, SlotsInv
    <3> QED BY <1>5, <1>8, <3>2
  <2> QED BY <1>1, <1>6, <2>4
<1> QED BY <1>5, <1>7, <1>8

\* A record that is appended to the handle's segment is on disk.
LEMMA AppendDisk ==
    ASSUME LsmInv, LsmInv', h # NoHandle, step = "idle", NEW m, DiskShows(m), HandleShows(m),
           NEW op \in Op, NEW w, w = wals[h.version.wal], NEW x \in WalSegments,
           x.first = w.first, x.recs = Append(w.recs, op), WalNext(w) + 1 <= MaxSequence,
           wals' = [wals EXCEPT ![h.version.wal] = x], Grown,
           UNCHANGED <<tables, manifests, current>>
    PROVE  DiskShows(Effect(m, op))'
<1>1. PICK v : v = h.version
  OBVIOUS
<1>2. v \in Versions /\ FilesOf(v) /\ v.wal \in DOMAIN wals
  BY <1>1, RunningHandle
<1>3. wals'[v.wal] = x /\ w = wals[v.wal]
  BY <1>1, <1>2
<1>4. PICK e : e = Effect(m, op)
  OBVIOUS
<1>5. ASSUME WalOnly', Complete(wals, 1)'
      PROVE  (FilesOf(BaseVersion(0)))' /\ Shown(tables', wals', BaseVersion(0), e)
  <2>1. WalOnly
    BY <1>5 DEF WalOnly
  <2>2. v.manifest = 0
    BY <1>1, <2>1 DEF WalOnly, LsmInv, HandleInv, InstalledInv
  <2>3. v = BaseVersion(0)
    BY <1>1, <2>2 DEF LsmInv, HandleInv, WalOnlyInv
  <2>4. v.wal = 1
    BY <2>3, BaseVersionIs
  <2>5. Complete(wals, 1)
    BY <1>2, <2>4 DEF FilesOf
  <2>6. Shown(tables, wals, v, m)
    BY <2>1, <2>3, <2>5 DEF DiskShows
  <2>7. Shown(tables', wals', v, Effect(m, op))
    BY <1>2, <1>3, <2>6, AppendShown
  <2>8. FilesOf(v)'
    BY <1>2, GrownFiles DEF LsmInv
  <2>9. (FilesOf(BaseVersion(0)))'
    BY <1>1, <2>3, <2>8
  <2> QED BY <1>4, <2>3, <2>7, <2>9
<1>6. ASSUME current' # NoCurrent, NEW s \in {0, 1}, NEW t \in {0, 1},
             Newest(s)', current'[t] # Torn,
             NEW a, a = manifests'[current'[s].manifest],
             NEW u, u = manifests'[current'[t].manifest], u.wal = a.wal
      PROVE  Shown(tables', wals', u, e)
  <2>1. Newest(s) /\ current # NoCurrent /\ current[t] # Torn
    BY <1>6 DEF Newest
  <2>2. a = manifests[current[s].manifest] /\ u = manifests[current[t].manifest]
    BY <1>6
  <2>3. Shown(tables, wals, u, m)
    BY <1>6, <2>1, <2>2 DEF DiskShows
  <2>4. v.manifest # 0
    BY <1>1, <2>1 DEF LsmInv, HandleInv, WalOnlyInv
  <2>5. a = manifests[v.manifest]
    BY <1>1, <2>1, <2>2, <2>4, NewestIsInstalled
  <2>6. a.wal = v.wal
    <3>1. v = [a EXCEPT !.gen = v.gen, !.watermark = v.watermark] /\ Complete(manifests, v.manifest)
      BY <1>1, <2>4, <2>5 DEF LsmInv, HandleInv, InstalledInv
    <3>2. a \in Versions
      BY <2>5, <3>1, WholeFile DEF LsmInv, DiskInv, Complete
    <3> QED BY <3>1, <3>2 DEF Versions
  <2>7. u \in Versions /\ FilesOf(u)
    <3>1. /\ current[t].manifest \in DOMAIN manifests /\ u # Torn /\ FilesOf(u)
      BY <2>1, <2>2, SlotNames DEF LsmInv
    <3> QED BY <2>2, <3>1, WholeFile DEF LsmInv, DiskInv
  <2>8. u.wal = v.wal
    BY <1>6, <2>6
  <2>9. w = wals[u.wal] /\ wals'[u.wal] = x
    BY <1>3, <2>8
  <2>10. Shown(tables', wals', u, Effect(m, op))
    BY <2>3, <2>7, <2>9, AppendShown
  <2> QED BY <1>4, <2>10
<1>7. DiskShows(e)'
  BY <1>5, <1>6 DEF DiskShows
<1> QED BY <1>4, <1>7

\* The mutation is on disk, or not, when the append returns or fails.
LEMMA MutateReads ==
    ASSUME NEW op \in Op, LsmInv, LsmInv', ReadsInv, Mutate(op)
    PROVE  ReadsInv'
<1>1. PICK v : v = h.version
  OBVIOUS
<1>2. PICK w : w = wals[v.wal]
  OBVIOUS
<1>3. PICK seq : seq = WalNext(w)
  OBVIOUS
<1>4. /\ h # NoHandle /\ step = "idle" /\ seq + 1 <= MaxSequence
      /\ UNCHANGED <<exists, tables, manifests, current, high>> /\ acked' = acked
      /\ job' = job
  BY <1>1, <1>2, <1>3 DEF Mutate, ActiveWal
<1>5. inflight = {} /\ pending = {} /\ job = NoJob /\ acked \in Map /\ exists
  BY <1>4, RunningHandle DEF LsmInv, StepInv, Between
<1>6. PICK m \in Candidates : DiskShows(m) /\ HandleShows(m)
  BY DEF ReadsInv
<1>7. m = acked
  BY <1>5, <1>6 DEF Candidates
<1>8. /\ v \in Versions /\ v.durable \in Nat /\ v.wal \in DOMAIN wals /\ w \in WalSegments
      /\ h \in Handles /\ h.mem \in MemSets /\ h.tabs \in Seq(Tables) /\ v.durable < seq
      /\ w # Torn
  BY <1>1, <1>2, <1>3, <1>4, RunningHandle
<1>9. seq \in 1 .. MaxSequence
  <2>1. seq \in Nat /\ MaxSequence \in Nat
    BY <1>3, <1>8, WalNextIs, BoundsAssumption
  <2> QED BY <1>4, <1>8, <2>1
<1>10. ASSUME NEW outcome \in Outcomes, NEW x, x = WithRecord(w, op, outcome),
              wals' = [wals EXCEPT ![v.wal] = x]
       PROVE  /\ x \in WalSegments /\ x.first = w.first /\ Grown
              /\ outcome \in {"done", "whole"} =>
                    x.recs = Append(w.recs, op) /\ DiskShows(Effect(m, op))'
              /\ outcome \in {"none", "torn"} => DiskShows(m)'
  <2>1. /\ x \in WalSegments /\ x.first = w.first
        /\ WalNext(w) <= WalNext(x) /\ WalNext(x) <= WalNext(w) + 1
        /\ outcome \in {"done", "whole"} => x.recs = Append(w.recs, op)
        /\ outcome \in {"none", "torn"} => x.recs = w.recs
    BY <1>8, <1>10, WithRecordIs
  <2>2. WalNext(x) <= MaxSequence
    <3>1. WalNext(x) \in Nat /\ MaxSequence \in Nat
      BY <2>1, WalNextIs, BoundsAssumption
    <3> QED BY <1>3, <1>4, <1>9, <2>1, <3>1
  <2>3. Grown
    <3>1. x.first = wals[v.wal].first /\ WalNext(wals[v.wal]) <= WalNext(x) /\ wals[v.wal] # Torn
      BY <1>2, <1>8, <2>1
    <3> QED BY <1>4, <1>8, <1>10, <2>1, <2>2, <3>1, WalUpdate DEF LsmInv
  <2>4. ASSUME outcome \in {"done", "whole"} PROVE DiskShows(Effect(m, op))'
    <3>1. x.recs = Append(w.recs, op) /\ WalNext(w) + 1 <= MaxSequence
      BY <1>3, <1>4, <2>1, <2>4
    <3>2. w = wals[h.version.wal] /\ wals' = [wals EXCEPT ![h.version.wal] = x]
      BY <1>1, <1>2, <1>10
    <3> QED BY <1>4, <1>6, <2>1, <2>3, <3>1, <3>2, AppendDisk
  <2>5. ASSUME outcome \in {"none", "torn"} PROVE DiskShows(m)'
    <3>1. x.recs = w.recs /\ x # Torn
      BY <2>1, <2>5, TornIsNoContent
    <3>2. RecsKept
      BY <1>2, <1>8, <1>10, <2>1, <3>1 DEF RecsKept
    <3>3. DOMAIN wals' = DOMAIN wals
      BY <1>10
    <3> QED BY <1>4, <1>6, <2>3, <3>2, <3>3, DiskStays DEF LsmInv
  <2> QED BY <2>1, <2>3, <2>4, <2>5
<1>11. UntouchedInv' /\ JobShows(m)' /\ JobShows(Effect(m, op))'
  BY <1>4, <1>5 DEF UntouchedInv, JobShows
<1>12. CASE /\ h' = [h EXCEPT !.mem = ApplyToMem(@, seq, op)]
            /\ wals' = [wals EXCEPT ![v.wal] = WithRecord(@, op, "done")]
            /\ inflight' = {op}
  <2>1. PICK x : x = WithRecord(w, op, "done")
    OBVIOUS
  <2>2. wals' = [wals EXCEPT ![v.wal] = x] /\ "done" \in Outcomes
    BY <1>2, <1>12, <2>1 DEF Outcomes
  <2>3. /\ x \in WalSegments /\ x.first = w.first /\ x.recs = Append(w.recs, op)
        /\ DiskShows(Effect(m, op))'
    BY <1>10, <2>1, <2>2
  <2>4. PICK mem : mem = h.mem
    OBVIOUS
  <2>5. PICK tabs : tabs = h.tabs
    OBVIOUS
  <2>6. PICK ts : ts = tables
    OBVIOUS
  <2>7. Opened(ts, w, v, mem, tabs, m)
    BY <1>1, <1>2, <1>4, <1>6, <2>4, <2>5, <2>6 DEF HandleShows
  <2>8. mem \in MemSets /\ tabs \in Seq(Tables)
    BY <1>8, <2>4, <2>5
  <2>9. Opened(ts, x, v, ApplyToMem(mem, seq, op), tabs, Effect(m, op))
    BY <1>3, <1>8, <1>9, <2>3, <2>7, <2>8, AppendOpened, ZenonT(60)
  <2>10. h'.version = v /\ h'.mem = ApplyToMem(mem, seq, op) /\ h'.tabs = tabs
    BY <1>1, <1>8, <1>12, <2>4, <2>5 DEF Handles
  <2>11. wals'[v.wal] = x
    BY <1>8, <2>2
  <2>12. Effect(m, op) \in Told' /\ Effect(m, op) \in Candidates'
    BY <1>4, <1>7, <1>12 DEF Told, Candidates
  <2>13. HandleShows(Effect(m, op))'
    BY <1>4, <2>6, <2>9, <2>10, <2>11, <2>12 DEF HandleShows
  <2> QED BY <1>11, <2>3, <2>12, <2>13 DEF ReadsInv
<1>13. ASSUME NEW outcome \in Outcomes \ {"done"},
              wals' = [wals EXCEPT ![v.wal] = WithRecord(@, op, outcome)],
              h' = NoHandle, pending' = {op}
       PROVE  ReadsInv'
  <2>1. PICK x : x = WithRecord(w, op, outcome)
    OBVIOUS
  <2>2. wals' = [wals EXCEPT ![v.wal] = x]
    BY <1>2, <1>13, <2>1
  <2>3. /\ outcome = "whole" => DiskShows(Effect(m, op))'
        /\ outcome \in {"none", "torn"} => DiskShows(m)'
    BY <1>10, <2>1, <2>2
  <2>4. m \in Candidates' /\ Effect(m, op) \in Candidates'
    BY <1>4, <1>7, <1>13 DEF Candidates
  <2>5. HandleShows(m)' /\ HandleShows(Effect(m, op))'
    BY <1>13 DEF HandleShows
  <2>6. outcome = "whole" \/ outcome \in {"none", "torn"}
    BY <1>13 DEF Outcomes
  <2> QED BY <1>11, <2>3, <2>4, <2>5, <2>6 DEF ReadsInv
<1>14. \/ /\ h' = [h EXCEPT !.mem = ApplyToMem(@, seq, op)]
          /\ wals' = [wals EXCEPT ![v.wal] = WithRecord(@, op, "done")]
          /\ inflight' = {op}
       \/ /\ \E outcome \in Outcomes \ {"done"} :
                wals' = [wals EXCEPT ![v.wal] = WithRecord(@, op, outcome)]
          /\ h' = NoHandle /\ pending' = {op}
  BY <1>1, <1>2, <1>3 DEF Mutate, ActiveWal
<1> QED BY <1>12, <1>13, <1>14

\* Between two calls, the handle is lost.
LEMMA LostReads ==
    ASSUME LsmInv, LsmInv', ReadsInv, step = "idle", h' = NoHandle, Grown, RecsKept,
           DOMAIN wals' = DOMAIN wals,
           UNCHANGED <<exists, current, acked, inflight, pending, job>>
    PROVE  ReadsInv'
<1>1. PICK m \in Candidates : DiskShows(m)
  BY DEF ReadsInv
<1>2. DiskShows(m)'
  BY <1>1, DiskStays DEF LsmInv
<1>3. m \in Candidates' /\ UntouchedInv'
  BY <1>1 DEF ReadsInv, Candidates, UntouchedInv
<1>4. job' = NoJob
  BY DEF LsmInv, StepInv, Between
<1>5. HandleShows(m)' /\ JobShows(m)'
  BY <1>4 DEF HandleShows, JobShows
<1> QED BY <1>2, <1>3, <1>5 DEF ReadsInv

\* A refused open changes nothing on disk; nor does the end of the sequence.
LEMMA RefusedReads ==
    ASSUME LsmInv, LsmInv', ReadsInv, OpenRefused \/ MutateExhausted
    PROVE  ReadsInv'
<1>1. /\ step = "idle" /\ h' = NoHandle /\ UNCHANGED disk
      /\ UNCHANGED <<acked, inflight, pending, job>>
  BY DEF OpenRefused, MutateExhausted
<1>2. UNCHANGED <<exists, wals, tables, manifests, current>>
  BY <1>1 DEF disk
<1>3. Grown /\ RecsKept
  BY <1>2, NewFileGrown
<1> QED BY <1>1, <1>2, <1>3, LostReads

\* A crash leaves the disk alone.
LEMMA CrashReads ==
    ASSUME LsmInv, LsmInv', ReadsInv, Crash
    PROVE  ReadsInv'
<1>1. h # NoHandle /\ GiveUp /\ acked' = acked
      /\ UNCHANGED <<exists, wals, tables, manifests, current>>
  BY DEF Crash, disk
<1>2. Grown /\ RecsKept
  BY <1>1, NewFileGrown
<1>3. PICK m \in Candidates : DiskShows(m) /\ HandleShows(m) /\ JobShows(m)
  BY DEF ReadsInv
<1>4. DiskShows(m)'
  BY <1>1, <1>2, <1>3, DiskStays DEF LsmInv
<1>5. Candidates' = Candidates /\ UntouchedInv' /\ HandleShows(m)' /\ JobShows(m)'
  BY <1>1, GaveUp
<1> QED BY <1>3, <1>4, <1>5 DEF ReadsInv

\* The records stay when a torn tail is cut off.
LEMMA TailKept ==
    ASSUME LsmInv, Opens, NEW tail \in {FALSE, wals[Loaded.wal].tail},
           wals' = [wals EXCEPT ![Loaded.wal].tail = tail],
           UNCHANGED <<exists, tables, manifests, current, high>>
    PROVE  Grown /\ RecsKept /\ DOMAIN wals' = DOMAIN wals
<1>1. PICK id : id = Loaded.wal
  OBVIOUS
<1>2. id \in DOMAIN wals /\ wals[id] # Torn
  BY <1>1 DEF Opens, FilesOf, Complete
<1>3. wals[id] \in WalSegments
  BY <1>2, WholeFile DEF LsmInv, DiskInv
<1>4. tail \in BOOLEAN
  BY <1>1, <1>3 DEF WalSegments
<1>5. wals' = [wals EXCEPT ![id].tail = tail]
  BY <1>1
<1>6. Grown /\ DOMAIN wals' = DOMAIN wals
  BY <1>2, <1>4, <1>5, TailInv DEF LsmInv
<1>7. RecsKept
  <2>1. PICK x : x = [wals[id] EXCEPT !.tail = tail]
    OBVIOUS
  <2>2. x \in WalSegments /\ x.first = wals[id].first /\ x.recs = wals[id].recs
    BY <1>3, <1>4, <2>1 DEF WalSegments
  <2>3. wals' = [wals EXCEPT ![id] = x] /\ x # Torn
    BY <1>5, <2>1, <2>2, TornIsNoContent
  <2> QED BY <1>2, <2>2, <2>3 DEF RecsKept
<1> QED BY <1>6, <1>7

\* An open that fails may have cut the tail off.
LEMMA OpenFailsReads ==
    ASSUME LsmInv, LsmInv', ReadsInv, OpenFails
    PROVE  ReadsInv'
<1>1. PICK tail \in {FALSE, wals[Loaded.wal].tail} :
         wals' = [wals EXCEPT ![Loaded.wal].tail = tail]
  BY DEF OpenFails
<1>2. /\ step = "idle" /\ Opens /\ h' = NoHandle
      /\ UNCHANGED <<exists, tables, manifests, current, high>>
      /\ UNCHANGED <<job, inflight, acked, pending>>
  BY DEF OpenFails
<1>3. Grown /\ RecsKept /\ DOMAIN wals' = DOMAIN wals
  BY <1>1, <1>2, TailKept
<1> QED BY <1>2, <1>3, LostReads

\* What a directory is opened as shows the map.
LEMMA LoadedShows ==
    ASSUME LsmInv, Opens, NEW m, DiskShows(m)
    PROVE  /\ Loaded \in Versions /\ FilesOf(Loaded) /\ exists
           /\ Shown(tables, wals, Loaded, m)
<1>1. Loaded \in Versions /\ FilesOf(Loaded) /\ exists
  BY OpenedIds DEF LsmInv
<1>2. CASE current = NoCurrent
  <2>1. Loaded = BaseVersion(0)
    BY <1>2, OpenedIds DEF LsmInv
  <2>2. WalOnly
    BY <1>2 DEF Opens, Loadable, HasVersionSet
  <2>3. Complete(wals, 1)
    BY <1>1, <2>1, BaseVersionIs DEF FilesOf
  <2>4. Shown(tables, wals, BaseVersion(0), m)
    BY <2>2, <2>3 DEF DiskShows
  <2>5. PICK v : v = BaseVersion(0)
    OBVIOUS
  <2>6. Shown(tables, wals, v, m)
    BY <2>4, <2>5
  <2> QED BY <1>1, <2>1, <2>5, <2>6
<1>3. CASE current # NoCurrent
  <2>1. PICK s \in {0, 1} : Newest(s)
    BY <1>3, OpenedIds DEF LsmInv
  <2>2. PICK a : a = manifests[current[s].manifest]
    OBVIOUS
  <2>3. PICK l : l = Loaded
    OBVIOUS
  <2>4. a \in Versions /\ l = [a EXCEPT !.gen = current[s].gen]
    BY <1>3, <2>1, <2>2, <2>3, LoadedIs DEF LsmInv
  <2>5. l.durable = a.durable /\ l.tables = a.tables /\ l.wal = a.wal
    BY <2>4 DEF Versions
  <2>6. Shown(tables, wals, a, m)
    BY <1>3, <2>1, <2>2 DEF DiskShows, Newest
  <2>7. PICK ts : ts = tables
    OBVIOUS
  <2>8. PICK ws : ws = wals
    OBVIOUS
  <2>9. PICK f, t : Opened(ts, ws[a.wal], a, f, t, m)
    BY <2>6, <2>7, <2>8, ShownIs
  <2>10. ws[a.wal] \in WalSegments
    BY <1>1, <2>3, <2>5, <2>8, WholeFile DEF LsmInv, DiskInv, FilesOf, Complete
  <2>11. Shown(ts, ws, l, m)
    BY <2>5, <2>9, <2>10, SameShown
  <2> QED BY <1>1, <2>3, <2>7, <2>8, <2>11
<1> QED BY <1>2, <1>3

\* So does the handle that open_existing builds for a version set.
LEMMA HandleOfShows ==
    ASSUME LsmInv, NEW l \in Versions, FilesOf(l), NEW m, Shown(tables, wals, l, m),
           NEW g, g = HandleOf(l)
    PROVE  /\ Opened(tables, wals[g.version.wal], g.version, g.mem, g.tabs, m)
           /\ g.version.wal = l.wal /\ g.version.tables = l.tables
           /\ Contents(g) = m
<1>1. PICK floor : floor = AllocationFloor(l)
  OBVIOUS
<1>2. PICK v : v = [l EXCEPT !.watermark = floor]
  OBVIOUS
<1>3. v.durable = l.durable /\ v.tables = l.tables /\ v.wal = l.wal
  BY <1>2 DEF Versions
<1>4. g.version = v /\ g.tabs = TablesOf(v) /\ g.mem = ReplayWal(v)
  <2>1. g = [version |-> v, tabs |-> TablesOf(v), mem |-> ReplayWal(v),
             nextTable |-> v.watermark + 1, nextManifest |-> MaxId(manifests) + 1,
             nextWal |-> MaxId(wals) + 1]
    BY <1>1, <1>2, Zenon DEF HandleOf
  <2> QED BY <2>1
<1>5. PICK ts : ts = tables
  OBVIOUS
<1>6. PICK ws : ws = wals
  OBVIOUS
<1>7. PICK f, t : Opened(ts, ws[l.wal], l, f, t, m)
  BY <1>5, <1>6, ShownIs
<1>8. ws[l.wal] \in WalSegments
  BY <1>6, WholeFile DEF LsmInv, DiskInv, FilesOf, Complete
<1>9. Opened(ts, ws[v.wal], v, f, t, m)
  BY <1>3, <1>7, <1>8, SameShown
<1>10. f = ReplayFirst(v, ws[v.wal], Len(ws[v.wal].recs)) /\ t = TablesIn(ts, v)
       /\ View(ReadOrder(f, t)) = m
  BY <1>9, Zenon DEF Opened
<1>11. f = g.mem /\ t = g.tabs
  BY <1>4, <1>5, <1>6, <1>10, Zenon DEF ReplayWal, TablesOf, TablesIn
<1>12. Contents(g) = m
  BY <1>10, <1>11, Zenon DEF Contents, View
<1> QED BY <1>3, <1>4, <1>5, <1>6, <1>9, <1>11, <1>12

\* Open shows what is on disk, and acknowledges it.
LEMMA OpenReads ==
    ASSUME LsmInv, LsmInv', ReadsInv, Open
    PROVE  ReadsInv'
<1>1. PICK m \in Candidates : DiskShows(m)
  BY DEF ReadsInv
<1>2. /\ step = "idle" /\ Opens /\ h' = HandleOf(Loaded)
      /\ wals' = [wals EXCEPT ![Loaded.wal].tail = FALSE]
      /\ acked' = Contents(HandleOf(Loaded)) /\ pending' = {}
      /\ UNCHANGED <<exists, tables, manifests, current, high>>
      /\ job' = job /\ inflight' = inflight
  BY DEF Open, OpenedHandle
<1>3. PICK l : l = Loaded
  OBVIOUS
<1>4. l \in Versions /\ FilesOf(l) /\ exists /\ Shown(tables, wals, l, m)
  BY <1>1, <1>2, <1>3, LoadedShows
<1>5. PICK g : g = HandleOf(l)
  OBVIOUS
<1>6. PICK v : v = g.version
  OBVIOUS
<1>7. /\ Opened(tables, wals[v.wal], v, g.mem, g.tabs, m)
      /\ v.wal = l.wal /\ v.tables = l.tables /\ Contents(g) = m
  BY <1>4, <1>5, <1>6, HandleOfShows
<1>8. Grown /\ RecsKept /\ DOMAIN wals' = DOMAIN wals
  BY <1>2, TailKept
<1>9. DiskShows(m)'
  BY <1>1, <1>2, <1>8, DiskStays DEF LsmInv
<1>10. Opened(tables', wals'[v.wal], v, g.mem, g.tabs, m)
  <2>1. \A i \in DOMAIN v.tables : tables'[v.tables[i].id] = tables[v.tables[i].id]
    BY <1>2
  <2>2. v.wal \in DOMAIN wals /\ wals[v.wal] # Torn
    BY <1>4, <1>7 DEF FilesOf, Complete
  <2>3. /\ v.wal \in DOMAIN wals' /\ wals'[v.wal] # Torn
        /\ wals'[v.wal].first = wals[v.wal].first /\ wals'[v.wal].recs = wals[v.wal].recs
    BY <1>8, <2>2 DEF RecsKept
  <2>4. FilesOf(v)
    <3>1. PICK floor : floor = AllocationFloor(l)
      OBVIOUS
    <3>2. v = [l EXCEPT !.watermark = floor]
      BY <1>5, <1>6, <3>1, Zenon DEF HandleOf
    <3>3. v.first = l.first /\ v.durable = l.durable /\ v.tables = l.tables /\ v.wal = l.wal
      BY <1>4, <3>2 DEF Versions
    <3> QED BY <1>4, <3>3, SameFiles
  <2> QED BY <1>7, <2>1, <2>3, <2>4, KeptOpened DEF LsmInv
<1>11. h' = g /\ acked' = m /\ inflight' = {} /\ job' = NoJob
  BY <1>2, <1>3, <1>5, <1>7 DEF LsmInv, StepInv, Between
<1>12. m \in Told' /\ m \in Candidates'
  BY <1>11 DEF Told, Candidates
<1>13. HandleShows(m)'
  BY <1>6, <1>10, <1>11, <1>12 DEF HandleShows
<1>14. JobShows(m)' /\ UntouchedInv'
  BY <1>2, <1>4, <1>11 DEF JobShows, UntouchedInv
<1> QED BY <1>9, <1>12, <1>13, <1>14 DEF ReadsInv

\* Whatever there is of a new directory shows nothing.
LEMMA CreationReads ==
    ASSUME LsmInv, ~exists, exists' = TRUE, tables' = tables,
           NEW walOutcome \in Outcomes, NEW manifestOutcome \in Outcomes,
           wals' = WithFile(wals, 1, FreshWal(1), walOutcome),
           manifests' = WithFile(manifests, 1, BaseVersion(1), manifestOutcome),
           high' = [high EXCEPT !.manifest = IF manifestOutcome = "none" THEN 0 ELSE 1,
                                !.wal = IF walOutcome = "none" THEN 0 ELSE 1],
           \/ current' = NoCurrent
           \/ current' = BothSlots(Torn)
           \/ /\ current' = BothSlots(Slot(0, 1))
              /\ walOutcome \in {"done", "whole"} /\ manifestOutcome \in {"done", "whole"}
    PROVE  DiskShows(EmptyMap)'
<1>1. /\ DiskInv' /\ ContentInv' /\ SlotsInv'
      /\ h = NoHandle /\ step = "idle" /\ job = NoJob
      /\ high' = [table |-> 0, manifest |-> IF manifestOutcome = "none" THEN 0 ELSE 1,
                  wal |-> IF walOutcome = "none" THEN 0 ELSE 1]
      /\ walOutcome \in {"done", "whole"} =>
            DOMAIN wals' = {1} /\ wals'[1] = FreshWal(1)
      /\ manifestOutcome \in {"done", "whole"} =>
            DOMAIN manifests' = {1} /\ manifests'[1] = BaseVersion(1)
      /\ current' = BothSlots(Slot(0, 1)) => FilesOf(BaseVersion(1))'
  BY CreationInv, Zenon
<1>2. PICK ts : ts = tables'
  OBVIOUS
<1>3. PICK ws : ws = wals'
  OBVIOUS
<1>4. ASSUME ws[1] = FreshWal(1), NEW id \in Nat
      PROVE  Shown(ts, ws, BaseVersion(id), EmptyMap)
  <2>1. PICK v : v = BaseVersion(id)
    OBVIOUS
  <2>2. v.tables = << >> /\ v.wal = 1
    BY <2>1, BaseVersionIs
  <2>3. PICK e : e = << >>
    OBVIOUS
  <2>4. Opened(ts, FreshWal(1), v, FreshMem, e, EmptyMap)
    BY <2>2, <2>3, FreshOpened, Zenon
  <2>5. Opened(ts, ws[v.wal], v, FreshMem, e, EmptyMap)
    BY <1>4, <2>2, <2>4
  <2>6. Shown(ts, ws, v, EmptyMap)
    BY <2>5, ShownIs
  <2> QED BY <2>1, <2>6
<1>5. ASSUME WalOnly', Complete(wals, 1)'
      PROVE  (FilesOf(BaseVersion(0)))' /\ Shown(ts, ws, BaseVersion(0), EmptyMap)
  <2>1. walOutcome \in {"done", "whole"}
    <3>1. walOutcome # "none"
      <4>1. SUFFICES ASSUME walOutcome = "none" PROVE FALSE
        OBVIOUS
      <4>2. wals' = wals
        BY <4>1 DEF WithFile
      <4>3. 1 \in DOMAIN wals
        BY <1>5, <4>2 DEF Complete
      <4> QED BY <4>3 DEF LsmInv, DiskInv
    <3>2. walOutcome # "torn"
      BY <1>5 DEF Complete, WithFile
    <3> QED BY <3>1, <3>2 DEF Outcomes
  <2>2. ws[1] = FreshWal(1) /\ DOMAIN ws = {1}
    BY <1>1, <1>3, <2>1
  <2>3. (FilesOf(BaseVersion(0)))'
    <3>1. PICK v : v = BaseVersion(0)
      OBVIOUS
    <3>2. v.tables = << >> /\ v.wal = 1 /\ v.first = 1 /\ v.durable = 0
      BY <3>1, BaseVersionIs
    <3>3. DOMAIN v.tables = {}
      BY <3>2
    <3>4. FreshWal(1).first = 1 /\ WalNext(FreshWal(1)) = 1
      <4>1. 1 \in 1 .. MaxSequence
        BY BoundsAssumption
      <4> QED BY <4>1, FreshWalIs
    <3>5. wals'[1] = FreshWal(1) /\ Complete(wals', 1)
      BY <1>3, <1>5, <2>2
    <3>6. wals'[v.wal].first = v.first /\ v.durable < WalNext(wals'[v.wal])
      BY <3>2, <3>4, <3>5
    <3>7. FilesOf(v)'
      BY <3>2, <3>3, <3>5, <3>6 DEF FilesOf
    <3> QED BY <3>1, <3>7
  <2> QED BY <1>4, <2>2, <2>3
<1>6. CASE current' = NoCurrent
  BY <1>2, <1>3, <1>5, <1>6 DEF DiskShows
<1>7. CASE current' # NoCurrent
  <2>1. \A t \in {0, 1} : current'[t] # Torn =>
           Shown(tables', wals', manifests'[current'[t].manifest], EmptyMap)
    <3> SUFFICES ASSUME NEW t \in {0, 1}, current'[t] # Torn
                 PROVE  Shown(tables', wals', manifests'[current'[t].manifest], EmptyMap)
      OBVIOUS
    <3>1. current' # BothSlots(Torn)
      BY DEF BothSlots
    <3>2. current'[t].manifest = 1
      BY <1>7, <3>1 DEF BothSlots, Slot
    <3>3. wals'[1] = FreshWal(1) /\ manifests'[1] = BaseVersion(1)
      BY <1>1, <1>7, <3>1
    <3> QED BY <1>2, <1>3, <1>4, <3>2, <3>3
  <2> QED BY <1>7, <2>1, SlotsShow
<1> QED BY <1>6, <1>7

\* A new engine shows nothing.
LEMMA CreateReads ==
    ASSUME LsmInv, LsmInv', ReadsInv, Create
    PROVE  ReadsInv'
<1>1. /\ ~exists /\ exists' = TRUE /\ tables' = tables
      /\ wals' = WithFile(wals, 1, FreshWal(1), "done")
      /\ manifests' = WithFile(manifests, 1, BaseVersion(1), "done")
      /\ current' = BothSlots(Slot(0, 1))
      /\ high' = [high EXCEPT !.manifest = 1, !.wal = 1]
      /\ step' = step /\ job' = job /\ inflight' = inflight /\ acked' = acked
      /\ pending' = pending
  BY DEF Create
<1>2. PICK o \in Outcomes : o = "done"
  BY DEF Outcomes
<1>3. /\ wals' = WithFile(wals, 1, FreshWal(1), o)
      /\ manifests' = WithFile(manifests, 1, BaseVersion(1), o)
      /\ high' = [high EXCEPT !.manifest = IF o = "none" THEN 0 ELSE 1,
                              !.wal = IF o = "none" THEN 0 ELSE 1]
      /\ o \in {"done", "whole"}
  BY <1>1, <1>2
<1>4. DiskShows(EmptyMap)'
  BY <1>1, <1>3, CreationReads, Zenon
<1>5. wals'[1] = FreshWal(1) /\ step = "idle" /\ job = NoJob
  <2>1. /\ DiskInv' /\ ContentInv' /\ SlotsInv'
        /\ h = NoHandle /\ step = "idle" /\ job = NoJob
        /\ high' = [table |-> 0, manifest |-> IF o = "none" THEN 0 ELSE 1,
                    wal |-> IF o = "none" THEN 0 ELSE 1]
        /\ o \in {"done", "whole"} =>
              DOMAIN wals' = {1} /\ wals'[1] = FreshWal(1)
        /\ o \in {"done", "whole"} =>
              DOMAIN manifests' = {1} /\ manifests'[1] = BaseVersion(1)
        /\ current' = BothSlots(Slot(0, 1)) => FilesOf(BaseVersion(1))'
    BY <1>1, <1>3, CreationInv, Zenon
  <2> QED BY <1>3, <2>1
<1>6. acked = EmptyMap /\ inflight = {}
  BY <1>1, <1>5 DEF ReadsInv, UntouchedInv, LsmInv, StepInv
<1>7. EmptyMap \in Told' /\ EmptyMap \in Candidates'
  BY <1>1, <1>6 DEF Told, Candidates
<1>8. PICK v : v = BaseVersion(1)
  OBVIOUS
<1>9. PICK e : e = << >>
  OBVIOUS
<1>10. h'.version = v /\ h'.tabs = e /\ h'.mem = FreshMem
  BY <1>8, <1>9 DEF Create
<1>11. v.tables = << >> /\ v.wal = 1
  BY <1>8, BaseVersionIs
<1>12. PICK ts : ts = tables'
  OBVIOUS
<1>13. Opened(ts, FreshWal(1), v, FreshMem, e, EmptyMap)
  BY <1>9, <1>11, FreshOpened, Zenon
<1>14. HandleShows(EmptyMap)'
  BY <1>5, <1>7, <1>10, <1>11, <1>12, <1>13 DEF HandleShows
<1>15. JobShows(EmptyMap)' /\ UntouchedInv'
  BY <1>1, <1>5 DEF JobShows, UntouchedInv
<1> QED BY <1>4, <1>7, <1>14, <1>15 DEF ReadsInv

\* Nor does what an interrupted creation leaves.
LEMMA CreateInterruptedReads ==
    ASSUME LsmInv, LsmInv', ReadsInv, CreateInterrupted
    PROVE  ReadsInv'
<1>1. PICK stage \in 0 .. 6 :
         /\ wals' = WithFile(wals, 1, FreshWal(1),
                             CASE stage = 0 -> "none" [] stage = 1 -> "torn" [] OTHER -> "whole")
         /\ manifests' = WithFile(manifests, 1, BaseVersion(1),
                             CASE stage < 3 -> "none" [] stage = 3 -> "torn" [] OTHER -> "whole")
         /\ current' = CASE stage < 5 -> NoCurrent
                         [] stage = 5 -> BothSlots(Torn)
                         [] OTHER -> BothSlots(Slot(0, 1))
         /\ high' = [high EXCEPT !.manifest = IF stage < 3 THEN 0 ELSE 1,
                                 !.wal = IF stage = 0 THEN 0 ELSE 1]
  BY Zenon DEF CreateInterrupted
<1>2. /\ ~exists /\ exists' = TRUE /\ tables' = tables /\ h' = h
      /\ job' = job /\ inflight' = inflight /\ acked' = acked /\ pending' = pending
  BY DEF CreateInterrupted
<1>3. PICK ow : ow = CASE stage = 0 -> "none" [] stage = 1 -> "torn" [] OTHER -> "whole"
  OBVIOUS
<1>4. PICK om : om = CASE stage < 3 -> "none" [] stage = 3 -> "torn" [] OTHER -> "whole"
  OBVIOUS
<1>5. /\ stage = 0 => ow = "none"
      /\ stage = 1 => ow = "torn"
      /\ stage # 0 /\ stage # 1 => ow = "whole"
      /\ stage < 3 => om = "none"
      /\ stage = 3 => om = "torn"
      /\ ~(stage < 3) /\ stage # 3 => om = "whole"
  BY <1>3, <1>4
<1>6. /\ ow \in Outcomes /\ om \in Outcomes
      /\ ow = "none" <=> stage = 0
      /\ om = "none" <=> stage < 3
  BY <1>5 DEF Outcomes
<1>7. /\ wals' = WithFile(wals, 1, FreshWal(1), ow)
      /\ manifests' = WithFile(manifests, 1, BaseVersion(1), om)
  BY <1>1, <1>3, <1>4
<1>8. high' = [high EXCEPT !.manifest = IF om = "none" THEN 0 ELSE 1,
                           !.wal = IF ow = "none" THEN 0 ELSE 1]
  BY <1>1, <1>6
<1>9. \/ current' = NoCurrent
      \/ current' = BothSlots(Torn)
      \/ /\ current' = BothSlots(Slot(0, 1))
         /\ ow \in {"done", "whole"} /\ om \in {"done", "whole"}
  <2>1. CASE stage < 5
    BY <1>1, <2>1
  <2>2. CASE stage = 5
    BY <1>1, <2>2
  <2>3. CASE stage = 6
    BY <1>1, <1>5, <2>3
  <2> QED BY <2>1, <2>2, <2>3
<1>10. DiskShows(EmptyMap)'
  BY <1>2, <1>6, <1>7, <1>8, <1>9, CreationReads, Zenon
<1>11. h = NoHandle /\ job = NoJob
  BY <1>2 DEF LsmInv, HandleInv, StepInv, Between
<1>12. EmptyMap \in Candidates'
  BY <1>2 DEF ReadsInv, UntouchedInv, Candidates
<1>13. HandleShows(EmptyMap)' /\ JobShows(EmptyMap)' /\ UntouchedInv'
  BY <1>2, <1>11 DEF HandleShows, JobShows, UntouchedInv
<1> QED BY <1>10, <1>12, <1>13 DEF ReadsInv
-----------------------------------------------------------------------------
\* Every step, and stuttering.

\* Before the directory exists there is nothing to show.
LEMMA InitReads == Init => ReadsInv
<1> SUFFICES ASSUME Init PROVE ReadsInv
  OBVIOUS
<1>1. /\ current = NoCurrent /\ h = NoHandle /\ job = NoJob /\ acked = EmptyMap
      /\ wals = << >>
  BY DEF Init
<1>2. DOMAIN wals = {}
  BY <1>1
<1>3. DiskShows(EmptyMap)
  BY <1>1, <1>2 DEF DiskShows, Complete
<1>4. HandleShows(EmptyMap) /\ JobShows(EmptyMap) /\ UntouchedInv /\ EmptyMap \in Candidates
  BY <1>1 DEF HandleShows, JobShows, UntouchedInv, Candidates
<1> QED BY <1>3, <1>4 DEF ReadsInv

\* Every action of the engine.
LEMMA NextReads ==
    ASSUME LsmInv, LsmInv', ReadsInv, Next
    PROVE  ReadsInv'
<1>1. CASE Create
  BY <1>1, CreateReads
<1>2. CASE CreateInterrupted
  BY <1>2, CreateInterruptedReads
<1>3. CASE Open
  BY <1>3, OpenReads
<1>4. CASE OpenRefused \/ MutateExhausted
  BY <1>4, RefusedReads
<1>5. CASE OpenFails
  BY <1>5, OpenFailsReads
<1>6. CASE Crash
  BY <1>6, CrashReads
<1>7. CASE \E op \in Op : Mutate(op)
  BY <1>7, MutateReads
<1>8. CASE RunningCall
  <2>1. CASE FlushInitManifest
    BY <2>1, FlushInitManifestReads
  <2>2. CASE FlushInitCurrent
    BY <2>2, FlushInitCurrentReads
  <2>3. CASE FlushTable
    BY <2>3, FlushTableReads
  <2>4. CASE SkipCompaction
    BY <2>4, SkipCompactionReads
  <2>5. CASE CompactTable
    BY <2>5, CompactTableReads
  <2>6. CASE RotateWal
    BY <2>6, RotateWalReads
  <2>7. CASE SkipRotation
    BY <2>7, SkipRotationReads
  <2>8. CASE WriteManifest
    BY <2>8, WriteManifestReads
  <2>9. CASE Publish
    BY <2>9, PublishReads
  <2>10. CASE MirrorFails
    BY <2>10, MirrorFailsReads
  <2>11. CASE FinishCompaction
    BY <2>11, FinishCompactionReads
  <2>12. CASE FinishRotation
    BY <2>12, FinishRotationReads
  <2> QED
    BY <1>8, <2>1, <2>2, <2>3, <2>4, <2>5, <2>6, <2>7, <2>8, <2>9, <2>10, <2>11, <2>12
    DEF RunningCall
<1> QED BY <1>1, <1>2, <1>3, <1>4, <1>5, <1>6, <1>7, <1>8 DEF Next

\* A step that changes nothing.
LEMMA StutterReads ==
    ASSUME LsmInv, LsmInv', ReadsInv, UNCHANGED vars
    PROVE  ReadsInv'
<1>1. UNCHANGED <<exists, wals, tables, manifests, current, h, job, inflight, acked, pending>>
  BY DEF vars
<1>2. Grown /\ RecsKept
  BY <1>1, NewFileGrown
<1>3. PICK m \in Candidates : DiskShows(m) /\ HandleShows(m) /\ JobShows(m)
  BY DEF ReadsInv
<1>4. DiskShows(m)'
  BY <1>1, <1>2, <1>3, DiskStays DEF LsmInv
<1>5. HandleShows(m)'
  BY <1>1, <1>2, <1>3, HandleShowsStill DEF LsmInv
<1>6. JobShows(m)'
  BY <1>1, <1>2, <1>3, JobShowsStill DEF LsmInv
<1>7. m \in Candidates' /\ UntouchedInv'
  BY <1>1, <1>3 DEF Candidates, UntouchedInv, ReadsInv
<1> QED BY <1>4, <1>5, <1>6, <1>7 DEF ReadsInv

\* The semantic invariant of the engine: whatever is on disk, in the handle
\* and in the running installation shows the same acknowledged map.
THEOREM ReadsInvariant == Spec => []ReadsInv
<1>1. LsmInv /\ LsmInv' /\ ReadsInv /\ [Next]_vars => ReadsInv'
  BY NextReads, StutterReads
<1> QED BY <1>1, LsmInvariant, InitReads, PTL DEF Spec
-----------------------------------------------------------------------------
\* What it says of open_existing, of get and of range_scan.

\* The two slots never disagree by more than a generation.
LEMMA SlotsReadable ==
    ASSUME LsmInv, Published
    PROVE  CurrentReadable
<1>1. current # NoCurrent
  BY DEF Published, ValidSlots
<1>2. ASSUME NEW s \in ValidSlots, NEW t \in ValidSlots
      PROVE  /\ current[s].gen - current[t].gen \in {-1, 0, 1}
             /\ current[s].gen = current[t].gen => current[s].manifest = current[t].manifest
  <2>1. s \in {0, 1} /\ t \in {0, 1} /\ current[s] # Torn /\ current[t] # Torn
    BY <1>1, <1>2 DEF ValidSlots
  <2>2. current[s].gen \in Nat /\ current[t].gen \in Nat
    BY <1>1, <2>1, SlotsAre DEF LsmInv
  <2>3. CASE s = t
    BY <2>2, <2>3
  <2>4. CASE s # t
    <3>1. \/ current[s] = current[t]
          \/ current[s].gen = current[t].gen + 1
          \/ current[t].gen = current[s].gen + 1
      BY <1>1, <2>1, <2>4 DEF LsmInv, SlotsInv
    <3> QED BY <2>2, <3>1
  <2> QED BY <2>3, <2>4
<1> QED BY <1>2 DEF CurrentReadable, Published

\* A published version set is opened.
LEMMA PublishedOpens ==
    ASSUME LsmInv, Published
    PROVE  Opens
<1>1. PICK s \in {0, 1} : Newest(s) /\ current # NoCurrent
  BY SomeNewest DEF LsmInv, Newest
<1>2. NewestSlot = current[s]
  BY <1>1, NewestIs DEF LsmInv
<1>3. /\ current[s].manifest \in DOMAIN manifests /\ manifests[current[s].manifest] # Torn
      /\ FilesOf(Loaded)
  BY <1>1, LoadedIs DEF LsmInv
<1>4. Complete(manifests, NewestSlot.manifest)
  BY <1>2, <1>3 DEF Complete
<1>5. manifests # << >> /\ wals # << >>
  <2>1. Loaded.wal \in DOMAIN wals
    BY <1>3 DEF FilesOf, Complete
  <2> QED BY <1>3, <2>1
<1>6. exists
  BY <1>1 DEF LsmInv, DiskInv
<1> QED BY <1>1, <1>3, <1>4, <1>5, <1>6, SlotsReadable DEF Opens, Loadable, HasVersionSet

\* And so is a directory with nothing but its first WAL segment.
LEMMA WalOnlyOpens ==
    ASSUME LsmInv, ReadsInv, WalOnly, Complete(wals, 1)
    PROVE  Opens
<1>1. PICK m \in Candidates : DiskShows(m)
  BY DEF ReadsInv
<1>2. FilesOf(BaseVersion(0))
  BY <1>1 DEF DiskShows
<1>3. Loaded = BaseVersion(0)
  BY DEF Loaded
<1>4. exists
  <2>1. 1 \in DOMAIN wals /\ \A i \in DOMAIN wals : i <= high.wal
    BY DEF Complete, LsmInv, DiskInv
  <2>2. high.wal # 0
    BY <2>1
  <2> QED BY <2>2 DEF LsmInv, DiskInv
<1> QED BY <1>2, <1>3, <1>4 DEF Opens, Loadable

\* The map on disk is what open_existing acknowledges.
LEMMA OpenShows ==
    ASSUME LsmInv, Opens, NEW m, DiskShows(m)
    PROVE  Contents(OpenedHandle) = m
<1>1. PICK l : l = Loaded
  OBVIOUS
<1>2. l \in Versions /\ FilesOf(l) /\ Shown(tables, wals, l, m)
  BY <1>1, LoadedShows
<1>3. PICK g : g = HandleOf(l)
  OBVIOUS
<1>4. Contents(g) = m
  BY <1>2, <1>3, HandleOfShows
<1> QED BY <1>1, <1>3, <1>4 DEF OpenedHandle

\* The invariant gives the recovery property.
LEMMA RecoveryFollows ==
    ASSUME LsmInv, ReadsInv
    PROVE  Recoverable
<1>1. ASSUME Published \/ (WalOnly /\ Complete(wals, 1))
      PROVE  Opens /\ Contents(OpenedHandle) \in Candidates
  <2>1. Opens
    BY <1>1, PublishedOpens, WalOnlyOpens
  <2>2. PICK m \in Candidates : DiskShows(m)
    BY DEF ReadsInv
  <2> QED BY <2>1, <2>2, OpenShows
<1> QED BY <1>1 DEF Recoverable

\* Recoverable: wherever put, delete, flush, compaction, rotation or open was
\* cut short, open_existing accepts the directory and shows every acknowledged
\* mutation, no other, and the one in doubt as a whole or not at all.
THEOREM AcknowledgedRecovers == Spec => []Recoverable
<1>1. LsmInv /\ ReadsInv => Recoverable
  BY RecoveryFollows
<1> QED BY <1>1, LsmInvariant, ReadsInvariant, PTL

\* The invariant gives it for either slot.
LEMMA SlotRecoveryFollows ==
    ASSUME LsmInv, ReadsInv
    PROVE  EitherSlotRecovers
<1>1. SUFFICES ASSUME NEW s \in ValidSlots
      PROVE  /\ Complete(manifests, current[s].manifest)
             /\ FilesOf(manifests[current[s].manifest])
             /\ manifests[current[s].manifest].wal = Loaded.wal =>
                   Contents(HandleOf(manifests[current[s].manifest])) \in Candidates
  BY Zenon DEF EitherSlotRecovers
<1>2. s \in {0, 1} /\ current # NoCurrent /\ current[s] # Torn /\ Published
  BY <1>1 DEF ValidSlots, Published
<1>3. PICK v : v = manifests[current[s].manifest]
  OBVIOUS
<1>4. current[s].manifest \in DOMAIN manifests /\ v # Torn /\ FilesOf(v)
  BY <1>2, <1>3, SlotNames DEF LsmInv
<1>5. v \in Versions
  BY <1>3, <1>4, WholeFile DEF LsmInv, DiskInv
<1>6. ASSUME v.wal = Loaded.wal PROVE Contents(HandleOf(v)) \in Candidates
  <2>1. PICK m \in Candidates : DiskShows(m)
    BY DEF ReadsInv
  <2>2. PICK n \in {0, 1} : Newest(n)
    BY <1>2, SomeNewest DEF LsmInv
  <2>3. Loaded.wal = manifests[current[n].manifest].wal
    BY <1>2, <2>2, LoadedIs DEF LsmInv
  <2>4. Shown(tables, wals, v, m)
    BY <1>2, <1>3, <1>6, <2>1, <2>2, <2>3 DEF DiskShows
  <2>5. PICK g : g = HandleOf(v)
    OBVIOUS
  <2>6. Contents(g) = m
    BY <1>4, <1>5, <2>4, <2>5, HandleOfShows
  <2> QED BY <2>1, <2>5, <2>6
<1> QED BY <1>3, <1>4, <1>6 DEF Complete

\* EitherSlotRecovers: read_current may fall back to the older CURRENT slot,
\* since no reclaim pass removed a file that either slot still needs.
THEOREM EitherSlotServes == Spec => []EitherSlotRecovers
<1>1. LsmInv /\ ReadsInv => EitherSlotRecovers
  BY SlotRecoveryFollows
<1> QED BY <1>1, LsmInvariant, ReadsInvariant, PTL

\* The invariant gives what get and range_scan return.
LEMMA ReadsFollow ==
    ASSUME LsmInv, ReadsInv
    PROVE  ReadsAgree
<1>1. SUFFICES ASSUME h # NoHandle
      PROVE  /\ Contents(h) \in Told
             /\ LET scan == Live(Overlay(ReadOrder(h.mem, h.tabs)))
                IN  /\ DOMAIN scan = {k \in Keys : Contents(h)[k] # Missing}
                    /\ \A k \in DOMAIN scan : scan[k].val = Contents(h)[k]
  BY Zenon DEF ReadsAgree, Told
<1>2. PICK m \in Told : Opened(tables, wals[h.version.wal], h.version, h.mem, h.tabs, m)
  BY <1>1 DEF ReadsInv, HandleShows
<1>3. PICK a : a = ReadOrder(h.mem, h.tabs)
  OBVIOUS
<1>4. View(a) = m /\ \E n : Sorted(a, n)
  BY <1>2, <1>3, Zenon DEF Opened
<1>5. Contents(h) = m
  BY <1>3, <1>4, Zenon DEF Contents, View
<1>6. a \in Seq(Layers)
  <2>1. h \in Handles
    BY <1>1 DEF LsmInv, HandleInv, GoodHandle
  <2>2. PICK mem : mem = h.mem
    OBVIOUS
  <2>3. PICK tabs : tabs = h.tabs
    OBVIOUS
  <2>4. mem \in MemSets /\ tabs \in Seq(Tables)
    BY <2>1, <2>2, <2>3 DEF Handles, MemSets
  <2>5. a = ReadOrder(mem, tabs)
    BY <1>3, <2>2, <2>3
  <2> QED BY <2>4, <2>5, ReadOrderIs
<1>7. PICK c : c = Live(Overlay(a))
  OBVIOUS
<1>8. /\ DOMAIN c = {k \in Keys : View(a)[k] # Missing}
      /\ \A k \in DOMAIN c : c[k].val = View(a)[k]
  BY <1>4, <1>6, <1>7, ScanView
<1> QED BY <1>2, <1>3, <1>4, <1>5, <1>7, <1>8

\* ReadsAgree: at every point of a flush, compaction or rotation, get and
\* range_scan of a usable handle show the acknowledged mutations and the
\* running one.
THEOREM ReadsShowMutations == Spec => []ReadsAgree
<1>1. LsmInv /\ ReadsInv => ReadsAgree
  BY ReadsFollow
<1> QED BY <1>1, LsmInvariant, ReadsInvariant, PTL
-----------------------------------------------------------------------------
\* What the engine writes into its SSTables, open accepts: nothing frozen or
\* merged is empty or newer than the sequence it is written under.

\* No entry is newer than a sequence number.
Within(entries, last) == \A k \in DOMAIN entries : entries[k].seq <= last

\* MemTables that end before sequence number next; the frozen ones hold
\* something, within their last sequence number.
SoundMem(mem, next) ==
    /\ \A k \in DOMAIN mem.mutable.entries : mem.mutable.entries[k].seq < next
    /\ \A i \in DOMAIN mem.immutable :
          /\ mem.immutable[i].entries # NoEntries
          /\ Within(mem.immutable[i].entries, mem.immutable[i].last)

\* The table a mutation goes to holds it.
LEMMA FilledIs ==
    ASSUME NEW mem \in MemSets, NEW seq \in 1 .. MaxSequence, NEW op \in Op,
           SoundMem(mem, seq), NEW t, t = Filled(mem, seq, op)
    PROVE  /\ t.last = seq /\ t.entries # NoEntries
           /\ \A k \in DOMAIN t.entries : t.entries[k].seq <= seq
<1>1. PICK e : e = mem.mutable.entries
  OBVIOUS
<1>2. e \in Entries
  BY <1>1 DEF MemSets, MemTables
<1>3. PICK g : g = Insert(e, seq, op)
  OBVIOUS
<1>4. t.last = seq /\ t.entries = g
  BY <1>1, <1>3 DEF Filled
<1>5. /\ DOMAIN g = DOMAIN e \cup {op.key}
      /\ g[op.key] = [seq |-> seq, val |-> op.val]
      /\ \A k \in DOMAIN e : k # op.key => g[k] = e[k]
  BY <1>2, <1>3, InsertIs
<1>6. g # NoEntries
  <2>1. op.key \in DOMAIN g
    BY <1>5
  <2> QED BY <2>1 DEF NoEntries
<1>7. ASSUME NEW k \in DOMAIN g PROVE g[k].seq <= seq
  <2>1. CASE k = op.key
    BY <1>5, <2>1, BoundsAssumption
  <2>2. CASE k # op.key
    <3>1. k \in DOMAIN e /\ g[k] = e[k]
      BY <1>5, <1>7, <2>2
    <3>2. PICK s : s = e[k].seq
      OBVIOUS
    <3>3. s < seq
      BY <1>1, <3>1, <3>2 DEF SoundMem
    <3>4. s \in Int
      <4>1. e[k] \in [seq : 1 .. MaxSequence, val : Entry]
        BY <1>2, <3>1, EntriesMembers
      <4> QED BY <3>2, <4>1
    <3> QED BY <3>1, <3>2, <3>3, <3>4
  <2> QED BY <2>1, <2>2
<1> QED BY <1>4, <1>6, <1>7

\* A mutation with the next sequence number keeps them sound.
LEMMA SoundApply ==
    ASSUME NEW mem \in MemSets, NEW seq \in 1 .. MaxSequence, NEW op \in Op,
           SoundMem(mem, seq)
    PROVE  SoundMem(ApplyToMem(mem, seq, op), seq + 1)
<1>1. PICK s : s = mem.immutable
  OBVIOUS
<1>2. s \in Seq(MemTables) /\ Len(s) \in Nat /\ DOMAIN s = 1 .. Len(s)
  BY <1>1 DEF MemSets
<1>3. PICK t : t = Filled(mem, seq, op)
  OBVIOUS
<1>4. /\ t.last = seq /\ t.entries # NoEntries /\ t \in MemTables
      /\ \A k \in DOMAIN t.entries : t.entries[k].seq <= seq
  BY <1>3, FilledIs, ApplyToMemIs
<1>5. \A k \in DOMAIN t.entries : t.entries[k].seq < seq + 1
  <2>1. t.entries \in Entries
    BY <1>4 DEF MemTables
  <2>2. \A k \in DOMAIN t.entries : t.entries[k] \in [seq : 1 .. MaxSequence, val : Entry]
    BY <2>1, EntriesMembers
  <2>3. \A k \in DOMAIN t.entries : t.entries[k].seq \in Int
    BY <2>2
  <2> QED BY <1>4, <2>3
<1>6. \A i \in DOMAIN s : s[i].entries # NoEntries /\ Within(s[i].entries, s[i].last)
  BY <1>1 DEF SoundMem
<1>7. PICK g : g = ApplyToMem(mem, seq, op)
  OBVIOUS
<1>8. \/ g.mutable = EmptyMem /\ g.immutable = Append(s, t)
      \/ g.mutable = t /\ g.immutable = s
  BY <1>1, <1>3, <1>7, ApplyToMemIs
<1>9. CASE g.mutable = EmptyMem /\ g.immutable = Append(s, t)
  <2>1. PICK u : u = g.immutable
    OBVIOUS
  <2>2. /\ DOMAIN u = 1 .. Len(s) + 1 /\ u[Len(s) + 1] = t
        /\ \A i \in DOMAIN s : u[i] = s[i]
    BY <1>2, <1>4, <1>9, <2>1
  <2>3. Within(t.entries, t.last)
    BY <1>4 DEF Within
  <2>4. \A i \in DOMAIN u : i \in DOMAIN s \/ i = Len(s) + 1
    BY <1>2, <2>2
  <2>5. \A i \in DOMAIN u : u[i].entries # NoEntries /\ Within(u[i].entries, u[i].last)
    BY <1>4, <1>6, <2>2, <2>3, <2>4
  <2>6. DOMAIN g.mutable.entries = {}
    BY <1>9 DEF EmptyMem, NoEntries
  <2> QED BY <1>7, <2>1, <2>5, <2>6 DEF SoundMem
<1>10. CASE g.mutable = t /\ g.immutable = s
  BY <1>5, <1>6, <1>7, <1>10 DEF SoundMem
<1> QED BY <1>8, <1>9, <1>10

\* Replay keeps them so, one record at a time.
LEMMA SoundReplay ==
    ASSUME NEW v, v.durable \in Nat, NEW w \in WalSegments, WalNext(w) <= MaxSequence,
           NEW n \in 0 .. Len(w.recs)
    PROVE  SoundMem(ReplayFirst(v, w, n), w.first + n)
<1> DEFINE Good(i) == SoundMem(ReplayFirst(v, w, i), w.first + i)
           S == {i \in Nat : i <= Len(w.recs) => Good(i)}
<1>1. /\ w.first \in 1 .. MaxSequence /\ Len(w.recs) \in Nat /\ w.recs \in Seq(Op)
      /\ WalNext(w) = w.first + Len(w.recs) /\ MaxSequence \in Nat
  BY WalNextIs, BoundsAssumption DEF WalSegments
<1>2. 0 \in S
  <2>1. ReplayFirst(v, w, 0) = FreshMem
    BY ReplayNone
  <2>2. DOMAIN FreshMem.mutable.entries = {} /\ DOMAIN FreshMem.immutable = {}
    BY DEF FreshMem, EmptyMem, NoEntries
  <2>3. \A next : SoundMem(FreshMem, next)
    BY <2>2 DEF SoundMem
  <2> QED BY <2>1, <2>3
<1>3. ASSUME NEW i \in S PROVE i + 1 \in S
  <2>1. SUFFICES ASSUME i + 1 <= Len(w.recs) PROVE Good(i + 1)
    OBVIOUS
  <2>2. i \in Nat /\ Good(i) /\ i \in 0 .. Len(w.recs)
    BY <1>1, <2>1
  <2>3. PICK seq : seq = w.first + i
    OBVIOUS
  <2>4. PICK mem : mem = ReplayFirst(v, w, i)
    OBVIOUS
  <2>5. PICK op : op = w.recs[i + 1]
    OBVIOUS
  <2>6. /\ seq \in 1 .. MaxSequence /\ op \in Op /\ seq \in Nat
        /\ w.first + (i + 1) = seq + 1
    <3>1. i + 1 \in 1 .. Len(w.recs)
      BY <1>1, <2>1, <2>2
    <3>2. w.recs[i + 1] \in Op
      BY <1>1, <3>1
    <3>3. w.first \in Nat /\ w.first >= 1 /\ w.first + i < WalNext(w)
      BY <1>1, <2>1, <2>2
    <3>4. w.first + i \in 1 .. MaxSequence
      BY <1>1, <2>2, <3>3
    <3> QED BY <1>1, <2>2, <2>3, <2>5, <3>2, <3>4
  <2>7. mem \in MemSets /\ SoundMem(mem, seq)
    BY <2>2, <2>3, <2>4, ReplayMem
  <2>8. ReplayFirst(v, w, i + 1) = IF Replayed(v, seq) THEN ApplyToMem(mem, seq, op) ELSE mem
    BY <2>2, <2>3, <2>4, <2>5, ReplayNext
  <2>9. SoundMem(ApplyToMem(mem, seq, op), seq + 1)
    BY <2>6, <2>7, SoundApply
  <2>10. SoundMem(mem, seq + 1)
    <3>1. mem.mutable.entries \in Entries
      BY <2>7 DEF MemSets, MemTables
    <3>2. \A k \in DOMAIN mem.mutable.entries :
             mem.mutable.entries[k] \in [seq : 1 .. MaxSequence, val : Entry]
      BY <3>1, EntriesMembers
    <3>3. \A k \in DOMAIN mem.mutable.entries : mem.mutable.entries[k].seq \in Int
      BY <3>2
    <3> QED BY <2>6, <2>7, <3>3 DEF SoundMem
  <2> QED BY <2>6, <2>8, <2>9, <2>10
<1>4. S = Nat
  <2> HIDE DEF S
  <2> QED BY <1>2, <1>3, NatSetInduction DEF S
<1>5. Good(n)
  BY <1>1, <1>4
<1> QED BY <1>5

\* A table of entries within its sequence number is accepted: the filter is
\* built from every key.
LEMMA TableBuilt ==
    ASSUME NEW durable, NEW entries, entries # NoEntries, Within(entries, durable)
    PROVE  TableAccepted(SortedTable(durable, entries))
<1>1. PICK f : f = BuildFilter(entries)
  OBVIOUS
<1>2. /\ f.keys = Cardinality(DOMAIN entries)
      /\ f.bits = UNION {Probes(f.keys, k) : k \in DOMAIN entries}
  BY <1>1, Zenon DEF BuildFilter
<1>3. ASSUME NEW k \in DOMAIN entries PROVE MayContain(f, k)
  <2>1. Probes(f.keys, k) \subseteq f.bits
    BY <1>2
  <2> QED BY <2>1, Zenon DEF MayContain
<1>4. PICK t : t = SortedTable(durable, entries)
  OBVIOUS
<1>5. t.durable = durable /\ t.entries = entries /\ t.filter = f
  BY <1>1, <1>4 DEF SortedTable
<1>6. TableAccepted(t)
  BY <1>2, <1>3, <1>5 DEF TableAccepted, Within
<1> QED BY <1>4, <1>6

\* The SSTables of a version set hold something, within its durable sequence.
LEMMA TablesSound ==
    ASSUME DiskInv, NEW v \in Versions, ValidVersion(v), FilesOf(v), NEW tabs,
           tabs = TablesIn(tables, v), NEW i \in DOMAIN v.tables
    PROVE  /\ i \in DOMAIN tabs /\ tabs[i].entries # NoEntries
           /\ Within(tabs[i].entries, v.durable)
<1>1. PICK t : t = tables[v.tables[i].id]
  OBVIOUS
<1>2. /\ v.tables[i].id \in DOMAIN tables /\ t # Torn
      /\ t.durable = v.tables[i].durable /\ TableAccepted(t)
  BY <1>1 DEF FilesOf, Complete
<1>3. tables \in Files(SortedTables)
  BY DEF DiskInv
<1>4. t \in SortedTables
  BY <1>1, <1>2, <1>3, WholeFile
<1>5. i \in DOMAIN tabs /\ tabs[i].entries = t.entries
  BY <1>1, <1>4, SortedTableParts DEF TablesIn
<1>6. t.durable <= v.durable /\ v.durable \in Nat /\ t.durable \in Nat
  BY <1>2, TablesDurable, VersionParts
<1>7. ASSUME NEW k \in DOMAIN t.entries PROVE t.entries[k].seq <= v.durable
  <2>1. t.entries[k].seq <= t.durable
    BY <1>2 DEF TableAccepted
  <2>2. t.entries[k] \in [seq : 1 .. MaxSequence, val : Entry]
    BY <1>4, SortedTableParts, EntriesMembers
  <2>3. t.entries[k].seq \in Int
    BY <2>2
  <2> QED BY <1>6, <2>1, <2>3
<1>8. t.entries # NoEntries
  BY <1>2 DEF TableAccepted
<1> QED BY <1>5, <1>7, <1>8 DEF Within

\* The merge of the SSTables is what the compaction requires.
LEMMA MergeIsAccepted ==
    ASSUME DiskInv, NEW v \in Versions, ValidVersion(v), FilesOf(v), v.tables # << >>,
           NEW tabs \in Seq(Tables), tabs = TablesIn(tables, v)
    PROVE  /\ MergeAccepted(tabs, v.durable)
           /\ Within(CompactedEntries(tabs), v.durable)
<1>1. tabs \in Seq(Layers)
  BY SeqMonotonic DEF Layers
<1>2. PICK g : g = Overlay(tabs)
  OBVIOUS
<1>3. /\ \A k : k \in DOMAIN g <=> \E i \in DOMAIN tabs : k \in DOMAIN tabs[i].entries
      /\ \A k \in DOMAIN g : \E i \in DOMAIN tabs :
            k \in DOMAIN tabs[i].entries /\ g[k] = tabs[i].entries[k]
  BY <1>1, <1>2, OverlayAt
<1>4. DOMAIN tabs = DOMAIN v.tables /\ 1 \in DOMAIN v.tables
  <2>1. DOMAIN v.tables = 1 .. Len(v.tables) /\ Len(v.tables) \in Nat /\ v.tables \in Seq(Described)
    BY VersionParts
  <2>2. Len(v.tables) # 0
    BY <2>1, EmptySeq
  <2> QED BY <2>1, <2>2 DEF TablesIn
<1>5. ASSUME NEW i \in DOMAIN tabs
      PROVE  tabs[i].entries # NoEntries /\ Within(tabs[i].entries, v.durable)
  BY <1>4, TablesSound
<1>6. Within(g, v.durable)
  BY <1>3, <1>5 DEF Within
<1>7. g # NoEntries
  <2>1. PICK e : e = tabs[1].entries
    OBVIOUS
  <2>2. e \in Entries /\ e # NoEntries
    <3>1. tabs[1] \in Layers
      BY <1>1, <1>4
    <3> QED BY <1>4, <1>5, <2>1, <3>1, LayerIs
  <2>3. DOMAIN e # {}
    <3>1. SUFFICES ASSUME DOMAIN e = {} PROVE FALSE
      OBVIOUS
    <3>2. e = [k \in DOMAIN e |-> e[k]]
      BY <2>2, EntriesMembers
    <3>3. e = NoEntries
      BY <3>1, <3>2 DEF NoEntries
    <3> QED BY <2>2, <3>3
  <2>4. PICK k : k \in DOMAIN e
    BY <2>3
  <2>5. k \in DOMAIN g
    BY <1>3, <1>4, <2>1, <2>4
  <2> QED BY <2>5 DEF NoEntries
<1>8. MergeAccepted(tabs, v.durable)
  BY <1>2, <1>6, <1>7 DEF MergeAccepted, Within
<1>9. Within(CompactedEntries(tabs), v.durable)
  <2>1. PICK c : c = CompactedEntries(tabs)
    OBVIOUS
  <2>2. c = Live(g)
    BY <1>2, <2>1 DEF CompactedEntries
  <2>3. \A k \in DOMAIN c : k \in DOMAIN g /\ c[k] = g[k]
    BY <2>2, LiveAt
  <2> QED BY <1>6, <2>1, <2>3 DEF Within
<1> QED BY <1>8, <1>9

\* From the handle's contents.
LEMMA AcceptedFollows ==
    ASSUME LsmInv, ReadsInv
    PROVE  TablesAccepted
<1>1. SUFFICES ASSUME step = "flush"
      PROVE  IF h.mem.immutable # << >> THEN TableAccepted(FlushedTable)
             ELSE Level0Count(h.version) >= Level0Trigger =>
                     /\ MergeAccepted(h.tabs, h.version.durable)
                     /\ CompactedTable.entries # NoEntries => TableAccepted(CompactedTable)
  BY DEF TablesAccepted
<1>2. h # NoHandle
  BY <1>1 DEF LsmInv, StepInv
<1>3. PICK v : v = h.version
  OBVIOUS
<1>4. PICK w : w = wals[v.wal]
  OBVIOUS
<1>5. /\ v \in Versions /\ ValidVersion(v) /\ FilesOf(v) /\ h.mem \in MemSets
      /\ h.tabs \in Seq(Tables) /\ w \in WalSegments /\ WalNext(w) <= MaxSequence
      /\ v.durable \in Nat
  BY <1>2, <1>3, <1>4, RunningHandle
<1>6. /\ h.mem = ReplayFirst(v, w, Len(w.recs)) /\ h.tabs = TablesIn(tables, v)
  BY <1>2, <1>3, <1>4 DEF ReadsInv, HandleShows, Opened
<1>7. CASE h.mem.immutable # << >>
  <2>1. SoundMem(h.mem, w.first + Len(w.recs))
    <3>1. Len(w.recs) \in 0 .. Len(w.recs)
      BY <1>5, WalNextIs
    <3> QED BY <1>5, <1>6, <3>1, SoundReplay
  <2>2. PICK frozen : frozen = Head(h.mem.immutable)
    OBVIOUS
  <2>3. 1 \in DOMAIN h.mem.immutable /\ frozen = h.mem.immutable[1]
    <3>1. h.mem.immutable \in Seq(MemTables)
      BY <1>5 DEF MemSets
    <3> QED BY <1>7, <2>2, <3>1, EmptySeq, LenProperties
  <2>4. frozen.entries # NoEntries /\ Within(frozen.entries, frozen.last)
    BY <2>1, <2>3 DEF SoundMem
  <2>5. TableAccepted(SortedTable(frozen.last, frozen.entries))
    BY <2>4, TableBuilt
  <2> QED BY <1>7, <2>2, <2>5 DEF FlushedTable
<1>8. CASE h.mem.immutable = << >>
  <2>1. SUFFICES ASSUME Level0Count(v) >= Level0Trigger
        PROVE  /\ MergeAccepted(h.tabs, v.durable)
               /\ CompactedTable.entries # NoEntries => TableAccepted(CompactedTable)
    BY <1>3, <1>8
  <2>2. v.tables # << >>
    BY <2>1, TriggerHasTables
  <2>3. MergeAccepted(h.tabs, v.durable) /\ Within(CompactedEntries(h.tabs), v.durable)
    BY <1>5, <1>6, <2>2, MergeIsAccepted DEF LsmInv
  <2>4. PICK entries : entries = CompactedEntries(h.tabs)
    OBVIOUS
  <2>5. CompactedTable = SortedTable(v.durable, entries)
    BY <1>3, <2>4 DEF CompactedTable
  <2>6. CompactedTable.entries = entries
    BY <2>5 DEF SortedTable
  <2>7. entries # NoEntries => TableAccepted(SortedTable(v.durable, entries))
    BY <2>3, <2>4, TableBuilt
  <2> QED BY <2>3, <2>5, <2>6, <2>7
<1> QED BY <1>7, <1>8

\* TablesAccepted: every SSTable a flush or a compaction writes passes the
\* checks of SsTable::open, its Bloom filter included, and every merge passes
\* those of compact_level0_after_trigger; so the engine never refuses them.
THEOREM TablesAreAccepted == Spec => []TablesAccepted
<1>1. LsmInv /\ ReadsInv => TablesAccepted
  BY AcceptedFollows
<1> QED BY <1>1, LsmInvariant, ReadsInvariant, PTL
-----------------------------------------------------------------------------
\* The engine implements the key-value contract: each action is a mutation, a
\* failed one, a loss, a recovery or nothing to the caller.

\* A step of the contract, or none.
KvStep == [Kv!KvNext]_(Kv!kvVars)

\* Nothing is told to the caller, who keeps the handle or loses it.
LEMMA QuietStep ==
    ASSUME acked' = acked, pending' = pending, h # NoHandle \/ h' = NoHandle
    PROVE  KvStep
<1>1. CASE (h # NoHandle) = (h' # NoHandle)
  BY <1>1 DEF KvStep, Kv!kvVars
<1>2. CASE h # NoHandle /\ h' = NoHandle
  BY <1>2 DEF KvStep, Kv!KvNext, Kv!Lose
<1> QED BY <1>1, <1>2

\* A mutation is in doubt.
LEMMA DoubtStep ==
    ASSUME acked' = acked, h # NoHandle, h' = NoHandle, NEW op \in Op, pending' = {op}
    PROVE  KvStep
<1>1. Kv!FailMutation(op)
  BY DEF Kv!FailMutation
<1> QED BY <1>1 DEF KvStep, Kv!KvNext, Kv!Op, Op, Kv!Entry, Entry

\* A running call that gives up leaves its mutation in doubt; a crash between
\* calls leaves none.
LEMMA GiveUpStep ==
    ASSUME LsmInv, h # NoHandle, GiveUp, acked' = acked
    PROVE  KvStep
<1>1. h' = NoHandle /\ pending' = inflight /\ pending = {}
  BY CandidatesAre DEF GiveUp, LsmInv
<1>2. CASE inflight = {}
  BY <1>1, <1>2, QuietStep
<1>3. CASE inflight # {}
  <2>1. PICK op \in Op : inflight = {op}
    BY <1>3 DEF LsmInv, StepInv
  <2> QED BY <1>1, <2>1, DoubtStep
<1> QED BY <1>2, <1>3

\* A mutation returns.
LEMMA AcknowledgeStep ==
    ASSUME LsmInv, step # "idle", h # NoHandle, h' # NoHandle, Acknowledge, NEW m, m \in Told
    PROVE  KvStep
<1>1. PICK op \in Op : inflight = {op}
  BY DEF LsmInv, StepInv
<1>2. m = Effect(acked, op)
  BY <1>1 DEF Told
<1>3. acked' = Effect(acked, op) /\ pending' = pending
  BY <1>2, AckedIs DEF Acknowledge
<1>4. Kv!Mutate(op)
  BY <1>3 DEF Kv!Mutate, Kv!Effect, Effect
<1> QED BY <1>4 DEF KvStep, Kv!KvNext, Kv!Op, Op, Kv!Entry, Entry

\* Opening decides the mutation in doubt.
LEMMA OpenStep ==
    ASSUME LsmInv, ReadsInv, Open
    PROVE  KvStep
<1>1. PICK m \in Candidates : DiskShows(m)
  BY DEF ReadsInv
<1>2. acked' = m /\ pending' = {} /\ inflight = {}
  BY <1>1, OpenShows DEF Open, LsmInv, StepInv
<1>3. m \in {acked} \cup {Effect(acked, op) : op \in pending}
  BY <1>1, <1>2 DEF Candidates
<1>4. h' # NoHandle
  BY OpenInv
<1>5. Kv!Recover
  BY <1>2, <1>3, <1>4 DEF Kv!Recover, Kv!Effect, Effect
<1> QED BY <1>5 DEF KvStep, Kv!KvNext

\* So does creating, where nothing was promised.
LEMMA CreateStep ==
    ASSUME LsmInv, Create
    PROVE  KvStep
<1>1. acked' = acked /\ pending' = pending /\ pending = {}
  BY DEF Create, LsmInv, StepInv
<1>2. CASE h' = NoHandle
  BY <1>1, <1>2, QuietStep
<1>3. CASE h' # NoHandle
  <2>1. Kv!Recover
    BY <1>1, <1>3 DEF Kv!Recover
  <2> QED BY <2>1 DEF KvStep, Kv!KvNext
<1> QED BY <1>2, <1>3

\* A mutation that failed is in doubt; one that runs is not told yet.
LEMMA MutateStep ==
    ASSUME NEW op \in Op, Mutate(op)
    PROVE  KvStep
<1>1. h # NoHandle /\ acked' = acked
  BY DEF Mutate
<1>2. pending' = pending \/ (h' = NoHandle /\ pending' = {op})
  BY DEF Mutate
<1> QED BY <1>1, <1>2, QuietStep, DoubtStep

\* A durable write of a running call is not told to the caller.
LEMMA WriteStep ==
    ASSUME LsmInv, h # NoHandle, acked' = acked, GiveUp \/ pending' = pending
    PROVE  KvStep
BY GiveUpStep, QuietStep

\* A running call.
LEMMA RunningStep ==
    ASSUME LsmInv, LsmInv', ReadsInv, RunningCall
    PROVE  KvStep
<1>1. h # NoHandle /\ step # "idle"
  BY DEF RunningCall, FlushInitManifest, FlushInitCurrent, FlushTable, SkipCompaction,
         CompactTable, RotateWal, SkipRotation, WriteManifest, Publish, MirrorFails,
         FinishCompaction, FinishRotation, LsmInv, StepInv
<1>2. PICK m \in Told : TRUE
  BY <1>1 DEF ReadsInv, HandleShows
<1>3. CASE FlushInitManifest
  <2>1. acked' = acked /\ (GiveUp \/ pending' = pending)
    BY <1>3 DEF FlushInitManifest, ProceedOrGiveUp, Proceed
  <2> QED BY <1>1, <2>1, WriteStep
<1>4. CASE FlushInitCurrent
  <2>1. acked' = acked /\ (GiveUp \/ pending' = pending)
    BY <1>4 DEF FlushInitCurrent
  <2> QED BY <1>1, <2>1, WriteStep
<1>5. CASE FlushTable
  <2>1. acked' = acked /\ (GiveUp \/ pending' = pending)
    BY <1>5 DEF FlushTable, ProceedOrGiveUp, Proceed
  <2> QED BY <1>1, <2>1, WriteStep
<1>6. CASE SkipCompaction
  <2>1. acked' = acked /\ pending' = pending
    BY <1>6 DEF SkipCompaction, Proceed
  <2> QED BY <1>1, <2>1, WriteStep
<1>7. CASE CompactTable
  <2>1. acked' = acked /\ (GiveUp \/ pending' = pending)
    BY <1>7 DEF CompactTable, ProceedOrGiveUp, Proceed
  <2> QED BY <1>1, <2>1, WriteStep
<1>8. CASE RotateWal
  <2>1. acked' = acked /\ (GiveUp \/ pending' = pending)
    BY <1>8 DEF RotateWal, ProceedOrGiveUp, Proceed
  <2> QED BY <1>1, <2>1, WriteStep
<1>9. CASE SkipRotation
  <2>1. Acknowledge /\ h' = h
    BY <1>9 DEF SkipRotation
  <2> QED BY <1>1, <1>2, <2>1, AcknowledgeStep
<1>10. CASE WriteManifest
  <2>1. acked' = acked /\ (GiveUp \/ pending' = pending)
    BY <1>10 DEF WriteManifest, ProceedOrGiveUp, Proceed
  <2> QED BY <1>1, <2>1, WriteStep
<1>11. CASE Publish
  <2>1. acked' = acked /\ (GiveUp \/ pending' = pending)
    BY <1>11 DEF Publish, ProceedOrGiveUp, Proceed
  <2> QED BY <1>1, <2>1, WriteStep
<1>12. CASE MirrorFails
  <2>1. acked' = acked /\ GiveUp
    BY <1>12 DEF MirrorFails
  <2> QED BY <1>1, <2>1, WriteStep
<1>13. CASE FinishCompaction
  <2>1. acked' = acked /\ pending' = pending
    BY <1>13 DEF FinishCompaction
  <2> QED BY <1>1, <2>1, WriteStep
<1>14. CASE FinishRotation
  <2>1. Acknowledge /\ h' # NoHandle
    BY <1>14, FinishRotationInv DEF FinishRotation
  <2> QED BY <1>1, <1>2, <2>1, AcknowledgeStep
<1> QED
  BY <1>3, <1>4, <1>5, <1>6, <1>7, <1>8, <1>9, <1>10, <1>11, <1>12, <1>13, <1>14
  DEF RunningCall

\* Every action of the engine.
LEMMA NextStep ==
    ASSUME LsmInv, LsmInv', ReadsInv, Next
    PROVE  KvStep
<1>1. CASE Create
  BY <1>1, CreateStep
<1>2. CASE CreateInterrupted
  <2>1. acked' = acked /\ pending' = pending /\ h' = h
    BY <1>2 DEF CreateInterrupted
  <2> QED BY <2>1, QuietStep
<1>3. CASE Open
  BY <1>3, OpenStep
<1>4. CASE OpenRefused \/ OpenFails \/ MutateExhausted
  <2>1. acked' = acked /\ pending' = pending /\ h' = NoHandle
    BY <1>4 DEF OpenRefused, OpenFails, MutateExhausted
  <2> QED BY <2>1, QuietStep
<1>5. CASE Crash
  <2>1. h # NoHandle /\ GiveUp /\ acked' = acked
    BY <1>5 DEF Crash
  <2> QED BY <2>1, GiveUpStep
<1>6. CASE \E op \in Op : Mutate(op)
  BY <1>6, MutateStep
<1>7. CASE RunningCall
  BY <1>7, RunningStep
<1> QED BY <1>1, <1>2, <1>3, <1>4, <1>5, <1>6, <1>7 DEF Next

\* RefinesKvStore: with WAL, MemTables, SSTables and manifests hidden, the LSM
\* engine is the store of the common key-value interface; a failed or cut-off
\* mutation is decided once, by the open that follows.
THEOREM LsmRefinesKvStore == Spec => RefinesKvStore
<1>1. Init => Kv!KvInit
  BY DEF Init, Kv!KvInit, Kv!EmptyMap, EmptyMap
<1>2. LsmInv /\ LsmInv' /\ ReadsInv /\ [Next]_vars => [Kv!KvNext]_(Kv!kvVars)
  <2>1. ASSUME LsmInv, LsmInv', ReadsInv, Next PROVE KvStep
    BY <2>1, NextStep
  <2>2. UNCHANGED vars => UNCHANGED Kv!kvVars
    BY DEF vars, Kv!kvVars
  <2> QED BY <2>1, <2>2 DEF KvStep
<1> QED BY <1>1, <1>2, LsmInvariant, ReadsInvariant, PTL DEF Spec, RefinesKvStore, Kv!KvSpec
=============================================================================
