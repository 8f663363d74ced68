---------------------------- MODULE BTreeProofs ----------------------------
(***************************************************************************)
(* The B+ tree engine is crash safe, copies on write and implements the    *)
(* key-value contract, for every set of keys and values, every number of   *)
(* faults and every bound on the generations below 2^MAX_TREE_HEIGHT,      *)
(* provided that open never fails to read the newest superblock            *)
(* (~NewestMayBeUnread).  Without this open falls back to the older one    *)
(* and none of the theorems holds; the property NewestIsAuthoritative of   *)
(* BTree shows it.  The read of the older superblock may fail.             *)
(*                                                                         *)
(* The inductive invariant BtInv says what Recoverable leaves out: the two *)
(* superblocks differ by one generation at most (Mirrored), the file has   *)
(* the committed pages and one more at most (Durable), the map took one    *)
(* generation for each of its keys (Made), and the mutation that runs      *)
(* still keeps its promise: the writes to come spare the published tree    *)
(* and lead to the tree of the new map (RunOk, Promise). Without the       *)
(* promise the invariant is not inductive: set_root would publish an       *)
(* unknown tree.                                                           *)
(***************************************************************************)
EXTENDS BTree, BTreePlanProofs

\* The two superblocks: each in its slot, and one of them current.
Mirrored(s) ==
    /\ s \in [{0, 1} -> Superblocks \cup {Torn}]
    /\ \A i \in {0, 1} : s[i] # Torn => s[i].slot = i /\ s[i].count >= FirstPage
    /\ Chosen(s)
Newer(s, i, j) == s[i].gen > s[j].gen \/ (s[i].gen = s[j].gen /\ i <= j)

\* choose_superblock picks the slot that no valid one is newer than.
LEMMA NewestIs ==
    ASSUME NEW s, Mirrored(s), NEW i \in ValidSlots(s), \A j \in ValidSlots(s) : Newer(s, i, j)
    PROVE  NewestSlot(s) = i
<1>1. \A j \in ValidSlots(s) : j \in {0, 1} /\ s[j].gen \in Int
  BY DEF ValidSlots, Mirrored, Superblocks
<1>2. \A k \in ValidSlots(s) : (\A j \in ValidSlots(s) : Newer(s, k, j)) => k = i
  BY <1>1 DEF Newer
<1>3. NewestSlot(s) = CHOOSE k \in ValidSlots(s) : \A j \in ValidSlots(s) : Newer(s, k, j)
  BY DEF NewestSlot, Newer
<1> QED BY <1>2, <1>3

\* Some slot is valid and none newer.
LEMMA NewestExists ==
    ASSUME NEW s, Mirrored(s)
    PROVE  \E i \in ValidSlots(s) : \A j \in ValidSlots(s) : Newer(s, i, j)
<1>1. \A j \in ValidSlots(s) : j \in {0, 1} /\ s[j].gen \in Int
  BY DEF ValidSlots, Mirrored, Superblocks
<1>2. ValidSlots(s) # {} /\ ValidSlots(s) \subseteq {0, 1}
  BY DEF Mirrored, Chosen, ValidSlots
<1>3. CASE ValidSlots(s) = {0}
  BY <1>1, <1>3 DEF Newer
<1>4. CASE ValidSlots(s) = {1}
  BY <1>1, <1>4 DEF Newer
<1>5. CASE ValidSlots(s) = {0, 1} /\ s[0].gen >= s[1].gen
  BY <1>1, <1>5 DEF Newer
<1>6. CASE ValidSlots(s) = {0, 1} /\ ~(s[0].gen >= s[1].gen)
  BY <1>1, <1>6 DEF Newer
<1> QED BY <1>2, <1>3, <1>4, <1>5, <1>6

\* The current superblock and its slot.
LEMMA ActiveFacts ==
    ASSUME NEW s, Mirrored(s)
    PROVE  /\ Active(s) \in Superblocks /\ Active(s) = s[Active(s).slot]
           /\ Active(s).count >= FirstPage
<1>1. \A j \in ValidSlots(s) : j \in {0, 1} /\ s[j].gen \in Int /\ s[j] \in Superblocks
  BY DEF ValidSlots, Mirrored, Superblocks
<1>2. ValidSlots(s) # {} /\ ValidSlots(s) \subseteq {0, 1}
  BY DEF Mirrored, Chosen, ValidSlots
<1>3. \E i \in ValidSlots(s) : \A j \in ValidSlots(s) : Newer(s, i, j)
  BY NewestExists
<1>4. PICK i \in ValidSlots(s) : NewestSlot(s) = i
  BY <1>3, NewestIs
<1>5. s[i].slot = i /\ s[i] \in Superblocks /\ s[i].count >= FirstPage
  BY <1>1 DEF ValidSlots, Mirrored
<1> QED BY <1>4, <1>5 DEF Active

\* A write into the other slot: the next superblock takes over, or a torn
\* one leaves the current one alone.
LEMMA Takeover ==
    ASSUME NEW s, Mirrored(s), NEW next \in Superblocks, next.slot = Alternate(Active(s).slot),
           next.gen = Active(s).gen + 1, next.count >= FirstPage, NEW image \in {Torn, next}
    PROVE  LET t == [s EXCEPT ![next.slot] = image]
           IN  Mirrored(t) /\ Active(t) = IF image = Torn THEN Active(s) ELSE next
<1> DEFINE t == [s EXCEPT ![next.slot] = image]
           a == Active(s)
           o == next.slot
<1>1. /\ a \in Superblocks /\ a = s[a.slot] /\ a.count >= FirstPage
      /\ a.slot \in {0, 1} /\ a.gen \in Int
  BY ActiveFacts DEF Superblocks
<1>2. o \in {0, 1} /\ a.slot # o /\ {0, 1} = {o, a.slot} /\ o = 1 - a.slot
  BY <1>1 DEF Alternate
<1>3. t \in [{0, 1} -> Superblocks \cup {Torn}] /\ t[o] = image /\ t[a.slot] = a
  BY <1>1, <1>2 DEF Mirrored
<1>4. a # Torn /\ next # Torn
  BY <1>1, NoSuperblock
<1> HIDE DEF t, a
<1>5. \A i \in {0, 1} : t[i] # Torn => t[i].slot = i /\ t[i].count >= FirstPage
  <2>1. a.slot \in {0, 1} => a.slot = a.slot
    OBVIOUS
  <2> QED BY <1>1, <1>2, <1>3
<1>6. CASE image = Torn
  <2>1. ValidSlots(t) = {a.slot}
    BY <1>2, <1>3, <1>4, <1>6 DEF ValidSlots
  <2>2. ValidSlots(t) # {0, 1}
    BY <1>2, <2>1
  <2>3. Mirrored(t)
    BY <1>3, <1>5, <2>1, <2>2 DEF Mirrored, Chosen
  <2>4. NewestSlot(t) = a.slot
    BY <1>1, <1>3, <2>1, <2>3, NewestIs DEF Newer
  <2> QED BY <1>3, <1>6, <2>3, <2>4 DEF Active, a, t
<1>7. CASE image = next /\ image # Torn
  <2>1. ValidSlots(t) = {0, 1} /\ ValidSlots(t) = {o, a.slot}
    BY <1>2, <1>3, <1>4, <1>7 DEF ValidSlots
  <2>2. t[o].gen = a.gen + 1 /\ t[a.slot].gen = a.gen
    BY <1>3, <1>7 DEF a
  <2>3. Agree(t[0], t[1])
    BY <1>1, <1>2, <2>2 DEF Agree
  <2>4. Mirrored(t)
    BY <1>3, <1>5, <2>1, <2>3 DEF Mirrored, Chosen
  <2>5. \A j \in ValidSlots(t) : Newer(t, o, j)
    BY <1>1, <1>2, <2>1, <2>2 DEF Newer
  <2>6. NewestSlot(t) = o
    BY <2>1, <2>4, <2>5, NewestIs
  <2> QED BY <1>3, <1>7, <2>4, <2>6 DEF Active, t
<1> QED BY <1>6, <1>7

\* There are fewer generations than a tree of more than MAX_TREE_HEIGHT levels
\* holds keys (u64::MAX < 2^64).
FewGenerations == \E pow : Powers(pow) /\ MaxGeneration < pow[MaxTreeHeight]
\* Every key of a map took a generation of its own.
Made(map, gen) == IsFiniteSet(Kept(map)) /\ Cardinality(Kept(map)) <= gen

\* A mutation that cannot publish: its rewriting is impossible, or there is no
\* generation left.
Stuck(r) == r.err \/ Exhausted
RunOk(r) ==
    /\ r = [op |-> r.op, writes |-> r.writes, root |-> r.root, err |-> r.err]
    /\ r.op \in Op
    /\ Promise(pages, h.count, h.root, h.root, Effect(acked, r.op), r.writes, Stuck(r), r.root)
    /\ h.count \in DOMAIN pages =>
          /\ r.writes # << >> /\ r.writes[1].id = h.count /\ pages[h.count] = r.writes[1].page
          /\ h.gen < MaxGeneration

Durable ==
    /\ Mirrored(sb)
    /\ \/ DOMAIN pages = FirstPage .. Active(sb).count - 1
       \/ DOMAIN pages = FirstPage .. Active(sb).count
    /\ \E map \in {acked} \cup {Effect(acked, op) : op \in pending} :
          Reads(pages, Active(sb).count, Active(sb).root, map) /\ Made(map, Active(sb).gen)
Absent == pages = << >> /\ acked = EmptyMap /\ pending = {} /\ h = NoHandle /\ run = {}
Handle ==
    /\ file = "formed" /\ h = Active(sb) /\ pending = {}
    /\ \/ run = {} /\ DOMAIN pages = FirstPage .. h.count - 1
       \/ \E r \in run : run = {r} /\ RunOk(r)

BtInv ==
    /\ file \in {"none", "short", "formed"}
    /\ sb \in [{0, 1} -> Superblocks \cup {Torn}]
    /\ PageMap(pages) /\ acked \in Map /\ pending \in SUBSET Op /\ faults \in 0 .. MaxFaults
    /\ IF file = "formed" THEN Durable ELSE Absent
    /\ IF h = NoHandle THEN run = {} ELSE Handle

-----------------------------------------------------------------------------
\* The empty map of a new file needs no generation.
LEMMA MadeEmpty ==
    ASSUME NEW gen \in Nat
    PROVE  Made(EmptyMap, gen)
<1>1. Kept(EmptyMap) = {}
  BY DEF Kept, EmptyMap
<1>2. IsFiniteSet({}) /\ Cardinality({}) = 0
  BY FS_EmptySet
<1> QED BY <1>1, <1>2 DEF Made

\* Generations pass without a new key: commit_new_page takes one as well.
LEMMA MadeLater ==
    ASSUME NEW map, NEW gen \in Nat, Made(map, gen), NEW later \in Nat, gen <= later
    PROVE  Made(map, later)
<1>1. IsFiniteSet(Kept(map)) /\ Cardinality(Kept(map)) <= gen
  BY DEF Made
<1>2. Cardinality(Kept(map)) \in Nat
  BY <1>1, FS_CardinalityType
<1> QED BY <1>1, <1>2 DEF Made

\* A mutation adds one key at most, and set_root takes a generation for it.
LEMMA MadeEffect ==
    ASSUME NEW map \in Map, NEW op \in Op, NEW gen \in Nat, Made(map, gen)
    PROVE  Made(Effect(map, op), gen + 1)
<1>1. PICK S, T : S = Kept(map) /\ T = Kept(Effect(map, op))
  OBVIOUS
<1>2. T \subseteq S \cup {op.key}
  <2>1. ASSUME NEW k \in Keys, k # op.key PROVE Effect(map, op)[k] = map[k]
    BY <2>1 DEF Effect, Map
  <2> QED BY <1>1, <2>1 DEF Kept
<1>3. IsFiniteSet(S) /\ Cardinality(S) <= gen /\ Cardinality(S) \in Nat
  BY <1>1, FS_CardinalityType DEF Made
<1>4. PICK M : M = S \cup {op.key}
  OBVIOUS
<1>5. IsFiniteSet(M) /\ Cardinality(M) \in Nat /\ Cardinality(M) <= gen + 1
  <2>1. IsFiniteSet(M) /\ Cardinality(M) = IF op.key \in S THEN Cardinality(S) ELSE Cardinality(S) + 1
    BY <1>3, <1>4, FS_AddElement
  <2> QED BY <1>3, <2>1
<1>6. IsFiniteSet(T) /\ Cardinality(T) <= Cardinality(M) /\ Cardinality(T) \in Nat
  <2>1. T \in SUBSET M
    BY <1>2, <1>4
  <2>2. IsFiniteSet(T) /\ Cardinality(T) <= Cardinality(M)
    BY <1>5, <2>1, FS_Subset
  <2> QED BY <2>2, FS_CardinalityType
<1>7. Cardinality(T) <= gen + 1
  BY <1>5, <1>6
<1> QED BY <1>1, <1>6, <1>7 DEF Made

\* As long as a generation is left, a map is small enough for the tree.
LEMMA MadeFew ==
    ASSUME FewGenerations, NEW map, NEW gen \in 0 .. MaxGeneration, Made(map, gen)
    PROVE  FewKept(map)
<1>1. PICK pow : Powers(pow) /\ MaxGeneration < pow[MaxTreeHeight]
  BY DEF FewGenerations
<1>2. IsFiniteSet(Kept(map)) /\ Cardinality(Kept(map)) <= gen /\ Cardinality(Kept(map)) \in Nat
  BY FS_CardinalityType DEF Made
<1>3. pow[MaxTreeHeight] \in Nat
  BY <1>1, HeightIsPositive DEF Powers
<1>4. gen \in Nat /\ gen <= MaxGeneration /\ MaxGeneration \in Nat
  BY MaxGenerationIsPositive
<1>5. Cardinality(Kept(map)) < pow[MaxTreeHeight]
  BY <1>1, <1>2, <1>3, <1>4
<1> QED BY <1>1, <1>2, <1>5 DEF FewKept

\* A mutation that is stuck promises less.
LEMMA PromiseLess ==
    ASSUME NEW P, NEW count, NEW root, NEW old, NEW map, NEW w, NEW err, NEW next,
           Promise(P, count, root, old, map, w, err, next), NEW e \in BOOLEAN, err => e
    PROVE  Promise(P, count, root, old, map, w, e, next)
BY DEF Promise

\* The tree reads the same where its pages are kept.
LEMMA ReadsSame ==
    ASSUME NEW P, PageMap(P), NEW Q, PageMap(Q), NEW n \in Nat, NEW m \in Nat, NEW root \in Nat,
           NEW map, Reads(P, n, root, map), Keeps(P, Q, Tree(P, n, root).refs),
           \A id \in Tree(P, n, root).refs : id < m
    PROVE  Reads(Q, m, root, map) /\ Tree(Q, m, root) = Tree(P, n, root)
BY TreeSame DEF Reads

\* The fields of a superblock.
LEMMA SuperblockFacts ==
    ASSUME NEW s \in Superblocks
    PROVE  s.slot \in {0, 1} /\ s.gen \in 0 .. MaxGeneration /\ s.count \in Nat /\ s.root \in Nat
           /\ s # NoHandle /\ s # Torn
BY NoSuperblock DEF Superblocks

\* One page changed or added.
LEMMA WrittenOne ==
    ASSUME NEW P, NEW w, NEW image
    PROVE  LET ws == <<[id |-> w.id, page |-> image]>>
           IN  /\ Written(P, w, image) = Applied(P, ws) /\ DOMAIN ws = {1}
               /\ ws[1].id = w.id /\ ws[1].page = image
<1> DEFINE ws == <<[id |-> w.id, page |-> image]>>
<1>1. DOMAIN ws = {1} /\ ws[1].id = w.id /\ ws[1].page = image
  OBVIOUS
<1> QED BY <1>1 DEF Written

\* A page write changes the set of pages by that page only.
LEMMA WrittenDomain ==
    ASSUME NEW P, NEW w, NEW image
    PROVE  DOMAIN Written(P, w, image) = DOMAIN P \cup {w.id}
<1> DEFINE ws == <<[id |-> w.id, page |-> image]>>
<1>1. Written(P, w, image) = Applied(P, ws) /\ DOMAIN ws = {1} /\ ws[1].id = w.id
  BY WrittenOne
<1> HIDE DEF ws
<1> QED BY <1>1 DEF Applied

\* A page write leaves its image in the page.
LEMMA WrittenAt ==
    ASSUME NEW P, NEW w, NEW image
    PROVE  Written(P, w, image)[w.id] = image
<1> DEFINE ws == <<[id |-> w.id, page |-> image]>>
<1>1. /\ Written(P, w, image) = Applied(P, ws) /\ DOMAIN ws = {1}
      /\ ws[1].id = w.id /\ ws[1].page = image
  BY WrittenOne
<1> HIDE DEF ws
<1>2. (CHOOSE i \in DOMAIN ws : ws[i].id = w.id) = 1
  BY <1>1
<1> QED BY <1>1, <1>2 DEF Applied

\* A page write leaves the other pages.
LEMMA WrittenRest ==
    ASSUME NEW P, NEW w, NEW image, NEW id \in DOMAIN P, id # w.id
    PROVE  Written(P, w, image)[id] = P[id]
<1> DEFINE ws == <<[id |-> w.id, page |-> image]>>
<1>1. /\ Written(P, w, image) = Applied(P, ws) /\ DOMAIN ws = {1}
      /\ ws[1].id = w.id /\ ws[1].page = image
  BY WrittenOne
<1> HIDE DEF ws
<1> QED BY <1>1 DEF Applied

\* A page write, complete or torn, leaves typed or torn pages.
LEMMA WrittenPages ==
    ASSUME NEW P, PageMap(P), NEW w, w.id \in Nat, NEW image \in Page \cup {Torn}
    PROVE  PageMap(Written(P, w, image))
<1> DEFINE Q == Written(P, w, image)
<1>0. DOMAIN Q = DOMAIN P \cup {w.id}
  BY WrittenDomain
<1>1. Q[w.id] = image
  BY WrittenAt
<1>3. \A id \in DOMAIN P : id # w.id => Q[id] = P[id]
  BY WrittenRest
<1> HIDE DEF Q
<1>2. PageMap(Q)
  BY <1>0, <1>1, <1>3 DEF PageMap
<1> QED BY <1>2 DEF Q

\* A page that the published tree does not refer to may be written at will.
LEMMA SparesTree ==
    ASSUME NEW P, PageMap(P), NEW w, w.id \in Nat, NEW image \in Page \cup {Torn},
           NEW n \in Nat, NEW root \in Nat, NEW map, Reads(P, n, root, map),
           w.id \notin Tree(P, n, root).refs, NEW m \in Nat, m >= n
    PROVE  LET Q == Written(P, w, image)
           IN  /\ PageMap(Q) /\ Reads(Q, m, root, map) /\ Tree(Q, m, root) = Tree(P, n, root)
               /\ \A id \in Tree(P, n, root).refs : id \in DOMAIN Q /\ Q[id] = P[id]
<1> DEFINE Q == Written(P, w, image)
           R == Tree(P, n, root).refs
<1>0. DOMAIN Q = DOMAIN P \cup {w.id} /\ PageMap(Q)
  BY WrittenDomain, WrittenPages
<1>1. /\ DOMAIN Q = DOMAIN P \cup {w.id} /\ PageMap(Q)
      /\ \A id \in DOMAIN P : id # w.id => Q[id] = P[id]
  <2>1. \A id \in DOMAIN P : id # w.id => Q[id] = P[id]
    BY WrittenRest
  <2> QED BY <1>0, <2>1
<1> HIDE DEF Q
<1>2. \A id \in R : id \in DOMAIN P /\ id < n
  BY TreeRefs DEF Reads
<1>3. \A id \in R : id \in DOMAIN Q /\ Q[id] = P[id] /\ id < m
  <2>1. \A id \in R : id \in Nat
    BY <1>2 DEF PageMap
  <2> QED BY <1>1, <1>2, <2>1
<1>4. Keeps(P, Q, R)
  BY <1>3 DEF Keeps
<1>5. Reads(Q, m, root, map) /\ Tree(Q, m, root) = Tree(P, n, root)
  BY <1>1, <1>3, <1>4, ReadsSame
<1> QED BY <1>1, <1>3, <1>5 DEF Q

\* More committed pages do not change the tree.
LEMMA LongerFile ==
    ASSUME NEW P, PageMap(P), NEW n \in Nat, NEW m \in Nat, m >= n, NEW root \in Nat, NEW map,
           Reads(P, n, root, map)
    PROVE  Reads(P, m, root, map) /\ Tree(P, m, root) = Tree(P, n, root)
<1>1. \A id \in Tree(P, n, root).refs : id < m
  <2>1. \A id \in Tree(P, n, root).refs : id \in DOMAIN P /\ id < n
    BY TreeRefs DEF Reads
  <2> QED BY <2>1 DEF PageMap
<1>2. Keeps(P, P, Tree(P, n, root).refs)
  BY DEF Keeps
<1> QED BY <1>1, <1>2, ReadsSame

\* The writes to come after the next one.
LEMMA InOrderTail ==
    ASSUME NEW w, NEW count \in Nat, InOrder(w, count), w # << >>, NEW m \in Nat,
           m = count \/ m = count + 1, w[1].id < count \/ m = count + 1
    PROVE  InOrder(Tail(w), m) /\ w[1].id \in Nat /\ w[1].page \in Page
           /\ \A i \in DOMAIN Tail(w) : i + 1 \in DOMAIN w /\ Tail(w)[i] = w[i + 1] /\ w[i + 1].id # w[1].id
<1> DEFINE t == Tail(w)
           W == [id : Nat, page : Page]
<1>1. w \in Seq(W) /\ Len(w) \in Nat \ {0} /\ DOMAIN w = 1 .. Len(w)
      /\ \A i \in DOMAIN w : w[i] \in W
  <2>1. w \in Seq(W)
    BY DEF InOrder
  <2> HIDE DEF W
  <2> QED BY <2>1, SeqFacts
<1>2. t \in Seq(W) /\ DOMAIN t = 1 .. Len(w) - 1 /\ \A i \in 1 .. Len(w) - 1 : t[i] = w[i + 1]
  <2> HIDE DEF W
  <2> QED BY <1>1
<1> HIDE DEF t
<1>3. \A i \in DOMAIN w : w[i].id \in Nat /\ w[i].page \in Page
  BY <1>1
<1>4. \A i \in DOMAIN t : i + 1 \in DOMAIN w /\ t[i] = w[i + 1] /\ i \in Nat /\ i + 1 # 1
  BY <1>1, <1>2, SMTT(30)
<1>5. 1 \in DOMAIN w
  BY <1>1
<1>6. \A i \in DOMAIN t : w[i + 1].id # w[1].id
  BY <1>4, <1>5 DEF InOrder
<1>7. \A i, j \in DOMAIN t : t[i].id = t[j].id => i = j
  BY <1>4 DEF InOrder
<1>8. \A i \in DOMAIN t : t[i].id >= FirstPage
  BY <1>4 DEF InOrder
<1>9. t # << >> => t[1].id <= m
  <2> HAVE t # << >>
  <2>1. 1 \in DOMAIN t /\ 1 + 1 \in DOMAIN w /\ t[1] = w[1 + 1]
    BY <1>1, <1>2
  <2>2. w[1 + 1].id <= count \/ w[1 + 1].id = w[1].id + 1
    BY <1>5, <2>1 DEF InOrder
  <2>3. w[1].id \in Nat /\ w[1 + 1].id \in Nat /\ w[1].id <= count
    BY <1>3, <1>5, <2>1 DEF InOrder
  <2> QED BY <2>1, <2>2, <2>3
<1>10. \A i \in DOMAIN t : i + 1 \in DOMAIN t => t[i + 1].id <= m \/ t[i + 1].id = t[i].id + 1
  <2> TAKE i \in DOMAIN t
  <2> HAVE i + 1 \in DOMAIN t
  <2>1. /\ i + 1 \in DOMAIN w /\ t[i] = w[i + 1] /\ (i + 1) + 1 \in DOMAIN w
        /\ t[i + 1] = w[(i + 1) + 1]
    BY <1>4
  <2>2. w[(i + 1) + 1].id <= count \/ w[(i + 1) + 1].id = w[i + 1].id + 1
    BY <2>1 DEF InOrder
  <2>3. w[(i + 1) + 1].id \in Nat
    BY <1>3, <2>1
  <2> QED BY <2>1, <2>2, <2>3
<1>11. InOrder(t, m)
  BY <1>2, <1>7, <1>8, <1>9, <1>10 DEF InOrder, W
<1> QED BY <1>3, <1>4, <1>5, <1>6, <1>11 DEF t

\* Performing the next write leads where all of them led.
LEMMA AppliedTail ==
    ASSUME NEW P, NEW w, NEW count \in Nat, InOrder(w, count), w # << >>
    PROVE  /\ Applied(Written(P, w[1], w[1].page), Tail(w)) = Applied(P, w)
           /\ w[1].id \in DOMAIN P /\ P[w[1].id] = w[1].page => Applied(P, Tail(w)) = Applied(P, w)
<1> DEFINE W == [id : Nat, page : Page]
           t == Tail(w)
<1>1. w \in Seq(W) /\ Len(w) \in Nat \ {0} /\ DOMAIN w = 1 .. Len(w)
  <2>1. w \in Seq(W)
    BY DEF InOrder
  <2> HIDE DEF W
  <2> QED BY <2>1, SeqFacts
<1>2. DOMAIN t = 1 .. Len(w) - 1 /\ \A i \in 1 .. Len(w) - 1 : t[i] = w[i + 1]
  <2> HIDE DEF W
  <2> QED BY <1>1
<1> HIDE DEF t
<1>3. 1 \in DOMAIN w /\ \A i, j \in DOMAIN w : w[i].id = w[j].id => i = j
  BY <1>1 DEF InOrder
<1>4. \A i \in DOMAIN t : i + 1 \in DOMAIN w /\ t[i] = w[i + 1] /\ i + 1 # 1
  BY <1>1, <1>2
<1>5. \A j \in DOMAIN w : j # 1 => j - 1 \in DOMAIN t /\ (j - 1) + 1 = j
  BY <1>1, <1>2
<1> DEFINE At(id, j) == (CHOOSE i \in DOMAIN w : w[i].id = id) = j
<1>6. \A j \in DOMAIN w : w[CHOOSE i \in DOMAIN w : w[i].id = w[j].id].page = w[j].page
  <2> TAKE j \in DOMAIN w
  <2>1. (CHOOSE i \in DOMAIN w : w[i].id = w[j].id) = j
    BY <1>3
  <2> QED BY <2>1
<1>7. \A j \in DOMAIN t : t[CHOOSE i \in DOMAIN t : t[i].id = t[j].id].page = t[j].page
  <2> TAKE j \in DOMAIN t
  <2>1. \A i \in DOMAIN t : t[i].id = t[j].id => i = j
    BY <1>2, <1>3, <1>4
  <2>2. (CHOOSE i \in DOMAIN t : t[i].id = t[j].id) = j
    BY <2>1
  <2> QED BY <2>2
<1>8. {w[i].id : i \in DOMAIN w} = {w[1].id} \cup {t[i].id : i \in DOMAIN t}
  BY <1>3, <1>4, <1>5
<1>9. \A i \in DOMAIN t : t[i].id # w[1].id
  BY <1>3, <1>4
<1>10. ASSUME NEW Q, DOMAIN Q = DOMAIN P \cup {w[1].id}, Q[w[1].id] = w[1].page,
              \A id \in DOMAIN P : id # w[1].id => Q[id] = P[id]
       PROVE  Applied(Q, t) = Applied(P, w)
  <2> DEFINE A(id) == IF \E i \in DOMAIN t : t[i].id = id
                      THEN t[CHOOSE i \in DOMAIN t : t[i].id = id].page ELSE Q[id]
             B(id) == IF \E i \in DOMAIN w : w[i].id = id
                      THEN w[CHOOSE i \in DOMAIN w : w[i].id = id].page ELSE P[id]
             D == DOMAIN P \cup {w[i].id : i \in DOMAIN w}
  <2>1. DOMAIN Q \cup {t[i].id : i \in DOMAIN t} = D
    BY <1>8, <1>10
  <2>2. ASSUME NEW id \in D PROVE A(id) = B(id)
    <3>1. CASE \E j \in DOMAIN t : t[j].id = id
      <4>1. PICK j \in DOMAIN t : t[j].id = id
        BY <3>1
      <4>2. A(id) = t[j].page
        BY <1>7, <4>1
      <4>3. j + 1 \in DOMAIN w /\ w[j + 1].id = id /\ w[j + 1].page = t[j].page
        BY <1>4, <4>1
      <4>4. B(id) = w[j + 1].page
        BY <1>6, <4>3
      <4> QED BY <4>2, <4>3, <4>4
    <3>2. CASE id = w[1].id
      <4>1. A(id) = Q[id]
        BY <1>9, <3>2
      <4>2. B(id) = w[1].page
        BY <1>3, <1>6, <3>2
      <4> QED BY <1>10, <3>2, <4>1, <4>2
    <3>3. CASE id # w[1].id /\ ~\E j \in DOMAIN t : t[j].id = id
      <4>1. ~\E i \in DOMAIN w : w[i].id = id
        BY <1>4, <1>5, <3>3
      <4>2. A(id) = Q[id] /\ B(id) = P[id]
        BY <3>3, <4>1
      <4>3. id \in DOMAIN P
        BY <4>1
      <4> QED BY <1>10, <3>3, <4>2, <4>3
    <3> QED BY <3>1, <3>2, <3>3
  <2>3. Applied(Q, t) = [id \in DOMAIN Q \cup {t[i].id : i \in DOMAIN t} |-> A(id)]
    BY DEF Applied
  <2>4. Applied(P, w) = [id \in D |-> B(id)]
    BY DEF Applied
  <2> HIDE DEF A, B, D
  <2> QED BY <2>1, <2>2, <2>3, <2>4
<1>11. Applied(Written(P, w[1], w[1].page), t) = Applied(P, w)
  <2> DEFINE Q == Written(P, w[1], w[1].page)
  <2>0. DOMAIN Q = DOMAIN P \cup {w[1].id}
    BY WrittenDomain
  <2>1. Q[w[1].id] = w[1].page
    BY WrittenAt
  <2>2. \A id \in DOMAIN P : id # w[1].id => Q[id] = P[id]
    BY WrittenRest
  <2> HIDE DEF Q
  <2>3. Applied(Q, t) = Applied(P, w)
    BY <1>10, <2>0, <2>1, <2>2
  <2> QED BY <2>3 DEF Q
<1>12. w[1].id \in DOMAIN P /\ P[w[1].id] = w[1].page => Applied(P, t) = Applied(P, w)
  BY <1>10
<1> QED BY <1>11, <1>12 DEF t

\* The next of the writes to come.
LEMMA HeadIs ==
    ASSUME NEW count, NEW w, InOrder(w, count), w # << >>
    PROVE  1 \in DOMAIN w /\ Head(w) = w[1] /\ w[1].id \in Nat /\ w[1].page \in Page
<1> DEFINE W == [id : Nat, page : Page]
<1>1. w \in Seq(W)
  BY DEF InOrder
<1>2. 1 \in DOMAIN w /\ Head(w) = w[1] /\ w[1] \in W
  <2> HIDE DEF W
  <2> QED BY <1>1
<1> QED BY <1>2

\* The promise after the write of a committed page.
LEMMA PromiseRecycle ==
    ASSUME NEW P, PageMap(P), NEW n \in Nat, NEW root \in Nat, NEW map, Reads(P, n, root, map),
           NEW new, NEW w, NEW err, NEW next, Promise(P, n, root, root, new, w, err, next),
           w # << >>, w[1].id < n
    PROVE  LET Q == Written(P, w[1], w[1].page)
           IN  /\ PageMap(Q) /\ Reads(Q, n, root, map)
               /\ Promise(Q, n, root, root, new, Tail(w), err, next)
<1> DEFINE Q == Written(P, w[1], w[1].page)
           t == Tail(w)
<1>1. /\ InOrder(w, n) /\ err \in BOOLEAN /\ \A i \in DOMAIN w : w[i].id \notin Tree(P, n, root).refs
      /\ ~err => Aims(Applied(P, w), next, root, new)
  BY DEF Promise
<1>2. 1 \in DOMAIN w /\ w[1].id \in Nat /\ w[1].page \in Page
  BY <1>1, HeadIs
<1>3. InOrder(t, n)
  BY <1>1, InOrderTail
<1>4. \A i \in DOMAIN t : i + 1 \in DOMAIN w /\ t[i] = w[i + 1]
  BY <1>1, InOrderTail
<1>5. Applied(Q, t) = Applied(P, w)
  BY <1>1, AppliedTail
<1>6. PageMap(Q) /\ Reads(Q, n, root, map) /\ Tree(Q, n, root) = Tree(P, n, root)
  <2>1. w[1].id \notin Tree(P, n, root).refs /\ w[1].page \in Page \cup {Torn} /\ n >= n
    BY <1>1, <1>2
  <2> QED BY <1>2, <2>1, SparesTree
<1> HIDE DEF Q, t
<1>7. Promise(Q, n, root, root, new, t, err, next)
  BY <1>1, <1>3, <1>4, <1>5, <1>6 DEF Promise
<1> QED BY <1>6, <1>7 DEF Q, t

\* After the write of the page beyond the extent.
LEMMA PromiseAppend ==
    ASSUME NEW P, PageMap(P), NEW n \in Nat, NEW root \in Nat, NEW map, Reads(P, n, root, map),
           NEW new, NEW w, NEW err, NEW next, Promise(P, n, root, root, new, w, err, next),
           w # << >>
    PROVE  LET Q == Written(P, w[1], w[1].page)
           IN  /\ PageMap(Q) /\ Reads(Q, n, root, map)
               /\ Promise(Q, n, root, root, new, w, err, next)
<1> DEFINE Q == Written(P, w[1], w[1].page)
<1>1. /\ InOrder(w, n) /\ err \in BOOLEAN /\ \A i \in DOMAIN w : w[i].id \notin Tree(P, n, root).refs
      /\ ~err => Aims(Applied(P, w), next, root, new)
  BY DEF Promise
<1>2. 1 \in DOMAIN w /\ w[1].id \in Nat /\ w[1].page \in Page
  BY <1>1, HeadIs
<1>3. Applied(Q, Tail(w)) = Applied(P, w)
  BY <1>1, AppliedTail
<1>4. w[1].id \in DOMAIN Q /\ Q[w[1].id] = w[1].page
  <2>1. DOMAIN Q = DOMAIN P \cup {w[1].id}
    BY WrittenDomain
  <2>2. Q[w[1].id] = w[1].page
    BY WrittenAt
  <2> QED BY <2>1, <2>2
<1>5. PageMap(Q) /\ Reads(Q, n, root, map) /\ Tree(Q, n, root) = Tree(P, n, root)
  <2>1. w[1].id \notin Tree(P, n, root).refs /\ w[1].page \in Page \cup {Torn} /\ n >= n
    BY <1>1, <1>2
  <2> QED BY <1>2, <2>1, SparesTree
<1> HIDE DEF Q
<1>6. Applied(Q, w) = Applied(P, w)
  <2>1. Applied(Q, Tail(w)) = Applied(Q, w)
    BY <1>1, <1>4, AppliedTail
  <2> QED BY <1>3, <2>1
<1>7. Promise(Q, n, root, root, new, w, err, next)
  BY <1>1, <1>5, <1>6 DEF Promise
<1> QED BY <1>5, <1>7 DEF Q

\* After the superblock that commits it.
LEMMA PromiseAllocate ==
    ASSUME NEW P, PageMap(P), NEW n \in Nat, NEW root \in Nat, NEW map, Reads(P, n, root, map),
           NEW new, NEW w, NEW err, NEW next, Promise(P, n, root, root, new, w, err, next),
           w # << >>, w[1].id = n, n \in DOMAIN P, P[n] = w[1].page
    PROVE  Reads(P, n + 1, root, map) /\ Promise(P, n + 1, root, root, new, Tail(w), err, next)
<1> DEFINE t == Tail(w)
           m == n + 1
<1>1. /\ InOrder(w, n) /\ err \in BOOLEAN /\ \A i \in DOMAIN w : w[i].id \notin Tree(P, n, root).refs
      /\ ~err => Aims(Applied(P, w), next, root, new)
  BY DEF Promise
<1>2. m \in Nat /\ m = n + 1 /\ m >= n
  OBVIOUS
<1> HIDE DEF m
<1>3. InOrder(t, m)
  BY <1>1, <1>2, InOrderTail
<1>4. \A i \in DOMAIN t : i + 1 \in DOMAIN w /\ t[i] = w[i + 1]
  BY <1>1, <1>2, InOrderTail
<1>5. Applied(P, t) = Applied(P, w)
  BY <1>1, AppliedTail
<1>6. Reads(P, m, root, map) /\ Tree(P, m, root) = Tree(P, n, root)
  BY <1>2, LongerFile
<1> HIDE DEF t
<1>7. Promise(P, m, root, root, new, t, err, next)
  BY <1>1, <1>3, <1>4, <1>5, <1>6 DEF Promise
<1> QED BY <1>6, <1>7 DEF m, t

\* No write changes no page.
LEMMA NothingApplied ==
    ASSUME NEW P, PageMap(P)
    PROVE  LET Q == Applied(P, << >>)
           IN  DOMAIN Q = DOMAIN P /\ PageMap(Q) /\ Keeps(Q, P, DOMAIN Q)
<1> DEFINE Q == Applied(P, << >>)
<1>1. DOMAIN Q = DOMAIN P
  BY DEF Applied
<1>2. \A id \in DOMAIN P : Q[id] = P[id]
  BY DEF Applied
<1> HIDE DEF Q
<1>3. PageMap(Q) /\ Keeps(Q, P, DOMAIN Q)
  BY <1>1, <1>2 DEF PageMap, Keeps
<1> QED BY <1>1, <1>3 DEF Q

\* A mutation whose writes are done has built its tree.
LEMMA PromiseKept ==
    ASSUME NEW P, PageMap(P), NEW n \in Nat, \A id \in DOMAIN P : id < n, NEW root, NEW new, NEW next,
           Promise(P, n, root, root, new, << >>, FALSE, next)
    PROVE  next \in Nat /\ next # root /\ Reads(P, n, next, new)
<1> DEFINE Q == Applied(P, << >>)
<1>1. DOMAIN Q = DOMAIN P /\ PageMap(Q) /\ Keeps(Q, P, DOMAIN Q)
  BY NothingApplied
<1>2. Aims(Q, next, root, new)
  BY DEF Promise
<1> HIDE DEF Q
<1>3. next \in Nat /\ next # root /\ Reads(Q, n, next, new)
  BY <1>1, <1>2 DEF Aims
<1>4. Keeps(Q, P, Tree(Q, n, next).refs) /\ \A id \in Tree(Q, n, next).refs : id < n
  <2>1. \A id \in Tree(Q, n, next).refs : id \in DOMAIN Q /\ id < n
    BY <1>1, <1>3, TreeRefs DEF Reads
  <2> QED BY <1>1, <2>1 DEF Keeps
<1> QED BY <1>1, <1>3, <1>4, ReadsSame
-----------------------------------------------------------------------------
\* A usable handle.
LEMMA HandleFacts ==
    ASSUME BtInv, h # NoHandle
    PROVE  /\ file = "formed" /\ Mirrored(sb) /\ h = Active(sb) /\ h \in Superblocks
           /\ PageMap(pages) /\ acked \in Map /\ pending = {} /\ h.count >= FirstPage
           /\ h.count \in Nat /\ h.root \in Nat /\ Reads(pages, h.count, h.root, acked)
           /\ DOMAIN pages = FirstPage .. h.count - 1 \/ DOMAIN pages = FirstPage .. h.count
           /\ Made(acked, h.gen) /\ h.gen \in 0 .. MaxGeneration
<1>1. Handle /\ Durable
  BY DEF BtInv, Handle
<1>2. h \in Superblocks /\ h.count >= FirstPage
  BY <1>1, ActiveFacts DEF Handle, Durable
<1>3. Reads(pages, h.count, h.root, acked) /\ Made(acked, h.gen)
  BY <1>1 DEF Handle, Durable
<1> QED BY <1>1, <1>2, <1>3, SuperblockFacts DEF BtInv, Handle, Durable

\* A mutation that runs.
LEMMA RunFacts ==
    ASSUME BtInv, NEW r \in run
    PROVE  h # NoHandle /\ run = {r} /\ RunOk(r)
<1>1. h # NoHandle /\ Handle
  BY DEF BtInv
<1> QED BY <1>1 DEF Handle

\* What the next write is.
LEMMA DueFacts ==
    ASSUME BtInv, NEW r \in run
    PROVE  /\ Recycles(r) => /\ r.writes # << >> /\ r.writes[1].id < h.count
                             /\ Due(r) = r.writes[1] /\ r.writes[1].id \in DOMAIN pages
                             /\ DOMAIN pages = FirstPage .. h.count - 1
           /\ Appends(r) => /\ r.writes # << >> /\ r.writes[1].id = h.count
                            /\ Due(r) = r.writes[1] /\ DOMAIN pages = FirstPage .. h.count - 1
           /\ Allocates(r) => /\ r.writes # << >> /\ r.writes[1].id = h.count
                              /\ pages[h.count] = r.writes[1].page /\ h.gen < MaxGeneration
                              /\ h.count \in DOMAIN pages /\ DOMAIN pages = FirstPage .. h.count
           /\ ~Allocates(r) => DOMAIN pages = FirstPage .. h.count - 1
<1>1. h # NoHandle /\ RunOk(r)
  BY RunFacts
<1>2. InOrder(r.writes, h.count)
  BY <1>1 DEF RunOk, Promise
<1>3. /\ h.count \in Nat /\ h.count >= FirstPage
      /\ DOMAIN pages = FirstPage .. h.count - 1 \/ DOMAIN pages = FirstPage .. h.count
  BY <1>1, HandleFacts
<1>4. FirstPage \in Nat
  BY DEF FirstPage
<1>5. r.writes # << >> => /\ Due(r) = r.writes[1] /\ r.writes[1].id \in Nat
                          /\ r.writes[1].id >= FirstPage
  <2> HAVE r.writes # << >>
  <2>1. 1 \in DOMAIN r.writes /\ Head(r.writes) = r.writes[1] /\ r.writes[1].id \in Nat
    BY <1>2, HeadIs
  <2> QED BY <1>2, <2>1 DEF Due, InOrder
<1>6. h.count \in DOMAIN pages =>
          /\ r.writes # << >> /\ r.writes[1].id = h.count /\ pages[h.count] = r.writes[1].page
          /\ h.gen < MaxGeneration
  BY <1>1 DEF RunOk
<1>7. h.count \notin DOMAIN pages => DOMAIN pages = FirstPage .. h.count - 1
  BY <1>3, <1>4
<1>8. h.count \in DOMAIN pages => DOMAIN pages = FirstPage .. h.count
  BY <1>3, <1>4
<1>9. CASE Allocates(r)
  <2>1. h.count \in DOMAIN pages
    BY <1>9 DEF Allocates
  <2>2. ~Recycles(r) /\ ~Appends(r)
    BY <1>3, <1>5, <1>6, <2>1 DEF Recycles, Appends
  <2> QED BY <1>6, <1>8, <1>9, <2>1, <2>2
<1>10. CASE ~Allocates(r)
  <2>1. h.count \notin DOMAIN pages
    BY <1>6, <1>10 DEF Allocates
  <2>2. Recycles(r) => r.writes[1].id \in DOMAIN pages
    BY <1>3, <1>4, <1>5, <1>7, <2>1 DEF Recycles
  <2> QED BY <1>5, <1>7, <1>10, <2>1, <2>2 DEF Recycles, Appends
<1> QED BY <1>9, <1>10

\* A usable handle after a step, from the state of the file and the run.
HandleNext(r) ==
    /\ h' # NoHandle /\ file' = "formed" /\ h' = Active(sb') /\ Mirrored(sb')
    /\ PageMap(pages') /\ acked' \in Map /\ pending' = {} /\ faults' \in 0 .. MaxFaults
    /\ Reads(pages', h'.count, h'.root, acked')
    /\ DOMAIN pages' = FirstPage .. h'.count - 1 \/ DOMAIN pages' = FirstPage .. h'.count
    /\ Made(acked', h'.gen)

\* The invariant after a step of a mutation that goes on.
LEMMA Running ==
    ASSUME NEW r, HandleNext(r), run' = {r}, RunOk(r)'
    PROVE  BtInv'
<1>1. Durable'
  BY DEF HandleNext, Durable
<1>2. Handle'
  BY DEF HandleNext, Handle
<1>3. sb' \in [{0, 1} -> Superblocks \cup {Torn}]
  BY DEF HandleNext, Mirrored
<1> QED BY <1>1, <1>2, <1>3 DEF BtInv, HandleNext

\* The invariant after a step that ends the mutation.
LEMMA Idle ==
    ASSUME HandleNext({}), run' = {}, DOMAIN pages' = FirstPage .. h'.count - 1
    PROVE  BtInv'
<1>1. Durable'
  BY DEF HandleNext, Durable
<1>2. Handle'
  BY DEF HandleNext, Handle
<1>3. sb' \in [{0, 1} -> Superblocks \cup {Torn}]
  BY DEF HandleNext, Mirrored
<1> QED BY <1>1, <1>2, <1>3 DEF BtInv, HandleNext

\* The handle is lost.
LEMMA Lost ==
    ASSUME BtInv, file = "formed", file' = file, h' = NoHandle, run' = {}, acked' = acked,
           pending' \in SUBSET Op, faults' \in 0 .. MaxFaults, PageMap(pages'), Durable'
    PROVE  BtInv'
<1>1. sb' \in [{0, 1} -> Superblocks \cup {Torn}]
  BY DEF Durable, Mirrored
<1> QED BY <1>1 DEF BtInv

\* A mutation with one write less to come.
LEMMA Advanced ==
    ASSUME NEW o, NEW w, NEW ro, NEW e, NEW r,
           r = [op |-> o, writes |-> w, root |-> ro, err |-> e]
    PROVE  [r EXCEPT !.writes = Tail(@)] = [op |-> o, writes |-> Tail(w), root |-> ro, err |-> e]
<1> DEFINE r2 == [op |-> o, writes |-> Tail(w), root |-> ro, err |-> e]
<1>1. r.writes = w
  OBVIOUS
<1>2. \A t : [r EXCEPT !.writes = t] = [op |-> o, writes |-> t, root |-> ro, err |-> e]
  OBVIOUS
<1> QED BY <1>1, <1>2

\* commit_recycled_page keeps the invariant.
LEMMA RecycleKeeps ==
    ASSUME BtInv, NEW r \in run, Recycle(r)
    PROVE  BtInv'
<1> DEFINE n == h.count
           w == r.writes
           r2 == [op |-> r.op, writes |-> Tail(w), root |-> r.root, err |-> r.err]
           new == Effect(acked, r.op)
<1>1. h # NoHandle /\ RunOk(r) /\ run = {r}
  BY RunFacts
<1>2. /\ w # << >> /\ w[1].id < n /\ Due(r) = w[1] /\ w[1].id \in DOMAIN pages
      /\ DOMAIN pages = FirstPage .. n - 1
  BY DueFacts DEF Recycle
<1>3. /\ n \in Nat /\ n >= FirstPage /\ h.root \in Nat /\ PageMap(pages) /\ Reads(pages, n, h.root, acked)
      /\ file = "formed" /\ Mirrored(sb) /\ h = Active(sb) /\ acked \in Map /\ pending = {}
      /\ Made(acked, h.gen)
  BY <1>1, HandleFacts
<1>0. PICK e : e = Stuck(r)
  OBVIOUS
<1>4. /\ Promise(pages, n, h.root, h.root, new, w, e, r.root) /\ r.op \in Op
      /\ r = [op |-> r.op, writes |-> r.writes, root |-> r.root, err |-> r.err]
  BY <1>0, <1>1 DEF RunOk
<1>5. /\ pages' = Written(pages, w[1], w[1].page) /\ run' = {r2}
      /\ file' = file /\ sb' = sb /\ h' = h /\ acked' = acked /\ pending' = pending /\ faults' = faults
  <2>0. r = [op |-> r.op, writes |-> w, root |-> r.root, err |-> r.err]
    BY <1>4
  <2>1. [r EXCEPT !.writes = Tail(@)] = r2
    BY <2>0, Advanced, SMTT(30)
  <2> QED BY <1>2, <2>1 DEF Recycle, Advance, ghosts
<1> HIDE DEF n, w, new
<1>6. /\ PageMap(pages') /\ Reads(pages', n, h.root, acked)
      /\ Promise(pages', n, h.root, h.root, new, Tail(w), e, r.root)
  BY <1>2, <1>3, <1>4, <1>5, PromiseRecycle
<1>7. DOMAIN pages' = FirstPage .. n - 1
  <2>1. DOMAIN pages' = DOMAIN pages \cup {w[1].id}
    BY <1>5, WrittenDomain
  <2> QED BY <1>2, <2>1
<1>8. RunOk(r2)'
  <2>1. n \notin DOMAIN pages'
    BY <1>3, <1>7 DEF FirstPage
  <2>2. Stuck(r2)' = e
    BY <1>0, <1>5 DEF Stuck, Exhausted
  <2> QED BY <1>4, <1>5, <1>6, <2>1, <2>2 DEF RunOk, n, new
<1>9. HandleNext(r2)
  BY <1>1, <1>3, <1>5, <1>6, <1>7 DEF HandleNext, BtInv, n
<1> HIDE DEF r2
<1> QED BY <1>5, <1>8, <1>9, Running

\* commit_new_page, whose first write goes beyond the extent, keeps the
\* invariant.
LEMMA AppendKeeps ==
    ASSUME BtInv, NEW r \in run, AppendPage(r)
    PROVE  BtInv'
<1> DEFINE n == h.count
           w == r.writes
           new == Effect(acked, r.op)
<1>1. h # NoHandle /\ RunOk(r) /\ run = {r}
  BY RunFacts
<1>2. w # << >> /\ w[1].id = n /\ Due(r) = w[1] /\ DOMAIN pages = FirstPage .. n - 1
  BY DueFacts DEF AppendPage
<1>3. /\ n \in Nat /\ n >= FirstPage /\ h.root \in Nat /\ PageMap(pages) /\ Reads(pages, n, h.root, acked)
      /\ file = "formed" /\ Mirrored(sb) /\ h = Active(sb) /\ acked \in Map /\ pending = {}
      /\ Made(acked, h.gen)
      /\ h \in Superblocks
  BY <1>1, HandleFacts
<1>0. PICK e : e = Stuck(r)
  OBVIOUS
<1>4. /\ Promise(pages, n, h.root, h.root, new, w, e, r.root) /\ r.op \in Op
      /\ r = [op |-> r.op, writes |-> r.writes, root |-> r.root, err |-> r.err]
  BY <1>0, <1>1 DEF RunOk
<1>5. /\ pages' = Written(pages, w[1], w[1].page) /\ run' = {r} /\ h.gen < MaxGeneration
      /\ file' = file /\ sb' = sb /\ h' = h /\ acked' = acked /\ pending' = pending /\ faults' = faults
  <2>1. h.gen \in 0 .. MaxGeneration /\ h.gen # MaxGeneration
    BY <1>3, SuperblockFacts DEF AppendPage, Exhausted
  <2> QED BY <1>1, <1>2, <2>1, MaxGenerationIsPositive DEF AppendPage, ghosts
<1> HIDE DEF n, w, new
<1>6. /\ PageMap(pages') /\ Reads(pages', n, h.root, acked)
      /\ Promise(pages', n, h.root, h.root, new, w, e, r.root)
  BY <1>2, <1>3, <1>4, <1>5, PromiseAppend
<1>7. DOMAIN pages' = FirstPage .. n
  <2>1. DOMAIN pages' = DOMAIN pages \cup {w[1].id}
    BY <1>5, WrittenDomain
  <2> QED BY <1>2, <1>3, <2>1 DEF FirstPage
<1>8. RunOk(r)'
  <2>1. pages'[n] = w[1].page
    BY <1>2, <1>5, WrittenAt
  <2>2. Stuck(r)' = e
    BY <1>0, <1>5 DEF Stuck, Exhausted
  <2> QED BY <1>2, <1>4, <1>5, <1>6, <2>1, <2>2 DEF RunOk, n, new, w
<1>9. HandleNext(r)
  BY <1>1, <1>3, <1>5, <1>6, <1>7 DEF HandleNext, BtInv, n
<1> QED BY <1>5, <1>8, <1>9, Running

\* commit_new_page, whose second write is the superblock that commits the
\* page, keeps the invariant.
LEMMA AllocateKeeps ==
    ASSUME BtInv, NEW r \in run, Allocate(r)
    PROVE  BtInv'
<1> DEFINE n == h.count
           w == r.writes
           new == Effect(acked, r.op)
           next == Allocated(h)
           r2 == [op |-> r.op, writes |-> Tail(w), root |-> r.root, err |-> r.err]
<1>1. h # NoHandle /\ RunOk(r) /\ run = {r}
  BY RunFacts
<1>2. /\ w # << >> /\ w[1].id = n /\ pages[n] = w[1].page /\ h.gen < MaxGeneration
      /\ n \in DOMAIN pages /\ DOMAIN pages = FirstPage .. n
  BY DueFacts DEF Allocate
<1>3. /\ n \in Nat /\ n >= FirstPage /\ h.root \in Nat /\ PageMap(pages) /\ Reads(pages, n, h.root, acked)
      /\ file = "formed" /\ Mirrored(sb) /\ h = Active(sb) /\ acked \in Map /\ pending = {}
      /\ Made(acked, h.gen)
      /\ h \in Superblocks
  BY <1>1, HandleFacts
<1>0. PICK e : e = Stuck(r)
  OBVIOUS
<1>4. /\ Promise(pages, n, h.root, h.root, new, w, e, r.root) /\ r.op \in Op
      /\ r = [op |-> r.op, writes |-> r.writes, root |-> r.root, err |-> r.err]
  BY <1>0, <1>1 DEF RunOk
<1>5. /\ next \in Superblocks /\ next.slot = Alternate(h.slot) /\ next.gen = h.gen + 1
      /\ next.count = n + 1 /\ next.root = h.root
  <2>1. h.slot \in {0, 1} /\ h.gen \in 0 .. MaxGeneration
    BY <1>3, SuperblockFacts
  <2>2. 1 - h.slot \in {0, 1} /\ h.gen + 1 \in 0 .. MaxGeneration /\ n + 1 \in Nat
    BY <1>2, <1>3, <2>1, MaxGenerationIsPositive
  <2> QED BY <1>3, <2>2 DEF Allocated, Superblock, Superblocks, Alternate
<1>6. /\ pages' = pages /\ run' = {r2} /\ h' = next /\ sb' = [sb EXCEPT ![next.slot] = next]
      /\ file' = file /\ acked' = acked /\ pending' = pending /\ faults' = faults
  <2>0. r = [op |-> r.op, writes |-> w, root |-> r.root, err |-> r.err]
    BY <1>4
  <2>1. [r EXCEPT !.writes = Tail(@)] = r2
    BY <2>0, Advanced
  <2> QED BY <2>1 DEF Allocate, Advance, ghosts
<1> HIDE DEF n, w, new, next
<1>7. /\ Reads(pages, n + 1, h.root, acked)
      /\ Promise(pages, n + 1, h.root, h.root, new, Tail(w), e, r.root)
  BY <1>2, <1>3, <1>4, PromiseAllocate
<1>8. Mirrored(sb') /\ Active(sb') = next
  <2>1. next # Torn /\ n + 1 >= FirstPage
    BY <1>3, <1>5, SuperblockFacts DEF FirstPage
  <2> QED BY <1>3, <1>5, <1>6, <2>1, Takeover
<1>9. DOMAIN pages = FirstPage .. (n + 1) - 1 /\ n + 1 \notin DOMAIN pages
  BY <1>2, <1>3 DEF FirstPage
<1>10. RunOk(r2)'
  <2>1. PICK later : later = Stuck(r2)'
    OBVIOUS
  <2>2. later \in BOOLEAN /\ (e => later)
    <3>1. ~Exhausted
      BY <1>2, <1>3, SuperblockFacts DEF Exhausted
    <3>2. r2.err = r.err
      OBVIOUS
    <3>3. e = (r.err \/ Exhausted) /\ later = (r2.err \/ Exhausted')
      BY <1>0, <2>1 DEF Stuck
    <3> HIDE DEF r2
    <3> QED BY <3>1, <3>2, <3>3, Zenon
  <2>3. Promise(pages, n + 1, h.root, h.root, new, Tail(w), later, r.root)
    BY <1>7, <2>2, PromiseLess
  <2> QED BY <1>4, <1>5, <1>6, <1>9, <2>1, <2>3 DEF RunOk, new
<1>11. HandleNext(r2)
  <2>1. next # NoHandle
    BY <1>5, SuperblockFacts
  <2>2. Made(acked', next.gen)
    <3>1. h.gen \in Nat /\ next.gen = h.gen + 1
      BY <1>3, <1>5, SuperblockFacts
    <3> QED BY <1>3, <1>6, <3>1, MadeLater
  <2> QED BY <1>3, <1>5, <1>6, <1>7, <1>8, <1>9, <2>1, <2>2 DEF HandleNext, BtInv
<1> HIDE DEF r2
<1> QED BY <1>6, <1>10, <1>11, Running

\* A put or a delete leaves a map.
LEMMA EffectIsMap ==
    ASSUME NEW map \in Map, NEW op \in Op
    PROVE  Effect(map, op) \in Map
BY DEF Effect, Map, Op, Entry

\* set_root: what a mutation has built takes over, or does not.
LEMMA Published ==
    ASSUME BtInv, NEW r \in run, Publishes(r), ~Exhausted, NEW image \in {Torn, Rooted(h, r.root)}
    PROVE  LET next == Rooted(h, r.root)
               s == [sb EXCEPT ![next.slot] = image]
           IN  /\ next \in Superblocks /\ next.count = h.count /\ next # Torn
               /\ Mirrored(s) /\ Active(s) = IF image = Torn THEN h ELSE next
               /\ Reads(pages, h.count, next.root, Effect(acked, r.op))
               /\ Made(Effect(acked, r.op), next.gen)
               /\ DOMAIN pages = FirstPage .. h.count - 1 /\ r.op \in Op
<1> DEFINE n == h.count
           next == Rooted(h, r.root)
           s == [sb EXCEPT ![next.slot] = image]
           new == Effect(acked, r.op)
<1>1. h # NoHandle /\ RunOk(r) /\ run = {r}
  BY RunFacts
<1>2. r.writes = << >> /\ ~r.err
  BY DEF Publishes
<1>3. /\ n \in Nat /\ n >= FirstPage /\ h.root \in Nat /\ PageMap(pages)
      /\ Mirrored(sb) /\ h = Active(sb) /\ h \in Superblocks
      /\ acked \in Map /\ Made(acked, h.gen)
  BY <1>1, HandleFacts
<1>4. Promise(pages, n, h.root, h.root, new, << >>, FALSE, r.root) /\ r.op \in Op
  <2>1. Promise(pages, n, h.root, h.root, new, r.writes, Stuck(r), r.root) /\ r.op \in Op
    BY <1>1 DEF RunOk
  <2>2. Stuck(r) = FALSE
    BY <1>2, Zenon DEF Stuck
  <2> HIDE DEF n, new
  <2> QED BY <1>2, <2>1, <2>2
<1>5. DOMAIN pages = FirstPage .. n - 1
  <2>1. ~Allocates(r)
    BY <1>2 DEF Allocates
  <2> QED BY <2>1, DueFacts
<1>6. \A id \in DOMAIN pages : id < n
  BY <1>3, <1>5 DEF FirstPage
<1>7. r.root \in Nat /\ r.root # h.root /\ Reads(pages, n, r.root, new)
  <2> HIDE DEF n, new
  <2> QED BY <1>3, <1>4, <1>6, PromiseKept
<1>8. /\ next \in Superblocks /\ next.slot = Alternate(h.slot) /\ next.gen = h.gen + 1
      /\ next.count = n /\ next.root = r.root
  <2>1. h.slot \in {0, 1} /\ h.gen \in 0 .. MaxGeneration /\ h.gen # MaxGeneration
    BY <1>3, SuperblockFacts DEF Exhausted
  <2>2. 1 - h.slot \in {0, 1} /\ h.gen + 1 \in 0 .. MaxGeneration
    BY <2>1, MaxGenerationIsPositive
  <2> QED BY <1>3, <1>7, <2>2 DEF Rooted, Superblock, Superblocks, Alternate
<1>9. next # Torn
  BY <1>8, SuperblockFacts
<1>11. Made(new, next.gen)
  <2>1. h.gen \in Nat
    BY <1>3, SuperblockFacts
  <2> QED BY <1>3, <1>4, <1>8, <2>1, MadeEffect
<1> HIDE DEF next, n, new
<1>10. Mirrored(s) /\ Active(s) = IF image = Torn THEN h ELSE next
  <2>1. image \in {Torn, next}
    BY DEF next
  <2>2. next.count >= FirstPage
    BY <1>3, <1>8
  <2> QED BY <1>3, <1>8, <2>1, <2>2, Takeover
<1> HIDE DEF s
<1> QED BY <1>4, <1>5, <1>7, <1>8, <1>9, <1>10, <1>11 DEF n, new, next, s

\* set_root, which publishes the new root, keeps the invariant.
LEMMA PublishKeeps ==
    ASSUME BtInv, NEW r \in run, Publish(r)
    PROVE  BtInv'
<1> DEFINE next == Rooted(h, r.root)
           s == [sb EXCEPT ![next.slot] = next]
<1>1. h # NoHandle /\ acked \in Map /\ PageMap(pages) /\ file = "formed" /\ pending = {}
      /\ faults \in 0 .. MaxFaults
  BY RunFacts, HandleFacts DEF BtInv
<1>2. Publishes(r) /\ ~Exhausted
  BY DEF Publish
<1>3. /\ next \in Superblocks /\ next.count = h.count /\ next # Torn
      /\ Mirrored(s) /\ Active(s) = IF next = Torn THEN h ELSE next
      /\ Reads(pages, h.count, next.root, Effect(acked, r.op))
      /\ Made(Effect(acked, r.op), next.gen)
      /\ DOMAIN pages = FirstPage .. h.count - 1 /\ r.op \in Op
  BY <1>2, Published
<1>4. /\ sb' = s /\ h' = next /\ run' = {} /\ acked' = Effect(acked, r.op)
      /\ file' = file /\ pages' = pages /\ pending' = pending /\ faults' = faults
  BY DEF Publish
<1> HIDE DEF next, s
<1>5. HandleNext({})
  BY <1>1, <1>3, <1>4, SuperblockFacts, EffectIsMap DEF HandleNext
<1> QED BY <1>3, <1>4, <1>5, Idle

\* A mutation that ends without a change, with a usable handle.
LEMMA EndKeeps ==
    ASSUME BtInv, NEW r \in run, ~Allocates(r), run' = {}, UNCHANGED <<disk, h, ghosts>>,
           faults' \in 0 .. MaxFaults
    PROVE  BtInv'
<1>1. h # NoHandle
  BY RunFacts
<1>2. DOMAIN pages = FirstPage .. h.count - 1
  BY DueFacts
<1>3. HandleNext({})
  BY <1>1, HandleFacts DEF HandleNext, disk, ghosts
<1> QED BY <1>2, <1>3, Idle DEF disk

\* A mutation that is refused keeps the invariant.
LEMMA RefuseKeeps ==
    ASSUME BtInv, NEW r \in run, Refuse(r)
    PROVE  BtInv'
<1>1. ~Allocates(r)
  <2>1. CASE r.writes = << >>
    BY <2>1 DEF Allocates
  <2>2. CASE Appends(r)
    BY <2>2 DEF Allocates, Appends
  <2> QED BY <2>1, <2>2 DEF Refuse
<1>2. faults' \in 0 .. MaxFaults
  BY DEF Refuse, BtInv
<1> QED BY <1>1, <1>2, EndKeeps DEF Refuse

\* A fault is counted.
LEMMA FaultCounts ==
    ASSUME BtInv, Fault
    PROVE  faults' \in 0 .. MaxFaults
<1>1. faults \in 0 .. MaxFaults
  BY DEF BtInv
<1>2. faults < MaxFaults /\ faults' = faults + 1
  BY DEF Fault
<1> QED BY <1>1, <1>2, FaultsAreBounded

\* A read error that ends a mutation keeps the invariant.
LEMMA ReadFailsKeeps ==
    ASSUME BtInv, NEW r \in run, ReadFails(r)
    PROVE  BtInv'
BY EndKeeps, FaultCounts DEF ReadFails

\* A write, sync or superblock write that fails or is cut off keeps the
\* invariant.
LEMMA InterruptKeeps ==
    ASSUME BtInv, NEW r \in run, Interrupt(r)
    PROVE  BtInv'
<1> DEFINE n == h.count
           w == r.writes
           new == Effect(acked, r.op)
<1>1. h # NoHandle /\ RunOk(r) /\ run = {r}
  BY RunFacts
<1>3. /\ n \in Nat /\ n >= FirstPage /\ h.root \in Nat /\ PageMap(pages) /\ Reads(pages, n, h.root, acked)
      /\ file = "formed" /\ Mirrored(sb) /\ h = Active(sb) /\ acked \in Map /\ pending = {}
      /\ h \in Superblocks /\ Made(acked, h.gen)
      /\ DOMAIN pages = FirstPage .. h.count - 1 \/ DOMAIN pages = FirstPage .. h.count
  BY <1>1, HandleFacts
<1>4. Promise(pages, n, h.root, h.root, new, w, Stuck(r), r.root) /\ r.op \in Op
  BY <1>1 DEF RunOk
<1>5. /\ h' = NoHandle /\ run' = {} /\ pending' = {r.op} /\ file' = file /\ acked' = acked /\ Fault
  BY DEF Interrupt
<1>6. Durable' /\ PageMap(pages')
  <2>1. CASE PageCut(r)
    <3>1. PICK image \in {Torn, Due(r).page} : pages' = Written(pages, Due(r), image)
      BY <2>1 DEF PageCut
    <3>2. sb' = sb
      BY <2>1 DEF PageCut
    <3>3. w # << >> /\ Due(r) = w[1] /\ w[1].id <= n /\ DOMAIN pages = FirstPage .. n - 1
          /\ (w[1].id = n \/ w[1].id \in DOMAIN pages)
      <4>1. CASE Recycles(r)
        <5>1. InOrder(w, n)
          BY <1>4 DEF Promise
        <5>2. w # << >> /\ Due(r) = w[1] /\ w[1].id \in DOMAIN pages /\ DOMAIN pages = FirstPage .. n - 1
          BY <4>1, DueFacts
        <5> QED BY <5>1, <5>2 DEF InOrder
      <4>2. CASE Appends(r)
        <5>1. w # << >> /\ Due(r) = w[1] /\ w[1].id = n /\ DOMAIN pages = FirstPage .. n - 1
          BY <4>2, DueFacts
        <5> QED BY <1>3, <5>1
      <4> QED BY <2>1, <4>1, <4>2 DEF PageCut
    <3> HIDE DEF n, w
    <3>4. 1 \in DOMAIN w /\ w[1].id \in Nat /\ w[1].page \in Page /\ w[1].id \notin Tree(pages, n, h.root).refs
      BY <1>4, <3>3, HeadIs DEF Promise
    <3>5. image \in Page \cup {Torn} /\ n >= n
      BY <1>3, <3>1, <3>3, <3>4
    <3>6. PageMap(pages') /\ Reads(pages', n, h.root, acked)
      BY <1>3, <3>1, <3>3, <3>4, <3>5, SparesTree
    <3>7. DOMAIN pages' = FirstPage .. n - 1 \/ DOMAIN pages' = FirstPage .. n
      <4>1. DOMAIN pages' = DOMAIN pages \cup {w[1].id}
        BY <3>1, <3>3, WrittenDomain
      <4> QED BY <1>3, <3>3, <4>1 DEF FirstPage
    <3> QED BY <1>3, <1>5, <3>2, <3>6, <3>7 DEF Durable, n
  <2>2. CASE Allocates(r) /\ SlotCut(Allocated(h))
    <3> DEFINE next == Allocated(h)
    <3>1. PICK image \in {Torn, next} : sb' = [sb EXCEPT ![next.slot] = image]
      BY <2>2 DEF SlotCut
    <3>2. pages' = pages
      BY <2>2 DEF SlotCut
    <3>3. h.gen < MaxGeneration /\ DOMAIN pages = FirstPage .. n
      BY <2>2, DueFacts
    <3>4. /\ next \in Superblocks /\ next.slot = Alternate(h.slot) /\ next.gen = h.gen + 1
          /\ next.count = n + 1 /\ next.root = h.root
      <4>1. h.slot \in {0, 1} /\ h.gen \in 0 .. MaxGeneration
        BY <1>3, SuperblockFacts
      <4>2. 1 - h.slot \in {0, 1} /\ h.gen + 1 \in 0 .. MaxGeneration /\ n + 1 \in Nat
        BY <1>3, <3>3, <4>1, MaxGenerationIsPositive
      <4> QED BY <1>3, <4>2 DEF Allocated, Superblock, Superblocks, Alternate
    <3> HIDE DEF next, n
    <3>5. Mirrored(sb') /\ Active(sb') = IF image = Torn THEN h ELSE next
      <4>1. n + 1 >= FirstPage
        BY <1>3 DEF FirstPage
      <4> QED BY <1>3, <3>1, <3>4, <4>1, Takeover, ZenonT(60)
    <3>6. Reads(pages, n + 1, h.root, acked)
      <4>1. n + 1 \in Nat /\ n + 1 >= n
        BY <1>3
      <4> QED BY <1>3, <4>1, LongerFile
    <3>7. DOMAIN pages = FirstPage .. (n + 1) - 1
      BY <1>3, <3>3
    <3>8. Made(acked, next.gen)
      <4>1. h.gen \in Nat
        BY <1>3, SuperblockFacts
      <4> QED BY <1>3, <3>4, <4>1, MadeLater
    <3>9. CASE image = Torn
      BY <1>3, <1>5, <3>2, <3>3, <3>5, <3>9 DEF Durable, n
    <3>10. CASE image # Torn
      BY <1>3, <1>5, <3>2, <3>4, <3>5, <3>6, <3>7, <3>10, <3>8 DEF Durable
    <3> QED BY <3>9, <3>10
  <2>3. CASE Publishes(r) /\ ~Exhausted /\ SlotCut(Rooted(h, r.root))
    <3> DEFINE next == Rooted(h, r.root)
    <3>1. PICK image \in {Torn, next} : sb' = [sb EXCEPT ![next.slot] = image]
      BY <2>3 DEF SlotCut
    <3>2. pages' = pages
      BY <2>3 DEF SlotCut
    <3>3. /\ next \in Superblocks /\ next.count = h.count /\ next # Torn
          /\ Mirrored(sb') /\ Active(sb') = IF image = Torn THEN h ELSE next
          /\ Reads(pages, h.count, next.root, Effect(acked, r.op))
          /\ Made(Effect(acked, r.op), next.gen)
          /\ DOMAIN pages = FirstPage .. h.count - 1
      BY <2>3, <3>1, Published
    <3> HIDE DEF next
    <3>4. CASE image = Torn
      BY <1>3, <1>5, <3>2, <3>3, <3>4 DEF Durable
    <3>5. CASE image # Torn
      <4>1. Effect(acked, r.op) \in {acked'} \cup {Effect(acked', op) : op \in pending'}
        BY <1>5
      <4>2. /\ Reads(pages', Active(sb').count, Active(sb').root, Effect(acked, r.op))
            /\ Made(Effect(acked, r.op), Active(sb').gen)
        BY <3>2, <3>3, <3>5
      <4>3. DOMAIN pages' = FirstPage .. Active(sb').count - 1
        BY <3>2, <3>3, <3>5
      <4> QED BY <1>3, <3>2, <3>3, <4>1, <4>2, <4>3 DEF Durable
    <3> QED BY <3>4, <3>5
  <2>4. CASE UNCHANGED <<sb, pages>>
    BY <1>3, <1>5, <2>4 DEF Durable
  <2> QED BY <2>1, <2>2, <2>3, <2>4 DEF Interrupt
<1>7. pending' \in SUBSET Op /\ faults' \in 0 .. MaxFaults
  BY <1>4, <1>5, FaultCounts
<1> HIDE DEF n, w, new
<1> QED BY <1>3, <1>5, <1>6, <1>7, Lost

\* The empty root holds the empty map.
LEMMA EmptyTree ==
    ASSUME NEW P, NEW n
    PROVE  Reads(P, n, RootNone, EmptyMap)
BY DEF Reads, Tree, RowsMap, EmptyMap

\* create_new writes two superblocks of which the first is current.
LEMMA Formatted ==
    LET s == [i \in {0, 1} |-> Initial(i)]
    IN  Mirrored(s) /\ Active(s) = Initial(0)
<1> DEFINE s == [i \in {0, 1} |-> Initial(i)]
<1>1. s[0] = Initial(0) /\ s[1] = Initial(1)
  OBVIOUS
<1>2. /\ Initial(0) \in Superblocks /\ Initial(1) \in Superblocks
      /\ Initial(0).slot = 0 /\ Initial(1).slot = 1 /\ Initial(0).gen = 0 /\ Initial(1).gen = 0
      /\ Initial(0).count = FirstPage /\ Initial(1).count = FirstPage
      /\ Initial(0).root = RootNone /\ Initial(1).root = RootNone
  BY MaxGenerationIsPositive DEF Initial, Superblock, Superblocks, FirstPage, RootNone
<1>3. Initial(0) # Torn /\ Initial(1) # Torn
  BY <1>2, NoSuperblock
<1>4. s \in [{0, 1} -> Superblocks \cup {Torn}] /\ DOMAIN s = {0, 1}
  <2> HIDE DEF s
  <2>1. \A i \in {0, 1} : s[i] \in Superblocks
    BY <1>1, <1>2
  <2>2. s = [i \in {0, 1} |-> s[i]]
    BY DEF s
  <2> QED BY <2>1, <2>2
<1> HIDE DEF s
<1>5. ValidSlots(s) = {0, 1}
  BY <1>1, <1>3 DEF ValidSlots
<1>6. Agree(s[0], s[1])
  BY <1>1, <1>2 DEF Agree
<1>7. Mirrored(s)
  BY <1>1, <1>2, <1>4, <1>5, <1>6 DEF Mirrored, Chosen, FirstPage
<1>8. \A j \in ValidSlots(s) : Newer(s, 0, j)
  BY <1>1, <1>2, <1>5 DEF Newer
<1>9. NewestSlot(s) = 0
  BY <1>5, <1>7, <1>8, NewestIs
<1> QED BY <1>1, <1>7, <1>9 DEF Active, s

\* The invariant holds before a file exists.
LEMMA InitHolds ==
    ASSUME Init
    PROVE  BtInv
<1>1. acked \in Map
  BY DEF Init, EmptyMap, Map, Entry
<1>2. PageMap(pages)
  BY DEF Init, PageMap
<1>3. sb \in [{0, 1} -> Superblocks \cup {Torn}]
  BY DEF Init
<1>4. faults \in 0 .. MaxFaults
  BY FaultsAreBounded DEF Init
<1>5. file = "none" /\ h = NoHandle /\ run = {} /\ pending \in SUBSET Op
  BY DEF Init
<1>6. Absent
  BY DEF Init, Absent
<1> QED BY <1>1, <1>2, <1>3, <1>4, <1>5, <1>6 DEF BtInv

\* create_new, complete or cut off, keeps the invariant.
LEMMA CreateKeeps ==
    ASSUME BtInv, Create \/ CreateInterrupted
    PROVE  BtInv'
<1> DEFINE s == [i \in {0, 1} |-> Initial(i)]
<1>1. /\ file = "none" /\ pages = << >> /\ acked = EmptyMap /\ pending = {} /\ h = NoHandle /\ run = {}
      /\ acked \in Map /\ PageMap(pages)
  BY DEF BtInv, Absent, Create, CreateInterrupted
<1>2. /\ pages' = pages /\ acked' = acked /\ pending' = pending /\ run' = run
  BY DEF Create, CreateInterrupted, ghosts
<1>3. faults' \in 0 .. MaxFaults
  <2>1. CASE Create
    BY <2>1 DEF Create, BtInv
  <2>2. CASE CreateInterrupted
    BY <2>2, FaultCounts DEF CreateInterrupted
  <2> QED BY <2>1, <2>2
<1>4. Mirrored(s) /\ Active(s) = Initial(0)
  BY Formatted
<1>5. /\ Initial(0).count = FirstPage /\ Initial(0).root = RootNone /\ Initial(0) # NoHandle
      /\ Made(EmptyMap, Initial(0).gen)
  <2>1. Initial(0) \in Superblocks
    BY <1>4, ActiveFacts
  <2>2. Initial(0).gen = 0
    BY DEF Initial, Superblock
  <2>3. Made(EmptyMap, 0)
    BY MadeEmpty
  <2> QED BY <2>1, <2>2, <2>3, SuperblockFacts DEF Initial, Superblock
<1>6. DOMAIN pages' = FirstPage .. FirstPage - 1
  BY <1>1, <1>2 DEF FirstPage
<1> HIDE DEF s
<1>7. CASE Create
  <2>1. sb' = s /\ h' = Initial(0) /\ file' = "formed"
    BY <1>7 DEF Create, s
  <2>2. HandleNext({})
    BY <1>1, <1>2, <1>3, <1>4, <1>5, <1>6, <2>1, EmptyTree DEF HandleNext
  <2> QED BY <1>1, <1>2, <1>5, <1>6, <2>1, <2>2, Idle
<1>8. CASE CreateInterrupted /\ sb' = s /\ file' = "formed"
  <2>1. Durable'
    BY <1>1, <1>2, <1>4, <1>5, <1>6, <1>8, EmptyTree DEF Durable
  <2>2. sb' \in [{0, 1} -> Superblocks \cup {Torn}]
    BY <1>4, <1>8 DEF Mirrored
  <2>3. h' = NoHandle
    BY <1>1, <1>8 DEF CreateInterrupted
  <2> QED BY <1>1, <1>2, <1>3, <1>8, <2>1, <2>2, <2>3 DEF BtInv
<1>9. CASE CreateInterrupted /\ sb' = sb /\ file' = "short"
  <2>1. h' = NoHandle
    BY <1>1, <1>9 DEF CreateInterrupted
  <2>2. Absent'
    BY <1>1, <1>2, <2>1 DEF Absent
  <2>3. sb' \in [{0, 1} -> Superblocks \cup {Torn}]
    BY <1>9 DEF BtInv
  <2> QED BY <1>1, <1>2, <1>3, <1>9, <2>1, <2>2, <2>3 DEF BtInv
<1> QED BY <1>7, <1>8, <1>9 DEF CreateInterrupted, s

\* Whatever happened, open accepts the file.
LEMMA DurableOpens ==
    ASSUME BtInv, file = "formed"
    PROVE  /\ Opens(sb, pages) /\ Mirrored(sb) /\ Active(sb) \in Superblocks
           /\ LET s == Active(sb)
                  p == Committed(pages, s.count)
                  map == RowsMap(TreeOn(sb, pages).rows)
              IN  /\ s.count >= FirstPage /\ s.count \in Nat /\ s.root \in Nat
                  /\ Reads(pages, s.count, s.root, map) /\ Reads(p, s.count, s.root, map)
                  /\ PageMap(p) /\ DOMAIN p = FirstPage .. s.count - 1
                  /\ map \in {acked} \cup {Effect(acked, op) : op \in pending} /\ map \in Map
                  /\ Made(map, s.gen)
                  /\ \A id \in TreeOn(sb, pages).refs : id \in DOMAIN pages /\ id \in DOMAIN p /\ p[id] = pages[id]
<1> DEFINE s == Active(sb)
           p == Committed(pages, s.count)
           map == RowsMap(TreeOn(sb, pages).rows)
<1>1. Durable /\ PageMap(pages)
  BY DEF BtInv
<1>2. /\ s \in Superblocks /\ s.count >= FirstPage /\ s.count \in Nat /\ s.root \in Nat /\ Mirrored(sb)
  BY <1>1, ActiveFacts, SuperblockFacts DEF Durable
<1>3. DOMAIN pages = FirstPage .. s.count - 1 \/ DOMAIN pages = FirstPage .. s.count
  BY <1>1 DEF Durable
<1>4. \E m \in {acked} \cup {Effect(acked, op) : op \in pending} :
         Reads(pages, s.count, s.root, m) /\ Made(m, s.gen)
  BY <1>1 DEF Durable
<1>5. TreeOn(sb, pages) = Tree(pages, s.count, s.root)
  BY DEF TreeOn
<1>6. PageMap(p) /\ DOMAIN p = {id \in DOMAIN pages : id < s.count}
      /\ \A id \in DOMAIN pages : id < s.count => p[id] = pages[id]
  BY <1>1, CommittedFacts
<1> HIDE DEF p, s
<1>7. DOMAIN p = FirstPage .. s.count - 1
  BY <1>2, <1>3, <1>6 DEF FirstPage
<1>8. /\ Reads(pages, s.count, s.root, map) /\ TreeOn(sb, pages).ok /\ TreeOn(sb, pages).rows \subseteq KV
      /\ map \in {acked} \cup {Effect(acked, op) : op \in pending} /\ Made(map, s.gen)
  BY <1>4, <1>5 DEF Reads
<1>9. map \in Map
  BY <1>8, RowsMapIsMap
<1>10. \A id \in TreeOn(sb, pages).refs : id \in DOMAIN pages /\ id < s.count
  <2>1. Tree(pages, s.count, s.root).ok
    BY <1>5, <1>8
  <2>2. \A id \in Tree(pages, s.count, s.root).refs : id \in DOMAIN pages /\ id < s.count
    BY <1>1, <1>2, <2>1, TreeRefs
  <2> QED BY <1>5, <2>2
<1>11. \A id \in TreeOn(sb, pages).refs : id \in DOMAIN pages /\ id \in DOMAIN p /\ p[id] = pages[id]
  BY <1>6, <1>10
<1> HIDE DEF map
<1>12. Reads(p, s.count, s.root, map)
  <2>1. Keeps(pages, p, Tree(pages, s.count, s.root).refs)
    BY <1>5, <1>11 DEF Keeps
  <2>2. \A id \in Tree(pages, s.count, s.root).refs : id < s.count
    BY <1>5, <1>10
  <2> QED BY <1>1, <1>2, <1>6, <1>8, <2>1, <2>2, ReadsSame
<1>13. PagerOpens(sb, pages)
  <2>1. Chosen(sb)
    BY <1>2 DEF Mirrored
  <2>2. FirstPage .. s.count - 1 \subseteq DOMAIN pages /\ DOMAIN pages \subseteq FirstPage .. s.count
    BY <1>2, <1>3 DEF FirstPage
  <2> QED BY <2>1, <2>2 DEF PagerOpens, s
<1>14. Opens(sb, pages)
  BY <1>8, <1>13 DEF Opens
<1> QED BY <1>2, <1>6, <1>7, <1>8, <1>9, <1>11, <1>12, <1>14 DEF p, s, map

\* Slots that the reads of open may lose leave the newest superblock, or none
\* that open accepts: the file is read as it is.
LEMMA SeenIsCurrent ==
    ASSUME ~NewestMayBeUnread, BtInv, file = "formed", NEW lost \in SUBSET {0, 1}, MayLose(lost),
           Chosen(Seen(lost))
    PROVE  Active(Seen(lost)) = Active(sb)
<1> DEFINE t == Seen(lost)
           i == NewestSlot(sb)
<1>1. Mirrored(sb) /\ \A j \in ValidSlots(sb) : j \in {0, 1} /\ sb[j] \in Superblocks
  BY DurableOpens DEF ValidSlots, Mirrored
<1>2. i \notin lost
  BY DEF MayLose, PassesNewest
<1>3. /\ t \in [{0, 1} -> Superblocks \cup {Torn}] /\ ValidSlots(t) = ValidSlots(sb) \ lost
      /\ \A j \in {0, 1} \ lost : t[j] = sb[j]
      /\ \A j \in {0, 1} : t[j] # Torn => t[j] = sb[j]
  BY <1>1 DEF Seen, Mirrored, ValidSlots
<1>4. Mirrored(t)
  BY <1>1, <1>3 DEF Mirrored
<1>5. i \in ValidSlots(sb) /\ \A j \in ValidSlots(sb) : Newer(sb, i, j)
  <2>1. PICK k \in ValidSlots(sb) : \A j \in ValidSlots(sb) : Newer(sb, k, j)
    BY <1>1, NewestExists
  <2>2. i = k
    BY <1>1, <2>1, NewestIs
  <2> QED BY <2>1, <2>2
<1>6. i \in ValidSlots(t) /\ \A j \in ValidSlots(t) : Newer(t, i, j)
  <2>1. i \in ValidSlots(t)
    BY <1>2, <1>3, <1>5
  <2>2. ASSUME NEW j \in ValidSlots(t) PROVE Newer(t, i, j)
    <3>1. j \in ValidSlots(sb) /\ j \in {0, 1} \ lost /\ i \in {0, 1} \ lost
      BY <1>1, <1>2, <1>3, <1>5, <2>2
    <3> QED BY <1>3, <1>5, <3>1 DEF Newer
  <2> QED BY <2>1, <2>2
<1>7. NewestSlot(t) = i
  BY <1>4, <1>6, NewestIs
<1>8. t[i] = sb[i]
  BY <1>1, <1>2, <1>3, <1>5
<1> QED BY <1>7, <1>8 DEF Active

\* With the newest superblock read, open reads what is durable, or refuses the
\* file untouched.
LEMMA SeenFile ==
    ASSUME ~NewestMayBeUnread, BtInv, file = "formed", NEW lost \in SUBSET {0, 1}, MayLose(lost)
    PROVE  /\ PagerOpens(Seen(lost), pages) =>
                /\ Active(Seen(lost)) = Active(sb) /\ TreeOn(Seen(lost), pages) = TreeOn(sb, pages)
           /\ ~Opens(Seen(lost), pages) => ~PagerOpens(Seen(lost), pages)
<1>1. ASSUME PagerOpens(Seen(lost), pages)
      PROVE  /\ Active(Seen(lost)) = Active(sb) /\ TreeOn(Seen(lost), pages) = TreeOn(sb, pages)
             /\ Opens(Seen(lost), pages)
  <2>1. Active(Seen(lost)) = Active(sb)
    BY <1>1, SeenIsCurrent DEF PagerOpens
  <2>2. TreeOn(Seen(lost), pages) = TreeOn(sb, pages)
    BY <2>1 DEF TreeOn
  <2>3. TreeOn(sb, pages).ok
    BY DurableOpens DEF Opens
  <2> QED BY <1>1, <2>1, <2>2, <2>3 DEF Opens
<1> QED BY <1>1

\* open keeps the invariant.
LEMMA OpenKeeps ==
    ASSUME ~NewestMayBeUnread, BtInv, NEW lost \in SUBSET {0, 1}, Open(lost)
    PROVE  BtInv'
<1>1. file = "formed" /\ run = {} /\ faults' \in 0 .. MaxFaults
  BY FaultCounts DEF Open, BtInv
<1>2. /\ pages' = Committed(pages, Active(sb).count) /\ h' = Active(sb) /\ pending' = {}
      /\ acked' = RowsMap(TreeOn(sb, pages).rows)
      /\ file' = file /\ sb' = sb /\ run' = run
  <2>1. Active(Seen(lost)) = Active(sb) /\ TreeOn(Seen(lost), pages) = TreeOn(sb, pages)
    BY <1>1, SeenFile DEF Open, Opens
  <2> QED BY <2>1 DEF Open
<1>3. Active(sb) # NoHandle
  BY <1>1, DurableOpens, SuperblockFacts
<1>4. DOMAIN pages' = FirstPage .. h'.count - 1
  BY <1>1, <1>2, DurableOpens
<1>5. HandleNext({})
  <2>1. /\ Mirrored(sb') /\ PageMap(pages') /\ acked' \in Map /\ Reads(pages', h'.count, h'.root, acked')
        /\ Made(acked', h'.gen)
    BY <1>1, <1>2, DurableOpens
  <2> QED BY <1>1, <1>2, <1>3, <1>4, <2>1 DEF HandleNext
<1> QED BY <1>1, <1>2, <1>4, <1>5, Idle

\* The file after a truncation to the committed extent, or none.
LEMMA TruncateKeeps ==
    ASSUME BtInv, file = "formed", file' = file, sb' = sb, h' = NoHandle, run' = {}, acked' = acked,
           pending' = pending, faults' \in 0 .. MaxFaults,
           pages' \in {pages, Committed(pages, Active(sb).count)}
    PROVE  BtInv'
<1> DEFINE s == Active(sb)
           map == RowsMap(TreeOn(sb, pages).rows)
<1>1. Durable /\ PageMap(pages) /\ pending \in SUBSET Op
  BY DEF BtInv
<1>2. /\ Reads(pages', s.count, s.root, map) /\ PageMap(pages')
      /\ map \in {acked} \cup {Effect(acked, op) : op \in pending} /\ Mirrored(sb) /\ Made(map, s.gen)
  BY <1>1, DurableOpens
<1>3. DOMAIN pages' = FirstPage .. s.count - 1 \/ DOMAIN pages' = FirstPage .. s.count
  BY <1>1, DurableOpens DEF Durable
<1> HIDE DEF map
<1>4. Durable'
  BY <1>2, <1>3 DEF Durable
<1> QED BY <1>1, <1>2, <1>4, Lost

\* An open that is refused keeps the invariant.
LEMMA OpenRefusedKeeps ==
    ASSUME ~NewestMayBeUnread, BtInv, NEW lost \in SUBSET {0, 1}, OpenRefused(lost)
    PROVE  BtInv' /\ pages' = pages /\ h' = NoHandle /\ acked' = acked /\ pending' = pending
<1>1. pages' = pages
  <2>1. CASE file = "formed"
    BY <2>1, SeenFile DEF OpenRefused
  <2>2. CASE file # "formed"
    BY <2>2 DEF OpenRefused
  <2> QED BY <2>1, <2>2
<1>2. /\ h' = NoHandle /\ acked' = acked /\ pending' = pending /\ faults' \in 0 .. MaxFaults
      /\ file' = file /\ sb' = sb /\ run = {} /\ run' = {}
  BY FaultCounts DEF OpenRefused, ghosts, BtInv
<1>3. CASE file = "formed"
  BY <1>1, <1>2, <1>3, TruncateKeeps
<1>4. CASE file # "formed"
  BY <1>1, <1>2, <1>4 DEF BtInv, Absent
<1> QED BY <1>1, <1>2, <1>3, <1>4

\* An open that fails while it truncates the file keeps the invariant.
LEMMA OpenInterruptedKeeps ==
    ASSUME ~NewestMayBeUnread, BtInv, NEW lost \in SUBSET {0, 1}, OpenInterrupted(lost)
    PROVE  BtInv' /\ pages' \in {pages, Committed(pages, Active(sb).count)}
<1>1. /\ file = "formed" /\ file' = file /\ sb' = sb /\ h' = NoHandle /\ run' = {} /\ acked' = acked
      /\ pending' = pending /\ faults' \in 0 .. MaxFaults
  BY FaultCounts DEF OpenInterrupted, ghosts, BtInv
<1>2. pages' \in {pages, Committed(pages, Active(sb).count)}
  BY <1>1, SeenFile DEF OpenInterrupted
<1> QED BY <1>1, <1>2, TruncateKeeps

\* Dropping the handle, or a crash, keeps the invariant.
LEMMA CloseKeeps ==
    ASSUME BtInv, Close
    PROVE  BtInv'
<1>1. file = "formed" /\ faults \in 0 .. MaxFaults
  BY HandleFacts DEF Close, BtInv
<1> QED BY <1>1, TruncateKeeps DEF Close, disk, ghosts

\* A put or a delete that begins keeps the invariant, since its plan is
\* sound.
LEMMA BeginKeeps ==
    ASSUME PlansAreSound, FewGenerations, BtInv, NEW op \in Op, Begin(op)
    PROVE  BtInv'
<1> DEFINE plan == Plan(pages, h.count, h.root, op)
<1>0. PICK r : r = [op |-> op, writes |-> plan.st.writes, root |-> plan.root, err |-> plan.st.err]
  OBVIOUS
<1>1. /\ h # NoHandle /\ run = {} 
      /\ op.val = Missing => Lookup(pages, h.root, op.key) # Missing
      /\ run' = {r}
      /\ file' = file /\ sb' = sb /\ pages' = pages /\ h' = h /\ acked' = acked /\ pending' = pending
      /\ faults' = faults
  BY <1>0 DEF Begin, disk, ghosts
<1> HIDE DEF plan
<1>2. /\ h.count \in Nat /\ h.count >= FirstPage /\ h.root \in Nat /\ PageMap(pages)
      /\ Reads(pages, h.count, h.root, acked)
  BY <1>1, HandleFacts
<1>3. DOMAIN pages = FirstPage .. h.count - 1
  BY <1>1 DEF BtInv, Handle
<1>4. op.val = Missing => h.root # RootNone
  BY <1>1 DEF Lookup
<1>5. /\ r.op = op /\ r.writes = plan.st.writes /\ r.root = plan.root /\ r.err = plan.st.err
      /\ r = [op |-> r.op, writes |-> r.writes, root |-> r.root, err |-> r.err]
  BY <1>0
<1>6. PICK new : new = Effect(acked, op)
  OBVIOUS
<1>7. ~FewKept(new) => Exhausted
  <2> SUFFICES ASSUME ~FewKept(new), ~Exhausted PROVE FALSE
    OBVIOUS
  <2>1. /\ acked \in Map /\ Made(acked, h.gen) /\ h.gen \in Nat /\ h.gen + 1 \in 0 .. MaxGeneration
    BY <1>1, HandleFacts, MaxGenerationIsPositive DEF Exhausted
  <2>2. Made(new, h.gen + 1)
    BY <1>6, <2>1, MadeEffect
  <2> QED BY <2>1, <2>2, MadeFew
<1>8. PICK e : e = Stuck(r)
  OBVIOUS
<1>9. Promise(pages, h.count, h.root, h.root, new, r.writes, e, r.root)
  <2>1. PlanHolds(pages, h.count, h.root, op)
    <3>1. FewKept(acked)
      BY <1>1, HandleFacts, MadeFew
    <3> QED BY <1>2, <1>3, <1>4, <3>1 DEF PlansAreSound, Reads
  <2>2. PICK d \in BOOLEAN : d <=> (plan.st.err \/ ~FewKept(new))
    OBVIOUS
  <2>3. Promise(pages, h.count, h.root, h.root, new, plan.st.writes, d, plan.root)
    BY <1>2, <1>6, <2>1, <2>2 DEF PlanHolds, Reads, plan
  <2>4. e \in BOOLEAN /\ (d => e)
    BY <1>5, <1>7, <1>8, <2>2, Zenon DEF Stuck
  <2>5. Promise(pages, h.count, h.root, h.root, new, plan.st.writes, e, plan.root)
    BY <2>3, <2>4, PromiseLess
  <2> QED BY <1>5, <2>5
<1>10. h.count \notin DOMAIN pages
  BY <1>2, <1>3 DEF FirstPage
<1>11. RunOk(r)'
  <2>1. Stuck(r)' = e
    BY <1>1, <1>8 DEF Stuck, Exhausted
  <2> QED BY <1>1, <1>5, <1>6, <1>9, <1>10, <2>1 DEF RunOk
<1>12. HandleNext(r)
  BY <1>1, HandleFacts DEF HandleNext, BtInv
<1> QED BY <1>1, <1>11, <1>12, Running

\* Every step keeps the invariant.
LEMMA StepKeeps ==
    ASSUME PlansAreSound, FewGenerations, ~NewestMayBeUnread, BtInv, [Next]_vars
    PROVE  BtInv'
<1>1. CASE UNCHANGED vars
  BY <1>1 DEF vars, BtInv, Durable, Absent, Handle, RunOk, Stuck, Exhausted
<1>2. CASE \E k \in Keys : DeleteMissing(k)
  BY <1>2 DEF DeleteMissing, vars, BtInv, Durable, Absent, Handle, RunOk, Stuck, Exhausted
<1>3. ASSUME NEW r \in run, Step(r) PROVE BtInv'
  BY <1>3, RecycleKeeps, AppendKeeps, AllocateKeeps, PublishKeeps, RefuseKeeps, ReadFailsKeeps,
     InterruptKeeps DEF Step
<1>4. ASSUME NEW op \in Op, Begin(op) PROVE BtInv'
  BY <1>4, BeginKeeps
<1>5. ASSUME NEW lost \in SUBSET {0, 1}, Open(lost) \/ OpenRefused(lost) \/ OpenInterrupted(lost)
      PROVE  BtInv'
  BY <1>5, OpenKeeps, OpenRefusedKeeps, OpenInterruptedKeeps
<1> QED BY <1>1, <1>2, <1>3, <1>4, <1>5, CreateKeeps, CloseKeeps DEF Next

\* The invariant implies the type invariant.
LEMMA InvType ==
    ASSUME BtInv
    PROVE  TypeOK
<1>1. /\ file \in {"none", "short", "formed"} /\ sb \in [{0, 1} -> Superblocks \cup {Torn}]
      /\ acked \in Map /\ pending \in SUBSET Op /\ faults \in 0 .. MaxFaults
  BY DEF BtInv
<1>2. h \in Superblocks \cup {NoHandle}
  BY HandleFacts
<1>3. (\A r \in run : r.op \in Op) /\ Cardinality(run) <= 1
  <2>1. CASE run = {}
    BY <2>1, FS_EmptySet
  <2>2. CASE run # {}
    <3>1. PICK r \in run : TRUE
      BY <2>2
    <3>2. run = {r} /\ r.op \in Op
      BY RunFacts DEF RunOk
    <3> QED BY <3>2, FS_Singleton
  <2> QED BY <2>1, <2>2
<1>4. \E n \in Nat : DOMAIN pages = FirstPage .. FirstPage + n - 1
  <2>1. CASE file = "formed"
    <3> DEFINE c == Active(sb).count
    <3>1. c \in Nat /\ c >= FirstPage
      BY <2>1, DurableOpens
    <3>2. DOMAIN pages = FirstPage .. c - 1 \/ DOMAIN pages = FirstPage .. c
      BY <2>1 DEF BtInv, Durable
    <3> HIDE DEF c
    <3>3. /\ c - FirstPage \in Nat /\ FirstPage + (c - FirstPage) - 1 = c - 1
          /\ c + 1 - FirstPage \in Nat /\ FirstPage + (c + 1 - FirstPage) - 1 = c
      BY <3>1 DEF FirstPage
    <3>4. CASE DOMAIN pages = FirstPage .. c - 1
      BY <3>3, <3>4
    <3>5. CASE DOMAIN pages = FirstPage .. c
      BY <3>3, <3>5
    <3> QED BY <3>2, <3>4, <3>5
  <2>2. CASE file # "formed"
    <3>1. DOMAIN pages = {}
      BY <2>2 DEF BtInv, Absent
    <3>2. FirstPage .. FirstPage + 0 - 1 = {}
      BY DEF FirstPage
    <3> QED BY <3>1, <3>2
  <2> QED BY <2>1, <2>2
<1>5. DOMAIN pages = FirstPage .. FirstPage + Cardinality(DOMAIN pages) - 1
  <2>1. PICK n \in Nat : DOMAIN pages = FirstPage .. FirstPage + n - 1
    BY <1>4
  <2>2. FirstPage \in Int /\ FirstPage + n - 1 \in Int
    BY DEF FirstPage
  <2>3. Cardinality(FirstPage .. FirstPage + n - 1) = n
    <3>1. Cardinality(FirstPage .. FirstPage + n - 1) =
             IF FirstPage > FirstPage + n - 1 THEN 0 ELSE FirstPage + n - 1 - FirstPage + 1
      BY <2>2, FS_Interval
    <3> QED BY <3>1 DEF FirstPage
  <2> QED BY <2>1, <2>3
<1> QED BY <1>1, <1>2, <1>3, <1>5 DEF TypeOK

\* The invariant implies that open accepts the file.
LEMMA InvRecoverable ==
    ASSUME BtInv
    PROVE  Recoverable
<1>1. CASE file = "formed"
  BY <1>1, DurableOpens DEF Recoverable
<1>2. CASE file # "formed"
  BY <1>2 DEF BtInv, Absent, Recoverable
<1> QED BY <1>1, <1>2

\* The invariant implies that the handle is the durable superblock.
LEMMA InvHandle ==
    ASSUME BtInv
    PROVE  HandleIsDurable
<1>1. ASSUME h # NoHandle, run = {} PROVE DOMAIN pages = FirstPage .. h.count - 1
  BY <1>1 DEF BtInv, Handle
<1> QED BY <1>1, HandleFacts DEF HandleIsDurable, Reads

\* The pages a write may touch.
LEMMA WriteSpares ==
    ASSUME BtInv, NEW r \in run, r.writes # << >>, NEW image, NEW w, w = r.writes[1],
           pages' = Written(pages, w, image)
    PROVE  KeepsLivePages
<1>1. h # NoHandle /\ RunOk(r)
  BY RunFacts
<1>2. file = "formed" /\ h = Active(sb)
  BY <1>1, HandleFacts
<1>3. Opens(sb, pages) /\ \A id \in TreeOn(sb, pages).refs : id \in DOMAIN pages
  BY <1>2, DurableOpens
<1>4. LivePages = Tree(pages, h.count, h.root).refs
  BY <1>2, <1>3 DEF LivePages, TreeOn
<1>5. Promise(pages, h.count, h.root, h.root, Effect(acked, r.op), r.writes, Stuck(r), r.root)
  BY <1>1 DEF RunOk
<1>6. w.id \notin LivePages
  <2>1. 1 \in DOMAIN r.writes
    BY <1>5, HeadIs DEF Promise
  <2> QED BY <1>4, <1>5, <2>1 DEF Promise
<1>7. ASSUME NEW id \in LivePages PROVE id \in DOMAIN pages' /\ pages'[id] = pages[id]
  <2>1. id \in DOMAIN pages /\ id # w.id
    BY <1>2, <1>3, <1>4, <1>6 DEF TreeOn
  <2>2. DOMAIN pages' = DOMAIN pages \cup {w.id}
    BY WrittenDomain
  <2>3. pages'[id] = pages[id]
    BY <2>1, WrittenRest
  <2> QED BY <2>1, <2>2, <2>3
<1> QED BY <1>7 DEF KeepsLivePages

\* A step that writes no page, or truncates beyond the extent, keeps the
\* published tree.
LEMMA SameSpares ==
    ASSUME BtInv, pages' \in {pages, Committed(pages, Active(sb).count)} \/ file # "formed"
    PROVE  KeepsLivePages
<1>1. CASE file # "formed"
  BY <1>1 DEF KeepsLivePages, LivePages
<1>2. CASE file = "formed"
  <2>1. \A id \in TreeOn(sb, pages).refs : /\ id \in DOMAIN pages /\ id \in DOMAIN Committed(pages, Active(sb).count)
                                           /\ Committed(pages, Active(sb).count)[id] = pages[id]
    BY <1>2, DurableOpens
  <2> HIDE DEF Opens
  <2> QED BY <1>2, <2>1 DEF KeepsLivePages, LivePages
<1> QED BY <1>1, <1>2

\* No step touches a page of the published tree.
LEMMA StepSpares ==
    ASSUME ~NewestMayBeUnread, BtInv, [Next]_vars
    PROVE  KeepsLivePages
<1>1. CASE pages' = pages
  BY <1>1, SameSpares
<1>2. ASSUME NEW lost \in SUBSET {0, 1}, Open(lost) \/ OpenRefused(lost) \/ OpenInterrupted(lost)
      PROVE  KeepsLivePages
  <2>1. ASSUME Open(lost) PROVE pages' = Committed(pages, Active(sb).count)
    BY <2>1, SeenFile DEF Open, Opens
  <2>2. pages' \in {pages, Committed(pages, Active(sb).count)}
    BY <1>2, <2>1, OpenRefusedKeeps, OpenInterruptedKeeps
  <2> QED BY <2>2, SameSpares
<1>3. ASSUME NEW r \in run, Recycle(r) PROVE KeepsLivePages
  <2>1. r.writes # << >> /\ Due(r) = r.writes[1]
    BY <1>3, DueFacts DEF Recycle
  <2> QED BY <1>3, <2>1, WriteSpares DEF Recycle
<1>4. ASSUME NEW r \in run, AppendPage(r) PROVE KeepsLivePages
  <2>1. r.writes # << >> /\ Due(r) = r.writes[1]
    BY <1>4, DueFacts DEF AppendPage
  <2> QED BY <1>4, <2>1, WriteSpares DEF AppendPage
<1>5. ASSUME NEW r \in run, PageCut(r) PROVE KeepsLivePages
  <2>1. r.writes # << >> /\ Due(r) = r.writes[1]
    BY <1>5, DueFacts DEF PageCut
  <2> QED BY <1>5, <2>1, WriteSpares DEF PageCut
<1>6. ASSUME NEW r \in run, Step(r), pages' # pages PROVE KeepsLivePages
  <2>1. Recycle(r) \/ AppendPage(r) \/ PageCut(r)
    BY <1>6 DEF Step, Allocate, Publish, Refuse, ReadFails, Interrupt, SlotCut, disk
  <2> QED BY <1>3, <1>4, <1>5, <2>1
<1>7. ASSUME Create \/ CreateInterrupted \/ Close \/ (\E op \in Op : Begin(op))
             \/ (\E k \in Keys : DeleteMissing(k)) \/ UNCHANGED vars
      PROVE  pages' = pages
  BY <1>7 DEF Create, CreateInterrupted, Close, Begin, DeleteMissing, disk, vars
<1> QED BY <1>1, <1>2, <1>6, <1>7 DEF Next

\* Every step is a step of the key-value store, or none.
LEMMA StepRefines ==
    ASSUME ~NewestMayBeUnread, BtInv, [Next]_vars
    PROVE  [Kv!KvNext]_(Kv!kvVars)
<1> USE DEF Kv!KvNext, Kv!kvVars
<1>1. CASE Create
  <2>1. Initial(0) \in Superblocks
    BY Formatted, ActiveFacts
  <2>2. Initial(0) # NoHandle
    BY <2>1, SuperblockFacts
  <2>3. pending = {}
    BY <1>1 DEF Create, BtInv, Absent
  <2> QED BY <1>1, <2>2, <2>3 DEF Create, Kv!Recover, ghosts
<1>2. CASE CreateInterrupted
  BY <1>2 DEF CreateInterrupted, ghosts
<1>3. ASSUME NEW lost \in SUBSET {0, 1}, Open(lost) PROVE [Kv!KvNext]_(Kv!kvVars)
  <2>1. /\ h' = Active(sb) /\ acked' = RowsMap(TreeOn(sb, pages).rows) /\ pending' = {}
        /\ file = "formed"
    BY <1>3, SeenFile DEF Open, Opens
  <2>2. Active(sb) # NoHandle /\ acked' \in {acked} \cup {Effect(acked, op) : op \in pending}
    BY <2>1, DurableOpens, SuperblockFacts
  <2> QED BY <2>1, <2>2 DEF Kv!Recover, Kv!Effect, Effect
<1>4. ASSUME NEW lost \in SUBSET {0, 1}, OpenRefused(lost) PROVE [Kv!KvNext]_(Kv!kvVars)
  <2>1. h' = NoHandle /\ acked' = acked /\ pending' = pending
    BY <1>4 DEF OpenRefused, ghosts
  <2> QED BY <2>1 DEF Kv!Lose
<1>5. ASSUME NEW lost \in SUBSET {0, 1}, OpenInterrupted(lost) PROVE [Kv!KvNext]_(Kv!kvVars)
  BY <1>5 DEF OpenInterrupted, ghosts, Kv!Lose
<1>6. CASE Close
  BY <1>6 DEF Close, ghosts, Kv!Lose
<1>7. CASE \E op \in Op : Begin(op)
  BY <1>7 DEF Begin, ghosts
<1>8. CASE UNCHANGED vars \/ \E k \in Keys : DeleteMissing(k)
  BY <1>8 DEF DeleteMissing, vars
<1>9. ASSUME NEW r \in run, Step(r) PROVE [Kv!KvNext]_(Kv!kvVars)
  <2>1. h # NoHandle /\ RunOk(r)
    BY RunFacts
  <2>2. r.op \in Op
    BY <2>1 DEF RunOk
  <2>3. CASE Recycle(r) \/ AppendPage(r) \/ Refuse(r) \/ ReadFails(r)
    BY <2>3 DEF Recycle, AppendPage, Refuse, ReadFails, ghosts
  <2>4. CASE Allocate(r)
    <3>1. BtInv' /\ run' # {}
      BY <2>4, AllocateKeeps DEF Allocate, Advance
    <3>2. h' # NoHandle
      BY <3>1 DEF BtInv
    <3> QED BY <2>1, <2>4, <3>2 DEF Allocate, ghosts
  <2>5. CASE Publish(r)
    <3> DEFINE next == Rooted(h, r.root)
    <3>1. next \in Superblocks
      BY <2>5, Published DEF Publish
    <3>2. h' = next /\ acked' = Effect(acked, r.op) /\ pending' = pending
      BY <2>5 DEF Publish
    <3> HIDE DEF next
    <3>3. h' # NoHandle
      BY <3>1, <3>2, SuperblockFacts
    <3>4. Kv!Mutate(r.op)
      BY <2>1, <3>2, <3>3 DEF Kv!Mutate, Kv!Effect, Effect
    <3> QED BY <2>2, <3>4 DEF Kv!Op, Op, Kv!Entry, Entry
  <2>6. CASE Interrupt(r)
    <3>1. h' = NoHandle /\ pending' = {r.op} /\ acked' = acked
      BY <2>6 DEF Interrupt
    <3>2. Kv!FailMutation(r.op)
      BY <2>1, <3>1 DEF Kv!FailMutation
    <3> QED BY <2>2, <3>2 DEF Kv!Op, Op, Kv!Entry, Entry
  <2> QED BY <1>9, <2>3, <2>4, <2>5, <2>6 DEF Step
<1> QED BY <1>1, <1>2, <1>3, <1>4, <1>5, <1>6, <1>7, <1>8, <1>9 DEF Next

-----------------------------------------------------------------------------
\* The invariant holds in every behaviour whose opens read the newest
\* superblock.  With separators of at most a third of a page, every plan of a
\* mutation is sound; and because each published put takes a generation, no map
\* outgrows MAX_TREE_HEIGHT.
THEOREM TreeInvariance ==
    ASSUME SeparatorsAreShort, FewGenerations, ~NewestMayBeUnread
    PROVE  Spec => []BtInv
<1>1. Init => BtInv
  BY InitHolds
<1>2. BtInv /\ [Next]_vars => BtInv'
  BY StepKeeps, EveryPlanIsSound
<1> QED BY <1>1, <1>2, PTL DEF Spec

\* Crash rule, for opens that read the newest superblock: at every point of
\* every mutation, of creation and of recovery, open accepts the file, and the tree it reads holds the acknowledged map, or
\* that map with the one mutation in doubt (Pager::open, choose_superblock,
\* commit_new_page, commit_recycled_page, set_root).
THEOREM TreesRecover ==
    ASSUME SeparatorsAreShort, FewGenerations, ~NewestMayBeUnread
    PROVE  Spec => []Recoverable
BY TreeInvariance, InvRecoverable, PTL

\* A usable handle holds the superblock open would choose (given that every open
\* reads the newest one), and the tree under it is the acknowledged map, even in the middle of a mutation (Pager::active,
\* BTree::get).
THEOREM HandlesAreDurable ==
    ASSUME SeparatorsAreShort, FewGenerations, ~NewestMayBeUnread
    PROVE  Spec => []HandleIsDurable
BY TreeInvariance, InvHandle, PTL

\* Types, at most one mutation at a time, and a file without gaps: the data
\* pages are numbered from the first (Pager::open, commit_new_page).
THEOREM TreeTypesAreCorrect ==
    ASSUME SeparatorsAreShort, FewGenerations, ~NewestMayBeUnread
    PROVE  Spec => []TypeOK
BY TreeInvariance, InvType, PTL

\* Copy-on-write: no write, whole or torn, touches a page that is reachable
\* from the published root, overflow chains included (commit_recycled_page,
\* refresh_reusable_pages).  A handle that had been opened on the older
\* superblock would recycle such pages: every open reads the newest one.
THEOREM LivePagesAreKept ==
    ASSUME SeparatorsAreShort, FewGenerations, ~NewestMayBeUnread
    PROVE  Spec => LivePagesKept
BY TreeInvariance, StepSpares, PTL DEF Spec, LivePagesKept

\* The B+ tree implements the key-value contract of the laboratory: every step
\* of a mutation, a fault or a recovery is a step of the contract or none,
\* as long as every open reads the newest superblock.
THEOREM TreeImplementsKvStore ==
    ASSUME SeparatorsAreShort, FewGenerations, ~NewestMayBeUnread
    PROVE  Spec => RefinesKvStore
<1>1. Init => Kv!KvInit
  BY DEF Init, Kv!KvInit, Kv!EmptyMap, EmptyMap
<1>2. BtInv /\ [Next]_vars => [Kv!KvNext]_(Kv!kvVars)
  BY StepRefines
<1> QED BY <1>1, <1>2, TreeInvariance, PTL DEF Spec, RefinesKvStore, Kv!KvSpec
=============================================================================
