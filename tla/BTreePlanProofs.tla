-------------------------- MODULE BTreePlanProofs --------------------------
(***************************************************************************)
(* Every plan of a mutation is sound: from a whole tree, the rewriting of  *)
(* a put or of a delete names pages to write, each once and in order, none *)
(* of them part of the published tree, and once they are written its root  *)
(* carries a whole tree with exactly the rows of the new map               *)
(* (EveryPlanIsSound).                                                     *)
(*                                                                         *)
(* The argument goes by the height of the tree. What validate_subtree      *)
(* accepts (Subtree) is a strand of rows or of children in the order of    *)
(* their keys (Shaped, Strand). A rewriting is good (GoodState) while its  *)
(* pending writes take the slots of its pool and of the extent in order; a *)
(* part of it is right when what it returns holds the rows it was given,   *)
(* in pages that were free (Proper, Level). Splitting, combining and       *)
(* rebalancing are right for siblings (SplitAt, Combine, Rebalanced), and  *)
(* so rewrite_put and rewrite_delete are right level by level (InsertGood, *)
(* DeleteGood). A tree of height h holds 2^(h-1) keys at least             *)
(* (HeightBound), so one of few keys does not outgrow MAX_TREE_HEIGHT.     *)
(*                                                                         *)
(* SeparatorsAreShort bounds a separator by a third of a page: beyond      *)
(* that, choose_split of the code can leave an internal page with one      *)
(* child, as the run BTreeFanout shows. Powers stands for the powers of    *)
(* two, of which the provers know nothing.                                 *)
(***************************************************************************)
EXTENDS BTreeRewrite, SequenceTheorems, FiniteSetTheorems, WellFoundedInduction, TLAPS

\* Every set of natural numbers with a member has a least one.
LEMMA LeastNatural ==
    ASSUME NEW S \in SUBSET Nat, S # {}
    PROVE  \E m \in S : \A k \in S : m <= k
<1>. DEFINE R == StrictSubsetOrdering(Nat)
            D == FiniteSubsetsOf(Nat)
            T == {0 .. n : n \in S}
<1>1. IsWellFoundedOn(R, D)
  BY FS_StrictSubsetOrderingWellFounded
<1>2. T \subseteq D
  <2>1. \A n \in S : IsFiniteSet(0 .. n)
    BY FS_Interval
  <2>2. \A n \in S : 0 .. n \in D
    <3>. TAKE n \in S
    <3>1. 0 .. n \in SUBSET Nat
      OBVIOUS
    <3>. QED
      BY <2>1, <3>1 DEF FiniteSubsetsOf
  <2>. QED
    BY <2>2
<1>3. T # {}
  OBVIOUS
<1>. HIDE DEF R, D, T
<1>4. PICK x \in T : \A y \in T : ~(<<y, x>> \in R)
  BY <1>1, <1>2, <1>3, WFMin
<1>5. PICK m \in S : x = 0 .. m
  BY DEF T
<1>6. ASSUME NEW k \in S, k < m
      PROVE  FALSE
  <2>1. 0 .. k \in T
    BY DEF T
  <2>2. 0 .. k \subseteq 0 .. m /\ m \in 0 .. m /\ m \notin 0 .. k
    BY <1>6
  <2>3. <<0 .. k, 0 .. m>> \in R
    BY <2>2 DEF R, StrictSubsetOrdering
  <2>. QED
    BY <1>4, <1>5, <2>1, <2>3
<1>. QED
  BY <1>6

\* Induction on the natural numbers.
LEMMA NatSetInduction ==
    ASSUME NEW S \in SUBSET Nat, 0 \in S, \A n \in S : n + 1 \in S
    PROVE  S = Nat
<1>1. ASSUME Nat \ S # {} PROVE FALSE
  <2>1. PICK m \in Nat \ S : \A k \in Nat \ S : m <= k
    BY <1>1, LeastNatural
  <2>2. m - 1 \in Nat /\ m - 1 \in S
    BY <2>1
  <2>. QED
    BY <2>1, <2>2
<1>. QED
  BY <1>1

\* A bounded set of natural numbers with a member has a greatest one.
LEMMA GreatestNatural ==
    ASSUME NEW S \in SUBSET Nat, S # {}, NEW b \in Nat, \A k \in S : k <= b
    PROVE  \E m \in S : \A k \in S : k <= m
<1> DEFINE D == {b - k : k \in S}
<1>1. D \in SUBSET Nat /\ D # {}
  <2>1. \A k \in S : k \in Nat /\ b - k \in Nat
    OBVIOUS
  <2>2. \A d \in D : d \in Nat
    BY <2>1
  <2>3. PICK k \in S : TRUE
    OBVIOUS
  <2>4. b - k \in D
    OBVIOUS
  <2> QED BY <2>2, <2>4
<1> HIDE DEF D
<1>2. PICK d \in D : \A e \in D : d <= e
  BY <1>1, LeastNatural
<1>3. PICK m \in S : d = b - m
  BY <1>2 DEF D
<1>4. ASSUME NEW k \in S PROVE k <= m
  <2>1. b - k \in D
    BY DEF D
  <2>2. d <= b - k
    BY <1>2, <2>1
  <2> QED BY <1>3, <2>2
<1> QED BY <1>4

\* What Prefix adds up.
LEMMA PrefixSums ==
    ASSUME NEW sizes, Len(sizes) \in Nat
    PROVE  /\ Prefix(sizes)[0] = 0
           /\ \A i \in 1 .. Len(sizes) : Prefix(sizes)[i] = Prefix(sizes)[i - 1] + sizes[i]
<1> DEFINE N == Len(sizes)
           Step(x, i) == x + sizes[i]
           Base == 0
           Def(g, m) == g = [i \in 0 .. m |-> IF i = 0 THEN Base ELSE Step(g[i - 1], i)]
           f == CHOOSE g : Def(g, N)
           S == {m \in Nat : \E g : Def(g, 0 + m)}
<1>0. N \in Int /\ N >= 0 /\ 0 \in Int
  OBVIOUS
<1>3. Prefix(sizes) = f
  BY Zenon DEF Prefix
<1> HIDE DEF N, Step, Base
<1>1. S = Nat
  <2>1. 0 \in S
    <3>1. Def([i \in 0 .. 0 + 0 |-> Base], 0 + 0)
      BY <1>0
    <3> QED BY <3>1
  <2>2. ASSUME NEW m \in S PROVE m + 1 \in S
    <3>1. PICK g : Def(g, 0 + m)
      OBVIOUS
    <3> DEFINE n == 0 + m
               h == [i \in 0 .. n + 1 |-> IF i = n + 1 THEN Step(g[n], n + 1) ELSE g[i]]
               v(i) == IF i = 0 THEN Base ELSE Step(h[i - 1], i)
    <3>2. n \in Int /\ n >= 0 /\ n + 1 = 0 + (m + 1) /\ m + 1 \in Nat
      BY <1>0
    <3>3. g = [i \in 0 .. n |-> IF i = 0 THEN Base ELSE Step(g[i - 1], i)]
      BY <3>1
    <3> HIDE DEF n
    <3>4. ASSUME NEW i \in 0 .. n + 1 PROVE h[i] = v(i)
      <4>1. CASE i = n + 1
        <5>1. i # 0 /\ n \in 0 .. n + 1 /\ n # n + 1 /\ i - 1 = n
          BY <1>0, <3>2, <4>1
        <5>2. h[n] = g[n] /\ h[i] = Step(g[n], n + 1)
          BY <4>1, <5>1
        <5> QED BY <4>1, <5>1, <5>2
      <4>2. CASE i # n + 1 /\ i # 0
        <5>1. i \in 0 .. n /\ i - 1 \in 0 .. n + 1 /\ i - 1 # n + 1
          BY <1>0, <3>2, <4>2
        <5>2. g[i] = Step(g[i - 1], i)
          BY <3>3, <4>2, <5>1
        <5>3. h[i] = g[i] /\ h[i - 1] = g[i - 1]
          BY <4>2, <5>1
        <5> QED BY <4>2, <5>2, <5>3
      <4>3. CASE i = 0 /\ i # n + 1
        <5>1. i \in 0 .. n
          BY <1>0, <3>2, <4>3
        <5>2. g[i] = Base
          BY <3>3, <4>3, <5>1
        <5>3. h[i] = g[i]
          BY <4>3
        <5> QED BY <4>3, <5>2, <5>3
      <4> QED BY <4>1, <4>2, <4>3
    <3>5. h = [i \in 0 .. n + 1 |-> h[i]]
      OBVIOUS
    <3> HIDE DEF h
    <3>6. h = [i \in 0 .. n + 1 |-> v(i)]
      BY <3>4, <3>5
    <3>7. Def(h, 0 + (m + 1))
      BY <3>2, <3>6
    <3> HIDE DEF Def
    <3> QED BY <3>2, <3>7
  <2> HIDE DEF S
  <2> QED BY <2>1, <2>2, NatSetInduction DEF S
<1>2. Def(f, N)
  <2>1. N - 0 \in Nat /\ N = 0 + (N - 0)
    BY <1>0
  <2>2. N - 0 \in S
    BY <1>1, <2>1
  <2>3. \E g : Def(g, N)
    BY <2>1, <2>2
  <2> HIDE DEF Def
  <2> QED BY <2>3, Zenon
<1> HIDE DEF f
<1>4. f[0] = Base /\ \A i \in 1 .. N : f[i] = Step(f[i - 1], i)
  <2> DEFINE v(i) == IF i = 0 THEN Base ELSE Step(f[i - 1], i)
  <2>1. f = [i \in 0 .. N |-> v(i)]
    BY <1>2
  <2>2. 0 \in 0 .. N /\ \A i \in 1 .. N : i \in 0 .. N /\ i # 0
    BY <1>0
  <2> HIDE DEF v
  <2>3. f[0] = v(0) /\ \A i \in 1 .. N : f[i] = v(i)
    BY <2>1, <2>2
  <2> QED BY <2>2, <2>3 DEF v
<1>5. f = [i \in 0 .. N |-> f[i]]
  BY <1>2
<1> QED BY <1>3, <1>4 DEF N, Base, Step

\* A chain starts at the head and follows the pages.
LEMMA ChainLinks ==
    ASSUME NEW pages, NEW s, Chunks(s.len) \in Nat \ {0}
    PROVE  LET c == Chain(pages, s)
           IN  /\ c = [i \in 1 .. Chunks(s.len) |-> c[i]]
               /\ c[1] = s.head
               /\ \A i \in 2 .. Chunks(s.len) :
                     c[i] = IF IsPage(pages, c[i - 1], "overflow") THEN pages[c[i - 1]].next ELSE 0
<1> DEFINE N == Chunks(s.len)
           Step(x, i) == IF IsPage(pages, x, "overflow") THEN pages[x].next ELSE 0
           Base == s.head
           Def(g, m) == g = [i \in 1 .. m |-> IF i = 1 THEN Base ELSE Step(g[i - 1], i)]
           f == CHOOSE g : Def(g, N)
           S == {m \in Nat : \E g : Def(g, 1 + m)}
<1>0. N \in Int /\ N >= 1 /\ 1 \in Int
  OBVIOUS
<1>3. Chain(pages, s) = f
  BY Zenon DEF Chain
<1> HIDE DEF N, Step, Base
<1>1. S = Nat
  <2>1. 0 \in S
    <3>1. Def([i \in 1 .. 1 + 0 |-> Base], 1 + 0)
      BY <1>0
    <3> QED BY <3>1
  <2>2. ASSUME NEW m \in S PROVE m + 1 \in S
    <3>1. PICK g : Def(g, 1 + m)
      OBVIOUS
    <3> DEFINE n == 1 + m
               h == [i \in 1 .. n + 1 |-> IF i = n + 1 THEN Step(g[n], n + 1) ELSE g[i]]
               v(i) == IF i = 1 THEN Base ELSE Step(h[i - 1], i)
    <3>2. n \in Int /\ n >= 1 /\ n + 1 = 1 + (m + 1) /\ m + 1 \in Nat
      BY <1>0
    <3>3. g = [i \in 1 .. n |-> IF i = 1 THEN Base ELSE Step(g[i - 1], i)]
      BY <3>1
    <3> HIDE DEF n
    <3>4. ASSUME NEW i \in 1 .. n + 1 PROVE h[i] = v(i)
      <4>1. CASE i = n + 1
        <5>1. i # 1 /\ n \in 1 .. n + 1 /\ n # n + 1 /\ i - 1 = n
          BY <1>0, <3>2, <4>1
        <5>2. h[n] = g[n] /\ h[i] = Step(g[n], n + 1)
          BY <4>1, <5>1
        <5> QED BY <4>1, <5>1, <5>2
      <4>2. CASE i # n + 1 /\ i # 1
        <5>1. i \in 1 .. n /\ i - 1 \in 1 .. n + 1 /\ i - 1 # n + 1
          BY <1>0, <3>2, <4>2
        <5>2. g[i] = Step(g[i - 1], i)
          BY <3>3, <4>2, <5>1
        <5>3. h[i] = g[i] /\ h[i - 1] = g[i - 1]
          BY <4>2, <5>1
        <5> QED BY <4>2, <5>2, <5>3
      <4>3. CASE i = 1 /\ i # n + 1
        <5>1. i \in 1 .. n
          BY <1>0, <3>2, <4>3
        <5>2. g[i] = Base
          BY <3>3, <4>3, <5>1
        <5>3. h[i] = g[i]
          BY <4>3
        <5> QED BY <4>3, <5>2, <5>3
      <4> QED BY <4>1, <4>2, <4>3
    <3>5. h = [i \in 1 .. n + 1 |-> h[i]]
      OBVIOUS
    <3> HIDE DEF h
    <3>6. h = [i \in 1 .. n + 1 |-> v(i)]
      BY <3>4, <3>5
    <3>7. Def(h, 1 + (m + 1))
      BY <3>2, <3>6
    <3> HIDE DEF Def
    <3> QED BY <3>2, <3>7
  <2> HIDE DEF S
  <2> QED BY <2>1, <2>2, NatSetInduction DEF S
<1>2. Def(f, N)
  <2>1. N - 1 \in Nat /\ N = 1 + (N - 1)
    BY <1>0
  <2>2. N - 1 \in S
    BY <1>1, <2>1
  <2>3. \E g : Def(g, N)
    BY <2>1, <2>2
  <2> HIDE DEF Def
  <2> QED BY <2>3, Zenon
<1> HIDE DEF f
<1>4. f[1] = Base /\ \A i \in 2 .. N : f[i] = Step(f[i - 1], i)
  <2> DEFINE v(i) == IF i = 1 THEN Base ELSE Step(f[i - 1], i)
  <2>1. f = [i \in 1 .. N |-> v(i)]
    BY <1>2
  <2>2. 1 \in 1 .. N /\ \A i \in 2 .. N : i \in 1 .. N /\ i # 1
    BY <1>0
  <2> HIDE DEF v
  <2>3. f[1] = v(1) /\ \A i \in 2 .. N : f[i] = v(i)
    BY <2>1, <2>2
  <2> QED BY <2>2, <2>3 DEF v
<1>5. f = [i \in 1 .. N |-> f[i]]
  BY <1>2
<1> QED BY <1>3, <1>4, <1>5 DEF N, Base, Step

\* validate_subtree, one level at a time.
LEMMA SubtreeLevels ==
    ASSUME NEW pages, NEW depth \in Nat
    PROVE  \E tree : /\ tree[0] = [p \in Nat |-> Invalid]
                     /\ \A d \in 1 .. depth : tree[d] = [p \in Nat |-> PageTree(pages, p, tree[d - 1])]
                     /\ \A id : Subtree(pages, id, depth) = tree[depth][id]
<1> DEFINE N == depth
           Step(x, i) == [p \in Nat |-> PageTree(pages, p, x)]
           Base == [p \in Nat |-> Invalid]
           Def(g, m) == g = [i \in 0 .. m |-> IF i = 0 THEN Base ELSE Step(g[i - 1], i)]
           f == CHOOSE g : Def(g, N)
           S == {m \in Nat : \E g : Def(g, 0 + m)}
<1>0. N \in Int /\ N >= 0 /\ 0 \in Int
  OBVIOUS
<1>3. \A id : Subtree(pages, id, depth) = f[depth][id]
  BY Zenon DEF Subtree
<1> HIDE DEF N, Step, Base
<1>1. S = Nat
  <2>1. 0 \in S
    <3>1. Def([i \in 0 .. 0 + 0 |-> Base], 0 + 0)
      BY <1>0
    <3> QED BY <3>1
  <2>2. ASSUME NEW m \in S PROVE m + 1 \in S
    <3>1. PICK g : Def(g, 0 + m)
      OBVIOUS
    <3> DEFINE n == 0 + m
               h == [i \in 0 .. n + 1 |-> IF i = n + 1 THEN Step(g[n], n + 1) ELSE g[i]]
               v(i) == IF i = 0 THEN Base ELSE Step(h[i - 1], i)
    <3>2. n \in Int /\ n >= 0 /\ n + 1 = 0 + (m + 1) /\ m + 1 \in Nat
      BY <1>0
    <3>3. g = [i \in 0 .. n |-> IF i = 0 THEN Base ELSE Step(g[i - 1], i)]
      BY <3>1
    <3> HIDE DEF n
    <3>4. ASSUME NEW i \in 0 .. n + 1 PROVE h[i] = v(i)
      <4>1. CASE i = n + 1
        <5>1. i # 0 /\ n \in 0 .. n + 1 /\ n # n + 1 /\ i - 1 = n
          BY <1>0, <3>2, <4>1
        <5>2. h[n] = g[n] /\ h[i] = Step(g[n], n + 1)
          BY <4>1, <5>1
        <5> QED BY <4>1, <5>1, <5>2
      <4>2. CASE i # n + 1 /\ i # 0
        <5>1. i \in 0 .. n /\ i - 1 \in 0 .. n + 1 /\ i - 1 # n + 1
          BY <1>0, <3>2, <4>2
        <5>2. g[i] = Step(g[i - 1], i)
          BY <3>3, <4>2, <5>1
        <5>3. h[i] = g[i] /\ h[i - 1] = g[i - 1]
          BY <4>2, <5>1
        <5> QED BY <4>2, <5>2, <5>3
      <4>3. CASE i = 0 /\ i # n + 1
        <5>1. i \in 0 .. n
          BY <1>0, <3>2, <4>3
        <5>2. g[i] = Base
          BY <3>3, <4>3, <5>1
        <5>3. h[i] = g[i]
          BY <4>3
        <5> QED BY <4>3, <5>2, <5>3
      <4> QED BY <4>1, <4>2, <4>3
    <3>5. h = [i \in 0 .. n + 1 |-> h[i]]
      OBVIOUS
    <3> HIDE DEF h
    <3>6. h = [i \in 0 .. n + 1 |-> v(i)]
      BY <3>4, <3>5
    <3>7. Def(h, 0 + (m + 1))
      BY <3>2, <3>6
    <3> HIDE DEF Def
    <3> QED BY <3>2, <3>7
  <2> HIDE DEF S
  <2> QED BY <2>1, <2>2, NatSetInduction DEF S
<1>2. Def(f, N)
  <2>1. N - 0 \in Nat /\ N = 0 + (N - 0)
    BY <1>0
  <2>2. N - 0 \in S
    BY <1>1, <2>1
  <2>3. \E g : Def(g, N)
    BY <2>1, <2>2
  <2> HIDE DEF Def
  <2> QED BY <2>3, Zenon
<1> HIDE DEF f
<1>4. f[0] = Base /\ \A i \in 1 .. N : f[i] = Step(f[i - 1], i)
  <2> DEFINE v(i) == IF i = 0 THEN Base ELSE Step(f[i - 1], i)
  <2>1. f = [i \in 0 .. N |-> v(i)]
    BY <1>2
  <2>2. 0 \in 0 .. N /\ \A i \in 1 .. N : i \in 0 .. N /\ i # 0
    BY <1>0
  <2> HIDE DEF v
  <2>3. f[0] = v(0) /\ \A i \in 1 .. N : f[i] = v(i)
    BY <2>1, <2>2
  <2> QED BY <2>2, <2>3 DEF v
<1>5. f = [i \in 0 .. N |-> f[i]]
  BY <1>2
<1> QED
  <2> DEFINE P(tree) == /\ tree[0] = [p \in Nat |-> Invalid]
                        /\ \A d \in 1 .. depth : tree[d] = [p \in Nat |-> PageTree(pages, p, tree[d - 1])]
                        /\ \A id : Subtree(pages, id, depth) = tree[depth][id]
  <2>1. P(f)
    BY <1>3, <1>4 DEF N, Base, Step
  <2> HIDE DEF P
  <2>2. \E tree : P(tree)
    BY <2>1
  <2> QED BY <2>2 DEF P

\* The subtree at a page, by the subtrees below it.
LEMMA SubtreeStep ==
    ASSUME NEW pages, NEW d \in Nat, NEW id \in Nat
    PROVE  /\ Subtree(pages, id, 0) = Invalid
           /\ Subtree(pages, id, d + 1) =
                PageTree(pages, id, [p \in Nat |-> Subtree(pages, p, d)])
<1> DEFINE Level(t) == [p \in Nat |-> PageTree(pages, p, t)]
           Bottom == [p \in Nat |-> Invalid]
<1>1. PICK low : /\ low[0] = Bottom
                 /\ \A e \in 1 .. d : low[e] = Level(low[e - 1])
                 /\ \A i : Subtree(pages, i, d) = low[d][i]
  BY SubtreeLevels
<1>2. PICK high : /\ high[0] = Bottom
                  /\ \A e \in 1 .. d + 1 : high[e] = Level(high[e - 1])
                  /\ \A i : Subtree(pages, i, d + 1) = high[d + 1][i]
  BY SubtreeLevels, d + 1 \in Nat
<1> DEFINE S == {e \in Nat : e <= d => high[e] = low[e]}
<1>3. S = Nat
  <2> HIDE DEF Level, Bottom
  <2>1. 0 \in S
    BY <1>1, <1>2
  <2>2. ASSUME NEW e \in S PROVE e + 1 \in S
    <3>1. CASE e + 1 <= d
      <4>1. e + 1 \in 1 .. d /\ e + 1 \in 1 .. d + 1 /\ (e + 1) - 1 = e /\ high[e] = low[e]
        BY <3>1
      <4> QED BY <1>1, <1>2, <4>1
    <3> QED BY <3>1
  <2> HIDE DEF S
  <2> QED BY <2>1, <2>2, NatSetInduction DEF S
<1>4. high[d] = low[d]
  BY <1>3
<1>5. low[d] = [p \in Nat |-> low[d][p]]
  <2>1. CASE d = 0
    BY <1>1, <2>1
  <2>2. CASE d # 0
    <3>1. low[d] = Level(low[d - 1])
      BY <1>1, <2>2
    <3> DEFINE v(p) == PageTree(pages, p, low[d - 1])
    <3>2. low[d] = [p \in Nat |-> v(p)]
      BY <3>1
    <3> HIDE DEF v
    <3> QED BY <3>2
  <2> QED BY <2>1, <2>2
<1>6. low[d] = [p \in Nat |-> Subtree(pages, p, d)]
  BY <1>1, <1>5
<1>7. Subtree(pages, id, d + 1) = PageTree(pages, id, high[d])
  <2>1. d + 1 \in 1 .. d + 1 /\ (d + 1) - 1 = d
    OBVIOUS
  <2>2. high[d + 1] = Level(high[d])
    BY <1>2, <2>1
  <2>3. high[d + 1][id] = PageTree(pages, id, high[d])
    BY <2>2
  <2> QED BY <1>2, <2>3
<1>8. Subtree(pages, id, 0) = Invalid
  <2>1. PICK t : t[0] = Bottom /\ \A i : Subtree(pages, i, 0) = t[0][i]
    BY SubtreeLevels, 0 \in Nat
  <2> QED BY <2>1
<1> QED BY <1>4, <1>6, <1>7, <1>8

\* Page maps: typed pages, or torn ones.
PageMap(P) == DOMAIN P \subseteq Nat /\ \A id \in DOMAIN P : P[id] \in Page \cup {Torn}

\* Q has the pages P has at ids.
Keeps(P, Q, ids) == \A id \in ids \cap DOMAIN P : id \in DOMAIN Q /\ Q[id] = P[id]

\* commit_overflow_blob: a blob that is not empty needs a page at least.
LEMMA ChunksPositive ==
    ASSUME NEW len \in Nat \ {0}
    PROVE  Chunks(len) \in Nat \ {0}
BY DEF Chunks, ChunkLen, PageBody, SlotLen

\* A chain that is all there is the same in every map that keeps its pages.
LEMMA ChainSame ==
    ASSUME NEW P, NEW Q, NEW s, Chunks(s.len) \in Nat \ {0},
           Keeps(P, Q, Range(Chain(P, s))),
           \A i \in 1 .. Chunks(s.len) : IsPage(P, Chain(P, s)[i], "overflow")
    PROVE  Chain(Q, s) = Chain(P, s)
<1> DEFINE N == Chunks(s.len)
           c == Chain(P, s)
           e == Chain(Q, s)
           S == {n \in Nat : n + 1 \in 1 .. N => e[n + 1] = c[n + 1]}
<1>1. /\ c = [i \in 1 .. N |-> c[i]] /\ c[1] = s.head
      /\ \A i \in 2 .. N : c[i] = IF IsPage(P, c[i - 1], "overflow") THEN P[c[i - 1]].next ELSE 0
  BY ChainLinks
<1>2. /\ e = [i \in 1 .. N |-> e[i]] /\ e[1] = s.head
      /\ \A i \in 2 .. N : e[i] = IF IsPage(Q, e[i - 1], "overflow") THEN Q[e[i - 1]].next ELSE 0
  BY ChainLinks
<1>3. \A i \in 1 .. N : /\ c[i] \in DOMAIN P /\ c[i] \in DOMAIN Q /\ Q[c[i]] = P[c[i]]
                        /\ IsPage(Q, c[i], "overflow")
  <2> TAKE i \in 1 .. N
  <2>1. DOMAIN c = 1 .. N
    BY <1>1
  <2>2. c[i] \in Range(c)
    BY <2>1 DEF Range
  <2>3. IsPage(P, c[i], "overflow")
    OBVIOUS
  <2>4. c[i] \in Range(Chain(P, s)) /\ IsPage(P, c[i], "overflow")
    BY <2>2, <2>3
  <2> HIDE DEF c
  <2> QED BY <2>4 DEF Keeps, IsPage
<1> HIDE DEF c, e
<1>4. S = Nat
  <2>1. 0 \in S
    BY <1>1, <1>2
  <2>2. ASSUME NEW n \in S PROVE n + 1 \in S
    <3>1. CASE n + 2 \in 1 .. N
      <4>1. n + 1 \in 1 .. N /\ n + 2 \in 2 .. N /\ (n + 2) - 1 = n + 1 /\ e[n + 1] = c[n + 1]
        BY <3>1
      <4>5. e[(n + 2) - 1] = c[n + 1]
        BY <4>1
      <4>6. e[n + 2] = IF IsPage(Q, e[(n + 2) - 1], "overflow") THEN Q[e[(n + 2) - 1]].next ELSE 0
        BY <1>2, <4>1
      <4>2. e[n + 2] = Q[c[n + 1]].next
        BY <1>3, <4>1, <4>5, <4>6
      <4>3. c[n + 2] = P[c[n + 1]].next
        BY <1>1, <4>1 DEF c
      <4>4. e[n + 2] = c[n + 2] /\ (n + 1) + 1 = n + 2
        BY <1>3, <4>1, <4>2, <4>3
      <4> QED BY <4>4
    <3> QED BY <3>1
  <2> HIDE DEF S
  <2> QED BY <2>1, <2>2, NatSetInduction DEF S
<1>5. \A i \in 1 .. N : e[i] = c[i]
  <2> TAKE i \in 1 .. N
  <2>1. i - 1 \in S /\ (i - 1) + 1 = i
    BY <1>4
  <2> QED BY <2>1
<1> QED BY <1>1, <1>2, <1>5 DEF c, e

\* What Decode answers for a stored datum that reads.
LEMMA ChainReads ==
    ASSUME NEW P, NEW s, s.head # 0, s.len \in Nat \ {0}, Decode(P, s) # Torn
    PROVE  LET c == Chain(P, s)
           IN  /\ DOMAIN c = 1 .. Chunks(s.len)
               /\ \A i \in 1 .. Chunks(s.len) : IsPage(P, c[i], "overflow")
               /\ Decode(P, s) = P[c[1]].data
<1> DEFINE c == Chain(P, s)
<1>1. DOMAIN c = 1 .. Chunks(s.len)
  BY ChainLinks, ChunksPositive
<1>2. Decode(P, s) = ReadChain(P, s.len, c)
  BY DEF Decode
<1>3. /\ \A i \in DOMAIN c : IsPage(P, c[i], "overflow")
      /\ ReadChain(P, s.len, c) = P[c[1]].data
  BY <1>2 DEF ReadChain
<1> QED BY <1>1, <1>2, <1>3

\* read_overflow_blob answers the same where the pages of the chain are
\* kept.
LEMMA DecodeSame ==
    ASSUME NEW P, NEW Q, NEW D, NEW s \in Stored(D), Decode(P, s) # Torn,
           Keeps(P, Q, ChainPages(P, s))
    PROVE  Decode(Q, s) = Decode(P, s) /\ ChainPages(Q, s) = ChainPages(P, s)
<1>1. CASE s.head = 0
  BY <1>1 DEF Decode, ChainPages
<1>2. CASE s.head # 0
  <2>1. s.len \in Nat \ {0}
    BY <1>2 DEF Stored
  <2>2. Chain(Q, s) = Chain(P, s)
    BY <1>2, <2>1, ChainReads, ChunksPositive, ChainSame DEF ChainPages
  <2>3. ChainPages(Q, s) = ChainPages(P, s)
    BY <2>2, <1>2 DEF ChainPages
  <2> DEFINE c == Chain(P, s)
  <2>4. DOMAIN c = 1 .. Chunks(s.len) /\ \A i \in DOMAIN c : IsPage(P, c[i], "overflow")
    BY <1>2, <2>1, ChainReads
  <2>5. \A i \in DOMAIN c : IsPage(Q, c[i], "overflow") /\ Q[c[i]] = P[c[i]]
    <3> TAKE i \in DOMAIN c
    <3>1. c[i] \in ChainPages(P, s)
      BY <1>2 DEF ChainPages, Range
    <3> QED BY <3>1, <2>4 DEF Keeps, IsPage
  <2>6. 1 \in DOMAIN c /\ Chunks(s.len) \in DOMAIN c
    BY <2>1, <2>4, ChunksPositive
  <2>7. ReadChain(Q, s.len, c) = ReadChain(P, s.len, c)
    <3> HIDE DEF c
    <3> QED BY <2>4, <2>5, <2>6 DEF ReadChain
  <2>8. Decode(Q, s) = Decode(P, s)
    BY <1>2, <2>2, <2>7 DEF Decode
  <2> QED BY <2>3, <2>8
<1> QED BY <1>1, <1>2

\* The pages of a chain that reads are there.
LEMMA ChainPagesExist ==
    ASSUME NEW P, NEW D, NEW s \in Stored(D), Decode(P, s) # Torn
    PROVE  ChainPages(P, s) \subseteq DOMAIN P
<1>1. CASE s.head = 0
  BY <1>1 DEF ChainPages
<1>2. CASE s.head # 0
  <2>1. s.len \in Nat \ {0}
    BY <1>2 DEF Stored
  <2> DEFINE c == Chain(P, s)
  <2>2. DOMAIN c = 1 .. Chunks(s.len) /\ \A i \in DOMAIN c : IsPage(P, c[i], "overflow")
    BY <1>2, <2>1, ChainReads
  <2>3. ChainPages(P, s) = Range(c)
    BY <1>2 DEF ChainPages
  <2> HIDE DEF c
  <2> QED BY <2>2, <2>3 DEF Range, IsPage
<1> QED BY <1>1, <1>2

\* The children of an internal page, with d levels below it.
Kid(P, id, i, d) == Subtree(P, P[id].cells[i].child, d)
SepPages(P, id, i) == ChainPages(P, P[id].cells[i].key)
KidPages(P, id, i, d) == SepPages(P, id, i) \cup Kid(P, id, i, d).refs

\* The conditions of validate_subtree, and what it answers.
LeafNode(P, id) ==
    LET cells == P[id].cells
    IN  /\ IsPage(P, id, "leaf") /\ cells # << >>
        /\ \A i \in DOMAIN cells : EntryReads(P, cells[i]) /\ id \notin EntryPages(P, cells[i])
        /\ \A i, j \in DOMAIN cells : i < j => Row(P, cells[i]).key < Row(P, cells[j]).key
        /\ \A i, j \in DOMAIN cells :
              i # j => EntryPages(P, cells[i]) \cap EntryPages(P, cells[j]) = {}
LeafSummary(P, id) ==
    LET cells == P[id].cells
    IN  Summary({Row(P, cells[i]) : i \in DOMAIN cells},
                Row(P, cells[1]).key, Row(P, cells[Len(cells)]).key, 1,
                {id} \cup UNION {EntryPages(P, cells[i]) : i \in DOMAIN cells})

InnerNode(P, id, d) ==
    LET cells == P[id].cells
    IN  /\ IsPage(P, id, "internal") /\ Len(cells) >= 2
        /\ \A i \in DOMAIN cells :
              /\ Kid(P, id, i, d).ok
              /\ Kid(P, id, i, d).min = Decode(P, cells[i].key)
              /\ Kid(P, id, i, d).height = Kid(P, id, 1, d).height
              /\ SepPages(P, id, i) \cap Kid(P, id, i, d).refs = {}
              /\ id \notin KidPages(P, id, i, d)
        /\ \A i, j \in DOMAIN cells : i < j => Kid(P, id, i, d).max < Kid(P, id, j, d).min
        /\ \A i, j \in DOMAIN cells : i # j => KidPages(P, id, i, d) \cap KidPages(P, id, j, d) = {}
InnerSummary(P, id, d) ==
    LET cells == P[id].cells
    IN  Summary(UNION {Kid(P, id, i, d).rows : i \in DOMAIN cells},
                Kid(P, id, 1, d).min, Kid(P, id, Len(cells), d).max, Kid(P, id, 1, d).height + 1,
                {id} \cup UNION {KidPages(P, id, i, d) : i \in DOMAIN cells})

\* The elements and the indices of a sequence.
LEMMA SeqFacts ==
    ASSUME NEW S, NEW s \in Seq(S)
    PROVE  /\ Len(s) \in Nat /\ DOMAIN s = 1 .. Len(s)
           /\ \A i \in DOMAIN s : i \in Nat /\ s[i] \in S
OBVIOUS

\* The cells of a leaf and of an internal page (decode_leaf,
\* decode_internal).
LEMMA PageKinds ==
    ASSUME NEW p \in Page
    PROVE  /\ p.kind = "leaf" => p.cells \in Seq([key : Stored(Keys), val : Stored(Values)])
           /\ p.kind = "internal" => p.cells \in Seq([key : Stored(Keys), child : Nat])
<1> DEFINE LeafCells == Seq([key : Stored(Keys), val : Stored(Values)])
           RefCells == Seq([key : Stored(Keys), child : Nat])
<1>1. CASE p \in [kind : {"leaf"}, cells : LeafCells]
  <2> HIDE DEF LeafCells, RefCells
  <2>1. p.kind = "leaf" /\ p.cells \in LeafCells /\ "leaf" # "internal"
    BY <1>1
  <2> QED BY <2>1 DEF LeafCells
<1>2. CASE p \in [kind : {"internal"}, cells : RefCells]
  <2> HIDE DEF LeafCells, RefCells
  <2>1. p.kind = "internal" /\ p.cells \in RefCells /\ "leaf" # "internal"
    BY <1>2
  <2> QED BY <2>1 DEF RefCells
<1>3. CASE p \in [kind : {"overflow"}, data : Keys \cup Values, part : Nat, len : Nat, next : Nat]
  <2>1. p.kind = "overflow" /\ "overflow" # "leaf" /\ "overflow" # "internal"
    BY <1>3
  <2> QED BY <2>1
<1> HIDE DEF LeafCells, RefCells
<1> QED BY <1>1, <1>2, <1>3 DEF Page, LeafCells, RefCells

\* A page in a page map.
LEMMA PageParts ==
    ASSUME NEW P, PageMap(P), NEW id
    PROVE  /\ IsPage(P, id, "leaf") =>
                P[id].cells \in Seq([key : Stored(Keys), val : Stored(Values)])
           /\ IsPage(P, id, "internal") =>
                P[id].cells \in Seq([key : Stored(Keys), child : Nat])
           /\ ~(IsPage(P, id, "leaf") /\ IsPage(P, id, "internal"))
           /\ IsPage(P, id, "leaf") \/ IsPage(P, id, "internal") => id \in Nat
<1>1. ASSUME NEW k, IsPage(P, id, k) PROVE P[id] \in Page /\ P[id].kind = k /\ id \in Nat
  BY <1>1 DEF IsPage, PageMap
<1>2. IsPage(P, id, "leaf") => P[id].cells \in Seq([key : Stored(Keys), val : Stored(Values)])
  BY <1>1, PageKinds
<1>3. IsPage(P, id, "internal") => P[id].cells \in Seq([key : Stored(Keys), child : Nat])
  BY <1>1, PageKinds
<1>4. ~(IsPage(P, id, "leaf") /\ IsPage(P, id, "internal"))
  BY DEF IsPage
<1> QED BY <1>1, <1>2, <1>3, <1>4

\* validate_subtree on a leaf page: the leaf's conditions decide.
LEMMA SubtreeLeaf ==
    ASSUME NEW P, PageMap(P), NEW d \in Nat, NEW id, IsPage(P, id, "leaf")
    PROVE  Subtree(P, id, d + 1) = IF LeafNode(P, id) THEN LeafSummary(P, id) ELSE Invalid
<1> DEFINE below == [p \in Nat |-> Subtree(P, p, d)]
           cells == P[id].cells
           rows == Rows(P, cells)
           claims == [i \in DOMAIN cells |-> EntryPages(P, cells[i])]
<1>1. Subtree(P, id, d + 1) = LeafTree(P, id, cells, rows, claims)
  <2>1. Subtree(P, id, d + 1) = PageTree(P, id, below)
    BY SubtreeStep, PageParts
  <2> HIDE DEF below
  <2> QED BY <2>1 DEF PageTree
<1>2. rows = [i \in DOMAIN cells |-> Row(P, cells[i])] /\ DOMAIN claims = DOMAIN cells
  BY DEF Rows
<1>3. cells \in Seq([key : Stored(Keys), val : Stored(Values)])
  BY PageParts
<1>4. Range(rows) = {Row(P, cells[i]) : i \in DOMAIN cells}
  BY <1>2 DEF Range
<1>5. Claimed(id, claims) = {id} \cup UNION {EntryPages(P, cells[i]) : i \in DOMAIN cells}
  BY <1>2 DEF Claimed, Range
<1>6. ASSUME cells # << >>
      PROVE  rows[1].key = Row(P, cells[1]).key /\ rows[Len(cells)].key = Row(P, cells[Len(cells)]).key
  <2>1. 1 \in DOMAIN cells /\ Len(cells) \in DOMAIN cells
    BY <1>3, <1>6
  <2> HIDE DEF cells, rows
  <2> QED BY <1>2, <2>1
<1>7. ClaimedOnce(id, claims) <=>
        /\ \A i \in DOMAIN cells : id \notin EntryPages(P, cells[i])
        /\ \A i, j \in DOMAIN cells : i # j => EntryPages(P, cells[i]) \cap EntryPages(P, cells[j]) = {}
  <2> HIDE DEF cells
  <2> QED BY DEF ClaimedOnce
<1>8. \A i \in DOMAIN cells : rows[i].key = Row(P, cells[i]).key
  <2> HIDE DEF cells
  <2> QED BY <1>2, SMTT(30)
<1> HIDE DEF rows, claims, below
<1>9. CASE LeafNode(P, id)
  BY <1>1, <1>2, <1>4, <1>5, <1>6, <1>7, <1>8, <1>9 DEF LeafNode, LeafSummary, LeafTree
<1>10. CASE ~LeafNode(P, id)
  BY <1>1, <1>2, <1>7, <1>8, <1>10 DEF LeafNode, LeafTree
<1> QED BY <1>9, <1>10

\* validate_subtree on an internal page: its conditions and those of its
\* children decide.
LEMMA SubtreeInner ==
    ASSUME NEW P, PageMap(P), NEW d \in Nat, NEW id, IsPage(P, id, "internal")
    PROVE  Subtree(P, id, d + 1) = IF InnerNode(P, id, d) THEN InnerSummary(P, id, d) ELSE Invalid
<1> DEFINE below == [p \in Nat |-> Subtree(P, p, d)]
           cells == P[id].cells
           refs == Children(P, id)
           kids == [i \in DOMAIN cells |-> below[cells[i].child]]
           chains == [i \in DOMAIN cells |-> ChainPages(P, cells[i].key)]
           claims == [i \in DOMAIN refs |-> chains[i] \cup kids[i].refs]
<1>1. Subtree(P, id, d + 1) = InternalTree(id, refs, kids, chains, claims)
  <2>1. Subtree(P, id, d + 1) = PageTree(P, id, below)
    BY SubtreeStep, PageParts
  <2> HIDE DEF below
  <2> QED BY <2>1, PageParts DEF PageTree
<1>2. cells \in Seq([key : Stored(Keys), child : Nat])
  BY PageParts
<1>3. /\ DOMAIN refs = DOMAIN cells /\ Len(refs) = Len(cells)
      /\ \A i \in DOMAIN cells : refs[i].min = Decode(P, cells[i].key)
  <2>1. refs = [i \in DOMAIN cells |->
                  [min |-> Decode(P, cells[i].key), page |-> cells[i].child]]
    BY DEF Children
  <2>2. DOMAIN cells = 1 .. Len(cells) /\ Len(cells) \in Nat
    BY <1>2
  <2> HIDE DEF cells, refs
  <2> QED BY <2>1, <2>2
<1>4. /\ DOMAIN kids = DOMAIN cells
      /\ \A i \in DOMAIN cells : kids[i] = Kid(P, id, i, d)
  <2>1. \A i \in DOMAIN cells : cells[i].child \in Nat
    <3> DEFINE C == [key : Stored(Keys), child : Nat]
    <3>1. \A c \in C : c.child \in Nat
      OBVIOUS
    <3> HIDE DEF cells
    <3>2. \A i \in DOMAIN cells : cells[i] \in C
      <4> HIDE DEF C
      <4>1. cells \in Seq(C)
        BY <1>2 DEF C
      <4> QED BY <4>1, SeqFacts
    <3> HIDE DEF C
    <3> QED BY <3>1, <3>2
  <2>2. \A p \in Nat : below[p] = Subtree(P, p, d)
    OBVIOUS
  <2>3. \A i \in DOMAIN cells : kids[i] = Subtree(P, cells[i].child, d)
    BY <2>1, <2>2
  <2> QED BY <2>3 DEF Kid
<1>5. /\ DOMAIN chains = DOMAIN cells
      /\ \A i \in DOMAIN cells : chains[i] = SepPages(P, id, i)
  BY DEF SepPages
<1>6. /\ DOMAIN claims = DOMAIN cells
      /\ \A i \in DOMAIN cells : claims[i] = KidPages(P, id, i, d)
  <2> HIDE DEF refs, kids, chains, cells
  <2> QED BY <1>3, <1>4, <1>5 DEF KidPages
<1> HIDE DEF refs, kids, chains, claims, below
<1>7. Claimed(id, claims) = {id} \cup UNION {KidPages(P, id, i, d) : i \in DOMAIN cells}
  <2>1. Range(claims) = {claims[i] : i \in DOMAIN cells}
    BY <1>6 DEF Range
  <2>2. Range(claims) = {KidPages(P, id, i, d) : i \in DOMAIN cells}
    BY <2>1, <1>6
  <2> QED BY <2>2 DEF Claimed
<1>8. {kids[i].rows : i \in DOMAIN kids} = {Kid(P, id, i, d).rows : i \in DOMAIN cells}
  BY <1>4
<1>9. ClaimedOnce(id, claims) <=>
        /\ \A i \in DOMAIN cells : id \notin KidPages(P, id, i, d)
        /\ \A i, j \in DOMAIN cells : i # j => KidPages(P, id, i, d) \cap KidPages(P, id, j, d) = {}
  <2> HIDE DEF cells
  <2> QED BY <1>6 DEF ClaimedOnce
<1>10. ASSUME Len(cells) >= 2
       PROVE  kids[1] = Kid(P, id, 1, d) /\ kids[Len(refs)] = Kid(P, id, Len(cells), d)
  <2>1. 1 \in DOMAIN cells /\ Len(cells) \in DOMAIN cells
    BY <1>2, <1>10
  <2> HIDE DEF cells
  <2> QED BY <1>3, <1>4, <2>1
<1> DEFINE Conds(k, c) ==
             \A i \in DOMAIN kids : /\ kids[i].ok
                                    /\ kids[i].min = refs[i].min
                                    /\ kids[i].height = kids[1].height
                                    /\ chains[i] \cap kids[i].refs = {}
<1>11. ASSUME Len(cells) >= 2
       PROVE  (\A i \in DOMAIN kids : /\ kids[i].ok
                                      /\ kids[i].min = refs[i].min
                                      /\ kids[i].height = kids[1].height
                                      /\ chains[i] \cap kids[i].refs = {})
              <=> \A i \in DOMAIN cells :
                    /\ Kid(P, id, i, d).ok
                    /\ Kid(P, id, i, d).min = Decode(P, cells[i].key)
                    /\ Kid(P, id, i, d).height = Kid(P, id, 1, d).height
                    /\ SepPages(P, id, i) \cap Kid(P, id, i, d).refs = {}
  <2> HIDE DEF cells
  <2> QED BY <1>3, <1>4, <1>5, <1>10, <1>11
<1>12. (\A i, j \in DOMAIN kids : i < j => kids[i].max < kids[j].min)
       <=> \A i, j \in DOMAIN cells : i < j => Kid(P, id, i, d).max < Kid(P, id, j, d).min
  <2> HIDE DEF cells
  <2> QED BY <1>4
<1>13. CASE InnerNode(P, id, d)
  <2>1. Len(cells) >= 2
    BY <1>13 DEF InnerNode
  <2>2. InternalTree(id, refs, kids, chains, claims) =
          Summary(UNION {kids[i].rows : i \in DOMAIN kids}, kids[1].min, kids[Len(refs)].max,
                  kids[1].height + 1, Claimed(id, claims))
    BY <1>3, <1>9, <1>11, <1>12, <1>13, <2>1 DEF InnerNode, InternalTree
  <2> QED BY <1>1, <1>7, <1>8, <1>10, <1>13, <2>1, <2>2, Zenon DEF InnerSummary
<1>14. CASE ~InnerNode(P, id, d)
  <2>1. InternalTree(id, refs, kids, chains, claims) = Invalid
    BY <1>3, <1>9, <1>11, <1>12, <1>14 DEF InnerNode, InternalTree
  <2> QED BY <1>1, <1>14, <2>1
<1> QED BY <1>13, <1>14, Zenon

\* validate_subtree refuses a page of another kind, and any page beyond the
\* height limit.
LEMMA SubtreeOther ==
    ASSUME NEW P, NEW d \in Nat, NEW id \in Nat,
           d = 0 \/ (~IsPage(P, id, "leaf") /\ ~IsPage(P, id, "internal"))
    PROVE  Subtree(P, id, d) = Invalid
<1>1. CASE d = 0
  BY <1>1, SubtreeStep
<1>2. CASE d # 0
  <2>1. d - 1 \in Nat /\ (d - 1) + 1 = d
    BY <1>2
  <2>2. ~IsPage(P, id, "leaf") /\ ~IsPage(P, id, "internal")
    BY <1>2
  <2>3. ASSUME NEW below PROVE PageTree(P, id, below) = Invalid
    BY <2>2 DEF PageTree
  <2>4. Subtree(P, id, d) = PageTree(P, id, [p \in Nat |-> Subtree(P, p, d - 1)])
    BY <2>1, SubtreeStep
  <2> QED BY <2>3, <2>4
<1> QED BY <1>1, <1>2

Cell == [key : Stored(Keys), val : Stored(Values)]
KV == [key : Keys, val : Values]

\* validate_subtree accepts nothing once no level is left.
LEMMA NothingAtZero ==
    ASSUME NEW P, NEW id \in Nat
    PROVE  ~Subtree(P, id, 0).ok
<1>1. Subtree(P, id, 0) = Invalid
  BY SubtreeStep, 0 \in Nat
<1> QED BY <1>1 DEF Invalid

\* Subtrees, one level up.
LEMMA SubtreeUp ==
    ASSUME NEW P, PageMap(P), NEW d \in Nat, NEW id \in Nat, Subtree(P, id, d + 1).ok
    PROVE  \/ LeafNode(P, id) /\ Subtree(P, id, d + 1) = LeafSummary(P, id)
           \/ InnerNode(P, id, d) /\ Subtree(P, id, d + 1) = InnerSummary(P, id, d)
<1>1. CASE IsPage(P, id, "leaf")
  BY <1>1, SubtreeLeaf DEF Invalid
<1>2. CASE IsPage(P, id, "internal")
  BY <1>2, SubtreeInner DEF Invalid
<1>3. CASE ~IsPage(P, id, "leaf") /\ ~IsPage(P, id, "internal")
  <2>1. Subtree(P, id, d + 1) = Invalid
    BY <1>3, SubtreeOther, d + 1 \in Nat
  <2> QED BY <2>1 DEF Invalid
<1> QED BY <1>1, <1>2, <1>3

\* The parts of a valid node that are used most.
LEMMA LeafParts ==
    ASSUME NEW P, PageMap(P), NEW id, LeafNode(P, id)
    PROVE  LET cells == P[id].cells
           IN  /\ id \in DOMAIN P /\ cells \in Seq(Cell)
               /\ Len(cells) \in Nat /\ DOMAIN cells = 1 .. Len(cells) /\ Len(cells) >= 1
               /\ \A i \in DOMAIN cells : /\ i \in Nat /\ cells[i] \in Cell
                                          /\ cells[i].key \in Stored(Keys)
                                          /\ cells[i].val \in Stored(Values)
<1> DEFINE cells == P[id].cells
<1>1. IsPage(P, id, "leaf") /\ cells # << >>
  BY DEF LeafNode
<1>2. cells \in Seq(Cell)
  BY <1>1, PageParts DEF Cell
<1>3. \A c \in Cell : c.key \in Stored(Keys) /\ c.val \in Stored(Values)
  BY DEF Cell
<1> HIDE DEF cells
<1>4. /\ Len(cells) \in Nat /\ DOMAIN cells = 1 .. Len(cells)
      /\ \A i \in DOMAIN cells : i \in Nat /\ cells[i] \in Cell
  BY <1>2, SeqFacts
<1>5. Len(cells) >= 1
  BY <1>1, <1>2, <1>4
<1> QED BY <1>1, <1>2, <1>3, <1>4, <1>5 DEF cells, IsPage

\* The cells of an internal page that validate_subtree accepts: two of them
\* at least.
LEMMA InnerParts ==
    ASSUME NEW P, PageMap(P), NEW id, NEW d, InnerNode(P, id, d)
    PROVE  LET cells == P[id].cells
           IN  /\ id \in DOMAIN P
               /\ Len(cells) \in Nat /\ DOMAIN cells = 1 .. Len(cells) /\ Len(cells) >= 2
               /\ \A i \in DOMAIN cells : /\ i \in Nat /\ cells[i].child \in Nat
                                          /\ cells[i].key \in Stored(Keys)
<1> DEFINE cells == P[id].cells
           C == [key : Stored(Keys), child : Nat]
<1>1. IsPage(P, id, "internal") /\ Len(cells) >= 2
  BY DEF InnerNode
<1>2. cells \in Seq(C)
  BY <1>1, PageParts
<1>3. \A c \in C : c.key \in Stored(Keys) /\ c.child \in Nat
  OBVIOUS
<1> HIDE DEF cells, C
<1>4. /\ Len(cells) \in Nat /\ DOMAIN cells = 1 .. Len(cells)
      /\ \A i \in DOMAIN cells : i \in Nat /\ cells[i] \in C
  BY <1>2, SeqFacts
<1> QED BY <1>1, <1>2, <1>3, <1>4 DEF cells, IsPage

\* The bounds of a subtree are its least and its greatest key.
Bounded(t) ==
    t.rows \subseteq KV =>
        /\ \E r \in t.rows : r.key = t.min
        /\ \E r \in t.rows : r.key = t.max
        /\ \A r \in t.rows : t.min <= r.key /\ r.key <= t.max
Shaped(P, t, id, d) ==
    /\ id \in t.refs /\ t.refs \subseteq DOMAIN P
    /\ t.height \in 1 .. d /\ t.min # Torn /\ Bounded(t)

\* A leaf that validate_subtree accepts is a subtree of height 1, with its
\* least and greatest key.
LEMMA LeafShaped ==
    ASSUME NEW P, PageMap(P), NEW d \in Nat, NEW id, LeafNode(P, id)
    PROVE  Shaped(P, LeafSummary(P, id), id, d + 1)
<1> DEFINE cells == P[id].cells
           t == LeafSummary(P, id)
<1>1. /\ id \in DOMAIN P
      /\ Len(cells) \in Nat /\ DOMAIN cells = 1 .. Len(cells) /\ Len(cells) >= 1
      /\ \A i \in DOMAIN cells : cells[i].key \in Stored(Keys) /\ cells[i].val \in Stored(Values)
  BY LeafParts
<1>2. \A i \in DOMAIN cells : EntryReads(P, cells[i])
  BY DEF LeafNode
<1>3. /\ t.refs = {id} \cup UNION {EntryPages(P, cells[i]) : i \in DOMAIN cells}
      /\ t.rows = {Row(P, cells[i]) : i \in DOMAIN cells}
      /\ t.height = 1 /\ t.min = Row(P, cells[1]).key /\ t.max = Row(P, cells[Len(cells)]).key
  BY DEF LeafSummary, Summary
<1>4. \A i, j \in DOMAIN cells : i < j => Row(P, cells[i]).key < Row(P, cells[j]).key
  BY DEF LeafNode
<1> HIDE DEF cells, t
<1>5. \A i \in DOMAIN cells : EntryPages(P, cells[i]) \subseteq DOMAIN P
  BY <1>1, <1>2, ChainPagesExist DEF EntryReads, EntryPages
<1>6. id \in t.refs /\ t.refs \subseteq DOMAIN P /\ t.height \in 1 .. d + 1
  BY <1>1, <1>3, <1>5
<1>7. ASSUME t.rows \subseteq KV
      PROVE  /\ \E r \in t.rows : r.key = t.min
             /\ \E r \in t.rows : r.key = t.max
             /\ \A r \in t.rows : t.min <= r.key /\ r.key <= t.max
  <2>1. 1 \in DOMAIN cells /\ Len(cells) \in DOMAIN cells
    BY <1>1
  <2>2. \A i \in DOMAIN cells : Row(P, cells[i]) \in t.rows /\ Row(P, cells[i]).key \in Nat
    <3>1. \A i \in DOMAIN cells : Row(P, cells[i]) \in t.rows
      BY <1>3, Zenon
    <3>2. \A r \in t.rows : r.key \in Nat
      BY <1>7, KeysAreOrdered DEF KV
    <3> QED BY <3>1, <3>2, Zenon
  <2>3. \A i \in DOMAIN cells : /\ Row(P, cells[1]).key <= Row(P, cells[i]).key
                                /\ Row(P, cells[i]).key <= Row(P, cells[Len(cells)]).key
    <3> TAKE i \in DOMAIN cells
    <3> DEFINE k(j) == Row(P, cells[j]).key
    <3>1. k(1) \in Nat /\ k(i) \in Nat /\ k(Len(cells)) \in Nat
      BY <2>1, <2>2
    <3>2. 1 < i => k(1) < k(i)
      BY <1>4, <2>1
    <3>3. i < Len(cells) => k(i) < k(Len(cells))
      BY <1>4, <2>1
    <3>4. i \in 1 .. Len(cells) /\ Len(cells) \in Nat
      BY <1>1
    <3> HIDE DEF k
    <3>5. k(1) <= k(i) /\ k(i) <= k(Len(cells))
      BY <3>1, <3>2, <3>3, <3>4
    <3> QED BY <3>5 DEF k
  <2> QED BY <1>3, <2>1, <2>2, <2>3
<1>8. Bounded(t)
  BY <1>7 DEF Bounded
<1>9. t.min # Torn
  BY <1>1, <1>2, <1>3 DEF EntryReads, Row
<1> QED BY <1>6, <1>8, <1>9 DEF Shaped, t

\* An internal page over subtrees with their bounds is a subtree with its
\* bounds.
LEMMA InnerShaped ==
    ASSUME NEW P, PageMap(P), NEW d \in Nat, NEW id, InnerNode(P, id, d),
           \A i \in DOMAIN P[id].cells : Shaped(P, Kid(P, id, i, d), P[id].cells[i].child, d)
    PROVE  Shaped(P, InnerSummary(P, id, d), id, d + 1)
<1> DEFINE cells == P[id].cells
           t == InnerSummary(P, id, d)
           K(i) == Kid(P, id, i, d)
<1>1. /\ id \in DOMAIN P
      /\ Len(cells) \in Nat /\ DOMAIN cells = 1 .. Len(cells) /\ Len(cells) >= 2
      /\ \A i \in DOMAIN cells : cells[i].child \in Nat /\ cells[i].key \in Stored(Keys)
  BY InnerParts
<1>2. /\ t.refs = {id} \cup UNION {KidPages(P, id, i, d) : i \in DOMAIN cells}
      /\ t.rows = UNION {K(i).rows : i \in DOMAIN cells}
      /\ t.height = K(1).height + 1 /\ t.min = K(1).min /\ t.max = K(Len(cells)).max
  BY DEF InnerSummary, Summary
<1>3. \A i, j \in DOMAIN cells : i < j => K(i).max < K(j).min
  BY DEF InnerNode
<1>4. \A i \in DOMAIN cells : K(i).min = Decode(P, cells[i].key)
  BY DEF InnerNode
<1>5. \A i \in DOMAIN cells : /\ K(i).refs \subseteq DOMAIN P /\ K(i).height \in 1 .. d
                              /\ K(i).min # Torn /\ Bounded(K(i))
  BY DEF Shaped
<1>6. \A i \in DOMAIN cells : SepPages(P, id, i) \subseteq DOMAIN P
  <2> SUFFICES ASSUME NEW i \in DOMAIN cells
               PROVE  ChainPages(P, cells[i].key) \subseteq DOMAIN P
    BY DEF SepPages
  <2>1. cells[i].key \in Stored(Keys) /\ Decode(P, cells[i].key) # Torn
    BY <1>1, <1>4, <1>5
  <2> HIDE DEF cells, K
  <2> QED BY <2>1, ChainPagesExist
<1> HIDE DEF t
<1>7. t.refs \subseteq DOMAIN P
  BY <1>1, <1>2, <1>5, <1>6 DEF KidPages
<1>8. 1 \in DOMAIN cells /\ Len(cells) \in DOMAIN cells
  BY <1>1
<1>9. id \in t.refs /\ t.height \in 1 .. d + 1 /\ t.min # Torn
  BY <1>2, <1>5, <1>8
<1>10. ASSUME t.rows \subseteq KV
       PROVE  /\ \E r \in t.rows : r.key = t.min
              /\ \E r \in t.rows : r.key = t.max
              /\ \A r \in t.rows : t.min <= r.key /\ r.key <= t.max
  <2> HIDE DEF cells, K
  <2>1. \A i \in DOMAIN cells : K(i).rows \subseteq KV /\ K(i).rows \subseteq t.rows
    BY <1>2, <1>10
  <2>2. \A i \in DOMAIN cells : /\ \E r \in K(i).rows : r.key = K(i).min
                                /\ \E r \in K(i).rows : r.key = K(i).max
                                /\ \A r \in K(i).rows : K(i).min <= r.key /\ r.key <= K(i).max
    BY <1>5, <2>1 DEF Bounded
  <2>3. \A r \in KV : r.key \in Nat
    BY KeysAreOrdered DEF KV
  <2>4. \A i \in DOMAIN cells : K(i).min \in Nat /\ K(i).max \in Nat /\ K(i).min <= K(i).max
    <3> TAKE i \in DOMAIN cells
    <3>1. PICK q \in K(i).rows : q.key = K(i).min
      BY <2>2
    <3>2. PICK r \in K(i).rows : r.key = K(i).max
      BY <2>2
    <3> QED BY <2>1, <2>2, <2>3, <3>1, <3>2
  <2>5. \A i \in DOMAIN cells : K(1).min <= K(i).min /\ K(i).max <= K(Len(cells)).max
    <3> TAKE i \in DOMAIN cells
    <3>1. i \in 1 .. Len(cells) /\ Len(cells) \in Nat
      BY <1>1
    <3>2. 1 < i => K(1).max < K(i).min
      BY <1>3, <1>8
    <3>3. i < Len(cells) => K(i).max < K(Len(cells)).min
      BY <1>3, <1>8
    <3>4. /\ K(1).min \in Nat /\ K(1).max \in Nat /\ K(1).min <= K(1).max
          /\ K(i).min \in Nat /\ K(i).max \in Nat /\ K(i).min <= K(i).max
          /\ K(Len(cells)).min \in Nat /\ K(Len(cells)).max \in Nat
          /\ K(Len(cells)).min <= K(Len(cells)).max
      BY <1>8, <2>4
    <3> QED BY <3>1, <3>2, <3>3, <3>4
  <2>6. \A r \in t.rows : t.min <= r.key /\ r.key <= t.max
    <3> TAKE r \in t.rows
    <3>1. PICK i \in DOMAIN cells : r \in K(i).rows
      BY <1>2
    <3>2. K(i).min <= r.key /\ r.key <= K(i).max /\ r.key \in Nat
      BY <1>10, <2>2, <2>3, <3>1
    <3>3. K(1).min \in Nat /\ K(Len(cells)).max \in Nat /\ K(i).min \in Nat /\ K(i).max \in Nat
      BY <1>8, <2>4
    <3>4. K(1).min <= r.key /\ r.key <= K(Len(cells)).max
      BY <2>5, <3>2, <3>3
    <3> QED BY <1>2, <3>4
  <2>7. (\E r \in t.rows : r.key = t.min) /\ \E r \in t.rows : r.key = t.max
    BY <1>2, <1>8, <2>1, <2>2
  <2> QED BY <2>6, <2>7
<1>11. Bounded(t)
  BY <1>10 DEF Bounded
<1> QED BY <1>7, <1>9, <1>11 DEF Shaped, t

\* Every valid subtree has its shape.
LEMMA TreeShaped ==
    ASSUME NEW P, PageMap(P), NEW d \in Nat, NEW id \in Nat, Subtree(P, id, d).ok
    PROVE  Shaped(P, Subtree(P, id, d), id, d)
<1> DEFINE S == {e \in Nat : \A p \in Nat :
                   Subtree(P, p, e).ok => Shaped(P, Subtree(P, p, e), p, e)}
<1>1. 0 \in S
  <2>1. \A p \in Nat : ~Subtree(P, p, 0).ok
    BY NothingAtZero
  <2> QED BY <2>1
<1>2. ASSUME NEW e \in S PROVE e + 1 \in S
  <2> SUFFICES ASSUME NEW p \in Nat, Subtree(P, p, e + 1).ok
               PROVE  Shaped(P, Subtree(P, p, e + 1), p, e + 1)
    OBVIOUS
  <2>1. CASE LeafNode(P, p) /\ Subtree(P, p, e + 1) = LeafSummary(P, p)
    BY <2>1, LeafShaped
  <2>2. CASE InnerNode(P, p, e) /\ Subtree(P, p, e + 1) = InnerSummary(P, p, e)
    <3>1. \A i \in DOMAIN P[p].cells : Kid(P, p, i, e).ok /\ P[p].cells[i].child \in Nat
      BY <2>2, InnerParts DEF InnerNode
    <3>2. \A i \in DOMAIN P[p].cells : Shaped(P, Kid(P, p, i, e), P[p].cells[i].child, e)
      BY <3>1 DEF Kid
    <3> QED BY <2>2, <3>2, InnerShaped
  <2> QED BY <2>1, <2>2, SubtreeUp
<1> HIDE DEF S
<1>3. S = Nat
  BY <1>1, <1>2, NatSetInduction DEF S
<1> QED BY <1>3 DEF S

\* A valid node stays one where its pages are kept.
LEMMA LeafSame ==
    ASSUME NEW P, PageMap(P), NEW Q, NEW id, LeafNode(P, id),
           Keeps(P, Q, LeafSummary(P, id).refs)
    PROVE  LeafNode(Q, id) /\ LeafSummary(Q, id) = LeafSummary(P, id)
<1> DEFINE cells == P[id].cells
<1>1. /\ id \in DOMAIN P
      /\ \A i \in DOMAIN cells : cells[i].key \in Stored(Keys) /\ cells[i].val \in Stored(Values)
  BY LeafParts
<1>2. \A i \in DOMAIN cells : EntryReads(P, cells[i])
  BY DEF LeafNode
<1>3. LeafSummary(P, id).refs = {id} \cup UNION {EntryPages(P, cells[i]) : i \in DOMAIN cells}
  BY DEF LeafSummary, Summary
<1>4. Q[id] = P[id] /\ (\A k : IsPage(P, id, k) => IsPage(Q, id, k))
  <2>1. id \in LeafSummary(P, id).refs
    BY <1>3
  <2> HIDE DEF cells
  <2> QED BY <1>1, <2>1 DEF Keeps, IsPage
<1> HIDE DEF cells
<1>5. \A i \in DOMAIN cells :
         /\ Row(Q, cells[i]) = Row(P, cells[i])
         /\ EntryPages(Q, cells[i]) = EntryPages(P, cells[i])
         /\ EntryReads(Q, cells[i])
  <2> TAKE i \in DOMAIN cells
  <2> DEFINE k == cells[i].key
             v == cells[i].val
  <2>1. k \in Stored(Keys) /\ v \in Stored(Values)
    BY <1>1
  <2>2. Decode(P, k) # Torn /\ Decode(P, v) # Torn
    BY <1>2 DEF EntryReads
  <2>3. Keeps(P, Q, ChainPages(P, k)) /\ Keeps(P, Q, ChainPages(P, v))
    <3>1. EntryPages(P, cells[i]) \subseteq LeafSummary(P, id).refs
      BY <1>3
    <3> QED BY <3>1 DEF EntryPages, Keeps
  <2> HIDE DEF k, v
  <2>4. /\ Decode(Q, k) = Decode(P, k) /\ ChainPages(Q, k) = ChainPages(P, k)
        /\ Decode(Q, v) = Decode(P, v) /\ ChainPages(Q, v) = ChainPages(P, v)
    BY <2>1, <2>2, <2>3, DecodeSame
  <2> QED BY <1>2, <2>4 DEF k, v, Row, EntryPages, EntryReads
<1>6. {Row(Q, cells[i]) : i \in DOMAIN cells} = {Row(P, cells[i]) : i \in DOMAIN cells}
  BY <1>5
<1>7. {EntryPages(Q, cells[i]) : i \in DOMAIN cells} = {EntryPages(P, cells[i]) : i \in DOMAIN cells}
  BY <1>5
<1>8. 1 \in DOMAIN cells /\ Len(cells) \in DOMAIN cells
  BY LeafParts DEF cells
<1>9. LeafNode(Q, id)
  <2>1. Q[id].cells = cells
    BY <1>4 DEF cells
  <2>2. IsPage(Q, id, "leaf") /\ cells # << >>
    BY <1>4 DEF LeafNode, cells
  <2>3. /\ \A i \in DOMAIN cells : EntryReads(Q, cells[i]) /\ id \notin EntryPages(Q, cells[i])
        /\ \A i, j \in DOMAIN cells : i < j => Row(Q, cells[i]).key < Row(Q, cells[j]).key
        /\ \A i, j \in DOMAIN cells :
              i # j => EntryPages(Q, cells[i]) \cap EntryPages(Q, cells[j]) = {}
    BY <1>5 DEF LeafNode, cells
  <2> QED BY <2>1, <2>2, <2>3 DEF LeafNode
<1>10. LeafSummary(Q, id) = LeafSummary(P, id)
  <2>1. /\ Row(Q, cells[1]).key = Row(P, cells[1]).key
        /\ Row(Q, cells[Len(cells)]).key = Row(P, cells[Len(cells)]).key
    BY <1>5, <1>8
  <2>2. Q[id].cells = cells /\ P[id].cells = cells
    BY <1>4 DEF cells
  <2> HIDE DEF cells
  <2> QED BY <1>6, <1>7, <2>1, <2>2 DEF LeafSummary
<1> QED BY <1>9, <1>10

\* An internal page that validate_subtree accepts stays one where its pages
\* are kept and its children answer the same.
LEMMA InnerSame ==
    ASSUME NEW P, PageMap(P), NEW Q, NEW d \in Nat, NEW e \in Nat, NEW id, InnerNode(P, id, d),
           Keeps(P, Q, InnerSummary(P, id, d).refs),
           \A i \in DOMAIN P[id].cells : Subtree(Q, P[id].cells[i].child, e) = Kid(P, id, i, d)
    PROVE  InnerNode(Q, id, e) /\ InnerSummary(Q, id, e) = InnerSummary(P, id, d)
<1> DEFINE cells == P[id].cells
           K(i) == Kid(P, id, i, d)
<1>1. /\ id \in DOMAIN P
      /\ Len(cells) \in Nat /\ DOMAIN cells = 1 .. Len(cells) /\ Len(cells) >= 2
      /\ \A i \in DOMAIN cells : cells[i].key \in Stored(Keys) /\ cells[i].child \in Nat
  BY InnerParts
<1>2. InnerSummary(P, id, d).refs = {id} \cup UNION {KidPages(P, id, i, d) : i \in DOMAIN cells}
  BY DEF InnerSummary, Summary
<1>3. Q[id] = P[id] /\ (\A k : IsPage(P, id, k) => IsPage(Q, id, k))
  <2>1. id \in InnerSummary(P, id, d).refs
    BY <1>2
  <2> HIDE DEF cells
  <2> QED BY <1>1, <2>1 DEF Keeps, IsPage
<1>4. \A i \in DOMAIN cells : Kid(Q, id, i, e) = K(i)
  BY <1>3 DEF Kid
<1>5. \A i \in DOMAIN cells : K(i).ok /\ K(i).min = Decode(P, cells[i].key) /\ K(i).min # Torn
  <2> TAKE i \in DOMAIN cells
  <2>1. K(i).ok /\ K(i).min = Decode(P, cells[i].key)
    BY DEF InnerNode
  <2>2. Shaped(P, K(i), cells[i].child, d)
    BY <1>1, <2>1, TreeShaped DEF Kid
  <2> QED BY <2>1, <2>2 DEF Shaped
<1>6. \A i \in DOMAIN cells :
         /\ Decode(Q, cells[i].key) = Decode(P, cells[i].key)
         /\ SepPages(Q, id, i) = SepPages(P, id, i)
  <2> TAKE i \in DOMAIN cells
  <2> DEFINE k == cells[i].key
  <2>1. k \in Stored(Keys) /\ Decode(P, k) # Torn
    BY <1>1, <1>5
  <2>2. Keeps(P, Q, ChainPages(P, k))
    <3>1. KidPages(P, id, i, d) \subseteq InnerSummary(P, id, d).refs
      BY <1>2
    <3> QED BY <3>1 DEF KidPages, SepPages, Keeps
  <2>3. Decode(Q, k) = Decode(P, k) /\ ChainPages(Q, k) = ChainPages(P, k)
    <3> HIDE DEF k, cells, K
    <3> QED BY <2>1, <2>2, DecodeSame
  <2> QED BY <1>3, <2>3 DEF SepPages
<1>7. \A i \in DOMAIN cells : KidPages(Q, id, i, e) = KidPages(P, id, i, d)
  BY <1>4, <1>6 DEF KidPages
<1>8. 1 \in DOMAIN cells /\ Len(cells) \in DOMAIN cells
  BY <1>1
<1>9. Q[id].cells = cells
  BY <1>3
<1>10. InnerNode(Q, id, e)
  <2>1. IsPage(Q, id, "internal") /\ Len(cells) >= 2
    BY <1>3 DEF InnerNode
  <2>2. /\ \A i \in DOMAIN cells :
             /\ K(i).ok
             /\ K(i).min = Decode(P, cells[i].key)
             /\ K(i).height = K(1).height
             /\ SepPages(P, id, i) \cap K(i).refs = {}
             /\ id \notin KidPages(P, id, i, d)
        /\ \A i, j \in DOMAIN cells : i < j => K(i).max < K(j).min
        /\ \A i, j \in DOMAIN cells : i # j => KidPages(P, id, i, d) \cap KidPages(P, id, j, d) = {}
    BY DEF InnerNode
  <2> HIDE DEF cells, K
  <2> QED BY <1>4, <1>6, <1>7, <1>8, <1>9, <2>1, <2>2 DEF InnerNode
<1>11. InnerSummary(Q, id, e) = InnerSummary(P, id, d)
  <2>1. UNION {Kid(Q, id, i, e).rows : i \in DOMAIN cells} = UNION {K(i).rows : i \in DOMAIN cells}
    BY <1>4
  <2>2. UNION {KidPages(Q, id, i, e) : i \in DOMAIN cells} = UNION {KidPages(P, id, i, d) : i \in DOMAIN cells}
    BY <1>7
  <2>3. Kid(Q, id, 1, e) = Kid(P, id, 1, d) /\ Kid(Q, id, Len(cells), e) = Kid(P, id, Len(cells), d)
    BY <1>4, <1>8
  <2>4. P[id].cells = cells
    OBVIOUS
  <2> HIDE DEF cells
  <2> QED BY <1>9, <2>1, <2>2, <2>3, <2>4 DEF InnerSummary, K
<1> QED BY <1>10, <1>11

\* An internal page is validated by the level above its children.
LEMMA InnerUp ==
    ASSUME NEW P, PageMap(P), NEW d \in Nat, NEW id, InnerNode(P, id, d)
    PROVE  id \in Nat /\ Subtree(P, id, d + 1) = InnerSummary(P, id, d)
BY SubtreeInner, PageParts DEF InnerNode

\* A leaf is validated whatever number of levels is left.
LEMMA LeafUp ==
    ASSUME NEW P, PageMap(P), NEW d \in Nat, NEW id, LeafNode(P, id)
    PROVE  id \in Nat /\ Subtree(P, id, d + 1) = LeafSummary(P, id)
BY SubtreeLeaf, PageParts DEF LeafNode

\* A valid subtree is the same in every map that keeps its pages, whatever
\* the height limit it is read with.
LEMMA SubtreeSame ==
    ASSUME NEW P, PageMap(P), NEW Q, PageMap(Q), NEW d \in Nat, NEW id \in Nat,
           Subtree(P, id, d).ok, Keeps(P, Q, Subtree(P, id, d).refs),
           NEW e \in Nat, Subtree(P, id, d).height <= e
    PROVE  Subtree(Q, id, e) = Subtree(P, id, d)
<1> DEFINE Claim(n) ==
             \A p \in Nat, f \in Nat :
                Subtree(P, p, n).ok /\ Keeps(P, Q, Subtree(P, p, n).refs) /\ Subtree(P, p, n).height <= f
                => Subtree(Q, p, f) = Subtree(P, p, n)
           S == {n \in Nat : Claim(n)}
<1>1. 0 \in S
  <2>1. \A p \in Nat : ~Subtree(P, p, 0).ok
    BY NothingAtZero
  <2> QED BY <2>1
<1>2. ASSUME NEW n \in S PROVE n + 1 \in S
  <2> SUFFICES ASSUME NEW p \in Nat, NEW f \in Nat,
                      Subtree(P, p, n + 1).ok, Keeps(P, Q, Subtree(P, p, n + 1).refs),
                      Subtree(P, p, n + 1).height <= f
               PROVE  Subtree(Q, p, f) = Subtree(P, p, n + 1)
    OBVIOUS
  <2>1. n \in Nat /\ Claim(n)
    OBVIOUS
  <2> HIDE DEF S, Claim
  <2>2. CASE LeafNode(P, p) /\ Subtree(P, p, n + 1) = LeafSummary(P, p)
    <3>1. LeafNode(Q, p) /\ LeafSummary(Q, p) = LeafSummary(P, p)
      BY <2>2, LeafSame
    <3>2. LeafSummary(P, p).height = 1
      BY DEF LeafSummary, Summary
    <3>3. f - 1 \in Nat /\ (f - 1) + 1 = f
      BY <2>2, <3>2
    <3> QED BY <2>1, <2>2, <3>1, <3>3, LeafUp
  <2>3. CASE InnerNode(P, p, n) /\ Subtree(P, p, n + 1) = InnerSummary(P, p, n)
    <3> DEFINE cells == P[p].cells
    <3>1. InnerSummary(P, p, n).height = Kid(P, p, 1, n).height + 1
      BY DEF InnerSummary, Summary
    <3>2. /\ Len(cells) \in Nat /\ DOMAIN cells = 1 .. Len(cells) /\ Len(cells) >= 2
          /\ \A i \in DOMAIN cells : cells[i].child \in Nat
      BY <2>3, InnerParts
    <3>3. \A i \in DOMAIN cells : /\ Kid(P, p, i, n).ok
                                  /\ Kid(P, p, i, n).height = Kid(P, p, 1, n).height
                                  /\ Kid(P, p, i, n).height \in 1 .. n
      <4>1. \A i \in DOMAIN cells : /\ Kid(P, p, i, n).ok
                                    /\ Kid(P, p, i, n).height = Kid(P, p, 1, n).height
        BY <2>3 DEF InnerNode
      <4>2. \A i \in DOMAIN cells : Shaped(P, Kid(P, p, i, n), cells[i].child, n)
        BY <2>1, <3>2, <4>1, TreeShaped DEF Kid
      <4> QED BY <4>1, <4>2 DEF Shaped
    <3>4. f - 1 \in Nat /\ (f - 1) + 1 = f /\ \A i \in DOMAIN cells : Kid(P, p, i, n).height <= f - 1
      <4>1. 1 \in DOMAIN cells
        BY <3>2
      <4>2. Kid(P, p, 1, n).height \in 1 .. n /\ Kid(P, p, 1, n).height + 1 <= f
        BY <2>3, <3>1, <3>3, <4>1
      <4> QED BY <3>3, <4>2
    <3>5. \A i \in DOMAIN cells : Keeps(P, Q, Kid(P, p, i, n).refs)
      <4>1. Keeps(P, Q, UNION {KidPages(P, p, i, n) : i \in DOMAIN cells})
        BY <2>3 DEF InnerSummary, Summary, Keeps
      <4> TAKE i \in DOMAIN cells
      <4>2. Kid(P, p, i, n).refs \subseteq UNION {KidPages(P, p, j, n) : j \in DOMAIN cells}
        BY DEF KidPages
      <4> HIDE DEF cells
      <4> QED BY <4>1, <4>2 DEF Keeps
    <3>6. \A i \in DOMAIN cells : Subtree(Q, cells[i].child, f - 1) = Kid(P, p, i, n)
      BY <2>1, <3>2, <3>3, <3>4, <3>5 DEF Claim, Kid
    <3>7. InnerNode(Q, p, f - 1) /\ InnerSummary(Q, p, f - 1) = InnerSummary(P, p, n)
      <4>1. Keeps(P, Q, InnerSummary(P, p, n).refs)
        BY <2>3
      <4> QED BY <2>1, <2>3, <3>4, <3>6, <4>1, InnerSame
    <3> QED BY <2>1, <2>3, <3>4, <3>7, InnerUp
  <2> QED BY <2>1, <2>2, <2>3, SubtreeUp
<1> HIDE DEF S, Claim
<1>3. S = Nat
  BY <1>1, <1>2, NatSetInduction DEF S
<1>4. Claim(d)
  BY <1>3 DEF S
<1> QED BY <1>4 DEF Claim

(* Items: an entry of a leaf has height 0, a child reference the height of *)
(* its subtree.  A strand is a sequence of items with ascending keys that  *)
(* share no page.                                                          *)
Ref == [min : Keys, page : Nat]
Kind(h) == IF h = 0 THEN Cell ELSE Ref
ItemOk(P, h, x) ==
    IF h = 0 THEN EntryReads(P, x) /\ Row(P, x) \in KV
    ELSE /\ Subtree(P, x.page, h).ok
         /\ Subtree(P, x.page, h).height = h
         /\ Subtree(P, x.page, h).min = x.min
         /\ Subtree(P, x.page, h).rows \subseteq KV
ItemRows(P, h, x) == IF h = 0 THEN {Row(P, x)} ELSE Subtree(P, x.page, h).rows
ItemPages(P, h, x) == IF h = 0 THEN EntryPages(P, x) ELSE Subtree(P, x.page, h).refs

Before(R, S) == \A r \in R, s \in S : r.key < s.key
Strand(P, h, xs) ==
    /\ xs \in Seq(Kind(h))
    /\ \A i \in DOMAIN xs : ItemOk(P, h, xs[i])
    /\ \A i, j \in DOMAIN xs :
          i < j => /\ Before(ItemRows(P, h, xs[i]), ItemRows(P, h, xs[j]))
                   /\ ItemPages(P, h, xs[i]) \cap ItemPages(P, h, xs[j]) = {}
RowsOf(P, h, xs) == UNION {ItemRows(P, h, xs[i]) : i \in DOMAIN xs}
PagesOf(P, h, xs) == UNION {ItemPages(P, h, xs[i]) : i \in DOMAIN xs}

\* Keys are ordered as the numbers that stand for them.
LEMMA KeysAreNumbers ==
    \A r \in KV : r.key \in Keys /\ r.key \in Nat /\ r.val \in Values
BY KeysAreOrdered DEF KV

\* What an item is.
LEMMA ItemFacts ==
    ASSUME NEW P, PageMap(P), NEW h \in Nat, NEW x \in Kind(h), ItemOk(P, h, x)
    PROVE  /\ ItemRows(P, h, x) \subseteq KV /\ ItemRows(P, h, x) # {}
           /\ ItemPages(P, h, x) \subseteq DOMAIN P
           /\ h # 0 => /\ x.page \in ItemPages(P, h, x)
                       /\ \E r \in ItemRows(P, h, x) : r.key = x.min
                       /\ \A r \in ItemRows(P, h, x) : x.min <= r.key
<1>1. CASE h = 0
  <2>1. x.key \in Stored(Keys) /\ x.val \in Stored(Values)
    BY <1>1 DEF Kind, Cell
  <2>2. Decode(P, x.key) # Torn /\ Decode(P, x.val) # Torn
    BY <1>1 DEF ItemOk, EntryReads
  <2>3. ChainPages(P, x.key) \subseteq DOMAIN P /\ ChainPages(P, x.val) \subseteq DOMAIN P
    BY <2>1, <2>2, ChainPagesExist
  <2> QED BY <1>1, <2>3 DEF ItemOk, ItemRows, ItemPages, EntryPages
<1>2. CASE h # 0
  <2> DEFINE t == Subtree(P, x.page, h)
  <2>1. x.page \in Nat
    BY <1>2 DEF Kind, Ref
  <2>2. t.ok /\ t.min = x.min /\ t.rows \subseteq KV
    BY <1>2 DEF ItemOk
  <2>3. Shaped(P, t, x.page, h)
    BY <2>1, <2>2, TreeShaped
  <2>4. ItemRows(P, h, x) = t.rows /\ ItemPages(P, h, x) = t.refs
    BY <1>2 DEF ItemRows, ItemPages
  <2> HIDE DEF t
  <2> QED BY <2>2, <2>3, <2>4 DEF Shaped, Bounded
<1> QED BY <1>1, <1>2

\* An item, an entry or a child, is the same where its pages are kept.
LEMMA ItemSame ==
    ASSUME NEW P, PageMap(P), NEW Q, PageMap(Q), NEW h \in Nat, NEW x \in Kind(h), ItemOk(P, h, x),
           Keeps(P, Q, ItemPages(P, h, x))
    PROVE  /\ ItemOk(Q, h, x) /\ ItemRows(Q, h, x) = ItemRows(P, h, x)
           /\ ItemPages(Q, h, x) = ItemPages(P, h, x)
<1>1. CASE h = 0
  <2>1. x.key \in Stored(Keys) /\ x.val \in Stored(Values)
    BY <1>1 DEF Kind, Cell
  <2>2. Decode(P, x.key) # Torn /\ Decode(P, x.val) # Torn
    BY <1>1 DEF ItemOk, EntryReads
  <2>3. Keeps(P, Q, ChainPages(P, x.key)) /\ Keeps(P, Q, ChainPages(P, x.val))
    BY <1>1 DEF ItemPages, EntryPages, Keeps
  <2>4. /\ Decode(Q, x.key) = Decode(P, x.key) /\ ChainPages(Q, x.key) = ChainPages(P, x.key)
        /\ Decode(Q, x.val) = Decode(P, x.val) /\ ChainPages(Q, x.val) = ChainPages(P, x.val)
    BY <2>1, <2>2, <2>3, DecodeSame
  <2> QED BY <1>1, <2>4 DEF ItemOk, ItemRows, ItemPages, EntryPages, EntryReads, Row
<1>2. CASE h # 0
  <2>1. x.page \in Nat
    BY <1>2 DEF Kind, Ref
  <2>2. Subtree(P, x.page, h).ok /\ Subtree(P, x.page, h).height = h
    BY <1>2 DEF ItemOk
  <2>3. Keeps(P, Q, Subtree(P, x.page, h).refs)
    BY <1>2 DEF ItemPages
  <2>4. Subtree(Q, x.page, h) = Subtree(P, x.page, h)
    BY <2>1, <2>2, <2>3, SubtreeSame
  <2> QED BY <1>2, <2>4 DEF ItemOk, ItemRows, ItemPages
<1> QED BY <1>1, <1>2

\* A strand is the same where its pages are kept.
LEMMA StrandSame ==
    ASSUME NEW P, PageMap(P), NEW Q, PageMap(Q), NEW h \in Nat, NEW xs, Strand(P, h, xs),
           Keeps(P, Q, PagesOf(P, h, xs))
    PROVE  /\ Strand(Q, h, xs) /\ RowsOf(Q, h, xs) = RowsOf(P, h, xs)
           /\ PagesOf(Q, h, xs) = PagesOf(P, h, xs)
<1>1. \A i \in DOMAIN xs : xs[i] \in Kind(h) /\ ItemOk(P, h, xs[i])
  BY SeqFacts DEF Strand
<1>2. \A i \in DOMAIN xs : Keeps(P, Q, ItemPages(P, h, xs[i]))
  BY DEF PagesOf, Keeps
<1>3. \A i \in DOMAIN xs : /\ ItemOk(Q, h, xs[i]) /\ ItemRows(Q, h, xs[i]) = ItemRows(P, h, xs[i])
                           /\ ItemPages(Q, h, xs[i]) = ItemPages(P, h, xs[i])
  BY <1>1, <1>2, ItemSame
<1> QED BY <1>3 DEF Strand, RowsOf, PagesOf

\* The items of a strand, and that it holds a row if it has an item.
LEMMA StrandParts ==
    ASSUME NEW P, PageMap(P), NEW h \in Nat, NEW xs, Strand(P, h, xs)
    PROVE  /\ RowsOf(P, h, xs) \subseteq KV /\ PagesOf(P, h, xs) \subseteq DOMAIN P
           /\ xs \in Seq(Kind(h)) /\ Len(xs) \in Nat /\ DOMAIN xs = 1 .. Len(xs)
           /\ \A i \in DOMAIN xs : xs[i] \in Kind(h) /\ ItemOk(P, h, xs[i])
           /\ xs # << >> => RowsOf(P, h, xs) # {}
<1>1. /\ xs \in Seq(Kind(h)) /\ Len(xs) \in Nat /\ DOMAIN xs = 1 .. Len(xs)
      /\ \A i \in DOMAIN xs : xs[i] \in Kind(h) /\ ItemOk(P, h, xs[i])
  BY SeqFacts DEF Strand
<1>2. \A i \in DOMAIN xs : /\ ItemRows(P, h, xs[i]) \subseteq KV /\ ItemRows(P, h, xs[i]) # {}
                           /\ ItemPages(P, h, xs[i]) \subseteq DOMAIN P
  BY <1>1, ItemFacts
<1>3. xs # << >> => 1 \in DOMAIN xs
  BY <1>1
<1>4. RowsOf(P, h, xs) \subseteq KV /\ PagesOf(P, h, xs) \subseteq DOMAIN P
  BY <1>2 DEF RowsOf, PagesOf
<1>5. xs # << >> => RowsOf(P, h, xs) # {}
  BY <1>2, <1>3 DEF RowsOf
<1> QED BY <1>1, <1>4, <1>5

\* The strand of one item, and the one of none.
LEMMA StrandOne ==
    ASSUME NEW P, NEW h, NEW x
    PROVE  /\ RowsOf(P, h, <<x>>) = ItemRows(P, h, x) /\ PagesOf(P, h, <<x>>) = ItemPages(P, h, x)
           /\ x \in Kind(h) /\ ItemOk(P, h, x) => Strand(P, h, <<x>>)
           /\ Strand(P, h, <<x>>) => x \in Kind(h) /\ ItemOk(P, h, x)
           /\ Strand(P, h, << >>) /\ RowsOf(P, h, << >>) = {} /\ PagesOf(P, h, << >>) = {}
<1>1. DOMAIN <<x>> = {1} /\ <<x>>[1] = x
  OBVIOUS
<1>2. RowsOf(P, h, <<x>>) = ItemRows(P, h, x) /\ PagesOf(P, h, <<x>>) = ItemPages(P, h, x)
  <2>1. {ItemRows(P, h, <<x>>[i]) : i \in {1}} = {ItemRows(P, h, x)}
    BY <1>1
  <2>2. {ItemPages(P, h, <<x>>[i]) : i \in {1}} = {ItemPages(P, h, x)}
    BY <1>1
  <2> QED BY <1>1, <2>1, <2>2 DEF RowsOf, PagesOf
<1>3. x \in Kind(h) /\ ItemOk(P, h, x) => Strand(P, h, <<x>>)
  BY <1>1 DEF Strand
<1>4. Strand(P, h, <<x>>) => x \in Kind(h) /\ ItemOk(P, h, x)
  BY <1>1, SeqFacts DEF Strand
<1>5. Strand(P, h, << >>) /\ RowsOf(P, h, << >>) = {} /\ PagesOf(P, h, << >>) = {}
  BY DEF Strand, RowsOf, PagesOf
<1> QED BY <1>2, <1>3, <1>4, <1>5

\* The elements of two sequences after each other.
LEMMA ConcatFacts ==
    ASSUME NEW S, NEW xs \in Seq(S), NEW ys \in Seq(S)
    PROVE  /\ xs \o ys \in Seq(S)
           /\ DOMAIN (xs \o ys) = 1 .. Len(xs) + Len(ys) /\ Len(xs \o ys) = Len(xs) + Len(ys)
           /\ \A i \in DOMAIN xs : i \in DOMAIN (xs \o ys) /\ (xs \o ys)[i] = xs[i]
           /\ \A j \in DOMAIN ys : Len(xs) + j \in DOMAIN (xs \o ys) /\ (xs \o ys)[Len(xs) + j] = ys[j]
           /\ \A k \in DOMAIN (xs \o ys) : k \in DOMAIN xs \/ \E j \in DOMAIN ys : k = Len(xs) + j
<1>1. /\ Len(xs) \in Nat /\ DOMAIN xs = 1 .. Len(xs)
      /\ Len(ys) \in Nat /\ DOMAIN ys = 1 .. Len(ys)
  BY SeqFacts
<1>2. xs \o ys \in Seq(S) /\ Len(xs \o ys) = Len(xs) + Len(ys)
  OBVIOUS
<1>3. DOMAIN (xs \o ys) = 1 .. Len(xs) + Len(ys)
  BY <1>2, SeqFacts
<1>4. \A i \in DOMAIN xs : i \in DOMAIN (xs \o ys) /\ (xs \o ys)[i] = xs[i]
  BY <1>1, <1>3
<1>5. \A j \in DOMAIN ys : Len(xs) + j \in DOMAIN (xs \o ys) /\ (xs \o ys)[Len(xs) + j] = ys[j]
  BY <1>1, <1>3
<1>6. \A k \in DOMAIN (xs \o ys) : k \in DOMAIN xs \/ \E j \in DOMAIN ys : k = Len(xs) + j
  <2> TAKE k \in DOMAIN (xs \o ys)
  <2>1. k \in 1 .. Len(xs) + Len(ys)
    BY <1>3
  <2>2. CASE k \in 1 .. Len(xs)
    BY <1>1, <2>2
  <2>3. CASE k \notin 1 .. Len(xs)
    <3>1. k - Len(xs) \in DOMAIN ys /\ k = Len(xs) + (k - Len(xs))
      BY <1>1, <2>1, <2>3
    <3> QED BY <3>1
  <2> QED BY <2>2, <2>3
<1> QED BY <1>2, <1>3, <1>4, <1>5, <1>6

\* Two sequences of items after each other hold what the two hold.
LEMMA JoinedSets ==
    ASSUME NEW P, NEW h, NEW S, NEW xs \in Seq(S), NEW ys \in Seq(S)
    PROVE  /\ RowsOf(P, h, xs \o ys) = RowsOf(P, h, xs) \cup RowsOf(P, h, ys)
           /\ PagesOf(P, h, xs \o ys) = PagesOf(P, h, xs) \cup PagesOf(P, h, ys)
<1> DEFINE zs == xs \o ys
<1>1. /\ \A i \in DOMAIN xs : i \in DOMAIN zs /\ zs[i] = xs[i]
      /\ \A j \in DOMAIN ys : Len(xs) + j \in DOMAIN zs /\ zs[Len(xs) + j] = ys[j]
      /\ \A k \in DOMAIN zs : k \in DOMAIN xs \/ \E j \in DOMAIN ys : k = Len(xs) + j
  BY ConcatFacts
<1> HIDE DEF zs
<1>2. RowsOf(P, h, zs) = RowsOf(P, h, xs) \cup RowsOf(P, h, ys)
  BY <1>1 DEF RowsOf
<1>3. PagesOf(P, h, zs) = PagesOf(P, h, xs) \cup PagesOf(P, h, ys)
  BY <1>1 DEF PagesOf
<1> QED BY <1>2, <1>3 DEF zs

\* Two strands join when the keys ascend and no page is shared, and only then.
LEMMA StrandJoin ==
    ASSUME NEW P, NEW h, NEW xs, NEW ys, Strand(P, h, xs), Strand(P, h, ys),
           Before(RowsOf(P, h, xs), RowsOf(P, h, ys)), PagesOf(P, h, xs) \cap PagesOf(P, h, ys) = {}
    PROVE  Strand(P, h, xs \o ys)
<1> DEFINE zs == xs \o ys
<1>0. /\ xs \in Seq(Kind(h)) /\ Len(xs) \in Nat /\ DOMAIN xs = 1 .. Len(xs)
      /\ ys \in Seq(Kind(h)) /\ Len(ys) \in Nat /\ DOMAIN ys = 1 .. Len(ys)
  BY SeqFacts DEF Strand
<1>1. /\ zs \in Seq(Kind(h))
      /\ \A i \in DOMAIN xs : zs[i] = xs[i]
      /\ \A j \in DOMAIN ys : zs[Len(xs) + j] = ys[j]
      /\ \A k \in DOMAIN zs : k \in DOMAIN xs \/ \E j \in DOMAIN ys : k = Len(xs) + j
  <2> DEFINE S == Kind(h)
  <2>1. xs \in Seq(S) /\ ys \in Seq(S)
    BY <1>0
  <2> HIDE DEF S
  <2>2. /\ xs \o ys \in Seq(S)
        /\ \A i \in DOMAIN xs : (xs \o ys)[i] = xs[i]
        /\ \A j \in DOMAIN ys : (xs \o ys)[Len(xs) + j] = ys[j]
        /\ \A k \in DOMAIN (xs \o ys) : k \in DOMAIN xs \/ \E j \in DOMAIN ys : k = Len(xs) + j
    BY <2>1, ConcatFacts
  <2> QED BY <2>2 DEF S
<1> HIDE DEF zs
<1>2. \A k \in DOMAIN zs : ItemOk(P, h, zs[k])
  BY <1>1 DEF Strand
<1>3. ASSUME NEW i \in DOMAIN zs, NEW j \in DOMAIN zs, i < j
      PROVE  /\ Before(ItemRows(P, h, zs[i]), ItemRows(P, h, zs[j]))
             /\ ItemPages(P, h, zs[i]) \cap ItemPages(P, h, zs[j]) = {}
  <2>1. CASE i \in DOMAIN xs /\ j \in DOMAIN xs
    BY <1>1, <1>3, <2>1 DEF Strand
  <2>2. CASE i \in DOMAIN xs /\ \E b \in DOMAIN ys : j = Len(xs) + b
    <3>1. PICK b \in DOMAIN ys : j = Len(xs) + b
      BY <2>2
    <3>2. zs[i] = xs[i] /\ zs[j] = ys[b]
      BY <1>1, <2>2, <3>1
    <3>3. /\ ItemRows(P, h, xs[i]) \subseteq RowsOf(P, h, xs)
          /\ ItemRows(P, h, ys[b]) \subseteq RowsOf(P, h, ys)
          /\ ItemPages(P, h, xs[i]) \subseteq PagesOf(P, h, xs)
          /\ ItemPages(P, h, ys[b]) \subseteq PagesOf(P, h, ys)
      BY <2>2 DEF RowsOf, PagesOf
    <3>4. Before(ItemRows(P, h, xs[i]), ItemRows(P, h, ys[b]))
      BY <3>3 DEF Before
    <3> QED BY <3>2, <3>3, <3>4
  <2>3. CASE (\E a \in DOMAIN ys : i = Len(xs) + a) /\ j \in DOMAIN xs
    BY <1>0, <1>3, <2>3
  <2>4. CASE (\E a \in DOMAIN ys : i = Len(xs) + a) /\ \E b \in DOMAIN ys : j = Len(xs) + b
    <3>1. PICK a \in DOMAIN ys : i = Len(xs) + a
      BY <2>4
    <3>2. PICK b \in DOMAIN ys : j = Len(xs) + b
      BY <2>4
    <3>3. a < b
      BY <1>0, <1>3, <3>1, <3>2
    <3> QED BY <1>1, <3>1, <3>2, <3>3 DEF Strand
  <2> QED BY <1>1, <2>1, <2>2, <2>3, <2>4
<1>4. Strand(P, h, zs)
  BY <1>1, <1>2, <1>3 DEF Strand
<1> QED BY <1>4 DEF zs

\* Two parts of a strand are strands apart from each other.
LEMMA StrandCut ==
    ASSUME NEW P, NEW h, NEW xs \in Seq(Kind(h)), NEW ys \in Seq(Kind(h)), Strand(P, h, xs \o ys)
    PROVE  /\ Strand(P, h, xs) /\ Strand(P, h, ys)
           /\ Before(RowsOf(P, h, xs), RowsOf(P, h, ys))
           /\ PagesOf(P, h, xs) \cap PagesOf(P, h, ys) = {}
<1> DEFINE zs == xs \o ys
<1>0. /\ Len(xs) \in Nat /\ DOMAIN xs = 1 .. Len(xs)
      /\ Len(ys) \in Nat /\ DOMAIN ys = 1 .. Len(ys)
  BY SeqFacts
<1>1. /\ \A i \in DOMAIN xs : i \in DOMAIN zs /\ zs[i] = xs[i]
      /\ \A j \in DOMAIN ys : Len(xs) + j \in DOMAIN zs /\ zs[Len(xs) + j] = ys[j]
  BY ConcatFacts
<1>2. Strand(P, h, zs)
  OBVIOUS
<1> HIDE DEF zs
<1>3. \A i \in DOMAIN xs, j \in DOMAIN ys :
         /\ Before(ItemRows(P, h, xs[i]), ItemRows(P, h, ys[j]))
         /\ ItemPages(P, h, xs[i]) \cap ItemPages(P, h, ys[j]) = {}
  <2> TAKE i \in DOMAIN xs, j \in DOMAIN ys
  <2>1. i < Len(xs) + j
    BY <1>0
  <2> QED BY <1>1, <1>2, <2>1 DEF Strand
<1>4. Before(RowsOf(P, h, xs), RowsOf(P, h, ys)) /\ PagesOf(P, h, xs) \cap PagesOf(P, h, ys) = {}
  BY <1>3 DEF RowsOf, PagesOf, Before
<1>5. Strand(P, h, xs)
  BY <1>1, <1>2 DEF Strand
<1>6. Strand(P, h, ys)
  <2>1. \A i, j \in DOMAIN ys : i < j => Len(xs) + i < Len(xs) + j
    BY <1>0
  <2> QED BY <1>1, <1>2, <2>1 DEF Strand
<1> QED BY <1>4, <1>5, <1>6

\* A leaf page over a strand of entries is an item of height 1.
LEMMA LeafBuild ==
    ASSUME NEW P, PageMap(P), NEW id, IsPage(P, id, "leaf"), P[id].cells # << >>,
           Strand(P, 0, P[id].cells), id \notin PagesOf(P, 0, P[id].cells)
    PROVE  LET x == [min |-> Row(P, P[id].cells[1]).key, page |-> id]
           IN  /\ x \in Ref /\ ItemOk(P, 1, x)
               /\ ItemRows(P, 1, x) = RowsOf(P, 0, P[id].cells)
               /\ ItemPages(P, 1, x) = {id} \cup PagesOf(P, 0, P[id].cells)
<1> DEFINE cells == P[id].cells
           x == [min |-> Row(P, cells[1]).key, page |-> id]
           t == Subtree(P, id, 1)
<1>0. id \in Nat
  BY PageParts
<1>1. /\ Len(cells) \in Nat /\ DOMAIN cells = 1 .. Len(cells)
      /\ \A i \in DOMAIN cells : ItemOk(P, 0, cells[i])
      /\ RowsOf(P, 0, cells) \subseteq KV
  BY StrandParts
<1>2. \A i \in DOMAIN cells : /\ ItemRows(P, 0, cells[i]) = {Row(P, cells[i])}
                              /\ ItemPages(P, 0, cells[i]) = EntryPages(P, cells[i])
                              /\ EntryReads(P, cells[i]) /\ Row(P, cells[i]) \in KV
  BY <1>1 DEF ItemRows, ItemPages, ItemOk
<1>3. {ItemRows(P, 0, cells[i]) : i \in DOMAIN cells} = {{Row(P, cells[i])} : i \in DOMAIN cells}
  BY <1>2
<1>4. RowsOf(P, 0, cells) = {Row(P, cells[i]) : i \in DOMAIN cells}
  BY <1>3 DEF RowsOf
<1>5. PagesOf(P, 0, cells) = UNION {EntryPages(P, cells[i]) : i \in DOMAIN cells}
  BY <1>2 DEF PagesOf
<1>6. LeafNode(P, id)
  <2>1. \A i \in DOMAIN cells : id \notin EntryPages(P, cells[i])
    BY <1>5
  <2>2. \A i, j \in DOMAIN cells : i < j => /\ Row(P, cells[i]).key < Row(P, cells[j]).key
                                          /\ EntryPages(P, cells[i]) \cap EntryPages(P, cells[j]) = {}
    <3> SUFFICES ASSUME NEW i \in DOMAIN cells, NEW j \in DOMAIN cells, i < j
                 PROVE  /\ Row(P, cells[i]).key < Row(P, cells[j]).key
                        /\ EntryPages(P, cells[i]) \cap EntryPages(P, cells[j]) = {}
      OBVIOUS
    <3>1. /\ Before({Row(P, cells[i])}, {Row(P, cells[j])})
          /\ EntryPages(P, cells[i]) \cap EntryPages(P, cells[j]) = {}
      BY <1>2 DEF Strand
    <3> HIDE DEF cells
    <3> QED BY <3>1 DEF Before
  <2>3. \A i, j \in DOMAIN cells : i # j => EntryPages(P, cells[i]) \cap EntryPages(P, cells[j]) = {}
    <3> TAKE i, j \in DOMAIN cells
    <3>1. i < j \/ i = j \/ j < i
      BY <1>1
    <3> HIDE DEF cells
    <3> QED BY <2>2, <3>1
  <2> QED BY <1>2, <2>1, <2>2, <2>3 DEF LeafNode
<1>7. t = LeafSummary(P, id)
  BY <1>6, LeafUp, 0 \in Nat
<1>8. /\ t.ok /\ t.height = 1 /\ t.min = x.min /\ t.rows = RowsOf(P, 0, cells)
      /\ t.refs = {id} \cup PagesOf(P, 0, cells)
  <2>1. t = Summary(RowsOf(P, 0, cells), x.min, Row(P, cells[Len(cells)]).key, 1,
                    {id} \cup PagesOf(P, 0, cells))
    BY <1>4, <1>5, <1>7 DEF LeafSummary
  <2> HIDE DEF t, x
  <2> QED BY <2>1 DEF Summary
<1>9. x \in Ref
  <2>1. 1 \in DOMAIN cells
    BY <1>1, StrandParts
  <2>2. Row(P, cells[1]) \in KV
    BY <1>2, <2>1
  <2> HIDE DEF cells
  <2> QED BY <1>0, <2>2 DEF Ref, KV
<1> HIDE DEF cells, t
<1>10. ItemOk(P, 1, x) /\ ItemRows(P, 1, x) = t.rows /\ ItemPages(P, 1, x) = t.refs
  BY <1>1, <1>8 DEF ItemOk, ItemRows, ItemPages, t
<1> QED BY <1>8, <1>9, <1>10 DEF cells

\* And an item of height 1 is one.
LEMMA LeafOpen ==
    ASSUME NEW P, PageMap(P), NEW x \in Ref, ItemOk(P, 1, x)
    PROVE  /\ IsPage(P, x.page, "leaf") /\ P[x.page].cells # << >>
           /\ Strand(P, 0, P[x.page].cells)
           /\ RowsOf(P, 0, P[x.page].cells) = ItemRows(P, 1, x)
           /\ PagesOf(P, 0, P[x.page].cells) = ItemPages(P, 1, x) \ {x.page}
<1> DEFINE id == x.page
           cells == P[id].cells
           t == Subtree(P, id, 1)
<1>0. id \in Nat
  BY DEF Ref
<1>1. t.ok /\ t.height = 1 /\ t.rows \subseteq KV /\ ItemRows(P, 1, x) = t.rows /\ ItemPages(P, 1, x) = t.refs
  BY DEF ItemOk, ItemRows, ItemPages
<1>2. LeafNode(P, id) /\ t = LeafSummary(P, id)
  <2>1. CASE InnerNode(P, id, 0)
    <3>1. 1 \in DOMAIN P[id].cells /\ P[id].cells[1].child \in Nat
      BY <2>1, InnerParts
    <3>2. Subtree(P, P[id].cells[1].child, 0).ok
      BY <2>1, <3>1 DEF InnerNode, Kid
    <3> QED BY <3>1, <3>2, NothingAtZero
  <2>2. Subtree(P, id, 0 + 1).ok
    BY <1>1
  <2>3. \/ LeafNode(P, id) /\ Subtree(P, id, 0 + 1) = LeafSummary(P, id)
        \/ InnerNode(P, id, 0) /\ Subtree(P, id, 0 + 1) = InnerSummary(P, id, 0)
    BY <1>0, <2>2, SubtreeUp, 0 \in Nat
  <2> QED BY <2>1, <2>3
<1>3. /\ Len(cells) \in Nat /\ DOMAIN cells = 1 .. Len(cells) /\ cells \in Seq(Cell)
      /\ cells # << >>
  BY <1>2, LeafParts DEF LeafNode
<1>4. /\ t.rows = {Row(P, cells[i]) : i \in DOMAIN cells}
      /\ t.refs = {id} \cup UNION {EntryPages(P, cells[i]) : i \in DOMAIN cells}
  BY <1>2 DEF LeafSummary, Summary
<1>5. /\ \A i \in DOMAIN cells : EntryReads(P, cells[i]) /\ id \notin EntryPages(P, cells[i])
      /\ \A i, j \in DOMAIN cells : i < j => Row(P, cells[i]).key < Row(P, cells[j]).key
      /\ \A i, j \in DOMAIN cells :
            i # j => EntryPages(P, cells[i]) \cap EntryPages(P, cells[j]) = {}
  BY <1>2 DEF LeafNode
<1>6. IsPage(P, id, "leaf")
  BY <1>2 DEF LeafNode
<1> HIDE DEF cells, t
<1>7. \A i \in DOMAIN cells : /\ ItemRows(P, 0, cells[i]) = {Row(P, cells[i])}
                              /\ ItemPages(P, 0, cells[i]) = EntryPages(P, cells[i])
                              /\ ItemOk(P, 0, cells[i])
  BY <1>1, <1>4, <1>5 DEF ItemRows, ItemPages, ItemOk
<1>8. {ItemRows(P, 0, cells[i]) : i \in DOMAIN cells} = {{Row(P, cells[i])} : i \in DOMAIN cells}
  BY <1>7
<1>9. RowsOf(P, 0, cells) = t.rows
  BY <1>4, <1>8 DEF RowsOf
<1>10. PagesOf(P, 0, cells) = UNION {EntryPages(P, cells[i]) : i \in DOMAIN cells}
  BY <1>7 DEF PagesOf
<1>11. PagesOf(P, 0, cells) = t.refs \ {id}
  BY <1>4, <1>5, <1>10
<1>12. Strand(P, 0, cells)
  <2>1. cells \in Seq(Kind(0))
    BY <1>3 DEF Kind
  <2>2. \A i, j \in DOMAIN cells : i < j => i # j
    BY <1>3
  <2>3. \A i, j \in DOMAIN cells :
          i < j => Before(ItemRows(P, 0, cells[i]), ItemRows(P, 0, cells[j]))
    BY <1>5, <1>7 DEF Before
  <2> QED BY <1>5, <1>7, <2>1, <2>2, <2>3 DEF Strand
<1> QED BY <1>1, <1>3, <1>6, <1>9, <1>11, <1>12 DEF cells

\* An internal page over a strand of references, and chains of its own for
\* the separators, is an item one level higher.
LEMMA InnerBuild ==
    ASSUME NEW P, PageMap(P), NEW h \in Nat \ {0}, NEW id, IsPage(P, id, "internal"),
           NEW refs, Strand(P, h, refs), Len(refs) >= 2, Len(P[id].cells) = Len(refs),
           \A i \in DOMAIN refs : /\ P[id].cells[i].child = refs[i].page
                                  /\ Decode(P, P[id].cells[i].key) = refs[i].min
                                  /\ SepPages(P, id, i) \cap PagesOf(P, h, refs) = {}
                                  /\ id \notin SepPages(P, id, i),
           \A i, j \in DOMAIN refs : i # j => SepPages(P, id, i) \cap SepPages(P, id, j) = {},
           id \notin PagesOf(P, h, refs)
    PROVE  LET x == [min |-> refs[1].min, page |-> id]
           IN  /\ x \in Ref /\ ItemOk(P, h + 1, x)
               /\ ItemRows(P, h + 1, x) = RowsOf(P, h, refs)
               /\ ItemPages(P, h + 1, x) =
                    {id} \cup PagesOf(P, h, refs) \cup UNION {SepPages(P, id, i) : i \in DOMAIN refs}
<1> DEFINE cells == P[id].cells
           x == [min |-> refs[1].min, page |-> id]
           t == Subtree(P, id, h + 1)
           K(i) == Kid(P, id, i, h)
<1>0. id \in Nat /\ cells \in Seq([key : Stored(Keys), child : Nat])
  BY PageParts
<1>1. /\ Len(refs) \in Nat /\ DOMAIN refs = 1 .. Len(refs)
      /\ \A i \in DOMAIN refs : refs[i] \in Kind(h) /\ ItemOk(P, h, refs[i])
      /\ RowsOf(P, h, refs) \subseteq KV
  BY StrandParts
<1>2. DOMAIN cells = DOMAIN refs
  <2> HIDE DEF cells
  <2>1. Len(cells) = Len(refs)
    BY DEF cells
  <2> QED BY <1>0, <1>1, <2>1, SeqFacts
<1>3. \A i \in DOMAIN refs :
         /\ K(i).ok /\ K(i).height = h /\ K(i).min = refs[i].min /\ K(i).rows \subseteq KV
         /\ ItemRows(P, h, refs[i]) = K(i).rows /\ ItemPages(P, h, refs[i]) = K(i).refs
         /\ refs[i].page \in Nat /\ refs[i].min \in Keys
  BY <1>1 DEF ItemOk, ItemRows, ItemPages, Kid, Kind, Ref
<1>4. RowsOf(P, h, refs) = UNION {K(i).rows : i \in DOMAIN refs}
  BY <1>3 DEF RowsOf
<1>5. PagesOf(P, h, refs) = UNION {K(i).refs : i \in DOMAIN refs}
  BY <1>3 DEF PagesOf
<1>6. \A i \in DOMAIN refs : Bounded(K(i)) /\ K(i).rows # {}
  <2> TAKE i \in DOMAIN refs
  <2>1. Shaped(P, K(i), refs[i].page, h)
    BY <1>3, TreeShaped DEF Kid
  <2> QED BY <1>3, <2>1 DEF Shaped, Bounded
<1>7. \A i, j \in DOMAIN refs : i < j => K(i).max < K(j).min /\ K(i).refs \cap K(j).refs = {}
  <2> SUFFICES ASSUME NEW i \in DOMAIN refs, NEW j \in DOMAIN refs, i < j
               PROVE  K(i).max < K(j).min /\ K(i).refs \cap K(j).refs = {}
    OBVIOUS
  <2>1. Before(K(i).rows, K(j).rows) /\ K(i).refs \cap K(j).refs = {}
    BY <1>3 DEF Strand
  <2>2. (\E r \in K(i).rows : r.key = K(i).max) /\ (\E r \in K(j).rows : r.key = K(j).min)
    BY <1>3, <1>6 DEF Bounded
  <2> QED BY <2>1, <2>2 DEF Before
<1>8. \A i, j \in DOMAIN refs : i # j => K(i).refs \cap K(j).refs = {}
  <2> TAKE i, j \in DOMAIN refs
  <2>1. i < j \/ i = j \/ j < i
    BY <1>1
  <2> HIDE DEF K
  <2> QED BY <1>7, <2>1
<1>9. \A i \in DOMAIN refs : /\ SepPages(P, id, i) \cap K(i).refs = {}
                             /\ id \notin KidPages(P, id, i, h)
  BY <1>5 DEF KidPages
<1>10. \A i, j \in DOMAIN refs : i # j => KidPages(P, id, i, h) \cap KidPages(P, id, j, h) = {}
  <2> SUFFICES ASSUME NEW i \in DOMAIN refs, NEW j \in DOMAIN refs, i # j
               PROVE  KidPages(P, id, i, h) \cap KidPages(P, id, j, h) = {}
    OBVIOUS
  <2>1. /\ K(i).refs \cap K(j).refs = {} /\ SepPages(P, id, i) \cap SepPages(P, id, j) = {}
        /\ SepPages(P, id, i) \cap K(j).refs = {} /\ SepPages(P, id, j) \cap K(i).refs = {}
    BY <1>5, <1>8
  <2> QED BY <2>1 DEF KidPages
<1>11. 1 \in DOMAIN refs
  BY <1>1
<1>12. InnerNode(P, id, h)
  <2>1. IsPage(P, id, "internal") /\ Len(cells) >= 2
    OBVIOUS
  <2>2. \A i \in DOMAIN cells :
              /\ K(i).ok
              /\ K(i).min = Decode(P, cells[i].key)
              /\ K(i).height = K(1).height
              /\ SepPages(P, id, i) \cap K(i).refs = {}
              /\ id \notin KidPages(P, id, i, h)
    BY <1>2, <1>3, <1>9, <1>11
  <2>3. /\ \A i, j \in DOMAIN cells : i < j => K(i).max < K(j).min
        /\ \A i, j \in DOMAIN cells : i # j => KidPages(P, id, i, h) \cap KidPages(P, id, j, h) = {}
    BY <1>2, <1>7, <1>10
  <2> QED BY <2>1, <2>2, <2>3, Zenon DEF InnerNode
<1>13. t = InnerSummary(P, id, h)
  BY <1>12, InnerUp
<1>14. UNION {KidPages(P, id, i, h) : i \in DOMAIN refs} =
          PagesOf(P, h, refs) \cup UNION {SepPages(P, id, i) : i \in DOMAIN refs}
  BY <1>5 DEF KidPages
<1>15. /\ t.ok /\ t.height = K(1).height + 1 /\ t.min = K(1).min
       /\ t.rows = UNION {K(i).rows : i \in DOMAIN cells}
       /\ t.refs = {id} \cup UNION {KidPages(P, id, i, h) : i \in DOMAIN cells}
  BY <1>13 DEF InnerSummary, Summary
<1>16. x \in Ref
  BY <1>0, <1>3, <1>11 DEF Ref
<1> HIDE DEF cells, t, K
<1>17. /\ t.ok /\ t.height = h + 1 /\ t.min = refs[1].min /\ t.rows = RowsOf(P, h, refs)
       /\ t.refs = {id} \cup PagesOf(P, h, refs) \cup UNION {SepPages(P, id, i) : i \in DOMAIN refs}
  BY <1>2, <1>3, <1>4, <1>11, <1>14, <1>15
<1>18. ItemOk(P, h + 1, x) /\ ItemRows(P, h + 1, x) = t.rows /\ ItemPages(P, h + 1, x) = t.refs
  BY <1>1, <1>17 DEF ItemOk, ItemRows, ItemPages, t
<1> QED BY <1>16, <1>17, <1>18

\* An item of a greater height is an internal page over a strand of
\* references.
LEMMA InnerOpen ==
    ASSUME NEW P, PageMap(P), NEW h \in Nat \ {0}, NEW x \in Ref, ItemOk(P, h + 1, x)
    PROVE  LET refs == Children(P, x.page)
           IN  /\ IsPage(P, x.page, "internal") /\ Len(refs) >= 2
               /\ Strand(P, h, refs)
               /\ RowsOf(P, h, refs) = ItemRows(P, h + 1, x)
               /\ PagesOf(P, h, refs) \subseteq ItemPages(P, h + 1, x) \ {x.page}
<1> DEFINE id == x.page
           cells == P[id].cells
           refs == Children(P, id)
           t == Subtree(P, id, h + 1)
           K(i) == Kid(P, id, i, h)
<1>0. id \in Nat
  BY DEF Ref
<1>1. /\ t.ok /\ t.height = h + 1 /\ t.rows \subseteq KV
      /\ ItemRows(P, h + 1, x) = t.rows /\ ItemPages(P, h + 1, x) = t.refs
  BY DEF ItemOk, ItemRows, ItemPages
<1>2. InnerNode(P, id, h) /\ t = InnerSummary(P, id, h)
  <2>1. ASSUME t = LeafSummary(P, id) PROVE FALSE
    BY <1>1, <2>1 DEF LeafSummary, Summary
  <2>2. \/ LeafNode(P, id) /\ t = LeafSummary(P, id)
        \/ InnerNode(P, id, h) /\ t = InnerSummary(P, id, h)
    BY <1>0, <1>1, SubtreeUp
  <2> QED BY <2>1, <2>2
<1>3. /\ Len(cells) \in Nat /\ DOMAIN cells = 1 .. Len(cells) /\ Len(cells) >= 2
      /\ \A i \in DOMAIN cells : cells[i].child \in Nat
  BY <1>2, InnerParts
<1>4. /\ t.rows = UNION {K(i).rows : i \in DOMAIN cells}
      /\ t.refs = {id} \cup UNION {KidPages(P, id, i, h) : i \in DOMAIN cells}
      /\ t.height = K(1).height + 1
  BY <1>2 DEF InnerSummary, Summary
<1>5. /\ IsPage(P, id, "internal")
      /\ \A i \in DOMAIN cells :
              /\ K(i).ok
              /\ K(i).min = Decode(P, cells[i].key)
              /\ K(i).height = K(1).height
              /\ id \notin KidPages(P, id, i, h)
      /\ \A i, j \in DOMAIN cells : i < j => K(i).max < K(j).min
      /\ \A i, j \in DOMAIN cells : i # j => KidPages(P, id, i, h) \cap KidPages(P, id, j, h) = {}
  BY <1>2 DEF InnerNode
<1>6. /\ refs = [i \in DOMAIN cells |->
                   [min |-> Decode(P, cells[i].key), page |-> cells[i].child]]
  BY DEF Children
<1> HIDE DEF cells, refs
<1>7. /\ DOMAIN refs = DOMAIN cells /\ Len(refs) = Len(cells)
      /\ \A i \in DOMAIN cells : refs[i] = [min |-> Decode(P, cells[i].key), page |-> cells[i].child]
  BY <1>3, <1>6
<1>8. \A i \in DOMAIN cells : K(i) = Subtree(P, refs[i].page, h) /\ K(i).min = refs[i].min
  <2>1. \A i \in DOMAIN cells : refs[i].min = Decode(P, cells[i].key) /\ refs[i].page = cells[i].child
    BY <1>7
  <2>2. \A i \in DOMAIN cells : K(i) = Subtree(P, cells[i].child, h)
    BY DEF Kid, cells
  <2> QED BY <1>5, <2>1, <2>2
<1>9. \A i \in DOMAIN cells : K(i).rows \subseteq KV /\ K(i).height = h
  <2>1. K(1).height = h
    <3>1. 1 \in DOMAIN cells
      BY <1>3
    <3>2. Shaped(P, K(1), cells[1].child, h)
      BY <1>3, <1>5, <3>1, TreeShaped DEF Kid, cells
    <3> QED BY <1>1, <1>4, <3>2 DEF Shaped
  <2> HIDE DEF K, t
  <2>2. \A i \in DOMAIN cells : K(i).rows \subseteq t.rows
    BY <1>4
  <2> QED BY <1>1, <1>5, <2>1, <2>2
<1>10. \A i \in DOMAIN cells : Bounded(K(i))
  BY <1>3, <1>5, TreeShaped DEF Kid, Shaped, cells
<1> HIDE DEF K, t
<1>11. \A i \in DOMAIN cells : refs[i] \in Ref
  <2> TAKE i \in DOMAIN cells
  <2>1. \E r \in K(i).rows : r.key = K(i).min
    BY <1>9, <1>10 DEF Bounded
  <2>2. refs[i].min \in Keys
    BY <1>8, <1>9, <2>1 DEF KV
  <2> QED BY <1>3, <1>7, <2>2 DEF Ref
<1>12. refs \in Seq(Kind(h))
  BY <1>3, <1>6, <1>7, <1>11 DEF Kind
<1>13. \A i \in DOMAIN cells : /\ ItemOk(P, h, refs[i]) /\ ItemRows(P, h, refs[i]) = K(i).rows
                               /\ ItemPages(P, h, refs[i]) = K(i).refs
  BY <1>5, <1>8, <1>9 DEF ItemOk, ItemRows, ItemPages
<1>14. \A i, j \in DOMAIN cells : i < j => /\ Before(K(i).rows, K(j).rows)
                                         /\ K(i).refs \cap K(j).refs = {}
  <2> SUFFICES ASSUME NEW i \in DOMAIN cells, NEW j \in DOMAIN cells, i < j
               PROVE  Before(K(i).rows, K(j).rows) /\ K(i).refs \cap K(j).refs = {}
    OBVIOUS
  <2>1. K(i).refs \subseteq KidPages(P, id, i, h) /\ K(j).refs \subseteq KidPages(P, id, j, h)
    BY DEF KidPages, K
  <2>2. i # j
    BY <1>3
  <2>3. KidPages(P, id, i, h) \cap KidPages(P, id, j, h) = {}
    BY <1>5, <2>2
  <2>4. ASSUME NEW r \in K(i).rows, NEW s \in K(j).rows PROVE r.key < s.key
    <3>1. r.key <= K(i).max /\ K(j).min <= s.key /\ K(i).max < K(j).min
      BY <1>5, <1>9, <1>10 DEF Bounded
    <3>2. r.key \in Nat /\ s.key \in Nat /\ K(i).max \in Nat /\ K(j).min \in Nat
      BY <1>9, <1>10, KeysAreNumbers DEF Bounded
    <3> QED BY <3>1, <3>2
  <2> QED BY <2>1, <2>3, <2>4 DEF Before
<1>15. Strand(P, h, refs)
  BY <1>7, <1>12, <1>13, <1>14 DEF Strand
<1>16. RowsOf(P, h, refs) = t.rows
  BY <1>4, <1>7, <1>13 DEF RowsOf
<1>17. PagesOf(P, h, refs) \subseteq t.refs \ {id}
  <2>1. \A i \in DOMAIN cells : /\ K(i).refs \subseteq t.refs /\ id \notin K(i).refs
    BY <1>4, <1>5 DEF KidPages, K
  <2> QED BY <1>7, <1>13, <2>1 DEF PagesOf
<1> QED BY <1>1, <1>3, <1>5, <1>7, <1>15, <1>16, <1>17 DEF refs

(* The rewriting state: every write goes to the slot of its number, and    *)
(* the pages show the writes.                                              *)
IsState(st) ==
    st = [pages |-> st.pages, count |-> st.count, writes |-> st.writes, err |-> st.err,
          pool |-> st.pool, id |-> st.id, stored |-> st.stored, refs |-> st.refs]
Sourced(st) ==
    /\ st.pool \in Seq(Nat) /\ st.count \in Nat
    /\ \A i \in Nat \ {0} : Slot(st, i) \in Nat /\ Slot(st, i) >= FirstPage
    /\ \A i, j \in Nat \ {0} : Slot(st, i) = Slot(st, j) => i = j
GoodState(st) ==
    /\ IsState(st) /\ Sourced(st)
    /\ PageMap(st.pages) /\ st.err \in BOOLEAN
    /\ st.writes \in Seq([id : Nat, page : Page])
    /\ \A j \in DOMAIN st.writes :
          /\ st.writes[j].id = Slot(st, j)
          /\ Slot(st, j) \in DOMAIN st.pages /\ st.pages[Slot(st, j)] = st.writes[j].page

\* The slots of the writes to come.
Free(st) == {Slot(st, i) : i \in {j \in Nat : j > Len(st.writes)}}

\* What any part of a rewriting leaves alone: all but the slots it takes.
Evolves(s, t) ==
    /\ t.pool = s.pool /\ t.count = s.count /\ (s.err => t.err)
    /\ Len(s.writes) <= Len(t.writes)
    /\ DOMAIN t.pages = DOMAIN s.pages \cup (Free(s) \ Free(t))
    /\ \A id \in DOMAIN s.pages \ Free(s) : t.pages[id] = s.pages[id]

\* The writes of a rewriting are numbered from one.
LEMMA GoodLen ==
    ASSUME NEW st, GoodState(st)
    PROVE  Len(st.writes) \in Nat /\ DOMAIN st.writes = 1 .. Len(st.writes)
BY SeqFacts DEF GoodState

\* commit_tree_page only takes slots: a slot taken is not to come again.
LEMMA FreeShrinks ==
    ASSUME NEW s, NEW t, GoodState(s), GoodState(t), Evolves(s, t)
    PROVE  Free(t) \subseteq Free(s)
<1>1. \A i : Slot(t, i) = Slot(s, i)
  BY DEF Slot, Evolves
<1>2. Len(s.writes) <= Len(t.writes) /\ Len(s.writes) \in Nat /\ Len(t.writes) \in Nat
  BY GoodLen DEF Evolves
<1> QED BY <1>1, <1>2 DEF Free

\* What two parts of a rewriting leave alone, they leave alone together.
LEMMA EvolvesFurther ==
    ASSUME NEW s, NEW t, NEW u, GoodState(s), GoodState(t), GoodState(u), Evolves(s, t), Evolves(t, u)
    PROVE  Evolves(s, u)
<1>1. Free(t) \subseteq Free(s) /\ Free(u) \subseteq Free(t)
  BY FreeShrinks
<1>2. Len(s.writes) <= Len(u.writes)
  BY GoodLen DEF Evolves
<1>3. DOMAIN u.pages = DOMAIN s.pages \cup (Free(s) \ Free(u))
  BY <1>1 DEF Evolves
<1>4. \A id \in DOMAIN s.pages \ Free(s) : u.pages[id] = s.pages[id]
  BY <1>1 DEF Evolves
<1> QED BY <1>2, <1>3, <1>4 DEF Evolves

\* Pages outside the slots to come stay.
LEMMA EvolvesKeeps ==
    ASSUME NEW s, NEW t, Evolves(s, t), NEW ids, ids \cap Free(s) = {}
    PROVE  Keeps(s.pages, t.pages, ids)
BY DEF Evolves, Keeps

\* Only what the call returns differs.
Aside(s, t) ==
    /\ t.pages = s.pages /\ t.count = s.count /\ t.writes = s.writes /\ t.pool = s.pool
    /\ (s.err => t.err) /\ t.err \in BOOLEAN /\ IsState(t)

\* A part that commits no page leaves the rewriting as it was.
LEMMA AsideGood ==
    ASSUME NEW s, NEW t, GoodState(s), Aside(s, t)
    PROVE  GoodState(t) /\ Evolves(s, t) /\ Free(t) = Free(s)
<1>1. \A i : Slot(t, i) = Slot(s, i)
  BY DEF Slot, Aside
<1>2. Free(t) = Free(s)
  BY <1>1 DEF Free, Aside
<1>3. Sourced(t)
  BY <1>1 DEF Sourced, Aside, GoodState
<1>4. GoodState(t)
  BY <1>1, <1>3 DEF GoodState, Aside
<1>5. Evolves(s, t)
  BY <1>2, GoodLen DEF Evolves, Aside
<1> QED BY <1>2, <1>4, <1>5

\* Another answer of a call is no write.
LEMMA AsideOther ==
    ASSUME NEW st, GoodState(st), NEW e \in BOOLEAN, st.err => e, NEW d, NEW r, NEW t,
           t = [pages |-> st.pages, count |-> st.count, writes |-> st.writes, err |-> e,
                pool |-> st.pool, id |-> st.id, stored |-> d, refs |-> r]
    PROVE  /\ Aside(st, t) /\ t.refs = r /\ t.stored = d /\ t.err = e /\ t.pages = st.pages
           /\ GoodState(t) /\ Evolves(st, t) /\ Free(t) = Free(st)
<1>1. Aside(st, t) /\ t.refs = r /\ t.stored = d /\ t.err = e /\ t.pages = st.pages
  BY DEF Aside, IsState
<1>2. GoodState(t) /\ Evolves(st, t) /\ Free(t) = Free(st)
  BY <1>1, AsideGood
<1> QED BY <1>1, <1>2

\* A call that does nothing is no write.
LEMMA AsideSelf ==
    ASSUME NEW st, GoodState(st)
    PROVE  Aside(st, st) /\ Evolves(st, st)
<1>1. Aside(st, st)
  BY DEF Aside, GoodState
<1> QED BY <1>1, AsideGood

\* An error is no write.
LEMMA AsideFail ==
    ASSUME NEW st, GoodState(st)
    PROVE  Aside(st, Fail(st)) /\ Fail(st).err = TRUE /\ GoodState(Fail(st)) /\ Evolves(st, Fail(st))
<1> DEFINE t == Fail(st)
<1>1. IsState(st)
  BY DEF GoodState
<1>2. t = [pages |-> st.pages, count |-> st.count, writes |-> st.writes, err |-> TRUE,
           pool |-> st.pool, id |-> st.id, stored |-> st.stored, refs |-> st.refs]
  <2>1. \A e : [st EXCEPT !.err = e] =
          [pages |-> st.pages, count |-> st.count, writes |-> st.writes, err |-> e,
           pool |-> st.pool, id |-> st.id, stored |-> st.stored, refs |-> st.refs]
    BY <1>1 DEF IsState
  <2>2. t = [st EXCEPT !.err = TRUE]
    BY DEF Fail
  <2> HIDE DEF t
  <2> QED BY <2>1, <2>2
<1> HIDE DEF t
<1>3. PICK e \in BOOLEAN : e = TRUE
  OBVIOUS
<1>4. st.err => e
  BY <1>3
<1>5. t = [pages |-> st.pages, count |-> st.count, writes |-> st.writes, err |-> e,
           pool |-> st.pool, id |-> st.id, stored |-> st.stored, refs |-> st.refs]
  BY <1>2, <1>3
<1>6. Aside(st, t) /\ t.err = e /\ GoodState(t) /\ Evolves(st, t)
  BY <1>4, <1>5, AsideOther
<1> QED BY <1>3, <1>6 DEF t

\* Returning some references is no write.
LEMMA AsideReturns ==
    ASSUME NEW st, GoodState(st), NEW refs
    PROVE  LET u == Returns(st, refs)
           IN  /\ Aside(st, u) /\ u.refs = refs /\ u.stored = st.stored /\ u.err = st.err
               /\ GoodState(u) /\ Evolves(st, u) /\ Free(u) = Free(st) /\ u.pages = st.pages
<1> DEFINE u == Returns(st, refs)
<1>1. IsState(st) /\ st.err \in BOOLEAN
  BY DEF GoodState
<1>2. PICK d0, r0 : d0 = st.stored /\ r0 = refs
  OBVIOUS
<1>3. u = [pages |-> st.pages, count |-> st.count, writes |-> st.writes, err |-> st.err,
           pool |-> st.pool, id |-> st.id, stored |-> d0, refs |-> r0]
  BY <1>1, <1>2 DEF IsState, Returns
<1> HIDE DEF u
<1>4. /\ Aside(st, u) /\ u.refs = r0 /\ u.stored = d0 /\ u.err = st.err /\ u.pages = st.pages
      /\ GoodState(u) /\ Evolves(st, u) /\ Free(u) = Free(st)
  BY <1>1, <1>3, AsideOther
<1> QED BY <1>2, <1>4 DEF u

\* Returning one reference more is no write.
LEMMA AsideAdds ==
    ASSUME NEW st, GoodState(st), NEW ref
    PROVE  LET u == Adds(st, ref)
           IN  /\ Aside(st, u) /\ u.refs = Append(st.refs, ref) /\ u.err = st.err
               /\ GoodState(u) /\ Evolves(st, u) /\ Free(u) = Free(st) /\ u.pages = st.pages
<1> DEFINE u == Adds(st, ref)
<1>1. IsState(st) /\ st.err \in BOOLEAN
  BY DEF GoodState
<1>2. PICK d0, r0 : d0 = st.stored /\ r0 = Append(st.refs, ref)
  OBVIOUS
<1>3. u = [pages |-> st.pages, count |-> st.count, writes |-> st.writes, err |-> st.err,
           pool |-> st.pool, id |-> st.id, stored |-> d0, refs |-> r0]
  <2>1. \A r : [st EXCEPT !.refs = r] =
          [pages |-> st.pages, count |-> st.count, writes |-> st.writes, err |-> st.err,
           pool |-> st.pool, id |-> st.id, stored |-> st.stored, refs |-> r]
    BY <1>1 DEF IsState
  <2>2. u = [st EXCEPT !.refs = r0]
    BY <1>2 DEF Adds
  <2> HIDE DEF u
  <2> QED BY <1>2, <2>1, <2>2
<1> HIDE DEF u
<1>4. /\ Aside(st, u) /\ u.refs = r0 /\ u.stored = d0 /\ u.err = st.err /\ u.pages = st.pages
      /\ GoodState(u) /\ Evolves(st, u) /\ Free(u) = Free(st)
  BY <1>1, <1>3, AsideOther
<1> QED BY <1>2, <1>4 DEF u

\* Returning a stored datum is no write.
LEMMA AsideStores ==
    ASSUME NEW st, GoodState(st), NEW d
    PROVE  LET u == Stores(st, d)
           IN  /\ Aside(st, u) /\ u.stored = d /\ u.refs = st.refs /\ u.err = st.err
               /\ GoodState(u) /\ Evolves(st, u) /\ Free(u) = Free(st) /\ u.pages = st.pages
<1> DEFINE u == Stores(st, d)
<1>1. IsState(st) /\ st.err \in BOOLEAN
  BY DEF GoodState
<1>2. PICK d0, r0 : d0 = d /\ r0 = st.refs
  OBVIOUS
<1>3. u = [pages |-> st.pages, count |-> st.count, writes |-> st.writes, err |-> st.err,
           pool |-> st.pool, id |-> st.id, stored |-> d0, refs |-> r0]
  BY <1>1, <1>2 DEF IsState, Stores
<1> HIDE DEF u
<1>4. /\ Aside(st, u) /\ u.refs = r0 /\ u.stored = d0 /\ u.err = st.err /\ u.pages = st.pages
      /\ GoodState(u) /\ Evolves(st, u) /\ Free(u) = Free(st)
  BY <1>1, <1>3, AsideOther
<1> QED BY <1>2, <1>4 DEF u
-----------------------------------------------------------------------------
\* Some pages committed in a row.
LEMMA CommitAllGood ==
    ASSUME NEW st, GoodState(st), NEW images \in Seq(Page), images # << >>
    PROVE  LET t == CommitAll(st, images)
               n == Len(st.writes)
           IN  /\ GoodState(t) /\ Evolves(st, t) /\ Len(t.writes) = n + Len(images)
               /\ t.id = Slot(st, n + Len(images)) /\ t.stored = st.stored /\ t.refs = st.refs
               /\ t.err = st.err
               /\ \A i \in DOMAIN images : /\ Slot(st, n + i) \in Free(st) \ Free(t)
                                           /\ t.pages[Slot(st, n + i)] = images[i]
<1> DEFINE n == Len(st.writes)
           m == Len(images)
           new == [i \in 1 .. m |-> [id |-> Slot(st, n + i), page |-> images[i]]]
           t == CommitAll(st, images)
           P == Applied(st.pages, new)
<1>1. n \in Nat /\ DOMAIN st.writes = 1 .. n /\ m \in Nat \ {0} /\ DOMAIN images = 1 .. m
      /\ \A i \in 1 .. m : images[i] \in Page
  BY GoodLen, SeqFacts
<1>2. /\ \A i \in Nat \ {0} : Slot(st, i) \in Nat
      /\ \A i, j \in Nat \ {0} : Slot(st, i) = Slot(st, j) => i = j
  BY DEF GoodState, Sourced
<1>3. /\ new \in Seq([id : Nat, page : Page]) /\ Len(new) = m /\ DOMAIN new = 1 .. m
      /\ \A i \in 1 .. m : new[i].id = Slot(st, n + i) /\ new[i].page = images[i]
  <2>1. \A i \in 1 .. m : n + i \in Nat \ {0}
    BY <1>1
  <2>2. \A i \in 1 .. m : [id |-> Slot(st, n + i), page |-> images[i]] \in [id : Nat, page : Page]
    BY <1>1, <1>2, <2>1
  <2> HIDE DEF n, m
  <2>3. m \in Nat
    BY <1>1
  <2> QED BY <2>2, <2>3
<1> HIDE DEF new
<1>4. t = [pages |-> P, count |-> st.count, writes |-> st.writes \o new, err |-> st.err,
           pool |-> st.pool, id |-> new[m].id, stored |-> st.stored, refs |-> st.refs]
  <2>1. t = CommitWrites(st, new)
    BY DEF CommitAll, new
  <2>2. IsState(st)
    BY DEF GoodState
  <2> QED BY <1>3, <2>1, <2>2 DEF CommitWrites, IsState
<1>5. /\ t.pages = P /\ t.count = st.count /\ t.writes = st.writes \o new /\ t.err = st.err
      /\ t.pool = st.pool /\ t.id = new[m].id /\ t.stored = st.stored /\ t.refs = st.refs
      /\ IsState(t)
  BY <1>4 DEF IsState
<1> HIDE DEF t, n, m
<1>6. \A i : Slot(t, i) = Slot(st, i)
  BY <1>5 DEF Slot
<1>7. \A i \in 1 .. m : P[Slot(st, n + i)] = images[i] /\ Slot(st, n + i) \in DOMAIN P
  <2> TAKE i \in 1 .. m
  <2>1. \A j \in 1 .. m : new[j].id = Slot(st, n + i) => j = i
    <3> TAKE j \in 1 .. m
    <3>1. n + i \in Nat \ {0} /\ n + j \in Nat \ {0}
      BY <1>1
    <3>2. new[j].id = Slot(st, n + i) => n + j = n + i
      BY <1>2, <1>3, <3>1
    <3> QED BY <1>1, <3>2
  <2>2. new[i].id = Slot(st, n + i) /\ i \in DOMAIN new
    BY <1>3
  <2>3. (CHOOSE j \in DOMAIN new : new[j].id = Slot(st, n + i)) = i
    BY <1>3, <2>1, <2>2
  <2>4. Slot(st, n + i) \in {new[j].id : j \in DOMAIN new}
    BY <2>2
  <2> QED BY <1>3, <2>2, <2>3, <2>4 DEF Applied
<1>8. DOMAIN P = DOMAIN st.pages \cup {Slot(st, n + i) : i \in 1 .. m}
  BY <1>3, SMTT(30) DEF Applied
<1>9. \A id \in DOMAIN st.pages : id \notin {Slot(st, n + i) : i \in 1 .. m} => P[id] = st.pages[id]
  BY <1>3 DEF Applied
<1>10. /\ st.writes \o new \in Seq([id : Nat, page : Page]) /\ Len(st.writes \o new) = n + m
       /\ DOMAIN (st.writes \o new) = 1 .. n + m
       /\ \A j \in 1 .. n : (st.writes \o new)[j] = st.writes[j]
       /\ \A i \in 1 .. m : (st.writes \o new)[n + i] = new[i]
  <2> DEFINE W == [id : Nat, page : Page]
  <2>1. st.writes \in Seq(W) /\ new \in Seq(W)
    BY <1>3 DEF GoodState
  <2> HIDE DEF W
  <2>2. /\ st.writes \o new \in Seq(W) /\ Len(st.writes \o new) = Len(st.writes) + Len(new)
        /\ DOMAIN (st.writes \o new) = 1 .. Len(st.writes) + Len(new)
        /\ \A i \in DOMAIN st.writes : (st.writes \o new)[i] = st.writes[i]
        /\ \A j \in DOMAIN new : (st.writes \o new)[Len(st.writes) + j] = new[j]
    BY <2>1, ConcatFacts, SMTT(30)
  <2> QED BY <1>1, <1>3, <2>2 DEF n, W
<1>11. Free(t) = {Slot(st, i) : i \in {j \in Nat : j > n + m}} /\ Free(st) = {Slot(st, i) : i \in {j \in Nat : j > n}}
  BY <1>5, <1>6, <1>10 DEF Free, n
<1>12. \A i \in 1 .. m : Slot(st, n + i) \in Free(st) \ Free(t)
  <2> TAKE i \in 1 .. m
  <2>1. n + i \in Nat /\ n + i > n /\ n + i \in Nat \ {0} /\ ~(n + i > n + m)
    BY <1>1
  <2>2. \A j \in Nat : j > n + m => j \in Nat \ {0} /\ j # n + i
    BY <1>1, <2>1
  <2> QED BY <1>2, <1>11, <2>1, <2>2
<1>13. Free(st) \ Free(t) = {Slot(st, n + i) : i \in 1 .. m}
  <2>1. ASSUME NEW k \in Nat, k > n, Slot(st, k) \notin Free(t) PROVE \E i \in 1 .. m : Slot(st, k) = Slot(st, n + i)
    <3>1. ~(k > n + m)
      BY <1>11, <2>1
    <3>2. k - n \in 1 .. m /\ n + (k - n) = k
      BY <1>1, <2>1, <3>1
    <3> QED BY <3>2
  <2> QED BY <1>11, <1>12, <2>1
<1>14. \A j \in 1 .. n : Slot(st, j) \notin Free(st)
  <2> TAKE j \in 1 .. n
  <2>1. j \in Nat \ {0} /\ \A k \in Nat : k > n => k \in Nat \ {0} /\ k # j
    BY <1>1
  <2> QED BY <1>2, <1>11, <2>1
<1>15. Evolves(st, t)
  <2>1. Len(st.writes) <= Len(t.writes)
    BY <1>1, <1>5, <1>10 DEF n
  <2>2. DOMAIN t.pages = DOMAIN st.pages \cup (Free(st) \ Free(t))
    BY <1>5, <1>8, <1>13
  <2>3. \A id \in DOMAIN st.pages \ Free(st) : t.pages[id] = st.pages[id]
    BY <1>5, <1>9, <1>13
  <2> QED BY <1>5, <2>1, <2>2, <2>3 DEF Evolves
<1>16. PageMap(P)
  <2>1. PageMap(st.pages)
    BY DEF GoodState
  <2>2. \A i \in 1 .. m : Slot(st, n + i) \in Nat
    BY <1>1, <1>2
  <2>3. ASSUME NEW id \in DOMAIN P PROVE P[id] \in Page \cup {Torn} /\ id \in Nat
    <3>1. CASE id \in {Slot(st, n + i) : i \in 1 .. m}
      BY <1>1, <1>7, <2>2, <3>1
    <3>2. CASE id \notin {Slot(st, n + i) : i \in 1 .. m}
      BY <1>8, <1>9, <2>1, <3>2 DEF PageMap
    <3> QED BY <3>1, <3>2
  <2> QED BY <2>3 DEF PageMap
<1>17. \A j \in 1 .. n + m :
          /\ t.writes[j].id = Slot(t, j) /\ Slot(t, j) \in DOMAIN P
          /\ P[Slot(t, j)] = t.writes[j].page
  <2> TAKE j \in 1 .. n + m
  <2>1. CASE j \in 1 .. n
    <3>1. t.writes[j] = st.writes[j]
      BY <1>5, <1>10, <2>1
    <3>2. /\ st.writes[j].id = Slot(st, j) /\ Slot(st, j) \in DOMAIN st.pages
          /\ st.pages[Slot(st, j)] = st.writes[j].page
      BY <1>1, <2>1 DEF GoodState
    <3>3. Slot(st, j) \notin Free(st)
      BY <1>14, <2>1
    <3>4. P[Slot(st, j)] = st.pages[Slot(st, j)]
      BY <1>9, <1>13, <3>2, <3>3
    <3> QED BY <1>6, <1>8, <3>1, <3>2, <3>4
  <2>2. CASE j \notin 1 .. n
    <3>1. j - n \in 1 .. m /\ n + (j - n) = j
      BY <1>1, <2>2
    <3>2. t.writes[j] = new[j - n]
      BY <1>5, <1>10, <3>1
    <3>3. new[j - n].id = Slot(st, j) /\ new[j - n].page = images[j - n]
      BY <1>3, <3>1
    <3>4. P[Slot(st, j)] = images[j - n] /\ Slot(st, j) \in DOMAIN P
      BY <1>7, <3>1
    <3> QED BY <1>6, <3>2, <3>3, <3>4
  <2> QED BY <2>1, <2>2
<1>18. GoodState(t)
  <2>1. Sourced(t)
    BY <1>5, <1>6 DEF Sourced, GoodState
  <2>2. st.err \in BOOLEAN
    BY DEF GoodState
  <2>3. t.writes \in Seq([id : Nat, page : Page]) /\ DOMAIN t.writes = 1 .. n + m
    BY <1>5, <1>10
  <2> QED BY <1>5, <1>16, <1>17, <2>1, <2>2, <2>3 DEF GoodState
<1>19. t.id = Slot(st, n + m)
  <2>1. m \in 1 .. m
    BY <1>1
  <2> QED BY <1>3, <1>5, <2>1
<1> QED BY <1>1, <1>5, <1>7, <1>10, <1>12, <1>15, <1>18, <1>19 DEF t, n, m

\* Some pages committed in a row: the state of the rewriting after them.
LEMMA CommitAllState ==
    ASSUME NEW st, GoodState(st), NEW images \in Seq(Page), images # << >>
    PROVE  LET t == CommitAll(st, images)
           IN  /\ GoodState(t) /\ Evolves(st, t) /\ Len(t.writes) = Len(st.writes) + Len(images)
               /\ t.id = Slot(st, Len(st.writes) + Len(images)) /\ t.stored = st.stored
               /\ t.refs = st.refs /\ t.err = st.err
BY CommitAllGood

\* Some pages committed in a row: each lies in a slot of its own and reads
\* as it was written.
LEMMA CommitAllPages ==
    ASSUME NEW st, GoodState(st), NEW images \in Seq(Page), images # << >>, NEW i \in DOMAIN images
    PROVE  LET t == CommitAll(st, images)
               p == Slot(st, Len(st.writes) + i)
           IN  p \in Free(st) \ Free(t) /\ t.pages[p] = images[i]
BY CommitAllGood

\* The chunks of commit_overflow_blob.
LEMMA ChunkFacts ==
    ASSUME NEW len \in Nat \ {0}, NEW i \in 1 .. Chunks(len)
    PROVE  Chunks(len) \in Nat \ {0} /\ ChunkSize(len, i) \in Nat
<1>1. Chunks(len) \in Nat \ {0}
  BY ChunksPositive
<1>2. len - (Chunks(len) - 1) * ChunkLen \in Nat
  BY DEF Chunks, ChunkLen, PageBody, SlotLen
<1>3. ChunkLen \in Nat
  BY DEF ChunkLen, PageBody, SlotLen
<1> QED BY <1>1, <1>2, <1>3 DEF ChunkSize

\* The pages of commit_overflow_blob are overflow pages of the datum.
LEMMA OverflowIsPage ==
    ASSUME NEW data \in Keys \cup Values, NEW len \in Nat \ {0}, NEW i \in 1 .. Chunks(len), NEW next \in Nat
    PROVE  /\ Overflow(data, len, i, next) \in Page /\ Overflow(data, len, i, next) # Torn
           /\ Overflow(data, len, i, next).kind = "overflow" /\ Overflow(data, len, i, next).data = data
           /\ Overflow(data, len, i, next).part = i /\ Overflow(data, len, i, next).len = ChunkSize(len, i)
           /\ Overflow(data, len, i, next).next = next
<1>1. ChunkSize(len, i) \in Nat /\ i \in Nat
  BY ChunkFacts
<1>2. Overflow(data, len, i, next) \in Page
  BY <1>1 DEF Overflow, Page
<1> QED BY <1>2, TornIsNoPage DEF Overflow

\* A blob reads back, and lies in pages of its own.
LEMMA StoreBlobGood ==
    ASSUME NEW st, GoodState(st), NEW data \in Keys \cup Values, NEW len \in Nat \ {0}
    PROVE  LET u == StoreBlob(st, data, len)
           IN  /\ GoodState(u) /\ Evolves(st, u) /\ u.refs = st.refs /\ u.err = st.err
               /\ \A D : u.stored \in Stored(D)
               /\ Decode(u.pages, u.stored) = data
               /\ ChainPages(u.pages, u.stored) \subseteq Free(st) \ Free(u)
<1> DEFINE n == Len(st.writes)
           m == Chunks(len)
           link(i) == IF i = 1 THEN 0 ELSE Slot(st, n + i - 1)
           img(i) == Overflow(data, len, m + 1 - i, link(i))
           images == Images(st, data, len)
           t == CommitAll(st, images)
           u == StoreBlob(st, data, len)
           P == u.pages
           s == u.stored
           at(i) == Slot(st, n + m + 1 - i)
<1>1. n \in Nat /\ m \in Nat \ {0}
  BY GoodLen, ChunksPositive
<1>2. \A i \in Nat \ {0} : Slot(st, i) \in Nat /\ Slot(st, i) # 0
  BY DEF GoodState, Sourced, FirstPage
<1>3. \A i, j \in Nat \ {0} : Slot(st, i) = Slot(st, j) => i = j
  BY DEF GoodState, Sourced
<1>4. \A i \in 1 .. m : link(i) \in Nat /\ m + 1 - i \in 1 .. m
  <2> TAKE i \in 1 .. m
  <2>1. i # 1 => n + i - 1 \in Nat \ {0}
    BY <1>1
  <2>2. m + 1 - i \in 1 .. m
    BY <1>1
  <2> HIDE DEF n, m
  <2> QED BY <1>2, <2>1, <2>2
<1>5. images = [i \in 1 .. m |-> img(i)]
  BY DEF Images
<1> HIDE DEF n, m
<1>6. \A i \in 1 .. m : img(i) \in Page
  BY <1>4, OverflowIsPage DEF m
<1>7. images \in Seq(Page) /\ Len(images) = m /\ DOMAIN images = 1 .. m /\ images # << >>
      /\ \A i \in 1 .. m : images[i] = img(i)
  <2> HIDE DEF images, img
  <2>1. images \in [1 .. m -> Page]
    BY <1>5, <1>6
  <2> QED BY <1>1, <1>5, <2>1
<1>8. /\ GoodState(t) /\ Evolves(st, t)
      /\ t.id = Slot(st, n + m) /\ t.refs = st.refs /\ t.err = st.err
      /\ \A i \in 1 .. m : /\ Slot(st, n + i) \in Free(st) \ Free(t)
                           /\ t.pages[Slot(st, n + i)] = img(i)
  <2> HIDE DEF images, img
  <2>1. images \in Seq(Page) /\ images # << >>
    BY <1>7
  <2>2. /\ GoodState(t) /\ Evolves(st, t) /\ t.id = Slot(st, n + m) /\ t.refs = st.refs
        /\ t.err = st.err
    BY <1>7, <2>1, CommitAllState DEF n
  <2>3. ASSUME NEW i \in 1 .. m
        PROVE  Slot(st, n + i) \in Free(st) \ Free(t) /\ t.pages[Slot(st, n + i)] = img(i)
    BY <1>7, <2>1, CommitAllPages DEF n
  <2> HIDE DEF t
  <2> QED BY <2>2, <2>3
<1>9. u = Stores(t, [len |-> len, head |-> t.id])
  BY DEF StoreBlob, StoresChain
<1> HIDE DEF t, u
<1>10. /\ Aside(t, u) /\ u.stored = [len |-> len, head |-> t.id] /\ u.refs = t.refs /\ u.err = t.err
  BY <1>8, <1>9, AsideStores
<1>11. GoodState(u) /\ Evolves(st, u) /\ Free(u) = Free(t) /\ u.pages = t.pages
  <2>1. GoodState(u) /\ Evolves(t, u) /\ Free(u) = Free(t)
    BY <1>8, <1>10, AsideGood
  <2> QED BY <1>8, <1>10, <2>1, EvolvesFurther DEF Aside
<1>12. s.len = len /\ s.head = Slot(st, n + m) /\ s.head # 0 /\ s.head \in Nat
  <2>1. n + m \in Nat \ {0}
    BY <1>1
  <2> QED BY <1>2, <1>8, <1>10, <2>1
<1>13. \A D : s \in Stored(D)
  <2>1. s = [len |-> len, head |-> t.id] /\ t.id \in Nat \ {0}
    BY <1>10, <1>12
  <2> HIDE DEF s
  <2> QED BY <2>1 DEF Stored
<1> HIDE DEF s
<1>14. \A i \in 1 .. m : /\ at(i) \in Free(st) \ Free(u) /\ IsPage(P, at(i), "overflow")
                         /\ P[at(i)].data = data /\ P[at(i)].part = i
                         /\ P[at(i)].len = ChunkSize(len, i)
                         /\ P[at(i)].next = IF i = m THEN 0 ELSE at(i + 1)
  <2> TAKE i \in 1 .. m
  <2> DEFINE j == m + 1 - i
  <2>1. j \in 1 .. m /\ m + 1 - j = i /\ n + m + 1 - i = n + j /\ (j = 1 <=> i = m)
        /\ n + j - 1 = n + m + 1 - (i + 1)
    BY <1>1
  <2>2. Slot(st, n + j) \in Free(st) \ Free(t) /\ t.pages[Slot(st, n + j)] = img(j)
    BY <1>8, <2>1
  <2>3. img(j) = Overflow(data, len, i, link(j)) /\ link(j) \in Nat
        /\ link(j) = IF i = m THEN 0 ELSE at(i + 1)
    BY <1>4, <2>1
  <2>4. at(i) = Slot(st, n + j)
    BY <2>1
  <2> HIDE DEF j, img, link, at
  <2>5. at(i) \in DOMAIN P
    BY <1>8, <2>2, <2>4, <1>11 DEF Evolves
  <2>6. P[at(i)] = Overflow(data, len, i, link(j))
    BY <1>11, <2>2, <2>3, <2>4
  <2> QED BY <1>11, <2>2, <2>3, <2>4, <2>5, <2>6, OverflowIsPage DEF m, IsPage
<1> DEFINE c == Chain(P, s)
<1>15. /\ c = [i \in 1 .. m |-> c[i]] /\ c[1] = s.head
       /\ \A i \in 2 .. m : c[i] = IF IsPage(P, c[i - 1], "overflow") THEN P[c[i - 1]].next ELSE 0
  <2>1. Chunks(s.len) = m
    BY <1>12 DEF m
  <2> QED BY <1>1, <2>1, ChainLinks
<1> HIDE DEF c, P
<1>16. \A i \in 1 .. m : c[i] = at(i)
  <2> DEFINE S == {k \in Nat : k + 1 \in 1 .. m => c[k + 1] = at(k + 1)}
  <2>1. 0 \in S
    <3>1. n + m + 1 - 1 = n + m
      BY <1>1
    <3> QED BY <1>12, <1>15, <3>1
  <2>2. ASSUME NEW k \in S PROVE k + 1 \in S
    <3>1. CASE k + 2 \in 1 .. m
      <4>1. k + 1 \in 1 .. m /\ k + 2 \in 2 .. m /\ (k + 2) - 1 = k + 1 /\ c[k + 1] = at(k + 1)
            /\ k + 1 # m /\ (k + 1) + 1 = k + 2
        BY <1>1, <3>1
      <4> HIDE DEF at, S
      <4>2. c[k + 2] = IF IsPage(P, c[(k + 2) - 1], "overflow") THEN P[c[(k + 2) - 1]].next ELSE 0
        BY <1>15, <4>1
      <4>3. c[k + 2] = at((k + 1) + 1)
        BY <1>14, <4>1, <4>2
      <4> QED BY <4>1, <4>3 DEF S
    <3> QED BY <3>1
  <2> HIDE DEF S, at
  <2>3. S = Nat
    BY <2>1, <2>2, NatSetInduction DEF S, at
  <2> TAKE i \in 1 .. m
  <2>4. i - 1 \in S /\ (i - 1) + 1 = i
    BY <2>3
  <2> QED BY <2>4 DEF S
<1>17. IsInjective(c)
  <2>1. ASSUME NEW i \in 1 .. m, NEW j \in 1 .. m, at(i) = at(j) PROVE i = j
    <3>1. n + m + 1 - i \in Nat \ {0} /\ n + m + 1 - j \in Nat \ {0}
      BY <1>1
    <3>2. n + m + 1 - i = n + m + 1 - j
      BY <1>3, <2>1, <3>1
    <3> QED BY <1>1, <3>2
  <2> HIDE DEF at
  <2>2. DOMAIN c = 1 .. m
    BY <1>15
  <2> QED BY <1>16, <2>1, <2>2 DEF IsInjective
<1>18. Decode(P, s) = data
  <2>1. Decode(P, s) = ReadChain(P, len, c)
    BY <1>12 DEF Decode, c
  <2>2. DOMAIN c = 1 .. m /\ 1 \in 1 .. m /\ m \in 1 .. m /\ Chunks(len) = m
    BY <1>1, <1>15 DEF m
  <2> HIDE DEF at
  <2>3. /\ \A i \in DOMAIN c : IsPage(P, c[i], "overflow")
        /\ \A i \in DOMAIN c : P[c[i]].len = ChunkSize(len, i)
        /\ P[c[Chunks(len)]].next = 0
        /\ \A i \in DOMAIN c : P[c[i]].data = P[c[1]].data /\ P[c[i]].part = i
        /\ P[c[1]].data = data
    BY <1>14, <1>16, <2>2
  <2> QED BY <1>17, <2>1, <2>3 DEF ReadChain
<1>19. ChainPages(P, s) \subseteq Free(st) \ Free(u)
  <2>1. ChainPages(P, s) = Range(c) /\ DOMAIN c = 1 .. m
    BY <1>12, <1>15 DEF ChainPages, c
  <2> HIDE DEF at
  <2> QED BY <1>14, <1>16, <2>1 DEF Range
<1> QED BY <1>8, <1>10, <1>11, <1>13, <1>18, <1>19 DEF P, s, u

\* store_key and store_value: the datum reads back from pages of its own.
LEMMA StoreGood ==
    ASSUME NEW st, GoodState(st), NEW D, D \subseteq Keys \cup Values, NEW data \in D,
           NEW len \in Nat, NEW inline \in BOOLEAN, inline \/ len # 0
    PROVE  LET u == Store(st, data, len, inline)
           IN  /\ GoodState(u) /\ Evolves(st, u) /\ u.refs = st.refs /\ u.err = st.err
               /\ ~st.err => /\ u.stored \in Stored(D)
                             /\ Decode(u.pages, u.stored) = data
                             /\ ChainPages(u.pages, u.stored) \subseteq Free(st) \ Free(u)
<1> DEFINE u == Store(st, data, len, inline)
<1>1. CASE st.err
  <2>1. u = st
    BY <1>1 DEF Store
  <2> QED BY <1>1, <2>1, AsideSelf
<1>2. CASE ~st.err /\ inline
  <2> DEFINE v == Stores(st, Inline(data))
  <2>1. u = v
    BY <1>2 DEF Store
  <2>2. Aside(st, v) /\ v.stored = Inline(data) /\ v.refs = st.refs /\ v.err = st.err
    BY AsideStores
  <2>3. GoodState(v) /\ Evolves(st, v)
    BY <2>2, AsideGood
  <2> HIDE DEF v, u
  <2>4. v.stored \in Stored(D) /\ Decode(v.pages, v.stored) = data /\ ChainPages(v.pages, v.stored) = {}
    BY <2>2 DEF Inline, Stored, Decode, ChainPages
  <2> QED BY <2>1, <2>2, <2>3, <2>4 DEF u
<1>3. CASE ~st.err /\ ~inline
  <2>1. u = StoreBlob(st, data, len)
    BY <1>3 DEF Store
  <2>2. data \in Keys \cup Values /\ len \in Nat \ {0}
    BY <1>3
  <2> HIDE DEF u
  <2> QED BY <2>1, <2>2, StoreBlobGood DEF u
<1> QED BY <1>1, <1>2, <1>3

\* The limits that validate_key and validate_value set for the lengths.
LEMMA Lengths ==
    /\ \A k \in Keys : KeyLen[k] \in Nat /\ KeyLen[k] <= MaxKeyBytes
    /\ \A v \in Values : ValLen[v] \in Nat
<1>1. MaxKeyBytes \in Nat
  BY DEF MaxKeyBytes
<1>2. MaxValueBytes \in Nat
  BY SMT DEF MaxValueBytes
<1>3. \A k \in Keys : KeyLen[k] \in Nat /\ KeyLen[k] <= MaxKeyBytes
  BY <1>1, KeyLengths
<1>4. \A v \in Values : ValLen[v] \in Nat
  BY <1>2, ValueLengths
<1> QED BY <1>3, <1>4

\* store_key: the key reads back from pages of its own.
LEMMA StoreKeyGood ==
    ASSUME NEW st, GoodState(st), NEW key \in Keys
    PROVE  LET u == StoreKey(st, key)
           IN  /\ GoodState(u) /\ Evolves(st, u) /\ u.refs = st.refs /\ u.err = st.err
               /\ ~st.err => /\ u.stored \in Stored(Keys)
                             /\ Decode(u.pages, u.stored) = key
                             /\ ChainPages(u.pages, u.stored) \subseteq Free(st) \ Free(u)
<1> DEFINE inline == KeyLen[key] <= MaxInlineKey
<1>1. KeyLen[key] \in Nat
  BY Lengths
<1>2. inline \in BOOLEAN /\ (inline \/ KeyLen[key] # 0)
  BY <1>1 DEF MaxInlineKey, PageBody, SlotLen, LeafHeaderLen, RefLen
<1>3. Keys \subseteq Keys \cup Values
  OBVIOUS
<1>4. StoreKey(st, key) = Store(st, key, KeyLen[key], inline)
  BY DEF StoreKey
<1> HIDE DEF inline
<1> QED BY <1>1, <1>2, <1>3, <1>4, StoreGood

\* store_value: the value reads back from pages of its own.
LEMMA StoreValueGood ==
    ASSUME NEW st, GoodState(st), NEW key \in Keys, NEW val \in Values
    PROVE  LET u == StoreValue(st, key, val)
           IN  /\ GoodState(u) /\ Evolves(st, u) /\ u.refs = st.refs /\ u.err = st.err
               /\ ~st.err => /\ u.stored \in Stored(Values)
                             /\ Decode(u.pages, u.stored) = val
                             /\ ChainPages(u.pages, u.stored) \subseteq Free(st) \ Free(u)
<1> DEFINE inline == SlotLen + LeafHeaderLen + KeyPayload(KeyLen[key]) + ValLen[val] <= PageBody
<1>1. KeyLen[key] \in Nat /\ ValLen[val] \in Nat
  BY Lengths
<1>2. KeyPayload(KeyLen[key]) \in Nat /\ KeyPayload(KeyLen[key]) <= MaxInlineKey
  BY <1>1 DEF KeyPayload, MaxInlineKey, PageBody, SlotLen, LeafHeaderLen, RefLen
<1>3. inline \in BOOLEAN /\ (inline \/ ValLen[val] # 0)
  BY <1>1, <1>2 DEF MaxInlineKey, PageBody, SlotLen, LeafHeaderLen, RefLen
<1>4. Values \subseteq Keys \cup Values
  OBVIOUS
<1> HIDE DEF inline
<1>5. PICK len \in Nat : len = ValLen[val]
  BY <1>1
<1>6. StoreValue(st, key, val) = Store(st, val, len, inline) /\ (inline \/ len # 0)
  BY <1>3, <1>5 DEF StoreValue, inline
<1> QED BY <1>3, <1>4, <1>6, StoreGood

\* The separators stored one after the other.
SeparatorRun(acc, st, refs) ==
    /\ acc[0] = [st |-> st, cells |-> << >>]
    /\ \A i \in 1 .. Len(refs) : acc[i] = AddSeparator(acc[i - 1], refs[i])
    /\ Separators(st, refs) = acc[Len(refs)]

\* commit_internal stores the separators one after the other.
LEMMA SeparatorSteps ==
    ASSUME NEW st, NEW refs, Len(refs) \in Nat
    PROVE  \E acc : SeparatorRun(acc, st, refs)
<1> DEFINE N == Len(refs)
           Step(x, i) == AddSeparator(x, refs[i])
           Base == [st |-> st, cells |-> << >>]
           Def(g, m) == g = [i \in 0 .. m |-> IF i = 0 THEN Base ELSE Step(g[i - 1], i)]
           f == CHOOSE g : Def(g, N)
           S == {m \in Nat : \E g : Def(g, 0 + m)}
<1>0. N \in Int /\ N >= 0 /\ 0 \in Int
  OBVIOUS
<1>3. Separators(st, refs) = f[Len(refs)]
  BY Zenon DEF Separators
<1> HIDE DEF N, Step, Base
<1>1. S = Nat
  <2>1. 0 \in S
    <3>1. Def([i \in 0 .. 0 + 0 |-> Base], 0 + 0)
      BY <1>0
    <3> QED BY <3>1
  <2>2. ASSUME NEW m \in S PROVE m + 1 \in S
    <3>1. PICK g : Def(g, 0 + m)
      OBVIOUS
    <3> DEFINE n == 0 + m
               h == [i \in 0 .. n + 1 |-> IF i = n + 1 THEN Step(g[n], n + 1) ELSE g[i]]
               v(i) == IF i = 0 THEN Base ELSE Step(h[i - 1], i)
    <3>2. n \in Int /\ n >= 0 /\ n + 1 = 0 + (m + 1) /\ m + 1 \in Nat
      BY <1>0
    <3>3. g = [i \in 0 .. n |-> IF i = 0 THEN Base ELSE Step(g[i - 1], i)]
      BY <3>1
    <3> HIDE DEF n
    <3>4. ASSUME NEW i \in 0 .. n + 1 PROVE h[i] = v(i)
      <4>1. CASE i = n + 1
        <5>1. i # 0 /\ n \in 0 .. n + 1 /\ n # n + 1 /\ i - 1 = n
          BY <1>0, <3>2, <4>1
        <5>2. h[n] = g[n] /\ h[i] = Step(g[n], n + 1)
          BY <4>1, <5>1
        <5> QED BY <4>1, <5>1, <5>2
      <4>2. CASE i # n + 1 /\ i # 0
        <5>1. i \in 0 .. n /\ i - 1 \in 0 .. n + 1 /\ i - 1 # n + 1
          BY <1>0, <3>2, <4>2
        <5>2. g[i] = Step(g[i - 1], i)
          BY <3>3, <4>2, <5>1
        <5>3. h[i] = g[i] /\ h[i - 1] = g[i - 1]
          BY <4>2, <5>1
        <5> QED BY <4>2, <5>2, <5>3
      <4>3. CASE i = 0 /\ i # n + 1
        <5>1. i \in 0 .. n
          BY <1>0, <3>2, <4>3
        <5>2. g[i] = Base
          BY <3>3, <4>3, <5>1
        <5>3. h[i] = g[i]
          BY <4>3
        <5> QED BY <4>3, <5>2, <5>3
      <4> QED BY <4>1, <4>2, <4>3
    <3>5. h = [i \in 0 .. n + 1 |-> h[i]]
      OBVIOUS
    <3> HIDE DEF h
    <3>6. h = [i \in 0 .. n + 1 |-> v(i)]
      BY <3>4, <3>5
    <3>7. Def(h, 0 + (m + 1))
      BY <3>2, <3>6
    <3> HIDE DEF Def
    <3> QED BY <3>2, <3>7
  <2> HIDE DEF S
  <2> QED BY <2>1, <2>2, NatSetInduction DEF S
<1>2. Def(f, N)
  <2>1. N - 0 \in Nat /\ N = 0 + (N - 0)
    BY <1>0
  <2>2. N - 0 \in S
    BY <1>1, <2>1
  <2>3. \E g : Def(g, N)
    BY <2>1, <2>2
  <2> HIDE DEF Def
  <2> QED BY <2>3, Zenon
<1> HIDE DEF f
<1>4. f[0] = Base /\ \A i \in 1 .. N : f[i] = Step(f[i - 1], i)
  <2> DEFINE v(i) == IF i = 0 THEN Base ELSE Step(f[i - 1], i)
  <2>1. f = [i \in 0 .. N |-> v(i)]
    BY <1>2
  <2>2. 0 \in 0 .. N /\ \A i \in 1 .. N : i \in 0 .. N /\ i # 0
    BY <1>0
  <2> HIDE DEF v
  <2>3. f[0] = v(0) /\ \A i \in 1 .. N : f[i] = v(i)
    BY <2>1, <2>2
  <2> QED BY <2>2, <2>3 DEF v
<1>5. f = [i \in 0 .. N |-> f[i]]
  BY <1>2
<1> QED
  <2>1. SeparatorRun(f, st, refs)
    BY <1>3, <1>4 DEF N, Base, Step, SeparatorRun
  <2> HIDE DEF f
  <2> QED BY <2>1

-----------------------------------------------------------------------------
\* The pages a part of a rewriting took.
Taken(s, u) == Free(s) \ Free(u)

\* Two parts of a rewriting take different slots.
LEMMA TakenBy ==
    ASSUME NEW s, NEW t, NEW u, GoodState(s), GoodState(t), GoodState(u), Evolves(s, t), Evolves(t, u)
    PROVE  /\ Taken(s, t) \subseteq Taken(s, u) /\ Taken(t, u) \subseteq Taken(s, u)
           /\ Taken(s, t) \cap Free(t) = {} /\ Taken(s, t) \cap Taken(t, u) = {}
<1>1. Free(t) \subseteq Free(s) /\ Free(u) \subseteq Free(t)
  BY FreeShrinks
<1> QED BY <1>1 DEF Taken

\* One page committed, and referred to.
RefersTo(st, u, page, min) ==
    \E id \in Taken(st, u) : /\ u.refs = Append(st.refs, [min |-> min, page |-> id])
                             /\ id \in DOMAIN u.pages /\ u.pages[id] = page

\* commit_leaf and commit_internal commit their page and refer to it.
LEMMA CommitNodeGood ==
    ASSUME NEW st, GoodState(st), NEW page \in Page, NEW min
    PROVE  LET u == CommitNode(st, page, min)
           IN  /\ GoodState(u) /\ Evolves(st, u) /\ u.err = st.err
               /\ RefersTo(st, u, page, min)
<1> DEFINE images == <<page>>
           t == CommitAll(st, images)
           id == Slot(st, Len(st.writes) + 1)
           u == CommitNode(st, page, min)
<1>1. images \in Seq(Page) /\ images # << >> /\ Len(images) = 1 /\ 1 \in DOMAIN images /\ images[1] = page
  OBVIOUS
<1> HIDE DEF images
<1>2. /\ GoodState(t) /\ Evolves(st, t) /\ t.id = Slot(st, Len(st.writes) + Len(images))
      /\ t.refs = st.refs /\ t.err = st.err
  BY <1>1, CommitAllState
<1>3. t.id = id
  BY <1>1, <1>2
<1>4. id \in Free(st) \ Free(t) /\ t.pages[id] = images[1]
  BY <1>1, CommitAllPages
<1>5. u = Adds(t, [min |-> min, page |-> t.id])
  BY DEF CommitNode, Commit, images
<1> HIDE DEF t, u, id
<1>6. /\ u.refs = Append(t.refs, [min |-> min, page |-> t.id]) /\ u.err = t.err
      /\ GoodState(u) /\ Evolves(t, u) /\ Free(u) = Free(t) /\ u.pages = t.pages
  BY <1>2, <1>5, AsideAdds
<1>7. Evolves(st, u)
  BY <1>2, <1>6, EvolvesFurther
<1>8. id \in Taken(st, u) /\ u.pages[id] = page
  BY <1>1, <1>4, <1>6 DEF Taken
<1>9. id \in DOMAIN u.pages
  BY <1>7, <1>8 DEF Evolves, Taken
<1>10. RefersTo(st, u, page, min)
  BY <1>2, <1>3, <1>6, <1>8, <1>9 DEF RefersTo
<1> QED BY <1>2, <1>6, <1>7, <1>10 DEF u

\* A reference that holds the rows, in pages among the given ones.
Proper(P, h, x, rows, own) ==
    /\ x \in Ref /\ ItemOk(P, h, x)
    /\ ItemRows(P, h, x) = rows /\ ItemPages(P, h, x) \subseteq own

\* What a call that writes one page returns: one reference more.
OneMore(st, u, h, rows, own) ==
    /\ GoodState(u) /\ Evolves(st, u) /\ (st.err => u.err)
    /\ ~u.err => \E x \in Ref : /\ u.refs = Append(st.refs, x)
                                /\ x.page \in Taken(st, u)
                                /\ Proper(u.pages, h, x, rows, own \cup Taken(st, u))

\* commit_leaf: a leaf over a strand of entries is a subtree of height 1
\* with their rows.
LEMMA CommitLeafGood ==
    ASSUME NEW st, GoodState(st), NEW entries, Strand(st.pages, 0, entries), entries # << >>,
           PagesOf(st.pages, 0, entries) \cap Free(st) = {}
    PROVE  OneMore(st, CommitLeaf(st, entries), 1, RowsOf(st.pages, 0, entries),
                   PagesOf(st.pages, 0, entries))
<1> DEFINE u == CommitLeaf(st, entries)
           min == Decode(st.pages, entries[1].key)
           page == [kind |-> "leaf", cells |-> entries]
           own == PagesOf(st.pages, 0, entries)
<1>0. PageMap(st.pages) /\ st.err \in BOOLEAN
  BY DEF GoodState
<1>1. CASE st.err \/ ~Fits(LeafSizes(entries))
  <2>1. u = Fail(st)
    BY <1>1 DEF CommitLeaf
  <2>2. u.err = TRUE /\ GoodState(u) /\ Evolves(st, u)
    BY <2>1, AsideFail
  <2> HIDE DEF u
  <2>3. OneMore(st, u, 1, RowsOf(st.pages, 0, entries), own)
    BY <2>2 DEF OneMore
  <2> QED BY <2>3 DEF u
<1>2. CASE ~(st.err \/ ~Fits(LeafSizes(entries)))
  <2>1. u = CommitNode(st, page, min)
    BY <1>2 DEF CommitLeaf
  <2>2. entries \in Seq(Cell)
    BY DEF Strand, Kind
  <2>3. page \in Page /\ page # Torn
    <3>1. page \in Page
      BY <2>2 DEF Page, Cell
    <3> QED BY <3>1, TornIsNoPage
  <2> HIDE DEF page, min
  <2> DEFINE v == CommitNode(st, page, min)
  <2>4. GoodState(v) /\ Evolves(st, v) /\ v.err = st.err /\ RefersTo(st, v, page, min)
    BY <2>3, CommitNodeGood
  <2>5. PICK id \in Taken(st, v) : /\ v.refs = Append(st.refs, [min |-> min, page |-> id])
                                  /\ id \in DOMAIN v.pages /\ v.pages[id] = page
    BY <2>4 DEF RefersTo
  <2> HIDE DEF v
  <2> DEFINE P == v.pages
             x == [min |-> Row(P, P[id].cells[1]).key, page |-> id]
  <2>6. P[id].cells = entries /\ IsPage(P, id, "leaf") /\ PageMap(P)
    BY <2>3, <2>4, <2>5 DEF page, IsPage, GoodState
  <2>7. Keeps(st.pages, P, own)
    BY <2>4, EvolvesKeeps
  <2>8. Strand(P, 0, entries) /\ RowsOf(P, 0, entries) = RowsOf(st.pages, 0, entries)
        /\ PagesOf(P, 0, entries) = own
    BY <1>0, <2>6, <2>7, StrandSame
  <2>9. id \notin own
    BY <2>5 DEF Taken
  <2> HIDE DEF P, own
  <2>10. /\ x \in Ref /\ ItemOk(P, 1, x)
         /\ ItemRows(P, 1, x) = RowsOf(P, 0, P[id].cells)
         /\ ItemPages(P, 1, x) = {id} \cup PagesOf(P, 0, P[id].cells)
    BY <2>6, <2>8, <2>9, LeafBuild
  <2>11. x = [min |-> min, page |-> id]
    <3>1. 1 \in DOMAIN entries /\ entries[1] \in Kind(0) /\ ItemOk(st.pages, 0, entries[1])
      BY <1>0, StrandParts
    <3>2. Decode(st.pages, entries[1].key) # Torn /\ entries[1].key \in Stored(Keys)
      BY <3>1 DEF ItemOk, EntryReads, Kind, Cell
    <3>3. Keeps(st.pages, P, ChainPages(st.pages, entries[1].key))
      <4>1. ChainPages(st.pages, entries[1].key) \subseteq own
        BY <3>1 DEF own, PagesOf, ItemPages, EntryPages
      <4> QED BY <2>7, <4>1 DEF Keeps
    <3>4. Decode(P, entries[1].key) = min
      BY <3>2, <3>3, DecodeSame DEF min
    <3> QED BY <2>6, <3>4 DEF Row
  <2> HIDE DEF x
  <2>12. v.refs = Append(st.refs, x) /\ x.page = id
    BY <2>5, <2>11
  <2>13. Proper(P, 1, x, RowsOf(st.pages, 0, entries), own \cup Taken(st, v))
    BY <2>5, <2>6, <2>8, <2>10 DEF Proper
  <2>14. OneMore(st, v, 1, RowsOf(st.pages, 0, entries), own)
    BY <2>4, <2>5, <2>10, <2>12, <2>13 DEF OneMore, P
  <2> QED BY <2>1, <2>14 DEF u, v, own
<1> QED BY <1>1, <1>2

\* A sequence with one element appended.
LEMMA AppendFacts ==
    ASSUME NEW S, NEW s \in Seq(S), NEW e \in S, NEW t, t = Append(s, e)
    PROVE  /\ t \in Seq(S) /\ Len(s) \in Nat /\ Len(t) = Len(s) + 1
           /\ \A i \in 1 .. Len(s) : t[i] = s[i]
           /\ t[Len(s) + 1] = e
OBVIOUS

InternalCell == [key : Stored(Keys), child : Nat]

\* The separators stored so far read back, each from pages of its own.
SeparatorsOk(st, s, cells, refs, n) ==
    /\ cells \in Seq(InternalCell) /\ Len(cells) = n
    /\ \A j \in 1 .. n : /\ cells[j].child = refs[j].page
                         /\ Decode(s.pages, cells[j].key) = refs[j].min
                         /\ ChainPages(s.pages, cells[j].key) \subseteq Taken(st, s)
    /\ \A j, k \in 1 .. n :
          j # k => ChainPages(s.pages, cells[j].key) \cap ChainPages(s.pages, cells[k].key) = {}

\* commit_internal stores one separator after those stored so far.
LEMMA NextSeparator ==
    ASSUME NEW st, GoodState(st), ~st.err, NEW s, GoodState(s), Evolves(st, s), s.err = st.err, s.refs = st.refs,
           NEW cells, NEW refs, NEW n \in Nat, SeparatorsOk(st, s, cells, refs, n),
           \A j \in 1 .. n + 1 : refs[j] \in Ref
    PROVE  LET a == AddSeparator([st |-> s, cells |-> cells], refs[n + 1])
           IN  /\ GoodState(a.st) /\ Evolves(st, a.st) /\ a.st.err = st.err /\ a.st.refs = st.refs
               /\ SeparatorsOk(st, a.st, a.cells, refs, n + 1)
<1> DEFINE ref == refs[n + 1]
           u == StoreKey(s, ref.min)
           a == AddSeparator([st |-> s, cells |-> cells], ref)
           e == [key |-> u.stored, child |-> ref.page]
           new == Append(cells, e)
<1>1. a = [st |-> u, cells |-> new]
  BY DEF AddSeparator
<1>2. ref.min \in Keys /\ ref.page \in Nat
  <2>1. n + 1 \in 1 .. n + 1
    OBVIOUS
  <2> QED BY <2>1 DEF Ref
<1> HIDE DEF ref, u
<1>3. /\ GoodState(u) /\ Evolves(s, u) /\ u.refs = s.refs /\ u.err = s.err
      /\ u.stored \in Stored(Keys)
      /\ Decode(u.pages, u.stored) = ref.min
      /\ ChainPages(u.pages, u.stored) \subseteq Free(s) \ Free(u)
  BY <1>2, StoreKeyGood DEF u
<1>4. Evolves(st, u)
  BY <1>3, EvolvesFurther
<1>5. /\ Taken(st, s) \subseteq Taken(st, u) /\ Taken(s, u) \subseteq Taken(st, u)
      /\ Taken(st, s) \cap Free(s) = {} /\ Taken(st, s) \cap Taken(s, u) = {}
  BY <1>3, TakenBy
<1>6. e \in InternalCell /\ cells \in Seq(InternalCell) /\ Len(cells) = n
  BY <1>2, <1>3 DEF SeparatorsOk, InternalCell
<1>7. e.key = u.stored /\ e.child = ref.page
  OBVIOUS
<1> HIDE DEF e
<1>8. /\ new \in Seq(InternalCell) /\ Len(new) = n + 1 /\ new[n + 1] = e
      /\ \A i \in 1 .. n : new[i] = cells[i]
  BY <1>6, AppendFacts
<1> HIDE DEF new
<1>9. \A j \in 1 .. n : /\ cells[j].key \in Stored(Keys)
                        /\ Decode(s.pages, cells[j].key) = refs[j].min
                        /\ ChainPages(s.pages, cells[j].key) \subseteq Taken(st, s)
                        /\ refs[j].min # Torn
  <2> TAKE j \in 1 .. n
  <2>1. cells[j] \in InternalCell
    BY <1>6, SeqFacts
  <2>2. refs[j] \in Ref
    BY n + 1 \in Nat
  <2> QED BY <2>1, <2>2, TornIsNoDatum DEF SeparatorsOk, InternalCell, Ref
<1>10. \A j \in 1 .. n : /\ Decode(u.pages, new[j].key) = refs[j].min
                         /\ ChainPages(u.pages, new[j].key) = ChainPages(s.pages, cells[j].key)
                         /\ new[j].child = refs[j].page
  <2> TAKE j \in 1 .. n
  <2>1. ChainPages(s.pages, cells[j].key) \cap Free(s) = {}
    BY <1>5, <1>9
  <2>2. Keeps(s.pages, u.pages, ChainPages(s.pages, cells[j].key))
    BY <1>3, <2>1, EvolvesKeeps
  <2>3. Decode(s.pages, cells[j].key) # Torn /\ cells[j].key \in Stored(Keys)
    BY <1>9
  <2>4. /\ Decode(u.pages, cells[j].key) = Decode(s.pages, cells[j].key)
        /\ ChainPages(u.pages, cells[j].key) = ChainPages(s.pages, cells[j].key)
    BY <2>2, <2>3, DecodeSame
  <2> QED BY <1>8, <1>9, <2>4 DEF SeparatorsOk
<1>11. \A j \in 1 .. n : ChainPages(u.pages, new[j].key) \subseteq Taken(st, s)
  BY <1>9, <1>10
<1>12. ChainPages(u.pages, new[n + 1].key) \subseteq Taken(s, u)
  BY <1>3, <1>7, <1>8 DEF Taken
<1>13. \A j \in 1 .. n + 1 : j \in 1 .. n \/ j = n + 1
  OBVIOUS
<1>14. \A j \in 1 .. n + 1 : /\ new[j].child = refs[j].page
                             /\ Decode(u.pages, new[j].key) = refs[j].min
                             /\ ChainPages(u.pages, new[j].key) \subseteq Taken(st, u)
  <2> TAKE j \in 1 .. n + 1
  <2>1. CASE j \in 1 .. n
    BY <1>5, <1>10, <1>11, <2>1
  <2>2. CASE j = n + 1
    BY <1>3, <1>5, <1>7, <1>8, <1>12, <2>2 DEF ref
  <2> QED BY <1>13, <2>1, <2>2
<1>15. \A j, k \in 1 .. n + 1 :
          j # k => ChainPages(u.pages, new[j].key) \cap ChainPages(u.pages, new[k].key) = {}
  <2> SUFFICES ASSUME NEW j \in 1 .. n + 1, NEW k \in 1 .. n + 1, j # k
               PROVE  ChainPages(u.pages, new[j].key) \cap ChainPages(u.pages, new[k].key) = {}
    OBVIOUS
  <2>1. CASE j \in 1 .. n /\ k \in 1 .. n
    BY <1>10, <2>1 DEF SeparatorsOk
  <2>2. CASE j = n + 1 /\ k \in 1 .. n
    BY <1>5, <1>11, <1>12, <2>2
  <2>3. CASE k = n + 1 /\ j \in 1 .. n
    BY <1>5, <1>11, <1>12, <2>3
  <2> QED BY <1>13, <2>1, <2>2, <2>3
<1>16. SeparatorsOk(st, u, new, refs, n + 1)
  BY <1>8, <1>14, <1>15 DEF SeparatorsOk
<1> QED BY <1>1, <1>3, <1>4, <1>16 DEF ref

\* commit_internal: all separators read back, each from pages of its own.
LEMMA SeparatorsGood ==
    ASSUME NEW st, GoodState(st), ~st.err, NEW refs, Len(refs) \in Nat, \A j \in 1 .. Len(refs) : refs[j] \in Ref
    PROVE  LET a == Separators(st, refs)
           IN  /\ GoodState(a.st) /\ Evolves(st, a.st) /\ a.st.err = st.err /\ a.st.refs = st.refs
               /\ SeparatorsOk(st, a.st, a.cells, refs, Len(refs))
<1>0. PICK acc : SeparatorRun(acc, st, refs)
  BY SeparatorSteps
<1>1. /\ acc[0] = [st |-> st, cells |-> << >>]
      /\ \A i \in 1 .. Len(refs) : acc[i] = AddSeparator(acc[i - 1], refs[i])
      /\ Separators(st, refs) = acc[Len(refs)]
  BY <1>0 DEF SeparatorRun
<1> DEFINE Ok(i) == LET a == acc[i]
                    IN  /\ a = [st |-> a.st, cells |-> a.cells]
                        /\ GoodState(a.st) /\ Evolves(st, a.st) /\ a.st.err = st.err /\ a.st.refs = st.refs
                        /\ SeparatorsOk(st, a.st, a.cells, refs, i)
           S == {i \in Nat : i <= Len(refs) => Ok(i)}
<1>2. 0 \in S
  <2>1. Evolves(st, st)
    BY AsideSelf
  <2>2. SeparatorsOk(st, st, << >>, refs, 0)
    BY DEF SeparatorsOk
  <2> QED BY <1>1, <2>1, <2>2
<1>3. ASSUME NEW i \in S PROVE i + 1 \in S
  <2>1. CASE i + 1 <= Len(refs)
    <3>1. i \in Nat /\ i + 1 \in 1 .. Len(refs) /\ (i + 1) - 1 = i /\ i <= Len(refs) /\ Ok(i)
      BY <2>1
    <3> HIDE DEF S
    <3> DEFINE a == acc[i]
               b == AddSeparator([st |-> a.st, cells |-> a.cells], refs[i + 1])
    <3>2. acc[i + 1] = AddSeparator(acc[i], refs[i + 1]) /\ acc[i] = [st |-> a.st, cells |-> a.cells]
      BY <1>1, <3>1
    <3>3. acc[i + 1] = b
      BY <3>2
    <3>4. /\ GoodState(b.st) /\ Evolves(st, b.st) /\ b.st.err = st.err /\ b.st.refs = st.refs
          /\ SeparatorsOk(st, b.st, b.cells, refs, i + 1)
      <4>1. \A j \in 1 .. i + 1 : refs[j] \in Ref
        BY <3>1
      <4> QED BY <3>1, <4>1, NextSeparator
    <3>5. b = [st |-> b.st, cells |-> b.cells]
      BY DEF AddSeparator
    <3> HIDE DEF b
    <3>6. Ok(i + 1)
      BY <3>3, <3>4, <3>5
    <3> QED BY <3>1, <3>6 DEF S
  <2> QED BY <2>1
<1> HIDE DEF S, Ok
<1>4. S = Nat
  BY <1>2, <1>3, NatSetInduction DEF S
<1>5. Ok(Len(refs))
  BY <1>4 DEF S
<1> QED BY <1>1, <1>5 DEF Ok

\* The internal page written above some references.
Above(st, u, h, refs, x) ==
    LET P == u.pages
        id == x.page
    IN  /\ x \in Ref /\ x.min = refs[1].min /\ id \in Taken(st, u)
        /\ IsPage(P, id, "internal") /\ Len(P[id].cells) = Len(refs)
        /\ Strand(P, h, refs) /\ RowsOf(P, h, refs) = RowsOf(st.pages, h, refs)
        /\ PagesOf(P, h, refs) = PagesOf(st.pages, h, refs)
        /\ \A i \in DOMAIN refs : /\ P[id].cells[i].child = refs[i].page
                                  /\ Decode(P, P[id].cells[i].key) = refs[i].min
                                  /\ SepPages(P, id, i) \subseteq Taken(st, u) \ {id}
        /\ \A i, j \in DOMAIN refs : i # j => SepPages(P, id, i) \cap SepPages(P, id, j) = {}

\* commit_internal writes an internal page over the references, with its
\* separators.
LEMMA CommitInternalPage ==
    ASSUME NEW st, GoodState(st), NEW h \in Nat \ {0}, NEW refs, Strand(st.pages, h, refs), refs # << >>,
           PagesOf(st.pages, h, refs) \cap Free(st) = {}
    PROVE  LET u == CommitInternal(st, refs)
           IN  /\ GoodState(u) /\ Evolves(st, u) /\ (st.err => u.err)
               /\ ~u.err => \E x : u.refs = Append(st.refs, x) /\ Above(st, u, h, refs, x)
<1> DEFINE u == CommitInternal(st, refs)
           own == PagesOf(st.pages, h, refs)
<1>0. PageMap(st.pages) /\ st.err \in BOOLEAN
  BY DEF GoodState
<1>1. CASE st.err \/ ~Fits(InternalSizes(refs))
  <2>1. u = Fail(st)
    BY <1>1 DEF CommitInternal
  <2>2. u.err = TRUE /\ GoodState(u) /\ Evolves(st, u)
    BY <2>1, AsideFail
  <2> HIDE DEF u
  <2> QED BY <2>2 DEF u
<1>2. CASE ~(st.err \/ ~Fits(InternalSizes(refs)))
  <2> DEFINE a == Separators(st, refs)
             s == a.st
             cells == a.cells
             page == [kind |-> "internal", cells |-> cells]
             min == refs[1].min
             v == CommitNode(s, page, min)
  <2>1. u = v
    BY <1>2 DEF CommitInternal
  <2>2. /\ Len(refs) \in Nat /\ DOMAIN refs = 1 .. Len(refs) /\ 1 \in DOMAIN refs
        /\ \A i \in DOMAIN refs : refs[i] \in Ref
    BY <1>0, StrandParts DEF Kind
  <2>3. /\ GoodState(s) /\ Evolves(st, s) /\ s.err = st.err /\ s.refs = st.refs
        /\ SeparatorsOk(st, s, cells, refs, Len(refs))
    BY <1>2, <2>2, SeparatorsGood
  <2> HIDE DEF a, s, cells
  <2>4. page \in Page /\ page # Torn
    <3>1. page \in Page
      BY <2>3 DEF Page, SeparatorsOk, InternalCell
    <3> QED BY <3>1, TornIsNoPage
  <2>5. page.kind = "internal" /\ page.cells = cells
    OBVIOUS
  <2> HIDE DEF page, min
  <2>6. GoodState(v) /\ Evolves(s, v) /\ v.err = s.err /\ RefersTo(s, v, page, min)
    BY <2>3, <2>4, CommitNodeGood
  <2>7. PICK id \in Taken(s, v) : /\ v.refs = Append(s.refs, [min |-> min, page |-> id])
                                  /\ id \in DOMAIN v.pages /\ v.pages[id] = page
    BY <2>6 DEF RefersTo
  <2> HIDE DEF v, u
  <2> DEFINE P == v.pages
             x == [min |-> min, page |-> id]
  <2>8. P[id].cells = cells /\ IsPage(P, id, "internal") /\ PageMap(P)
    BY <2>4, <2>5, <2>6, <2>7 DEF IsPage, GoodState
  <2>9. Evolves(st, v)
    BY <2>3, <2>6, EvolvesFurther
  <2>10. Strand(P, h, refs) /\ RowsOf(P, h, refs) = RowsOf(st.pages, h, refs)
         /\ PagesOf(P, h, refs) = own
    <3>1. Keeps(st.pages, P, own)
      BY <2>9, EvolvesKeeps
    <3> QED BY <1>0, <2>8, <3>1, StrandSame
  <2>11. /\ Taken(st, s) \subseteq Taken(st, v) /\ Taken(s, v) \subseteq Taken(st, v)
         /\ Taken(st, s) \cap Free(s) = {} /\ Taken(st, s) \cap Taken(s, v) = {}
    BY <2>3, <2>6, TakenBy
  <2>12. \A i \in 1 .. Len(refs) :
            /\ cells[i].child = refs[i].page
            /\ Decode(s.pages, cells[i].key) = refs[i].min
            /\ ChainPages(s.pages, cells[i].key) \subseteq Taken(st, s)
            /\ cells[i].key \in Stored(Keys) /\ refs[i].min # Torn
    <3> TAKE i \in 1 .. Len(refs)
    <3>1. cells[i] \in InternalCell
      BY <2>3, SeqFacts DEF SeparatorsOk
    <3>2. refs[i].min # Torn
      BY <2>2, TornIsNoDatum DEF Ref
    <3> QED BY <2>3, <3>1, <3>2 DEF SeparatorsOk, InternalCell
  <2>13. \A i \in 1 .. Len(refs) :
            /\ Decode(P, cells[i].key) = refs[i].min
            /\ ChainPages(P, cells[i].key) = ChainPages(s.pages, cells[i].key)
    <3> TAKE i \in 1 .. Len(refs)
    <3>1. ChainPages(s.pages, cells[i].key) \cap Free(s) = {}
      BY <2>11, <2>12
    <3>2. Keeps(s.pages, P, ChainPages(s.pages, cells[i].key))
      BY <2>6, <3>1, EvolvesKeeps
    <3>3. Decode(s.pages, cells[i].key) # Torn /\ cells[i].key \in Stored(Keys)
      BY <2>12
    <3>4. /\ Decode(P, cells[i].key) = Decode(s.pages, cells[i].key)
          /\ ChainPages(P, cells[i].key) = ChainPages(s.pages, cells[i].key)
      BY <3>2, <3>3, DecodeSame
    <3> QED BY <2>12, <3>4
  <2>14. \A i \in 1 .. Len(refs) : SepPages(P, id, i) = ChainPages(s.pages, cells[i].key)
    BY <2>8, <2>13 DEF SepPages
  <2>15. \A i \in 1 .. Len(refs) : SepPages(P, id, i) \subseteq Taken(st, v) \ {id}
    BY <2>7, <2>11, <2>12, <2>14
  <2>16. \A i, j \in 1 .. Len(refs) : i # j => SepPages(P, id, i) \cap SepPages(P, id, j) = {}
    BY <2>3, <2>14 DEF SeparatorsOk
  <2>17. x \in Ref /\ x.min = refs[1].min /\ x.page = id
    BY <2>2, <2>8, PageParts DEF Ref, min
  <2> HIDE DEF x
  <2>18. Above(st, v, h, refs, x)
    <3>1. id \in Taken(st, v)
      BY <2>7, <2>11
    <3>2. Len(P[id].cells) = Len(refs)
      BY <2>3, <2>8 DEF SeparatorsOk
    <3> QED BY <2>2, <2>8, <2>10, <2>12, <2>13, <2>15, <2>16, <2>17, <3>1, <3>2 DEF Above
  <2>19. v.refs = Append(st.refs, x)
    BY <2>3, <2>7 DEF x
  <2>20. \E y : v.refs = Append(st.refs, y) /\ Above(st, v, h, refs, y)
    BY <2>18, <2>19
  <2> QED BY <1>2, <2>1, <2>6, <2>9, <2>20 DEF u
<1> QED BY <1>1, <1>2

\* commit_internal over two children or more: a subtree one level higher
\* that holds their rows.
LEMMA CommitInternalFull ==
    ASSUME NEW st, GoodState(st), NEW h \in Nat \ {0}, NEW refs, Strand(st.pages, h, refs), Len(refs) >= 2,
           PagesOf(st.pages, h, refs) \cap Free(st) = {}
    PROVE  OneMore(st, CommitInternal(st, refs), h + 1, RowsOf(st.pages, h, refs),
                   PagesOf(st.pages, h, refs))
<1> DEFINE u == CommitInternal(st, refs)
           own == PagesOf(st.pages, h, refs)
           P == u.pages
<1>1. refs # << >>
  OBVIOUS
<1>2. /\ GoodState(u) /\ Evolves(st, u) /\ (st.err => u.err)
      /\ ~u.err => \E x : u.refs = Append(st.refs, x) /\ Above(st, u, h, refs, x)
  BY <1>1, CommitInternalPage
<1> HIDE DEF u, own
<1>3. ASSUME NEW x, Above(st, u, h, refs, x) PROVE Proper(P, h + 1, x, RowsOf(st.pages, h, refs), own \cup Taken(st, u))
  <2> DEFINE id == x.page
             y == [min |-> refs[1].min, page |-> id]
  <2>1. x \in Ref /\ x.min = refs[1].min /\ id \in Taken(st, u)
    BY <1>3 DEF Above
  <2>2. x = y
    BY <2>1 DEF Ref
  <2>3. PageMap(P)
    BY <1>2 DEF GoodState
  <2>4. id \notin PagesOf(P, h, refs) /\ PagesOf(P, h, refs) = own
    BY <1>3, <2>1 DEF Above, own, Taken
  <2>5. /\ IsPage(P, id, "internal") /\ Len(P[id].cells) = Len(refs)
        /\ Strand(P, h, refs) /\ RowsOf(P, h, refs) = RowsOf(st.pages, h, refs)
    BY <1>3 DEF Above
  <2>6. \A i \in DOMAIN refs : /\ P[id].cells[i].child = refs[i].page
                               /\ Decode(P, P[id].cells[i].key) = refs[i].min
                               /\ SepPages(P, id, i) \cap PagesOf(P, h, refs) = {}
                               /\ id \notin SepPages(P, id, i)
                               /\ SepPages(P, id, i) \subseteq Taken(st, u)
    <3> TAKE i \in DOMAIN refs
    <3>1. /\ P[id].cells[i].child = refs[i].page
          /\ Decode(P, P[id].cells[i].key) = refs[i].min
          /\ SepPages(P, id, i) \subseteq Taken(st, u) \ {id}
      BY <1>3 DEF Above
    <3> QED BY <2>4, <3>1 DEF own, Taken
  <2>7. \A i, j \in DOMAIN refs : i # j => SepPages(P, id, i) \cap SepPages(P, id, j) = {}
    BY <1>3 DEF Above
  <2>8. /\ y \in Ref /\ ItemOk(P, h + 1, y)
        /\ ItemRows(P, h + 1, y) = RowsOf(P, h, refs)
        /\ ItemPages(P, h + 1, y) =
                    {id} \cup PagesOf(P, h, refs) \cup UNION {SepPages(P, id, i) : i \in DOMAIN refs}
    <3> HIDE DEF P, id
    <3> QED BY <2>3, <2>4, <2>5, <2>6, <2>7, InnerBuild
  <2>9. UNION {SepPages(P, id, i) : i \in DOMAIN refs} \subseteq Taken(st, u)
    BY <2>6
  <2> HIDE DEF y, P
  <2> QED BY <2>1, <2>2, <2>4, <2>5, <2>8, <2>9 DEF Proper
<1>4. ~u.err => \E x \in Ref : /\ u.refs = Append(st.refs, x) /\ x.page \in Taken(st, u)
                               /\ Proper(P, h + 1, x, RowsOf(st.pages, h, refs), own \cup Taken(st, u))
  BY <1>2, <1>3 DEF Above
<1> QED BY <1>2, <1>4 DEF OneMore, u, own

\* An internal page with one child, which holds the rows.
Thin(P, h, x, rows, own) ==
    /\ h > 1 /\ x \in Ref /\ IsPage(P, x.page, "internal") /\ Len(P[x.page].cells) = 1
    /\ \E y \in Ref : Children(P, x.page) = <<y>> /\ Proper(P, h - 1, y, rows, own)

\* What a call returns that writes one such page.
OneThin(st, u, h, rows, own) ==
    /\ GoodState(u) /\ Evolves(st, u) /\ (st.err => u.err)
    /\ ~u.err => \E x \in Ref : /\ u.refs = Append(st.refs, x) /\ x.page \in Taken(st, u)
                                /\ Thin(u.pages, h, x, rows, own \cup Taken(st, u))
\* commit_internal over one child: a page that validate_subtree would
\* refuse, which holds the child's rows.
LEMMA CommitInternalThin ==
    ASSUME NEW st, GoodState(st), NEW h \in Nat \ {0}, NEW refs, Strand(st.pages, h, refs), Len(refs) = 1,
           PagesOf(st.pages, h, refs) \cap Free(st) = {}
    PROVE  OneThin(st, CommitInternal(st, refs), h + 1, RowsOf(st.pages, h, refs),
                   PagesOf(st.pages, h, refs))
<1> DEFINE u == CommitInternal(st, refs)
           own == PagesOf(st.pages, h, refs)
           P == u.pages
<1>1. refs # << >>
  OBVIOUS
<1>2. /\ GoodState(u) /\ Evolves(st, u) /\ (st.err => u.err)
      /\ ~u.err => \E x : u.refs = Append(st.refs, x) /\ Above(st, u, h, refs, x)
  BY <1>1, CommitInternalPage
<1>3. refs \in Seq(Ref) /\ refs = <<refs[1]>> /\ refs[1] \in Ref /\ DOMAIN refs = {1}
  <2>1. refs \in Seq(Ref)
    BY DEF Strand, Kind
  <2> QED BY <2>1
<1> HIDE DEF u, own
<1>4. ASSUME NEW x, Above(st, u, h, refs, x) PROVE Thin(P, h + 1, x, RowsOf(st.pages, h, refs), own \cup Taken(st, u))
  <2> DEFINE id == x.page
             y == refs[1]
  <2>1. x \in Ref /\ IsPage(P, id, "internal") /\ Len(P[id].cells) = 1
        /\ Strand(P, h, refs) /\ RowsOf(P, h, refs) = RowsOf(st.pages, h, refs)
        /\ PagesOf(P, h, refs) = own
    BY <1>4 DEF Above, own
  <2>2. P[id].cells[1].child = y.page /\ Decode(P, P[id].cells[1].key) = y.min
    BY <1>3, <1>4 DEF Above
  <2>3. P[id].cells \in Seq(InternalCell)
    BY <1>2, <2>1, PageParts DEF GoodState, InternalCell
  <2>4. DOMAIN P[id].cells = {1}
    BY <2>1, <2>3
  <2>5. Children(P, id) = [i \in {1} |-> y]
    <3>1. [min |-> Decode(P, P[id].cells[1].key), page |-> P[id].cells[1].child] = y
      BY <1>3, <2>2 DEF Ref
    <3> HIDE DEF id, y
    <3>2. \A i \in {1} : [min |-> Decode(P, P[id].cells[i].key), page |-> P[id].cells[i].child] = y
      BY <3>1
    <3> QED BY <2>4, <3>2 DEF Children
  <2>6. Children(P, id) = <<y>>
    BY <2>5
  <2>7. Strand(P, h, <<y>>) /\ RowsOf(P, h, <<y>>) = RowsOf(st.pages, h, refs) /\ PagesOf(P, h, <<y>>) = own
    <3>1. <<y>> = refs
      BY <1>3
    <3> HIDE DEF y
    <3> QED BY <2>1, <3>1
  <2>8. Proper(P, h, y, RowsOf(st.pages, h, refs), own \cup Taken(st, u))
    BY <1>3, <2>7, StrandOne DEF Proper
  <2> HIDE DEF y, P, id
  <2>9. h + 1 > 1 /\ (h + 1) - 1 = h
    OBVIOUS
  <2> QED BY <1>3, <2>1, <2>6, <2>8, <2>9 DEF Thin, id, y
<1>5. ~u.err => \E x \in Ref : /\ u.refs = Append(st.refs, x) /\ x.page \in Taken(st, u)
                               /\ Thin(P, h + 1, x, RowsOf(st.pages, h, refs), own \cup Taken(st, u))
  BY <1>2, <1>4 DEF Above
<1> QED BY <1>2, <1>5 DEF u, own, OneThin

\* The most balanced of some divisions is one of them.
LEMMA BalancedIsOne ==
    ASSUME NEW left, NEW total \in Nat, NEW fit \in SUBSET Nat, fit # {}, \A i \in fit : left[i] \in Nat
    PROVE  LET m == MostBalanced(left, total, fit)
           IN  /\ m \in fit
               /\ \A j \in fit : Gap(left[m], total - left[m]) <= Gap(left[j], total - left[j])
<1> DEFINE g(i) == Gap(left[i], total - left[i])
           S == {g(i) : i \in fit}
           T == {i \in fit : \A j \in fit : g(i) <= g(j)}
<1>1. \A i \in fit : g(i) \in Nat
  BY DEF Gap
<1> HIDE DEF g
<1>2. S \in SUBSET Nat /\ S # {}
  BY <1>1
<1>3. PICK m \in S : \A k \in S : m <= k
  <2> HIDE DEF S
  <2> QED BY <1>2, LeastNatural
<1>4. T \in SUBSET Nat /\ T # {}
  <2>1. PICK i \in fit : m = g(i)
    OBVIOUS
  <2>2. \A j \in fit : g(i) <= g(j)
    BY <1>3, <2>1
  <2> QED BY <2>2
<1>5. MostBalanced(left, total, fit) = Min(T)
  BY DEF MostBalanced, g
<1>6. T \subseteq fit /\ \A i \in T : \A j \in fit : g(i) <= g(j)
  OBVIOUS
<1> HIDE DEF T
<1>7. \E x \in T : \A y \in T : x <= y
  BY <1>4, LeastNatural
<1>8. Min(T) \in T
  BY <1>7 DEF Min
<1> QED BY <1>5, <1>6, <1>8 DEF g

\* The prefix sums of sizes are numbers.
LEMMA SumsAreNumbers ==
    ASSUME NEW sizes, Len(sizes) \in Nat, \A i \in 1 .. Len(sizes) : sizes[i] \in Nat
    PROVE  \A i \in 0 .. Len(sizes) : Prefix(sizes)[i] \in Nat
<1> DEFINE S == {i \in Nat : i <= Len(sizes) => Prefix(sizes)[i] \in Nat}
<1>1. 0 \in S
  BY PrefixSums
<1>2. ASSUME NEW i \in S PROVE i + 1 \in S
  <2>1. CASE i + 1 <= Len(sizes)
    <3>1. i + 1 \in 1 .. Len(sizes) /\ (i + 1) - 1 = i /\ i <= Len(sizes)
      BY <2>1
    <3>2. Prefix(sizes)[i + 1] = Prefix(sizes)[(i + 1) - 1] + sizes[i + 1]
      BY <3>1, PrefixSums
    <3> QED BY <3>1, <3>2
  <2> QED BY <2>1
<1> HIDE DEF S
<1>3. S = Nat
  BY <1>1, <1>2, NatSetInduction DEF S
<1> QED BY <1>3 DEF S

\* choose_split answers none, or a place that leaves the given number of
\* items on each side.
LEMMA SplitRange ==
    ASSUME NEW sizes, Len(sizes) \in Nat, \A i \in 1 .. Len(sizes) : sizes[i] \in Nat, NEW fewest \in Nat \ {0}
    PROVE  ChooseSplit(sizes, fewest) \in {0} \cup (fewest .. Len(sizes) - fewest)
<1> DEFINE left == Prefix(sizes)
           total == left[Len(sizes)]
           fit == {i \in fewest .. Len(sizes) - fewest : left[i] <= PageBody /\ total - left[i] <= PageBody}
<1>1. \A i \in 0 .. Len(sizes) : left[i] \in Nat
  BY SumsAreNumbers
<1>2. ChooseSplit(sizes, fewest) = MostBalanced(left, total, fit)
  BY DEF ChooseSplit, SplitAt, Total
<1> HIDE DEF left
<1>3. total \in Nat /\ fit \in SUBSET Nat /\ fit \subseteq fewest .. Len(sizes) - fewest
      /\ \A i \in fit : left[i] \in Nat
  BY <1>1
<1> HIDE DEF fit, total
<1>4. CASE fit = {}
  BY <1>2, <1>4 DEF MostBalanced
<1>5. CASE fit # {}
  BY <1>2, <1>3, <1>5, BalancedIsOne
<1> QED BY <1>4, <1>5

\* The sizes choose_split gets for the entries of a leaf.
LEMMA LeafSizesAreNumbers ==
    ASSUME NEW entries \in Seq(Cell), NEW P, \A i \in DOMAIN entries : ItemOk(P, 0, entries[i])
    PROVE  Len(LeafSizes(entries)) = Len(entries) /\ \A i \in 1 .. Len(entries) : LeafSizes(entries)[i] \in Nat
<1>1. Len(entries) \in Nat /\ DOMAIN entries = 1 .. Len(entries)
  BY SeqFacts
<1>2. ASSUME NEW i \in DOMAIN entries PROVE LeafCellSize(entries[i]) \in Nat
  <2> DEFINE e == entries[i]
  <2>1. e.key \in Stored(Keys) /\ e.val \in Stored(Values)
    <3>1. e \in Cell
      BY SeqFacts
    <3> QED BY <3>1 DEF Cell
  <2>2. EntryReads(P, e) /\ Row(P, e) \in KV
    BY DEF ItemOk
  <2> HIDE DEF e
  <2>3. KeyLenOf(e.key) \in Nat
    <3>1. CASE e.key \in [data : Keys, head : {0}]
      BY <3>1, Lengths DEF KeyLenOf
    <3>2. CASE e.key \in [len : Nat \ {0}, head : Nat \ {0}]
      BY <3>2 DEF KeyLenOf
    <3> QED BY <2>1, <3>1, <3>2 DEF Stored
  <2>4. ValPayload(e.val) \in Nat
    <3>1. CASE e.val \in [data : Values, head : {0}]
      BY <3>1, Lengths DEF ValPayload
    <3>2. CASE e.val \in [len : Nat \ {0}, head : Nat \ {0}]
      BY <3>2 DEF ValPayload, RefLen
    <3> QED BY <2>1, <3>1, <3>2 DEF Stored
  <2>5. KeyPayload(KeyLenOf(e.key)) \in Nat
    BY <2>3 DEF KeyPayload, RefLen
  <2> QED BY <2>4, <2>5 DEF LeafCellSize, SlotLen, LeafHeaderLen, e
<1>3. LeafSizes(entries) = [i \in 1 .. Len(entries) |-> LeafCellSize(entries[i])]
  BY <1>1 DEF LeafSizes
<1> QED BY <1>1, <1>2, <1>3

\* The sizes choose_split gets for the children of an internal page.
LEMMA InternalSizesAreNumbers ==
    ASSUME NEW refs \in Seq(Ref)
    PROVE  /\ Len(InternalSizes(refs)) = Len(refs)
           /\ \A i \in 1 .. Len(refs) : /\ InternalSizes(refs)[i] = InternalCellSize(refs[i])
                                        /\ InternalSizes(refs)[i] \in Nat
<1>1. Len(refs) \in Nat /\ DOMAIN refs = 1 .. Len(refs) /\ \A i \in DOMAIN refs : refs[i] \in Ref
  BY SeqFacts
<1>2. ASSUME NEW i \in DOMAIN refs PROVE InternalCellSize(refs[i]) \in Nat
  <2>1. KeyLen[refs[i].min] \in Nat
    BY <1>1, Lengths DEF Ref
  <2>2. KeyPayload(KeyLen[refs[i].min]) \in Nat
    BY <2>1 DEF KeyPayload, RefLen
  <2> QED BY <2>2 DEF InternalCellSize, SlotLen, InternalHeaderLen
<1>3. InternalSizes(refs) = [i \in 1 .. Len(refs) |-> InternalCellSize(refs[i])]
  BY <1>1 DEF InternalSizes
<1> QED BY <1>1, <1>2, <1>3
-----------------------------------------------------------------------------
\* What a call that writes a level returns: one or two references, to pages
\* it wrote, which hold the rows.
Level(st, u, h, rows, own) ==
    /\ GoodState(u) /\ Evolves(st, u) /\ (st.err => u.err)
    /\ ~u.err => /\ Strand(u.pages, h, u.refs) /\ Len(u.refs) \in {1, 2}
                 /\ RowsOf(u.pages, h, u.refs) = rows
                 /\ PagesOf(u.pages, h, u.refs) \subseteq own \cup Taken(st, u)
                 /\ \A i \in DOMAIN u.refs : u.refs[i].page \in Taken(st, u)

\* A reference holds the same rows where its pages are kept.
LEMMA ProperSame ==
    ASSUME NEW P, PageMap(P), NEW Q, PageMap(Q), NEW h \in Nat \ {0}, NEW x, NEW rows, NEW own,
           Proper(P, h, x, rows, own), Keeps(P, Q, own)
    PROVE  Proper(Q, h, x, rows, own)
<1>1. x \in Kind(h) /\ ItemOk(P, h, x) /\ Keeps(P, Q, ItemPages(P, h, x))
  BY DEF Proper, Kind, Keeps
<1>2. /\ ItemOk(Q, h, x) /\ ItemRows(Q, h, x) = ItemRows(P, h, x)
      /\ ItemPages(Q, h, x) = ItemPages(P, h, x)
  BY <1>1, ItemSame
<1> QED BY <1>2 DEF Proper

\* A reference that holds some rows is a strand of them.
LEMMA ProperStrand ==
    ASSUME NEW P, NEW h \in Nat \ {0}, NEW x, NEW rows, NEW own, Proper(P, h, x, rows, own)
    PROVE  Strand(P, h, <<x>>) /\ RowsOf(P, h, <<x>>) = rows /\ PagesOf(P, h, <<x>>) \subseteq own
<1>1. x \in Kind(h) /\ ItemOk(P, h, x)
  BY DEF Proper, Kind
<1> QED BY <1>1, StrandOne DEF Proper

\* The rows of two sequences of items after each other.
LEMMA JoinedRows ==
    ASSUME NEW P, NEW h, NEW S, NEW xs \in Seq(S), NEW ys \in Seq(S)
    PROVE  RowsOf(P, h, xs \o ys) = RowsOf(P, h, xs) \cup RowsOf(P, h, ys)
BY JoinedSets
\* The pages of two sequences of items after each other.
LEMMA JoinedPages ==
    ASSUME NEW P, NEW h, NEW S, NEW xs \in Seq(S), NEW ys \in Seq(S)
    PROVE  PagesOf(P, h, xs \o ys) = PagesOf(P, h, xs) \cup PagesOf(P, h, ys)
<1>1. /\ RowsOf(P, h, xs \o ys) = RowsOf(P, h, xs) \cup RowsOf(P, h, ys)
      /\ PagesOf(P, h, xs \o ys) = PagesOf(P, h, xs) \cup PagesOf(P, h, ys)
  BY JoinedSets
<1> QED BY <1>1

\* t is two sequences of items after each other.
Joined(P, h, xs, ys, t) ==
    /\ RowsOf(P, h, t) = RowsOf(P, h, xs) \cup RowsOf(P, h, ys)
    /\ PagesOf(P, h, t) = PagesOf(P, h, xs) \cup PagesOf(P, h, ys)
Apart(P, h, xs, ys) ==
    /\ Before(RowsOf(P, h, xs), RowsOf(P, h, ys))
    /\ PagesOf(P, h, xs) \cap PagesOf(P, h, ys) = {}

\* Two sequences of items after each other, named.
LEMMA SetsOfJoined ==
    ASSUME NEW P, NEW h, NEW S, NEW xs \in Seq(S), NEW ys \in Seq(S), NEW t, t = xs \o ys
    PROVE  Joined(P, h, xs, ys, t)
<1>1. RowsOf(P, h, xs \o ys) = RowsOf(P, h, xs) \cup RowsOf(P, h, ys)
  BY JoinedRows
<1>2. PagesOf(P, h, xs \o ys) = PagesOf(P, h, xs) \cup PagesOf(P, h, ys)
  BY JoinedPages
<1> QED BY <1>1, <1>2, Zenon DEF Joined

\* Two strands apart from each other, one after the other, are a strand.
LEMMA JoinedStrand ==
    ASSUME NEW P, NEW h, NEW xs, NEW ys, NEW t, t = xs \o ys, Strand(P, h, xs), Strand(P, h, ys),
           Apart(P, h, xs, ys)
    PROVE  Strand(P, h, t) /\ Joined(P, h, xs, ys, t)
<1>1. xs \in Seq(Kind(h)) /\ ys \in Seq(Kind(h))
  BY DEF Strand
<1>2. Strand(P, h, t)
  BY StrandJoin, Zenon DEF Apart
<1>3. Joined(P, h, xs, ys, t)
  BY <1>1, SetsOfJoined
<1> QED BY <1>2, <1>3

\* A strand that is two sequences after each other, cut between them.
LEMMA CutStrand ==
    ASSUME NEW P, NEW h, NEW xs \in Seq(Kind(h)), NEW ys \in Seq(Kind(h)), NEW t, t = xs \o ys, Strand(P, h, t)
    PROVE  Strand(P, h, xs) /\ Strand(P, h, ys) /\ Apart(P, h, xs, ys) /\ Joined(P, h, xs, ys, t)
<1>1. Strand(P, h, xs) /\ Strand(P, h, ys) /\ Apart(P, h, xs, ys)
  BY StrandCut, Zenon DEF Apart
<1>2. Joined(P, h, xs, ys, t)
  BY SetsOfJoined
<1> QED BY <1>1, <1>2

\* A reference added to one.
LEMMA PairFacts ==
    ASSUME NEW x \in Ref, NEW y \in Ref, NEW t, t = Append(<<x>>, y)
    PROVE  /\ t = <<x>> \o <<y>> /\ Len(t) = 2 /\ DOMAIN t = {1, 2} /\ t[1] = x /\ t[2] = y
OBVIOUS

\* Two references after each other.
LEMMA JoinedPair ==
    ASSUME NEW P, NEW h, NEW x \in Ref, NEW y \in Ref, NEW t, t = <<x>> \o <<y>>
    PROVE  Joined(P, h, <<x>>, <<y>>, t)
<1>1. <<x>> \in Seq(Ref) /\ <<y>> \in Seq(Ref)
  OBVIOUS
<1>2. PICK xs \in Seq(Ref), ys \in Seq(Ref) : xs = <<x>> /\ ys = <<y>>
  BY <1>1, Zenon
<1>3. t = xs \o ys
  BY <1>2, Zenon
<1>4. Joined(P, h, xs, ys, t)
  BY <1>3, SetsOfJoined
<1> QED BY <1>2, <1>4, Zenon

\* A level written as one page.
LEMMA OneLevel ==
    ASSUME NEW st, GoodState(st), NEW u, NEW h \in Nat \ {0}, NEW rows, NEW own,
           OneMore(Returns(st, << >>), u, h, rows, own)
    PROVE  Level(st, u, h, rows, own)
<1> DEFINE s == Returns(st, << >>)
<1>1. /\ s.refs = << >> /\ s.err = st.err
      /\ GoodState(s) /\ Evolves(st, s) /\ Free(s) = Free(st)
  BY AsideReturns
<1> HIDE DEF s
<1>2. GoodState(u) /\ Evolves(s, u) /\ (st.err => u.err) /\ Taken(s, u) = Taken(st, u)
  BY <1>1 DEF OneMore, s, Taken
<1>3. Evolves(st, u)
  BY <1>1, <1>2, EvolvesFurther
<1>4. ASSUME ~u.err
      PROVE  /\ Strand(u.pages, h, u.refs) /\ Len(u.refs) \in {1, 2}
             /\ RowsOf(u.pages, h, u.refs) = rows
             /\ PagesOf(u.pages, h, u.refs) \subseteq own \cup Taken(st, u)
             /\ \A i \in DOMAIN u.refs : u.refs[i].page \in Taken(st, u)
  <2>1. PICK x \in Ref : /\ u.refs = Append(s.refs, x) /\ x.page \in Taken(s, u)
                         /\ Proper(u.pages, h, x, rows, own \cup Taken(s, u))
    BY <1>4 DEF OneMore, s
  <2>2. u.refs = <<x>>
    BY <1>1, <2>1
  <2>3. Strand(u.pages, h, <<x>>) /\ RowsOf(u.pages, h, <<x>>) = rows
        /\ PagesOf(u.pages, h, <<x>>) \subseteq own \cup Taken(st, u)
    BY <1>2, <2>1, ProperStrand
  <2> QED BY <1>2, <2>1, <2>2, <2>3
<1> QED BY <1>2, <1>3, <1>4 DEF Level

\* A level written as two pages, one after the other.
LEMMA TwoLevel ==
    ASSUME NEW st, GoodState(st), NEW t, NEW u, NEW h \in Nat \ {0}, NEW rows1, NEW own1, NEW rows2, NEW own2,
           OneMore(Returns(st, << >>), t, h, rows1, own1), OneMore(t, u, h, rows2, own2),
           Before(rows1, rows2), own1 \cap own2 = {}, own1 \cap Free(st) = {}, own2 \cap Free(st) = {}
    PROVE  Level(st, u, h, rows1 \cup rows2, own1 \cup own2)
<1> DEFINE s == Returns(st, << >>)
<1>1. /\ s.refs = << >> /\ s.err = st.err
      /\ GoodState(s) /\ Evolves(st, s) /\ Free(s) = Free(st)
  BY AsideReturns
<1> HIDE DEF s
<1>2. /\ GoodState(t) /\ Evolves(s, t) /\ (st.err => t.err) /\ Taken(s, t) = Taken(st, t)
      /\ GoodState(u) /\ Evolves(t, u) /\ (t.err => u.err)
  BY <1>1 DEF OneMore, s, Taken
<1>3. Evolves(st, t) /\ Evolves(st, u)
  <2>1. Evolves(st, t)
    BY <1>1, <1>2, EvolvesFurther
  <2> QED BY <1>2, <2>1, EvolvesFurther
<1>4. /\ Taken(st, t) \subseteq Taken(st, u) /\ Taken(t, u) \subseteq Taken(st, u)
      /\ Taken(st, t) \cap Free(t) = {} /\ Taken(st, t) \cap Taken(t, u) = {}
  BY <1>2, <1>3, TakenBy
<1>5. ASSUME ~u.err
      PROVE  /\ Strand(u.pages, h, u.refs) /\ Len(u.refs) \in {1, 2}
             /\ RowsOf(u.pages, h, u.refs) = rows1 \cup rows2
             /\ PagesOf(u.pages, h, u.refs) \subseteq own1 \cup own2 \cup Taken(st, u)
             /\ \A i \in DOMAIN u.refs : u.refs[i].page \in Taken(st, u)
  <2>1. PICK x \in Ref : /\ t.refs = Append(s.refs, x) /\ x.page \in Taken(s, t)
                         /\ Proper(t.pages, h, x, rows1, own1 \cup Taken(s, t))
    BY <1>2, <1>5 DEF OneMore, s
  <2>2. PICK y \in Ref : /\ u.refs = Append(t.refs, y) /\ y.page \in Taken(t, u)
                         /\ Proper(u.pages, h, y, rows2, own2 \cup Taken(t, u))
    BY <1>5 DEF OneMore
  <2>3. u.refs = <<x>> \o <<y>> /\ Len(u.refs) = 2 /\ DOMAIN u.refs = {1, 2}
        /\ u.refs[1] = x /\ u.refs[2] = y
    <3>1. t.refs = <<x>>
      BY <1>1, <2>1
    <3>2. u.refs = Append(<<x>>, y)
      BY <2>2, <3>1
    <3> QED BY <3>2, PairFacts
  <2>4. Proper(u.pages, h, x, rows1, own1 \cup Taken(st, t))
    <3>1. Free(t) \subseteq Free(st)
      BY <1>2, <1>3, FreeShrinks
    <3>2. (own1 \cup Taken(st, t)) \cap Free(t) = {}
      BY <1>4, <3>1
    <3>3. Keeps(t.pages, u.pages, own1 \cup Taken(st, t))
      BY <1>2, <3>2, EvolvesKeeps
    <3>4. PageMap(t.pages) /\ PageMap(u.pages)
      BY <1>2 DEF GoodState
    <3> QED BY <1>2, <2>1, <3>3, <3>4, ProperSame
  <2>5. Strand(u.pages, h, <<x>>) /\ RowsOf(u.pages, h, <<x>>) = rows1
        /\ PagesOf(u.pages, h, <<x>>) \subseteq own1 \cup Taken(st, t)
    BY <2>4, ProperStrand
  <2>6. Strand(u.pages, h, <<y>>) /\ RowsOf(u.pages, h, <<y>>) = rows2
        /\ PagesOf(u.pages, h, <<y>>) \subseteq own2 \cup Taken(t, u)
    BY <2>2, ProperStrand
  <2>7. (own1 \cup Taken(st, t)) \cap (own2 \cup Taken(t, u)) = {}
    <3>1. Taken(t, u) \subseteq Free(st) /\ Taken(st, t) \subseteq Free(st)
      BY <1>4 DEF Taken
    <3> QED BY <1>4, <3>1
  <2>8. PagesOf(u.pages, h, <<x>>) \cap PagesOf(u.pages, h, <<y>>) = {}
    BY <2>5, <2>6, <2>7
  <2>9. Strand(u.pages, h, <<x>> \o <<y>>)
    BY <2>5, <2>6, <2>8, StrandJoin
  <2>11. /\ RowsOf(u.pages, h, u.refs) = rows1 \cup rows2
         /\ PagesOf(u.pages, h, u.refs) = PagesOf(u.pages, h, <<x>>) \cup PagesOf(u.pages, h, <<y>>)
    <3>1. Joined(u.pages, h, <<x>>, <<y>>, u.refs)
      BY <2>3, JoinedPair
    <3> QED BY <2>5, <2>6, <3>1 DEF Joined
  <2>12. Len(u.refs) \in {1, 2} /\ \A i \in DOMAIN u.refs : u.refs[i].page \in Taken(st, u)
    BY <1>2, <1>4, <2>1, <2>2, <2>3
  <2>13. PagesOf(u.pages, h, u.refs) \subseteq own1 \cup own2 \cup Taken(st, u)
    BY <1>4, <2>3, <2>5, <2>6, <2>11
  <2> QED BY <2>3, <2>9, <2>11, <2>12, <2>13
<1> QED BY <1>2, <1>3, <1>5 DEF Level

\* Three cells of any separators fit into an internal page.
SeparatorsAreShort ==
    \A k \in Keys : 3 * (SlotLen + InternalHeaderLen + KeyPayload(KeyLen[k])) <= PageBody

\* The two parts of a sequence that is split at a place inside it.
LEMMA Halves ==
    ASSUME NEW S, NEW items \in Seq(S), NEW at \in 1 .. Len(items) - 1
    PROVE  /\ FirstOf(items, at) \in Seq(S) /\ RestOf(items, at) \in Seq(S)
           /\ items = FirstOf(items, at) \o RestOf(items, at)
           /\ Len(FirstOf(items, at)) = at /\ Len(RestOf(items, at)) = Len(items) - at
           /\ FirstOf(items, at) # << >> /\ RestOf(items, at) # << >>
<1> DEFINE a == FirstOf(items, at)
           b == RestOf(items, at)
<1>1. Len(items) \in Nat /\ DOMAIN items = 1 .. Len(items) /\ items = [i \in 1 .. Len(items) |-> items[i]]
  OBVIOUS
<1>2. a = [i \in 1 .. at |-> items[i]] /\ Len(a) = at
  BY <1>1 DEF FirstOf
<1>3. b = [i \in 1 .. Len(items) - at |-> items[at + i]] /\ Len(b) = Len(items) - at
  BY <1>1 DEF RestOf
<1>4. a \in Seq(S) /\ b \in Seq(S)
  <2>1. \A i \in 1 .. at : items[i] \in S
    BY <1>1
  <2>2. \A i \in 1 .. Len(items) - at : items[at + i] \in S
    <3>1. \A i \in 1 .. Len(items) - at : at + i \in 1 .. Len(items)
      BY <1>1
    <3> QED BY <1>1, <3>1
  <2> HIDE DEF a, b
  <2>3. a \in [1 .. at -> S] /\ at \in Nat
    BY <1>2, <2>1
  <2>4. b \in [1 .. Len(items) - at -> S] /\ Len(items) - at \in Nat
    BY <1>1, <1>3, <2>2
  <2>5. a \in Seq(S)
    BY <2>3
  <2>6. b \in Seq(S)
    BY <2>4
  <2> QED BY <2>5, <2>6
<1> HIDE DEF a, b
<1>5. a \o b = items
  <2> DEFINE c == a \o b
  <2>1. c \in Seq(S) /\ Len(c) = Len(items)
    BY <1>1, <1>2, <1>3, <1>4
  <2>2. \A i \in 1 .. at : c[i] = items[i]
    BY <1>1, <1>2, <1>3, <1>4
  <2>3. \A i \in 1 .. Len(items) - at : c[at + i] = items[at + i]
    BY <1>1, <1>2, <1>3, <1>4
  <2>4. \A i \in 1 .. Len(items) : i \in 1 .. at \/ (i - at \in 1 .. Len(items) - at /\ at + (i - at) = i)
    BY <1>1
  <2> HIDE DEF c
  <2>5. \A i \in 1 .. Len(items) : c[i] = items[i]
    BY <2>2, <2>3, <2>4
  <2>6. c = items
    BY <1>1, <2>1, <2>5
  <2> QED BY <2>6 DEF c
<1>6. a # << >> /\ b # << >>
  BY <1>1, <1>2, <1>3
<1> QED BY <1>2, <1>3, <1>4, <1>5, <1>6 DEF a, b

\* A strand in two halves.
LEMMA HalfStrands ==
    ASSUME NEW P, PageMap(P), NEW h \in Nat, NEW xs, Strand(P, h, xs), NEW at \in 1 .. Len(xs) - 1
    PROVE  LET a == FirstOf(xs, at)
               b == RestOf(xs, at)
           IN  /\ Strand(P, h, a) /\ Strand(P, h, b) /\ Apart(P, h, a, b) /\ Joined(P, h, a, b, xs)
               /\ a # << >> /\ b # << >> /\ Len(a) = at /\ Len(b) = Len(xs) - at
<1>1. xs \in Seq(Kind(h))
  BY DEF Strand
<1>2. /\ FirstOf(xs, at) \in Seq(Kind(h)) /\ RestOf(xs, at) \in Seq(Kind(h))
      /\ xs = FirstOf(xs, at) \o RestOf(xs, at)
      /\ Len(FirstOf(xs, at)) = at /\ Len(RestOf(xs, at)) = Len(xs) - at
      /\ FirstOf(xs, at) # << >> /\ RestOf(xs, at) # << >>
  BY <1>1, Halves
<1> QED BY <1>2, CutStrand

\* A level that was not written because of an error.
LEMMA LevelFails ==
    ASSUME NEW st, GoodState(st), NEW h, NEW rows, NEW own
    PROVE  Level(st, Fail(st), h, rows, own)
<1> DEFINE u == Fail(st)
<1>1. u.err = TRUE /\ GoodState(u) /\ Evolves(st, u)
  BY AsideFail
<1> HIDE DEF u
<1>2. Level(st, u, h, rows, own)
  BY <1>1 DEF Level
<1> QED BY <1>2 DEF u

\* The second half, after the first was written.
LEMMA RestStands ==
    ASSUME NEW st, GoodState(st), NEW t, GoodState(t), Evolves(st, t), NEW h \in Nat, NEW xs,
           Strand(st.pages, h, xs), PagesOf(st.pages, h, xs) \cap Free(st) = {}
    PROVE  /\ Strand(t.pages, h, xs) /\ RowsOf(t.pages, h, xs) = RowsOf(st.pages, h, xs)
           /\ PagesOf(t.pages, h, xs) = PagesOf(st.pages, h, xs)
           /\ PagesOf(t.pages, h, xs) \cap Free(t) = {}
<1>1. PageMap(st.pages) /\ PageMap(t.pages)
  BY DEF GoodState
<1>2. Keeps(st.pages, t.pages, PagesOf(st.pages, h, xs))
  BY EvolvesKeeps
<1>3. /\ Strand(t.pages, h, xs) /\ RowsOf(t.pages, h, xs) = RowsOf(st.pages, h, xs)
      /\ PagesOf(t.pages, h, xs) = PagesOf(st.pages, h, xs)
  BY <1>1, <1>2, StrandSame
<1> QED BY <1>3, FreeShrinks

\* commit_leaf_level writes the entries as one leaf, or as two when they do
\* not fit.
LEMMA LeafLevelGood ==
    ASSUME NEW st, GoodState(st), NEW entries, Strand(st.pages, 0, entries), entries # << >>,
           PagesOf(st.pages, 0, entries) \cap Free(st) = {}
    PROVE  Level(st, LeafLevel(st, entries), 1, RowsOf(st.pages, 0, entries),
                 PagesOf(st.pages, 0, entries))
<1> DEFINE u == LeafLevel(st, entries)
           s == Returns(st, << >>)
           at == ChooseSplit(LeafSizes(entries), 1)
           rows == RowsOf(st.pages, 0, entries)
           own == PagesOf(st.pages, 0, entries)
<1>0. /\ GoodState(s) /\ Evolves(st, s) /\ Free(s) = Free(st) /\ s.pages = st.pages
  BY AsideReturns
<1>1. CASE Fits(LeafSizes(entries))
  <2>1. u = CommitLeaf(s, entries)
    BY <1>1 DEF LeafLevel
  <2> HIDE DEF s, u
  <2>2. OneMore(s, u, 1, RowsOf(s.pages, 0, entries), PagesOf(s.pages, 0, entries))
    BY <1>0, <2>1, CommitLeafGood
  <2>3. OneMore(s, u, 1, rows, own)
    BY <1>0, <2>2
  <2> HIDE DEF rows, own
  <2>4. Level(st, u, 1, rows, own)
    BY <2>3, OneLevel, 1 \in Nat \ {0} DEF s
  <2> QED BY <2>4 DEF u, rows, own
<1>2. CASE ~Fits(LeafSizes(entries)) /\ at = 0
  <2>1. u = Fail(st)
    BY <1>2 DEF LeafLevel
  <2> HIDE DEF u, rows, own
  <2>2. Level(st, u, 1, rows, own)
    BY <2>1, LevelFails
  <2> QED BY <2>2 DEF u, rows, own
<1>3. CASE ~Fits(LeafSizes(entries)) /\ at # 0
  <2> DEFINE a == FirstOf(entries, at)
             b == RestOf(entries, at)
             t == CommitLeaf(s, a)
  <2>1. u = CommitLeaf(t, b)
    BY <1>3 DEF LeafLevel
  <2>2. at \in 1 .. Len(entries) - 1
    <3>1. entries \in Seq(Cell) /\ \A i \in DOMAIN entries : ItemOk(st.pages, 0, entries[i])
      BY DEF Strand, Kind
    <3>2. Len(LeafSizes(entries)) = Len(entries) /\ \A i \in 1 .. Len(entries) : LeafSizes(entries)[i] \in Nat
      BY <3>1, LeafSizesAreNumbers
    <3>3. Len(entries) \in Nat
      BY <3>1
    <3>4. ChooseSplit(LeafSizes(entries), 1) \in {0} \cup (1 .. Len(LeafSizes(entries)) - 1)
      BY <3>2, <3>3, SplitRange, 1 \in Nat \ {0}
    <3> QED BY <1>3, <3>2, <3>4
  <2> HIDE DEF at, s
  <2>3. /\ Strand(st.pages, 0, a) /\ Strand(st.pages, 0, b) /\ Apart(st.pages, 0, a, b)
        /\ Joined(st.pages, 0, a, b, entries) /\ a # << >> /\ b # << >>
    <3>1. PageMap(st.pages) /\ 0 \in Nat
      BY DEF GoodState
    <3> QED BY <2>2, <3>1, HalfStrands
  <2> HIDE DEF a, b, u, t
  <2> DEFINE rows1 == RowsOf(st.pages, 0, a)
             own1 == PagesOf(st.pages, 0, a)
             rows2 == RowsOf(st.pages, 0, b)
             own2 == PagesOf(st.pages, 0, b)
  <2>4. /\ rows = rows1 \cup rows2 /\ own = own1 \cup own2 /\ own1 \cap own2 = {} /\ Before(rows1, rows2)
        /\ own1 \cap Free(st) = {} /\ own2 \cap Free(st) = {}
    BY <2>3 DEF Apart, Joined
  <2>5. OneMore(s, t, 1, rows1, own1)
    <3>1. OneMore(s, t, 1, RowsOf(s.pages, 0, a), PagesOf(s.pages, 0, a))
      <4>1. Strand(s.pages, 0, a) /\ PagesOf(s.pages, 0, a) \cap Free(s) = {}
        BY <1>0, <2>3, <2>4
      <4> QED BY <1>0, <2>3, <4>1, CommitLeafGood DEF t
    <3> QED BY <1>0, <3>1
  <2>6. GoodState(t) /\ Evolves(st, t)
    <3>1. GoodState(t) /\ Evolves(s, t)
      BY <2>5 DEF OneMore
    <3> QED BY <1>0, <3>1, EvolvesFurther
  <2>7. /\ Strand(t.pages, 0, b) /\ RowsOf(t.pages, 0, b) = rows2 /\ PagesOf(t.pages, 0, b) = own2
        /\ PagesOf(t.pages, 0, b) \cap Free(t) = {}
    <3>1. 0 \in Nat
      OBVIOUS
    <3> QED BY <2>3, <2>4, <2>6, <3>1, RestStands
  <2>8. OneMore(t, u, 1, rows2, own2)
    <3>1. OneMore(t, u, 1, RowsOf(t.pages, 0, b), PagesOf(t.pages, 0, b))
      BY <2>1, <2>3, <2>6, <2>7, CommitLeafGood
    <3> QED BY <2>7, <3>1
  <2> HIDE DEF rows, own, rows1, own1, rows2, own2
  <2>9. Level(st, u, 1, rows1 \cup rows2, own1 \cup own2)
    BY <2>4, <2>5, <2>8, TwoLevel, 1 \in Nat \ {0} DEF s
  <2>10. Level(st, u, 1, rows, own)
    BY <2>4, <2>9
  <2> QED BY <2>10 DEF u, rows, own
<1> QED BY <1>1, <1>2, <1>3

\* Cells of which any three fit into a page leave two on each side of the
\* most balanced division.
Rising(left, n, c) == \A i \in 1 .. n : left[i - 1] < left[i] /\ left[i] <= left[i - 1] + c

\* choose_split on four or more cells, any three of which fit into a page:
\* two remain on each side.
LEMMA WideSplit ==
    ASSUME NEW left, NEW total \in Nat, NEW n \in Nat, n >= 4, NEW c \in Nat, 3 * c <= PageBody, total > PageBody,
           \A i \in 0 .. n : left[i] \in Nat, left[0] = 0, left[n] = total,
           Rising(left, n, c)
    PROVE  SplitAt(left, total, n, 1) \in {0} \cup (2 .. n - 2)
<1> DEFINE g(i) == Gap(left[i], total - left[i])
           fit == {i \in 1 .. n - 1 : left[i] <= PageBody /\ total - left[i] <= PageBody}
           at == SplitAt(left, total, n, 1)
<1>0. PageBody \in Nat
  BY DEF PageBody
<1>1. CASE fit = {}
  BY <1>1 DEF SplitAt, MostBalanced
<1>2. CASE fit # {}
  <2>1. at = MostBalanced(left, total, fit)
    BY DEF SplitAt
  <2>2. \A i \in 0 .. n : left[i] \in Nat /\ g(i) \in Nat
    BY DEF Gap
  <2>3. fit \in SUBSET Nat /\ fit \subseteq 1 .. n - 1 /\ \A i \in fit : left[i] \in Nat
    OBVIOUS
  <2>4. at \in fit
    <3> HIDE DEF fit, at
    <3> QED BY <1>2, <2>1, <2>3, BalancedIsOne
  <2>5. \A j \in fit : g(at) <= g(j)
    <3> HIDE DEF fit, at
    <3> QED BY <1>2, <2>1, <2>3, BalancedIsOne
  <2> HIDE DEF at
  <2>6. at # 1
    <3> SUFFICES ASSUME at = 1 PROVE FALSE
      OBVIOUS
    <3>1. /\ left[1] \in Nat /\ left[2] \in Nat /\ left[1] > 0 /\ left[1] <= c
          /\ left[1] < left[2] /\ left[2] <= left[1] + c
      <4>1. 1 \in 1 .. n /\ 2 \in 1 .. n /\ 1 - 1 = 0 /\ 2 - 1 = 1 /\ 1 \in 0 .. n /\ 2 \in 0 .. n /\ 0 \in 0 .. n
        OBVIOUS
      <4>2. left[1 - 1] < left[1] /\ left[1] <= left[1 - 1] + c /\ left[2 - 1] < left[2] /\ left[2] <= left[2 - 1] + c
        BY <4>1 DEF Rising
      <4>3. left[0] < left[1] /\ left[1] <= left[0] + c /\ left[1] < left[2] /\ left[2] <= left[1] + c
        BY <4>1, <4>2
      <4> QED BY <4>1, <4>3
    <3>2. total - left[1] <= PageBody
      BY <2>4
    <3>3. 2 \in 1 .. n - 1 /\ left[2] <= PageBody /\ total - left[2] <= PageBody
      BY <1>0, <3>1, <3>2
    <3>4. g(1) <= g(2)
      BY <2>5, <3>3
    <3>5. g(1) = total - left[1] - left[1]
      BY <1>0, <3>1 DEF Gap
    <3>6. g(2) < total - left[1] - left[1]
      BY <1>0, <3>1 DEF Gap
    <3> HIDE DEF g
    <3> QED BY <2>2, <3>1, <3>4, <3>5, <3>6
  <2>7. at # n - 1
    <3> SUFFICES ASSUME at = n - 1 PROVE FALSE
      OBVIOUS
    <3>1. /\ left[n - 1] \in Nat /\ left[n - 2] \in Nat /\ left[n - 1] < total /\ total <= left[n - 1] + c
          /\ left[n - 2] < left[n - 1] /\ left[n - 1] <= left[n - 2] + c
      <4>1. n \in 1 .. n /\ n - 1 \in 1 .. n /\ (n - 1) - 1 = n - 2 /\ n - 1 \in 0 .. n /\ n - 2 \in 0 .. n
        OBVIOUS
      <4>2. /\ left[n - 1] < left[n] /\ left[n] <= left[n - 1] + c
            /\ left[(n - 1) - 1] < left[n - 1] /\ left[n - 1] <= left[(n - 1) - 1] + c
        BY <4>1 DEF Rising
      <4> QED BY <4>1, <4>2
    <3>2. left[n - 1] <= PageBody
      BY <2>4
    <3>3. n - 2 \in 1 .. n - 1 /\ left[n - 2] <= PageBody /\ total - left[n - 2] <= PageBody
      BY <1>0, <3>1, <3>2
    <3>4. g(n - 1) <= g(n - 2)
      BY <2>5, <3>3
    <3>5. g(n - 1) = left[n - 1] - (total - left[n - 1])
      BY <1>0, <3>1 DEF Gap
    <3>6. g(n - 2) < left[n - 1] - (total - left[n - 1])
      BY <1>0, <3>1 DEF Gap
    <3>7. g(n - 1) \in Nat /\ g(n - 2) \in Nat
      <4>1. n - 1 \in 0 .. n /\ n - 2 \in 0 .. n
        OBVIOUS
      <4> HIDE DEF g, fit
      <4> QED BY <2>2, <4>1
    <3> HIDE DEF g
    <3> QED BY <3>1, <3>4, <3>5, <3>6, <3>7
  <2> QED BY <2>3, <2>4, <2>6, <2>7 DEF at
<1> QED BY <1>1, <1>2

\* commit_internal_level leaves two children at least on each side.
LEMMA InternalSplit ==
    ASSUME NEW refs \in Seq(Ref), Len(refs) >= 2, ~Fits(InternalSizes(refs)), NEW fewest \in {1, 2},
           fewest = 2 \/ SeparatorsAreShort
    PROVE  ChooseSplit(InternalSizes(refs), fewest) \in {0} \cup (2 .. Len(refs) - 2)
<1> DEFINE sizes == InternalSizes(refs)
           n == Len(refs)
           left == Prefix(sizes)
           total == left[n]
<1>1. /\ n \in Nat /\ Len(sizes) = n /\ \A i \in 1 .. n : sizes[i] = InternalCellSize(refs[i]) /\ sizes[i] \in Nat
      /\ \A i \in 1 .. n : refs[i] \in Ref
  <2>1. DOMAIN refs = 1 .. n /\ n \in Nat /\ \A i \in DOMAIN refs : refs[i] \in Ref
    BY SeqFacts
  <2> QED BY <2>1, InternalSizesAreNumbers
<1> HIDE DEF sizes, n
<1>2. CASE fewest = 2
  <2>1. ChooseSplit(sizes, 2) \in {0} \cup (2 .. Len(sizes) - 2)
    BY <1>1, SplitRange, 2 \in Nat \ {0}
  <2> QED BY <1>1, <1>2, <2>1 DEF sizes, n
<1>3. CASE fewest = 1 /\ SeparatorsAreShort
  <2>1. /\ \A i \in 0 .. n : left[i] \in Nat
        /\ left[0] = 0 /\ \A i \in 1 .. n : left[i] = left[i - 1] + sizes[i]
    BY <1>1, SumsAreNumbers, PrefixSums
  <2>2. PICK c \in Nat : 3 * c <= PageBody /\ PageBody < 3 * c + 3
    BY SMT DEF PageBody
  <2>3. \A i \in 1 .. n : sizes[i] \in 1 .. c
    <3> TAKE i \in 1 .. n
    <3>1. refs[i].min \in Keys
      BY <1>1 DEF Ref
    <3>2. KeyLen[refs[i].min] \in Nat
      BY <3>1, Lengths
    <3>3. KeyPayload(KeyLen[refs[i].min]) \in Nat
      BY <3>2 DEF KeyPayload, RefLen
    <3>4. sizes[i] = SlotLen + InternalHeaderLen + KeyPayload(KeyLen[refs[i].min])
      BY <1>1 DEF InternalCellSize
    <3>5. 3 * sizes[i] <= PageBody
      BY <1>3, <3>1, <3>4 DEF SeparatorsAreShort
    <3>6. sizes[i] \in Nat /\ sizes[i] > 0 /\ PageBody \in Nat
      BY <3>3, <3>4 DEF SlotLen, InternalHeaderLen, PageBody
    <3> HIDE DEF left
    <3> QED BY <2>2, <3>5, <3>6
  <2>4. ChooseSplit(sizes, 1) = SplitAt(left, total, n, 1) /\ total > PageBody
    <3>1. Total(sizes) = total
      BY <1>1 DEF Total
    <3>2. total \in Nat /\ PageBody \in Nat /\ ~(total <= PageBody)
      BY <1>1, <2>1, <3>1 DEF PageBody, Fits, sizes
    <3> HIDE DEF left, total
    <3>3. ChooseSplit(sizes, 1) = SplitAt(left, total, n, 1)
      BY <1>1, <3>1 DEF ChooseSplit, left
    <3> QED BY <3>2, <3>3
  <2>5. \A i \in 1 .. n : left[i - 1] < left[i] /\ left[i] <= left[i - 1] + c
    <3> TAKE i \in 1 .. n
    <3>1. i - 1 \in 0 .. n /\ left[i - 1] \in Nat /\ sizes[i] \in 1 .. c /\ left[i] = left[i - 1] + sizes[i]
      BY <1>1, <2>1, <2>3
    <3> HIDE DEF left
    <3> QED BY <3>1
  <2> HIDE DEF left
  <2>6. n >= 4
    <3> SUFFICES ASSUME n = 2 \/ n = 3 PROVE FALSE
      BY <1>1 DEF n
    <3>1. left[1] <= c /\ left[1] \in Nat /\ left[2] <= left[1] + c /\ left[2] \in Nat
      <4>1. 1 \in 1 .. n /\ 2 \in 1 .. n /\ 1 - 1 = 0 /\ 2 - 1 = 1 /\ 1 \in 0 .. n /\ 2 \in 0 .. n
        OBVIOUS
      <4>2. left[1] <= left[1 - 1] + c /\ left[2] <= left[2 - 1] + c
        BY <2>5, <4>1
      <4>3. left[1] <= left[0] + c /\ left[2] <= left[1] + c
        BY <4>1, <4>2
      <4> QED BY <2>1, <4>1, <4>3
    <3>2. n = 3 => left[3] <= left[2] + c /\ left[3] \in Nat
      <4>1. 3 - 1 = 2
        OBVIOUS
      <4>2. n = 3 => left[3] <= left[3 - 1] + c /\ left[3] \in Nat
        BY <2>1, <2>5
      <4> QED BY <4>1, <4>2
    <3>3. PageBody \in Nat
      BY DEF PageBody
    <3> QED BY <2>2, <2>4, <3>1, <3>2, <3>3
  <2>7. total \in Nat /\ left[n] = total
    BY <1>1, <2>1
  <2> HIDE DEF total
  <2>8. SplitAt(left, total, n, 1) \in {0} \cup (2 .. n - 2)
    BY <1>1, <2>1, <2>2, <2>4, <2>5, <2>6, <2>7, WideSplit DEF Rising
  <2> QED BY <1>3, <2>4, <2>8 DEF sizes, n
<1> QED BY <1>2, <1>3

\* commit_internal_level writes the children as one internal page, or as
\* two when they do not fit.
LEMMA InternalLevelGood ==
    ASSUME NEW st, GoodState(st), NEW h \in Nat \ {0}, NEW refs, Strand(st.pages, h, refs), Len(refs) >= 2,
           PagesOf(st.pages, h, refs) \cap Free(st) = {},
           NEW fewest \in {1, 2}, fewest = 2 \/ SeparatorsAreShort
    PROVE  Level(st, InternalLevel(st, refs, fewest), h + 1, RowsOf(st.pages, h, refs),
                 PagesOf(st.pages, h, refs))
<1> DEFINE u == InternalLevel(st, refs, fewest)
           s == Returns(st, << >>)
           at == ChooseSplit(InternalSizes(refs), fewest)
           rows == RowsOf(st.pages, h, refs)
           own == PagesOf(st.pages, h, refs)
<1>0. /\ GoodState(s) /\ Evolves(st, s) /\ Free(s) = Free(st) /\ s.pages = st.pages
      /\ h \in Nat /\ h + 1 \in Nat \ {0}
  BY AsideReturns
<1>1. CASE Fits(InternalSizes(refs))
  <2>1. u = CommitInternal(s, refs)
    BY <1>1 DEF InternalLevel
  <2> HIDE DEF s, u
  <2>2. OneMore(s, u, h + 1, RowsOf(s.pages, h, refs), PagesOf(s.pages, h, refs))
    BY <1>0, <2>1, CommitInternalFull
  <2>3. OneMore(s, u, h + 1, rows, own)
    BY <1>0, <2>2
  <2> HIDE DEF rows, own
  <2>4. Level(st, u, h + 1, rows, own)
    BY <1>0, <2>3, OneLevel DEF s
  <2> QED BY <2>4 DEF u, rows, own
<1>2. CASE ~Fits(InternalSizes(refs)) /\ at = 0
  <2>1. u = Fail(st)
    BY <1>2 DEF InternalLevel
  <2> HIDE DEF u, rows, own
  <2>2. Level(st, u, h + 1, rows, own)
    BY <2>1, LevelFails
  <2> QED BY <2>2 DEF u, rows, own
<1>3. CASE ~Fits(InternalSizes(refs)) /\ at # 0
  <2> DEFINE a == FirstOf(refs, at)
             b == RestOf(refs, at)
             t == CommitInternal(s, a)
  <2>1. u = CommitInternal(t, b)
    BY <1>3 DEF InternalLevel
  <2>2. at \in 2 .. Len(refs) - 2
    <3>1. refs \in Seq(Ref)
      BY DEF Strand, Kind
    <3> QED BY <1>3, <3>1, InternalSplit
  <2> HIDE DEF at, s
  <2>3. /\ Strand(st.pages, h, a) /\ Strand(st.pages, h, b) /\ Apart(st.pages, h, a, b)
        /\ Joined(st.pages, h, a, b, refs) /\ Len(a) >= 2 /\ Len(b) >= 2
    <3>1. PageMap(st.pages) /\ at \in 1 .. Len(refs) - 1 /\ refs \in Seq(Kind(h))
      BY <2>2 DEF GoodState, Strand
    <3>2. /\ Strand(st.pages, h, a) /\ Strand(st.pages, h, b) /\ Apart(st.pages, h, a, b)
          /\ Joined(st.pages, h, a, b, refs) /\ Len(a) = at /\ Len(b) = Len(refs) - at
      BY <1>0, <3>1, HalfStrands
    <3>3. Len(refs) \in Nat
      BY <3>1
    <3> QED BY <2>2, <3>2, <3>3
  <2> HIDE DEF a, b, u, t
  <2> DEFINE rows1 == RowsOf(st.pages, h, a)
             own1 == PagesOf(st.pages, h, a)
             rows2 == RowsOf(st.pages, h, b)
             own2 == PagesOf(st.pages, h, b)
  <2>4. /\ rows = rows1 \cup rows2 /\ own = own1 \cup own2 /\ own1 \cap own2 = {} /\ Before(rows1, rows2)
        /\ own1 \cap Free(st) = {} /\ own2 \cap Free(st) = {}
    BY <2>3 DEF Apart, Joined
  <2>5. OneMore(s, t, h + 1, rows1, own1)
    <3>1. OneMore(s, t, h + 1, RowsOf(s.pages, h, a), PagesOf(s.pages, h, a))
      <4>1. Strand(s.pages, h, a) /\ PagesOf(s.pages, h, a) \cap Free(s) = {}
        BY <1>0, <2>3, <2>4
      <4> QED BY <1>0, <2>3, <4>1, CommitInternalFull DEF t
    <3> QED BY <1>0, <3>1
  <2>6. GoodState(t) /\ Evolves(st, t)
    <3>1. GoodState(t) /\ Evolves(s, t)
      BY <2>5 DEF OneMore
    <3> QED BY <1>0, <3>1, EvolvesFurther
  <2>7. /\ Strand(t.pages, h, b) /\ RowsOf(t.pages, h, b) = rows2 /\ PagesOf(t.pages, h, b) = own2
        /\ PagesOf(t.pages, h, b) \cap Free(t) = {}
    BY <1>0, <2>3, <2>4, <2>6, RestStands
  <2>8. OneMore(t, u, h + 1, rows2, own2)
    <3>1. OneMore(t, u, h + 1, RowsOf(t.pages, h, b), PagesOf(t.pages, h, b))
      BY <2>1, <2>3, <2>6, <2>7, CommitInternalFull
    <3> QED BY <2>7, <3>1
  <2> HIDE DEF rows, own, rows1, own1, rows2, own2
  <2>9. Level(st, u, h + 1, rows1 \cup rows2, own1 \cup own2)
    BY <1>0, <2>4, <2>5, <2>8, TwoLevel DEF s
  <2>10. Level(st, u, h + 1, rows, own)
    BY <2>4, <2>9
  <2> QED BY <2>10 DEF u, rows, own
<1> QED BY <1>1, <1>2, <1>3

\* The rows and the pages of a part of a sequence of items.
RowsIn(P, h, xs, i, j) == UNION {ItemRows(P, h, xs[k]) : k \in i .. j}
PagesIn(P, h, xs, i, j) == UNION {ItemPages(P, h, xs[k]) : k \in i .. j}

\* The elements of a part of a sequence.
LEMMA SubSeqFacts ==
    ASSUME NEW S, NEW xs \in Seq(S), NEW i \in Nat \ {0}, NEW j \in 0 .. Len(xs), i <= j + 1
    PROVE  LET c == SubSeq(xs, i, j)
           IN  /\ c \in Seq(S) /\ Len(c) = j + 1 - i /\ Len(c) \in Nat /\ DOMAIN c = 1 .. j + 1 - i
               /\ \A k \in 1 .. j + 1 - i : i + k - 1 \in i .. j /\ c[k] = xs[i + k - 1]
<1> DEFINE c == SubSeq(xs, i, j)
           n == j + 1 - i
<1>1. Len(xs) \in Nat /\ DOMAIN xs = 1 .. Len(xs) /\ n \in Nat /\ \A k \in DOMAIN xs : xs[k] \in S
  BY SeqFacts
<1>2. c = [k \in 1 .. n |-> xs[i + k - 1]] /\ Len(c) = n
  BY <1>1
<1>3. \A k \in 1 .. n : i + k - 1 \in i .. j /\ i + k - 1 \in DOMAIN xs
  BY <1>1
<1> HIDE DEF c
<1>4. c \in [1 .. n -> S]
  BY <1>1, <1>2, <1>3
<1>5. c \in Seq(S)
  BY <1>1, <1>4
<1> QED BY <1>1, <1>2, <1>3, <1>5 DEF c

\* A part of a strand is a strand.
LEMMA PartStrand ==
    ASSUME NEW P, NEW h \in Nat, NEW xs, Strand(P, h, xs), NEW i \in Nat \ {0}, NEW j \in 0 .. Len(xs), i <= j + 1
    PROVE  LET c == SubSeq(xs, i, j)
           IN  /\ Strand(P, h, c) /\ RowsOf(P, h, c) = RowsIn(P, h, xs, i, j)
               /\ PagesOf(P, h, c) = PagesIn(P, h, xs, i, j)
               /\ Len(c) = j + 1 - i
<1> DEFINE c == SubSeq(xs, i, j)
           n == j + 1 - i
<1>1. /\ xs \in Seq(Kind(h)) /\ \A k \in DOMAIN xs : ItemOk(P, h, xs[k])
      /\ Len(xs) \in Nat /\ DOMAIN xs = 1 .. Len(xs) /\ n \in Nat
  BY SeqFacts DEF Strand
<1>2. /\ c \in Seq(Kind(h)) /\ Len(c) = n /\ DOMAIN c = 1 .. n
      /\ \A k \in 1 .. n : i + k - 1 \in i .. j /\ c[k] = xs[i + k - 1]
  BY <1>1, SubSeqFacts
<1> HIDE DEF c
<1>3. \A k \in 1 .. n : i + k - 1 \in DOMAIN xs
  BY <1>1
<1>4. \A m \in i .. j : m - i + 1 \in 1 .. n /\ i + (m - i + 1) - 1 = m
  BY <1>1
<1> HIDE DEF n
<1>5. \A m \in i .. j : m - i + 1 \in DOMAIN c /\ c[m - i + 1] = xs[m]
  BY <1>2, <1>4
<1>6. RowsOf(P, h, c) = RowsIn(P, h, xs, i, j)
  <2>1. RowsOf(P, h, c) \subseteq RowsIn(P, h, xs, i, j)
    BY <1>2 DEF RowsOf, RowsIn
  <2>2. RowsIn(P, h, xs, i, j) \subseteq RowsOf(P, h, c)
    BY <1>5 DEF RowsOf, RowsIn
  <2> QED BY <2>1, <2>2
<1>7. PagesOf(P, h, c) = PagesIn(P, h, xs, i, j)
  <2>1. PagesOf(P, h, c) \subseteq PagesIn(P, h, xs, i, j)
    BY <1>2 DEF PagesOf, PagesIn
  <2>2. PagesIn(P, h, xs, i, j) \subseteq PagesOf(P, h, c)
    BY <1>5 DEF PagesOf, PagesIn
  <2> QED BY <2>1, <2>2
<1>8. Strand(P, h, c)
  <2>1. \A k \in DOMAIN c : ItemOk(P, h, c[k])
    BY <1>1, <1>2, <1>3
  <2>2. \A k, m \in DOMAIN c :
          k < m => /\ Before(ItemRows(P, h, c[k]), ItemRows(P, h, c[m]))
                   /\ ItemPages(P, h, c[k]) \cap ItemPages(P, h, c[m]) = {}
    <3> SUFFICES ASSUME NEW k \in DOMAIN c, NEW m \in DOMAIN c, k < m
                 PROVE  /\ Before(ItemRows(P, h, c[k]), ItemRows(P, h, c[m]))
                        /\ ItemPages(P, h, c[k]) \cap ItemPages(P, h, c[m]) = {}
      OBVIOUS
    <3>1. /\ i + k - 1 \in DOMAIN xs /\ i + m - 1 \in DOMAIN xs /\ i + k - 1 < i + m - 1
          /\ c[k] = xs[i + k - 1] /\ c[m] = xs[i + m - 1]
      BY <1>2, <1>3
    <3> QED BY <3>1 DEF Strand
  <2> QED BY <1>2, <2>1, <2>2 DEF Strand
<1> QED BY <1>2, <1>6, <1>7, <1>8 DEF c, n

\* Two parts of a strand that do not overlap are apart from each other.
LEMMA InParts ==
    ASSUME NEW P, NEW h \in Nat, NEW xs, Strand(P, h, xs), NEW i \in Nat \ {0}, NEW j \in Nat, NEW k \in Nat,
           NEW l \in 0 .. Len(xs), j < k
    PROVE  /\ Before(RowsIn(P, h, xs, i, j), RowsIn(P, h, xs, k, l))
           /\ PagesIn(P, h, xs, i, j) \cap PagesIn(P, h, xs, k, l) = {}
<1>1. Len(xs) \in Nat /\ DOMAIN xs = 1 .. Len(xs)
  BY SeqFacts DEF Strand
<1>2. \A a \in i .. j, b \in k .. l : /\ Before(ItemRows(P, h, xs[a]), ItemRows(P, h, xs[b]))
                                     /\ ItemPages(P, h, xs[a]) \cap ItemPages(P, h, xs[b]) = {}
  <2> TAKE a \in i .. j, b \in k .. l
  <2>1. a \in DOMAIN xs /\ b \in DOMAIN xs /\ a < b
    BY <1>1
  <2> QED BY <2>1 DEF Strand
<1>3. Before(RowsIn(P, h, xs, i, j), RowsIn(P, h, xs, k, l))
  BY <1>2 DEF Before, RowsIn
<1>4. PagesIn(P, h, xs, i, j) \cap PagesIn(P, h, xs, k, l) = {}
  BY <1>2 DEF PagesIn
<1> QED BY <1>3, <1>4

\* A sequence in three parts.
InThree(P, h, xs, i, j) ==
    /\ RowsOf(P, h, xs) = RowsIn(P, h, xs, 1, i - 1) \cup RowsIn(P, h, xs, i, j)
                            \cup RowsIn(P, h, xs, j + 1, Len(xs))
    /\ PagesOf(P, h, xs) = PagesIn(P, h, xs, 1, i - 1) \cup PagesIn(P, h, xs, i, j)
                             \cup PagesIn(P, h, xs, j + 1, Len(xs))

\* A strand holds what three parts of it hold.
LEMMA InAll ==
    ASSUME NEW P, NEW h \in Nat, NEW xs, Strand(P, h, xs), NEW i \in 1 .. Len(xs) + 1, NEW j \in 0 .. Len(xs),
           i <= j + 1
    PROVE  InThree(P, h, xs, i, j)
<1>1. Len(xs) \in Nat /\ DOMAIN xs = 1 .. Len(xs)
  BY SeqFacts DEF Strand
<1>2. \A k \in 1 .. Len(xs) : k \in 1 .. i - 1 \/ k \in i .. j \/ k \in j + 1 .. Len(xs)
  BY <1>1
<1>3. 1 .. i - 1 \subseteq 1 .. Len(xs) /\ i .. j \subseteq 1 .. Len(xs) /\ j + 1 .. Len(xs) \subseteq 1 .. Len(xs)
  BY <1>1
<1>4. RowsOf(P, h, xs) = RowsIn(P, h, xs, 1, i - 1) \cup RowsIn(P, h, xs, i, j)
                                    \cup RowsIn(P, h, xs, j + 1, Len(xs))
  BY <1>1, <1>2, <1>3 DEF RowsOf, RowsIn
<1>5. PagesOf(P, h, xs) = PagesIn(P, h, xs, 1, i - 1) \cup PagesIn(P, h, xs, i, j)
                                    \cup PagesIn(P, h, xs, j + 1, Len(xs))
  BY <1>1, <1>2, <1>3 DEF PagesOf, PagesIn
<1> QED BY <1>4, <1>5 DEF InThree

\* One item.
LEMMA InOne ==
    ASSUME NEW P, NEW h, NEW xs, NEW i \in Int
    PROVE  RowsIn(P, h, xs, i, i) = ItemRows(P, h, xs[i]) /\ PagesIn(P, h, xs, i, i) = ItemPages(P, h, xs[i])
<1>1. i .. i = {i}
  OBVIOUS
<1> QED BY <1>1 DEF RowsIn, PagesIn

\* An empty part of a strand holds nothing.
LEMMA InNone ==
    ASSUME NEW P, NEW h, NEW xs, NEW i \in Int, NEW j \in Int, j < i
    PROVE  RowsIn(P, h, xs, i, j) = {} /\ PagesIn(P, h, xs, i, j) = {}
<1>1. i .. j = {}
  OBVIOUS
<1> QED BY <1>1 DEF RowsIn, PagesIn

\* Some items in the place of a part of a strand.
Fitting(P, h, xs, i, j, ys) ==
    /\ Before(RowsIn(P, h, xs, 1, i - 1), RowsOf(P, h, ys))
    /\ Before(RowsOf(P, h, ys), RowsIn(P, h, xs, j + 1, Len(xs)))
    /\ PagesIn(P, h, xs, 1, i - 1) \cap PagesOf(P, h, ys) = {}
    /\ PagesOf(P, h, ys) \cap PagesIn(P, h, xs, j + 1, Len(xs)) = {}

\* A strand, a part of which is b.
Amid(P, h, a, b, c, t) ==
    /\ Strand(P, h, t)
    /\ RowsOf(P, h, t) = RowsOf(P, h, a) \cup RowsOf(P, h, b) \cup RowsOf(P, h, c)
    /\ PagesOf(P, h, t) = PagesOf(P, h, a) \cup PagesOf(P, h, b) \cup PagesOf(P, h, c)
    /\ Len(t) = Len(a) + Len(b) + Len(c)

\* Three strands apart from each other, one after the other, are a strand.
LEMMA ThreeStrands ==
    ASSUME NEW P, NEW h \in Nat, NEW a, NEW b, NEW c, NEW m, NEW t, m = a \o b, t = m \o c,
           Strand(P, h, a), Strand(P, h, b), Strand(P, h, c),
           Apart(P, h, a, b), Apart(P, h, a, c), Apart(P, h, b, c)
    PROVE  Amid(P, h, a, b, c, t)
<1>1. Strand(P, h, m) /\ Joined(P, h, a, b, m)
  BY JoinedStrand
<1>2. Apart(P, h, m, c)
  BY <1>1 DEF Apart, Joined, Before
<1>3. Strand(P, h, t) /\ Joined(P, h, m, c, t)
  BY <1>1, <1>2, JoinedStrand
<1>4. a \in Seq(Kind(h)) /\ b \in Seq(Kind(h)) /\ c \in Seq(Kind(h)) /\ m \in Seq(Kind(h))
  BY <1>1 DEF Strand
<1>5. Len(m) = Len(a) + Len(b)
  BY <1>4
<1>6. Len(t) = Len(m) + Len(c)
  BY <1>4
<1>7. Len(t) = Len(a) + Len(b) + Len(c)
  BY <1>5, <1>6
<1> QED BY <1>1, <1>3, <1>7 DEF Joined, Amid

Replaced(P, h, xs, i, j, ys, t) ==
    /\ Strand(P, h, t)
    /\ RowsOf(P, h, t) = RowsIn(P, h, xs, 1, i - 1) \cup RowsOf(P, h, ys)
                            \cup RowsIn(P, h, xs, j + 1, Len(xs))
    /\ PagesOf(P, h, t) = PagesIn(P, h, xs, 1, i - 1) \cup PagesOf(P, h, ys)
                             \cup PagesIn(P, h, xs, j + 1, Len(xs))
    /\ Len(t) = (i - 1) + Len(ys) + (Len(xs) - j)

\* Replacing a part of a strand by a strand that fits in its place gives a
\* strand.
LEMMA SpliceStrand ==
    ASSUME NEW P, NEW h \in Nat, NEW xs, Strand(P, h, xs), NEW i \in 1 .. Len(xs) + 1, NEW j \in 0 .. Len(xs),
           i <= j + 1, NEW ys, Strand(P, h, ys), Fitting(P, h, xs, i, j, ys)
    PROVE  Replaced(P, h, xs, i, j, ys, Splice(xs, i, j, ys))
<1>1. Len(xs) \in Nat /\ Len(ys) \in Nat
  BY SeqFacts DEF Strand
<1>2. PICK a : a = SubSeq(xs, 1, i - 1)
  OBVIOUS
<1>3. PICK c : c = SubSeq(xs, j + 1, Len(xs))
  OBVIOUS
<1>4. PICK m : m = a \o ys
  OBVIOUS
<1>5. PICK t : t = m \o c
  OBVIOUS
<1>6. t = Splice(xs, i, j, ys)
  BY <1>2, <1>3, <1>4, <1>5 DEF Splice
<1>7. /\ Strand(P, h, a) /\ RowsOf(P, h, a) = RowsIn(P, h, xs, 1, i - 1)
      /\ PagesOf(P, h, a) = PagesIn(P, h, xs, 1, i - 1) /\ Len(a) = i - 1
  <2>1. 1 \in Nat \ {0} /\ i - 1 \in 0 .. Len(xs) /\ 1 <= (i - 1) + 1 /\ (i - 1) + 1 - 1 = i - 1
    BY <1>1
  <2> QED BY <1>2, <2>1, PartStrand
<1>8. /\ Strand(P, h, c) /\ RowsOf(P, h, c) = RowsIn(P, h, xs, j + 1, Len(xs))
      /\ PagesOf(P, h, c) = PagesIn(P, h, xs, j + 1, Len(xs)) /\ Len(c) = Len(xs) - j
  <2>1. j + 1 \in Nat \ {0} /\ Len(xs) \in 0 .. Len(xs) /\ j + 1 <= Len(xs) + 1 /\ Len(xs) + 1 - (j + 1) = Len(xs) - j
    BY <1>1
  <2> QED BY <1>3, <2>1, PartStrand
<1>9. /\ Before(RowsIn(P, h, xs, 1, i - 1), RowsIn(P, h, xs, j + 1, Len(xs)))
      /\ PagesIn(P, h, xs, 1, i - 1) \cap PagesIn(P, h, xs, j + 1, Len(xs)) = {}
  <2>1. 1 \in Nat \ {0} /\ i - 1 \in Nat /\ j + 1 \in Nat /\ Len(xs) \in 0 .. Len(xs) /\ i - 1 < j + 1
    BY <1>1
  <2> QED BY <2>1, InParts
<1>10. Apart(P, h, a, c)
  BY <1>7, <1>8, <1>9 DEF Apart
<1>11. Apart(P, h, a, ys) /\ Apart(P, h, ys, c)
  BY <1>7, <1>8 DEF Apart, Fitting
<1>12. Amid(P, h, a, ys, c, t)
  BY <1>4, <1>5, <1>7, <1>8, <1>10, <1>11, ThreeStrands
<1> QED BY <1>6, <1>7, <1>8, <1>12 DEF Amid, Replaced

\* The rows with the key replaced by the new ones, of which there is at most
\* one: what put and delete make of the rows.
Change(rows, key, new) == {r \in rows : r.key # key} \cup new
OfKey(new, key) == new \subseteq KV /\ \A r \in new : r.key = key

\* The items before i have lower keys, those after j greater ones.
Around(P, h, xs, i, j, key) ==
    /\ \A r \in RowsIn(P, h, xs, 1, i - 1) : r.key < key
    /\ \A r \in RowsIn(P, h, xs, j + 1, Len(xs)) : key < r.key

\* The greatest element of a bounded set of numbers.
LEMMA GreatestOf ==
    ASSUME NEW S \in SUBSET Nat, S # {}, NEW b \in Nat, \A k \in S : k <= b
    PROVE  Max(S) \in S /\ \A k \in S : k <= Max(S)
<1>1. PICK m \in S : \A k \in S : k <= m
  BY GreatestNatural
<1>2. m \in S /\ \A y \in S : m >= y
  BY <1>1
<1> QED BY <1>2 DEF Max

\* route_child picks the child around the key: those before it have lower
\* keys, those after it greater ones.
LEMMA RouteGood ==
    ASSUME NEW P, PageMap(P), NEW h \in Nat \ {0}, NEW refs, Strand(P, h, refs), refs # << >>, NEW key \in Nat
    PROVE  Route(refs, key) \in 1 .. Len(refs) /\ Around(P, h, refs, Route(refs, key), Route(refs, key), key)
<1> DEFINE S == {1} \cup {k \in DOMAIN refs : refs[k].min <= key}
<1>1. /\ refs \in Seq(Ref) /\ Len(refs) \in Nat /\ DOMAIN refs = 1 .. Len(refs)
      /\ \A k \in DOMAIN refs : refs[k] \in Kind(h) /\ refs[k] \in Ref /\ ItemOk(P, h, refs[k])
  BY StrandParts DEF Kind
<1>2. Len(refs) >= 1
  BY <1>1
<1>3. S \in SUBSET Nat /\ S # {} /\ \A k \in S : k <= Len(refs)
  BY <1>1, <1>2
<1> HIDE DEF S
<1>4. PICK i \in S : i = Max(S) /\ \A k \in S : k <= i
  BY <1>1, <1>3, GreatestOf
<1>5. i = Route(refs, key)
  BY <1>4 DEF Route, S
<1>6. i \in 1 .. Len(refs) /\ (i = 1 \/ refs[i].min <= key)
  BY <1>1, <1>2, <1>3, <1>4 DEF S
<1>7. ASSUME NEW r \in RowsIn(P, h, refs, 1, i - 1) PROVE r.key < key
  <2>1. PICK k \in 1 .. i - 1 : r \in ItemRows(P, h, refs[k])
    BY DEF RowsIn
  <2>2. k \in DOMAIN refs /\ i \in DOMAIN refs /\ k < i /\ refs[i].min <= key
    BY <1>1, <1>6
  <2>3. PICK q \in ItemRows(P, h, refs[i]) : q.key = refs[i].min
    BY <1>1, <2>2, ItemFacts
  <2>4. r.key < q.key
    BY <2>1, <2>2 DEF Strand, Before
  <2>5. r \in KV /\ refs[i].min \in Nat
    BY <1>1, <2>1, <2>2, ItemFacts, KeysAreOrdered DEF Ref
  <2> QED BY <2>2, <2>3, <2>4, <2>5, KeysAreNumbers
<1>8. ASSUME NEW r \in RowsIn(P, h, refs, i + 1, Len(refs)) PROVE key < r.key
  <2>1. PICK k \in i + 1 .. Len(refs) : r \in ItemRows(P, h, refs[k])
    BY DEF RowsIn
  <2>2. k \in DOMAIN refs /\ ~(k <= i)
    BY <1>1, <1>6
  <2>3. ~(refs[k].min <= key)
    BY <1>4, <2>2 DEF S
  <2>4. refs[k].min <= r.key
    BY <1>1, <2>1, <2>2, ItemFacts
  <2>5. r \in KV /\ refs[k].min \in Nat
    BY <1>1, <2>1, <2>2, ItemFacts, KeysAreOrdered DEF Ref
  <2> QED BY <2>3, <2>4, <2>5, KeysAreNumbers
<1> QED BY <1>5, <1>6, <1>7, <1>8 DEF Around

\* binary_search.
Searched(P, cells, b, key) ==
    /\ b \in 0 .. Len(cells)
    /\ Holds(Rows(P, cells), b + 1, key) =>
         /\ b + 1 <= Len(cells) /\ Row(P, cells[b + 1]).key = key
         /\ Around(P, 0, cells, b + 1, b + 1, key)
    /\ ~Holds(Rows(P, cells), b + 1, key) =>
         /\ Around(P, 0, cells, b + 1, b, key)
         /\ \A r \in RowsOf(P, 0, cells) : r.key # key

\* The binary search of a leaf finds the entry of the key, or the place
\* where it belongs.
LEMMA SearchGood ==
    ASSUME NEW P, PageMap(P), NEW cells, Strand(P, 0, cells), NEW key \in Nat
    PROVE  Searched(P, cells, Below(Rows(P, cells), key), key)
<1> DEFINE S == {0} \cup {k \in DOMAIN Rows(P, cells) : Rows(P, cells)[k].key < key}
<1>1. /\ Len(cells) \in Nat /\ DOMAIN cells = 1 .. Len(cells) /\ cells \in Seq(Cell)
      /\ \A k \in DOMAIN cells : cells[k] \in Kind(0) /\ ItemOk(P, 0, cells[k])
  <2>1. 0 \in Nat OBVIOUS
  <2> QED BY <2>1, StrandParts DEF Kind
<1>2. DOMAIN Rows(P, cells) = 1 .. Len(cells) /\ \A k \in 1 .. Len(cells) : Rows(P, cells)[k] = Row(P, cells[k])
  BY <1>1 DEF Rows
<1>3. Len(Rows(P, cells)) = Len(cells)
  BY <1>1, <1>2
<1>4. \A k \in 1 .. Len(cells) : Row(P, cells[k]) \in KV /\ Row(P, cells[k]).key \in Nat
  BY <1>1, KeysAreNumbers DEF ItemOk
<1>5. S \in SUBSET Nat /\ S # {} /\ \A k \in S : k <= Len(cells)
  BY <1>1, <1>2
<1>6. PICK b \in S : b = Max(S) /\ \A k \in S : k <= b
  <2> HIDE DEF S
  <2> QED BY <1>1, <1>5, GreatestOf
<1>7. b = Below(Rows(P, cells), key)
  BY <1>6 DEF Below
<1>8. b \in 0 .. Len(cells) /\ b \in Nat
  BY <1>1, <1>5, <1>6
<1>9. \A k, l \in 1 .. Len(cells) : k < l => Row(P, cells[k]).key < Row(P, cells[l]).key
  <2>1. ASSUME NEW k \in 1 .. Len(cells), NEW l \in 1 .. Len(cells), k < l
        PROVE  Row(P, cells[k]).key < Row(P, cells[l]).key
    <3>1. Before(ItemRows(P, 0, cells[k]), ItemRows(P, 0, cells[l]))
      BY <1>1, <2>1 DEF Strand
    <3> QED BY <3>1 DEF Before, ItemRows
  <2> QED BY <2>1
<1>10. \A k \in 1 .. Len(cells) : k <= b => Row(P, cells[k]).key < key
  <2>1. ASSUME NEW k \in 1 .. Len(cells), k <= b PROVE Row(P, cells[k]).key < key
    <3>1. b \in 1 .. Len(cells) /\ Row(P, cells[b]).key < key
      BY <1>2, <1>6, <1>8, <2>1 DEF S
    <3>2. k = b \/ Row(P, cells[k]).key < Row(P, cells[b]).key
      BY <1>8, <1>9, <2>1, <3>1
    <3> QED BY <1>4, <3>1, <3>2
  <2> QED BY <2>1
<1>11. \A k \in 1 .. Len(cells) : k > b => ~(Row(P, cells[k]).key < key)
  BY <1>2, <1>6, <1>8 DEF S
<1> HIDE DEF S
<1>12. ASSUME NEW r \in RowsIn(P, 0, cells, 1, b) PROVE r.key < key
  <2>1. PICK k \in 1 .. b : r \in ItemRows(P, 0, cells[k])
    BY DEF RowsIn
  <2> QED BY <1>8, <1>10, <2>1 DEF ItemRows
<1>13. CASE Holds(Rows(P, cells), b + 1, key)
  <2>1. b + 1 <= Len(cells) /\ Row(P, cells[b + 1]).key = key /\ b + 1 \in 1 .. Len(cells)
    BY <1>1, <1>2, <1>3, <1>8, <1>13 DEF Holds
  <2>2. ASSUME NEW r \in RowsIn(P, 0, cells, b + 1 + 1, Len(cells)) PROVE key < r.key
    <3>1. PICK k \in b + 1 + 1 .. Len(cells) : r \in ItemRows(P, 0, cells[k])
      BY DEF RowsIn
    <3>2. k \in 1 .. Len(cells) /\ b + 1 < k
      BY <1>8, <3>1
    <3> QED BY <1>9, <2>1, <3>1, <3>2 DEF ItemRows
  <2>3. b + 1 - 1 = b
    BY <1>8
  <2> QED BY <1>7, <1>8, <1>12, <1>13, <2>1, <2>2, <2>3 DEF Searched, Around
<1>14. CASE ~Holds(Rows(P, cells), b + 1, key)
  <2>1. ASSUME NEW k \in 1 .. Len(cells), k > b PROVE key < Row(P, cells[k]).key
    <3>1. b + 1 \in 1 .. Len(cells) /\ Row(P, cells[b + 1]).key # key
      BY <1>1, <1>2, <1>3, <1>8, <1>14, <2>1 DEF Holds
    <3>2. ~(Row(P, cells[b + 1]).key < key)
      BY <1>8, <1>11, <3>1
    <3>3. key < Row(P, cells[b + 1]).key
      BY <1>4, <3>1, <3>2
    <3>4. k = b + 1 \/ Row(P, cells[b + 1]).key < Row(P, cells[k]).key
      BY <1>8, <1>9, <2>1, <3>1
    <3> QED BY <1>4, <2>1, <3>1, <3>3, <3>4
  <2>2. ASSUME NEW r \in RowsIn(P, 0, cells, b + 1, Len(cells)) PROVE key < r.key
    <3>1. PICK k \in b + 1 .. Len(cells) : r \in ItemRows(P, 0, cells[k])
      BY DEF RowsIn
    <3>2. k \in 1 .. Len(cells) /\ k > b
      BY <1>8, <3>1
    <3> QED BY <2>1, <3>1, <3>2 DEF ItemRows
  <2>3. b + 1 - 1 = b
    BY <1>8
  <2>4. ASSUME NEW r \in RowsOf(P, 0, cells) PROVE r.key # key
    <3>1. PICK k \in 1 .. Len(cells) : r \in ItemRows(P, 0, cells[k])
      BY <1>1 DEF RowsOf
    <3>2. r.key = Row(P, cells[k]).key /\ r.key \in Nat
      BY <1>4, <3>1 DEF ItemRows
    <3>3. CASE k <= b
      BY <1>10, <3>2, <3>3
    <3>4. CASE k > b
      BY <2>1, <3>2, <3>4
    <3> QED BY <1>8, <3>3, <3>4
  <2> QED BY <1>7, <1>8, <1>12, <1>14, <2>2, <2>3, <2>4 DEF Searched, Around
<1> QED BY <1>13, <1>14

\* What put and delete make of a strand: the items from i to j replaced by
\* items with the changed rows.
Changed(P, h, xs, i, j, key, new, ys, t) ==
    /\ Strand(P, h, t)
    /\ RowsOf(P, h, t) = Change(RowsOf(P, h, xs), key, new)
    /\ PagesOf(P, h, t) = PagesIn(P, h, xs, 1, i - 1) \cup PagesOf(P, h, ys)
                            \cup PagesIn(P, h, xs, j + 1, Len(xs))
    /\ Len(t) = (i - 1) + Len(ys) + (Len(xs) - j)

\* Replacing the items around a key by items with the changed rows changes
\* the strand's rows at that key only.
LEMMA SpliceChange ==
    ASSUME NEW P, PageMap(P), NEW h \in Nat, NEW xs, Strand(P, h, xs),
           NEW i \in 1 .. Len(xs) + 1, NEW j \in 0 .. Len(xs), i <= j + 1,
           NEW key \in Nat, Around(P, h, xs, i, j, key), NEW new, OfKey(new, key),
           NEW ys, Strand(P, h, ys), RowsOf(P, h, ys) = Change(RowsIn(P, h, xs, i, j), key, new),
           PagesIn(P, h, xs, 1, i - 1) \cap PagesOf(P, h, ys) = {},
           PagesOf(P, h, ys) \cap PagesIn(P, h, xs, j + 1, Len(xs)) = {}
    PROVE  Changed(P, h, xs, i, j, key, new, ys, Splice(xs, i, j, ys))
<1>1. Len(xs) \in Nat /\ RowsOf(P, h, xs) \subseteq KV
  BY StrandParts
<1>2. /\ Before(RowsIn(P, h, xs, 1, i - 1), RowsIn(P, h, xs, i, j))
      /\ Before(RowsIn(P, h, xs, i, j), RowsIn(P, h, xs, j + 1, Len(xs)))
  <2>1. 1 \in Nat \ {0} /\ i - 1 \in Nat /\ i \in Nat \ {0} /\ j \in Nat /\ i \in Nat
        /\ j + 1 \in Nat /\ Len(xs) \in 0 .. Len(xs) /\ i - 1 < i /\ j < j + 1
    BY <1>1
  <2>2. Before(RowsIn(P, h, xs, 1, i - 1), RowsIn(P, h, xs, i, j))
    BY <2>1, InParts
  <2>3. Before(RowsIn(P, h, xs, i, j), RowsIn(P, h, xs, j + 1, Len(xs)))
    BY <2>1, InParts
  <2> QED BY <2>2, <2>3
<1>3. /\ Before(RowsIn(P, h, xs, 1, i - 1), RowsOf(P, h, ys))
      /\ Before(RowsOf(P, h, ys), RowsIn(P, h, xs, j + 1, Len(xs)))
  BY <1>2 DEF Before, Change, OfKey, Around
<1>4. Fitting(P, h, xs, i, j, ys)
  BY <1>3 DEF Fitting
<1>5. PICK t : t = Splice(xs, i, j, ys)
  OBVIOUS
<1>6. Replaced(P, h, xs, i, j, ys, t)
  BY <1>4, <1>5, SpliceStrand
<1>7. InThree(P, h, xs, i, j)
  BY InAll
<1>8. \A r \in RowsIn(P, h, xs, 1, i - 1) \cup RowsIn(P, h, xs, j + 1, Len(xs)) : r.key # key
  <2>1. ASSUME NEW r \in RowsIn(P, h, xs, 1, i - 1) \cup RowsIn(P, h, xs, j + 1, Len(xs)) PROVE r.key # key
    <3>1. r \in KV /\ r.key \in Nat
      BY <1>1, <1>7, KeysAreNumbers DEF InThree
    <3>2. r.key < key \/ key < r.key
      BY DEF Around
    <3> QED BY <3>1, <3>2
  <2> QED BY <2>1
<1>9. RowsOf(P, h, t) = Change(RowsOf(P, h, xs), key, new)
  BY <1>6, <1>7, <1>8 DEF Change, InThree, Replaced
<1> QED BY <1>5, <1>6, <1>9 DEF Changed, Replaced

\* rewrite_insert, one level at a time.
InsertRun(run, st, new, key) ==
    /\ run[0] = [id \in Nat |-> Fail(st)]
    /\ \A d \in 1 .. MaxTreeHeight : run[d] = [id \in Nat |-> InsertAt(st, id, new, key, run[d - 1])]
InsertBy(run, st, new, key) ==
    \A root : Insert(st, root, new, key) = IF st.err THEN st ELSE run[MaxTreeHeight][root]

\* rewrite_delete, one level at a time.
DeleteRun(run, st, key) ==
    /\ run[0] = [id \in Nat |-> Fail(st)]
    /\ \A d \in 1 .. MaxTreeHeight : run[d] = [id \in Nat |-> DeleteAt(st, id, key, run[d - 1])]
DeleteBy(run, st, key) == \A root : Delete(st, root, key) = run[MaxTreeHeight][root]

\* The root of a delete, one level at a time.
ContractRun(run, pages, id) ==
    /\ run[0] = id
    /\ \A d \in 1 .. MaxTreeHeight : run[d] = OnlyChild(pages, run[d - 1])
    /\ Contract(pages, id) = run[MaxTreeHeight]

\* refresh_reusable_pages, one page at a time.
ReusableRun(run, refs, count) ==
    /\ run[FirstPage - 1] = << >>
    /\ \A n \in FirstPage .. count - 1 :
          run[n] = IF n \in refs THEN run[n - 1] ELSE Append(run[n - 1], n)
    /\ Reusable(refs, count) = run[count - 1]

\* rewrite_insert goes down one level at a time.
LEMMA InsertSteps ==
    ASSUME NEW st, NEW new, NEW key
    PROVE  \E run : InsertRun(run, st, new, key) /\ InsertBy(run, st, new, key)
<1> DEFINE N == MaxTreeHeight
           Step(x, i) == [id \in Nat |-> InsertAt(st, id, new, key, x)]
           Base == [id \in Nat |-> Fail(st)]
           Def(g, m) == g = [i \in 0 .. m |-> IF i = 0 THEN Base ELSE Step(g[i - 1], i)]
           f == CHOOSE g : Def(g, N)
           S == {m \in Nat : \E g : Def(g, 0 + m)}
<1>0. N \in Int /\ N >= 0 /\ 0 \in Int
  BY HeightIsPositive
<1>3. InsertBy(f, st, new, key)
  <2> DEFINE g == CHOOSE insert :
                    insert = [d \in 0 .. MaxTreeHeight |->
                                [id \in Nat |-> IF d = 0 THEN Fail(st)
                                                ELSE InsertAt(st, id, new, key, insert[d - 1])]]
  <2>1. g = f
    BY Zenon
  <2>2. \A root : Insert(st, root, new, key) = IF st.err THEN st ELSE g[MaxTreeHeight][root]
    BY DEF Insert
  <2> HIDE DEF f, g
  <2> QED BY <2>1, <2>2 DEF InsertBy
<1> HIDE DEF N, Step, Base
<1>1. S = Nat
  <2>1. 0 \in S
    <3>1. Def([i \in 0 .. 0 + 0 |-> Base], 0 + 0)
      BY <1>0
    <3> QED BY <3>1
  <2>2. ASSUME NEW m \in S PROVE m + 1 \in S
    <3>1. PICK g : Def(g, 0 + m)
      OBVIOUS
    <3> DEFINE n == 0 + m
               h == [i \in 0 .. n + 1 |-> IF i = n + 1 THEN Step(g[n], n + 1) ELSE g[i]]
               v(i) == IF i = 0 THEN Base ELSE Step(h[i - 1], i)
    <3>2. n \in Int /\ n >= 0 /\ n + 1 = 0 + (m + 1) /\ m + 1 \in Nat
      BY <1>0
    <3>3. g = [i \in 0 .. n |-> IF i = 0 THEN Base ELSE Step(g[i - 1], i)]
      BY <3>1
    <3> HIDE DEF n
    <3>4. ASSUME NEW i \in 0 .. n + 1 PROVE h[i] = v(i)
      <4>1. CASE i = n + 1
        <5>1. i # 0 /\ n \in 0 .. n + 1 /\ n # n + 1 /\ i - 1 = n
          BY <1>0, <3>2, <4>1
        <5>2. h[n] = g[n] /\ h[i] = Step(g[n], n + 1)
          BY <4>1, <5>1
        <5> QED BY <4>1, <5>1, <5>2
      <4>2. CASE i # n + 1 /\ i # 0
        <5>1. i \in 0 .. n /\ i - 1 \in 0 .. n + 1 /\ i - 1 # n + 1
          BY <1>0, <3>2, <4>2
        <5>2. g[i] = Step(g[i - 1], i)
          BY <3>3, <4>2, <5>1
        <5>3. h[i] = g[i] /\ h[i - 1] = g[i - 1]
          BY <4>2, <5>1
        <5> QED BY <4>2, <5>2, <5>3
      <4>3. CASE i = 0 /\ i # n + 1
        <5>1. i \in 0 .. n
          BY <1>0, <3>2, <4>3
        <5>2. g[i] = Base
          BY <3>3, <4>3, <5>1
        <5>3. h[i] = g[i]
          BY <4>3
        <5> QED BY <4>3, <5>2, <5>3
      <4> QED BY <4>1, <4>2, <4>3
    <3>5. h = [i \in 0 .. n + 1 |-> h[i]]
      OBVIOUS
    <3> HIDE DEF h
    <3>6. h = [i \in 0 .. n + 1 |-> v(i)]
      BY <3>4, <3>5
    <3>7. Def(h, 0 + (m + 1))
      BY <3>2, <3>6
    <3> HIDE DEF Def
    <3> QED BY <3>2, <3>7
  <2> HIDE DEF S
  <2> QED BY <2>1, <2>2, NatSetInduction DEF S
<1>2. Def(f, N)
  <2>1. N - 0 \in Nat /\ N = 0 + (N - 0)
    BY <1>0
  <2>2. N - 0 \in S
    BY <1>1, <2>1
  <2>3. \E g : Def(g, N)
    BY <2>1, <2>2
  <2> HIDE DEF Def
  <2> QED BY <2>3, Zenon
<1> HIDE DEF f
<1>4. f[0] = Base /\ \A i \in 1 .. N : f[i] = Step(f[i - 1], i)
  <2> DEFINE v(i) == IF i = 0 THEN Base ELSE Step(f[i - 1], i)
  <2>1. f = [i \in 0 .. N |-> v(i)]
    BY <1>2
  <2>2. 0 \in 0 .. N /\ \A i \in 1 .. N : i \in 0 .. N /\ i # 0
    BY <1>0
  <2> HIDE DEF v
  <2>3. f[0] = v(0) /\ \A i \in 1 .. N : f[i] = v(i)
    BY <2>1, <2>2
  <2> QED BY <2>2, <2>3 DEF v
<1>5. f = [i \in 0 .. N |-> f[i]]
  BY <1>2
<1> QED
  <2>1. InsertRun(f, st, new, key)
    BY <1>4 DEF N, Base, Step, InsertRun
  <2> HIDE DEF f
  <2> QED BY <1>3, <2>1

\* So does rewrite_delete.
LEMMA DeleteSteps ==
    ASSUME NEW st, NEW key
    PROVE  \E run : DeleteRun(run, st, key) /\ DeleteBy(run, st, key)
<1> DEFINE N == MaxTreeHeight
           Step(x, i) == [id \in Nat |-> DeleteAt(st, id, key, x)]
           Base == [id \in Nat |-> Fail(st)]
           Def(g, m) == g = [i \in 0 .. m |-> IF i = 0 THEN Base ELSE Step(g[i - 1], i)]
           f == CHOOSE g : Def(g, N)
           S == {m \in Nat : \E g : Def(g, 0 + m)}
<1>0. N \in Int /\ N >= 0 /\ 0 \in Int
  BY HeightIsPositive
<1>3. DeleteBy(f, st, key)
  BY Zenon DEF Delete, DeleteBy
<1> HIDE DEF N, Step, Base
<1>1. S = Nat
  <2>1. 0 \in S
    <3>1. Def([i \in 0 .. 0 + 0 |-> Base], 0 + 0)
      BY <1>0
    <3> QED BY <3>1
  <2>2. ASSUME NEW m \in S PROVE m + 1 \in S
    <3>1. PICK g : Def(g, 0 + m)
      OBVIOUS
    <3> DEFINE n == 0 + m
               h == [i \in 0 .. n + 1 |-> IF i = n + 1 THEN Step(g[n], n + 1) ELSE g[i]]
               v(i) == IF i = 0 THEN Base ELSE Step(h[i - 1], i)
    <3>2. n \in Int /\ n >= 0 /\ n + 1 = 0 + (m + 1) /\ m + 1 \in Nat
      BY <1>0
    <3>3. g = [i \in 0 .. n |-> IF i = 0 THEN Base ELSE Step(g[i - 1], i)]
      BY <3>1
    <3> HIDE DEF n
    <3>4. ASSUME NEW i \in 0 .. n + 1 PROVE h[i] = v(i)
      <4>1. CASE i = n + 1
        <5>1. i # 0 /\ n \in 0 .. n + 1 /\ n # n + 1 /\ i - 1 = n
          BY <1>0, <3>2, <4>1
        <5>2. h[n] = g[n] /\ h[i] = Step(g[n], n + 1)
          BY <4>1, <5>1
        <5> QED BY <4>1, <5>1, <5>2
      <4>2. CASE i # n + 1 /\ i # 0
        <5>1. i \in 0 .. n /\ i - 1 \in 0 .. n + 1 /\ i - 1 # n + 1
          BY <1>0, <3>2, <4>2
        <5>2. g[i] = Step(g[i - 1], i)
          BY <3>3, <4>2, <5>1
        <5>3. h[i] = g[i] /\ h[i - 1] = g[i - 1]
          BY <4>2, <5>1
        <5> QED BY <4>2, <5>2, <5>3
      <4>3. CASE i = 0 /\ i # n + 1
        <5>1. i \in 0 .. n
          BY <1>0, <3>2, <4>3
        <5>2. g[i] = Base
          BY <3>3, <4>3, <5>1
        <5>3. h[i] = g[i]
          BY <4>3
        <5> QED BY <4>3, <5>2, <5>3
      <4> QED BY <4>1, <4>2, <4>3
    <3>5. h = [i \in 0 .. n + 1 |-> h[i]]
      OBVIOUS
    <3> HIDE DEF h
    <3>6. h = [i \in 0 .. n + 1 |-> v(i)]
      BY <3>4, <3>5
    <3>7. Def(h, 0 + (m + 1))
      BY <3>2, <3>6
    <3> HIDE DEF Def
    <3> QED BY <3>2, <3>7
  <2> HIDE DEF S
  <2> QED BY <2>1, <2>2, NatSetInduction DEF S
<1>2. Def(f, N)
  <2>1. N - 0 \in Nat /\ N = 0 + (N - 0)
    BY <1>0
  <2>2. N - 0 \in S
    BY <1>1, <2>1
  <2>3. \E g : Def(g, N)
    BY <2>1, <2>2
  <2> HIDE DEF Def
  <2> QED BY <2>3, Zenon
<1> HIDE DEF f
<1>4. f[0] = Base /\ \A i \in 1 .. N : f[i] = Step(f[i - 1], i)
  <2> DEFINE v(i) == IF i = 0 THEN Base ELSE Step(f[i - 1], i)
  <2>1. f = [i \in 0 .. N |-> v(i)]
    BY <1>2
  <2>2. 0 \in 0 .. N /\ \A i \in 1 .. N : i \in 0 .. N /\ i # 0
    BY <1>0
  <2> HIDE DEF v
  <2>3. f[0] = v(0) /\ \A i \in 1 .. N : f[i] = v(i)
    BY <2>1, <2>2
  <2> QED BY <2>2, <2>3 DEF v
<1>5. f = [i \in 0 .. N |-> f[i]]
  BY <1>2
<1> QED
  <2>1. DeleteRun(f, st, key)
    BY <1>4 DEF N, Base, Step, DeleteRun
  <2> HIDE DEF f
  <2> QED BY <1>3, <2>1

\* The root of a delete goes down while there is one child.
LEMMA ContractSteps ==
    ASSUME NEW pages, NEW id
    PROVE  \E run : ContractRun(run, pages, id)
<1> DEFINE N == MaxTreeHeight
           Step(x, i) == OnlyChild(pages, x)
           Base == id
           Def(g, m) == g = [i \in 0 .. m |-> IF i = 0 THEN Base ELSE Step(g[i - 1], i)]
           f == CHOOSE g : Def(g, N)
           S == {m \in Nat : \E g : Def(g, 0 + m)}
<1>0. N \in Int /\ N >= 0 /\ 0 \in Int
  BY HeightIsPositive
<1>3. Contract(pages, id) = f[MaxTreeHeight]
  BY Zenon DEF Contract
<1> HIDE DEF N, Step, Base
<1>1. S = Nat
  <2>1. 0 \in S
    <3>1. Def([i \in 0 .. 0 + 0 |-> Base], 0 + 0)
      BY <1>0
    <3> QED BY <3>1
  <2>2. ASSUME NEW m \in S PROVE m + 1 \in S
    <3>1. PICK g : Def(g, 0 + m)
      OBVIOUS
    <3> DEFINE n == 0 + m
               h == [i \in 0 .. n + 1 |-> IF i = n + 1 THEN Step(g[n], n + 1) ELSE g[i]]
               v(i) == IF i = 0 THEN Base ELSE Step(h[i - 1], i)
    <3>2. n \in Int /\ n >= 0 /\ n + 1 = 0 + (m + 1) /\ m + 1 \in Nat
      BY <1>0
    <3>3. g = [i \in 0 .. n |-> IF i = 0 THEN Base ELSE Step(g[i - 1], i)]
      BY <3>1
    <3> HIDE DEF n
    <3>4. ASSUME NEW i \in 0 .. n + 1 PROVE h[i] = v(i)
      <4>1. CASE i = n + 1
        <5>1. i # 0 /\ n \in 0 .. n + 1 /\ n # n + 1 /\ i - 1 = n
          BY <1>0, <3>2, <4>1
        <5>2. h[n] = g[n] /\ h[i] = Step(g[n], n + 1)
          BY <4>1, <5>1
        <5> QED BY <4>1, <5>1, <5>2
      <4>2. CASE i # n + 1 /\ i # 0
        <5>1. i \in 0 .. n /\ i - 1 \in 0 .. n + 1 /\ i - 1 # n + 1
          BY <1>0, <3>2, <4>2
        <5>2. g[i] = Step(g[i - 1], i)
          BY <3>3, <4>2, <5>1
        <5>3. h[i] = g[i] /\ h[i - 1] = g[i - 1]
          BY <4>2, <5>1
        <5> QED BY <4>2, <5>2, <5>3
      <4>3. CASE i = 0 /\ i # n + 1
        <5>1. i \in 0 .. n
          BY <1>0, <3>2, <4>3
        <5>2. g[i] = Base
          BY <3>3, <4>3, <5>1
        <5>3. h[i] = g[i]
          BY <4>3
        <5> QED BY <4>3, <5>2, <5>3
      <4> QED BY <4>1, <4>2, <4>3
    <3>5. h = [i \in 0 .. n + 1 |-> h[i]]
      OBVIOUS
    <3> HIDE DEF h
    <3>6. h = [i \in 0 .. n + 1 |-> v(i)]
      BY <3>4, <3>5
    <3>7. Def(h, 0 + (m + 1))
      BY <3>2, <3>6
    <3> HIDE DEF Def
    <3> QED BY <3>2, <3>7
  <2> HIDE DEF S
  <2> QED BY <2>1, <2>2, NatSetInduction DEF S
<1>2. Def(f, N)
  <2>1. N - 0 \in Nat /\ N = 0 + (N - 0)
    BY <1>0
  <2>2. N - 0 \in S
    BY <1>1, <2>1
  <2>3. \E g : Def(g, N)
    BY <2>1, <2>2
  <2> HIDE DEF Def
  <2> QED BY <2>3, Zenon
<1> HIDE DEF f
<1>4. f[0] = Base /\ \A i \in 1 .. N : f[i] = Step(f[i - 1], i)
  <2> DEFINE v(i) == IF i = 0 THEN Base ELSE Step(f[i - 1], i)
  <2>1. f = [i \in 0 .. N |-> v(i)]
    BY <1>2
  <2>2. 0 \in 0 .. N /\ \A i \in 1 .. N : i \in 0 .. N /\ i # 0
    BY <1>0
  <2> HIDE DEF v
  <2>3. f[0] = v(0) /\ \A i \in 1 .. N : f[i] = v(i)
    BY <2>1, <2>2
  <2> QED BY <2>2, <2>3 DEF v
<1>5. f = [i \in 0 .. N |-> f[i]]
  BY <1>2
<1> QED
  <2>1. ContractRun(f, pages, id)
    BY <1>3, <1>4 DEF N, Base, Step, ContractRun
  <2> HIDE DEF f
  <2> QED BY <2>1

\* The reusable pages are gathered in ascending order.
LEMMA ReusableSteps ==
    ASSUME NEW refs, NEW count \in Nat, count >= FirstPage
    PROVE  \E run : ReusableRun(run, refs, count)
<1> DEFINE N == count - 1
           Step(x, i) == IF i \in refs THEN x ELSE Append(x, i)
           Base == << >>
           Def(g, m) == g = [i \in (FirstPage - 1) .. m |-> IF i = (FirstPage - 1) THEN Base ELSE Step(g[i - 1], i)]
           f == CHOOSE g : Def(g, N)
           S == {m \in Nat : \E g : Def(g, (FirstPage - 1) + m)}
<1>0. N \in Int /\ N >= (FirstPage - 1) /\ (FirstPage - 1) \in Int
  BY DEF FirstPage
<1>3. Reusable(refs, count) = f[count - 1]
  BY Zenon DEF Reusable
<1> HIDE DEF N, Step, Base
<1>1. S = Nat
  <2>1. 0 \in S
    <3>1. Def([i \in (FirstPage - 1) .. (FirstPage - 1) + 0 |-> Base], (FirstPage - 1) + 0)
      BY <1>0
    <3> QED BY <3>1
  <2>2. ASSUME NEW m \in S PROVE m + 1 \in S
    <3>1. PICK g : Def(g, (FirstPage - 1) + m)
      OBVIOUS
    <3> DEFINE n == (FirstPage - 1) + m
               h == [i \in (FirstPage - 1) .. n + 1 |-> IF i = n + 1 THEN Step(g[n], n + 1) ELSE g[i]]
               v(i) == IF i = (FirstPage - 1) THEN Base ELSE Step(h[i - 1], i)
    <3>2. n \in Int /\ n >= (FirstPage - 1) /\ n + 1 = (FirstPage - 1) + (m + 1) /\ m + 1 \in Nat
      BY <1>0
    <3>3. g = [i \in (FirstPage - 1) .. n |-> IF i = (FirstPage - 1) THEN Base ELSE Step(g[i - 1], i)]
      BY <3>1
    <3> HIDE DEF n
    <3>4. ASSUME NEW i \in (FirstPage - 1) .. n + 1 PROVE h[i] = v(i)
      <4>1. CASE i = n + 1
        <5>1. i # (FirstPage - 1) /\ n \in (FirstPage - 1) .. n + 1 /\ n # n + 1 /\ i - 1 = n
          BY <1>0, <3>2, <4>1
        <5>2. h[n] = g[n] /\ h[i] = Step(g[n], n + 1)
          BY <4>1, <5>1
        <5> QED BY <4>1, <5>1, <5>2
      <4>2. CASE i # n + 1 /\ i # (FirstPage - 1)
        <5>1. i \in (FirstPage - 1) .. n /\ i - 1 \in (FirstPage - 1) .. n + 1 /\ i - 1 # n + 1
          BY <1>0, <3>2, <4>2
        <5>2. g[i] = Step(g[i - 1], i)
          BY <3>3, <4>2, <5>1
        <5>3. h[i] = g[i] /\ h[i - 1] = g[i - 1]
          BY <4>2, <5>1
        <5> QED BY <4>2, <5>2, <5>3
      <4>3. CASE i = (FirstPage - 1) /\ i # n + 1
        <5>1. i \in (FirstPage - 1) .. n
          BY <1>0, <3>2, <4>3
        <5>2. g[i] = Base
          BY <3>3, <4>3, <5>1
        <5>3. h[i] = g[i]
          BY <4>3
        <5> QED BY <4>3, <5>2, <5>3
      <4> QED BY <4>1, <4>2, <4>3
    <3>5. h = [i \in (FirstPage - 1) .. n + 1 |-> h[i]]
      OBVIOUS
    <3> HIDE DEF h
    <3>6. h = [i \in (FirstPage - 1) .. n + 1 |-> v(i)]
      BY <3>4, <3>5
    <3>7. Def(h, (FirstPage - 1) + (m + 1))
      BY <3>2, <3>6
    <3> HIDE DEF Def
    <3> QED BY <3>2, <3>7
  <2> HIDE DEF S
  <2> QED BY <2>1, <2>2, NatSetInduction DEF S
<1>2. Def(f, N)
  <2>1. N - (FirstPage - 1) \in Nat /\ N = (FirstPage - 1) + (N - (FirstPage - 1))
    BY <1>0
  <2>2. N - (FirstPage - 1) \in S
    BY <1>1, <2>1
  <2>3. \E g : Def(g, N)
    BY <2>1, <2>2
  <2> HIDE DEF Def
  <2> QED BY <2>3, Zenon
<1> HIDE DEF f
<1>4. f[(FirstPage - 1)] = Base /\ \A i \in (FirstPage - 1) + 1 .. N : f[i] = Step(f[i - 1], i)
  <2> DEFINE v(i) == IF i = (FirstPage - 1) THEN Base ELSE Step(f[i - 1], i)
  <2>1. f = [i \in (FirstPage - 1) .. N |-> v(i)]
    BY <1>2
  <2>2. (FirstPage - 1) \in (FirstPage - 1) .. N /\ \A i \in (FirstPage - 1) + 1 .. N : i \in (FirstPage - 1) .. N /\ i # (FirstPage - 1)
    BY <1>0
  <2> HIDE DEF v
  <2>3. f[(FirstPage - 1)] = v((FirstPage - 1)) /\ \A i \in (FirstPage - 1) + 1 .. N : f[i] = v(i)
    BY <2>1, <2>2
  <2> QED BY <2>2, <2>3 DEF v
<1>5. f = [i \in (FirstPage - 1) .. N |-> f[i]]
  BY <1>2
<1> QED
  <2>0. FirstPage - 1 + 1 = FirstPage
    BY DEF FirstPage
  <2>1. ReusableRun(f, refs, count)
    BY <1>3, <1>4, <2>0 DEF N, Base, Step, ReusableRun, FirstPage
  <2> HIDE DEF f
  <2> QED BY <2>1

\* A strand with the rows changed, in pages among the given ones.
Updated(P, h, xs, key, new, own, t) ==
    /\ Strand(P, h, t) /\ RowsOf(P, h, t) = Change(RowsOf(P, h, xs), key, new)
    /\ PagesOf(P, h, t) \subseteq own

\* What a part of a strand holds is among what it all holds.
LEMMA InOf ==
    ASSUME NEW P, NEW h \in Nat, NEW xs, Strand(P, h, xs), NEW i \in Nat \ {0}, NEW j \in 0 .. Len(xs)
    PROVE  PagesIn(P, h, xs, i, j) \subseteq PagesOf(P, h, xs) /\ RowsIn(P, h, xs, i, j) \subseteq RowsOf(P, h, xs)
<1>1. DOMAIN xs = 1 .. Len(xs) /\ Len(xs) \in Nat
  BY SeqFacts DEF Strand
<1>2. i .. j \subseteq DOMAIN xs
  BY <1>1
<1> QED BY <1>2 DEF PagesIn, PagesOf, RowsIn, RowsOf

\* rewrite_insert in a leaf: the entries with the new one in its place.
LEMMA UpsertGood ==
    ASSUME NEW P, PageMap(P), NEW cells, Strand(P, 0, cells), NEW key \in Nat,
           NEW new, new \in Cell, ItemOk(P, 0, new), Row(P, new).key = key,
           EntryPages(P, new) \cap PagesOf(P, 0, cells) = {}
    PROVE  LET t == Upsert(cells, Rows(P, cells), new, key)
           IN  /\ Updated(P, 0, cells, key, {Row(P, new)}, PagesOf(P, 0, cells) \cup EntryPages(P, new), t)
               /\ t # << >>
<1> DEFINE b == Below(Rows(P, cells), key)
           j == IF Holds(Rows(P, cells), b + 1, key) THEN b + 1 ELSE b
           n == {Row(P, new)}
<1>1. Searched(P, cells, b, key)
  BY SearchGood
<1>2. Len(cells) \in Nat
  BY SeqFacts DEF Strand
<1>3. /\ b \in Nat /\ b + 1 \in 1 .. Len(cells) + 1 /\ j \in 0 .. Len(cells) /\ j \in Nat
      /\ b + 1 <= j + 1 /\ j \in {b, b + 1} /\ 0 \in Nat
  BY <1>1, <1>2 DEF Searched
<1>4. Around(P, 0, cells, b + 1, j, key)
  BY <1>1 DEF Searched
<1>5. OfKey(n, key) /\ n \in SUBSET KV
  BY DEF OfKey, ItemOk
<1>6. \A r \in RowsIn(P, 0, cells, b + 1, j) : r.key = key
  <2>1. CASE Holds(Rows(P, cells), b + 1, key)
    <3>1. RowsIn(P, 0, cells, b + 1, b + 1) = ItemRows(P, 0, cells[b + 1])
      BY <1>3, InOne
    <3>2. Row(P, cells[b + 1]).key = key
      BY <1>1, <2>1 DEF Searched
    <3> QED BY <2>1, <3>1, <3>2 DEF ItemRows
  <2>2. CASE ~Holds(Rows(P, cells), b + 1, key)
    <3>1. RowsIn(P, 0, cells, b + 1, b) = {}
      BY <1>3, InNone
    <3> QED BY <2>2, <3>1
  <2> QED BY <2>1, <2>2
<1>7. PICK ys : ys = <<new>>
  OBVIOUS
<1>8. RowsOf(P, 0, ys) = n /\ PagesOf(P, 0, ys) = EntryPages(P, new) /\ Strand(P, 0, ys)
  BY <1>7, StrandOne DEF ItemRows, ItemPages, Kind
<1>9. Len(ys) = 1
  BY <1>7
<1>10. PICK t : t = Splice(cells, b + 1, j, ys)
  OBVIOUS
<1>11. t = Upsert(cells, Rows(P, cells), new, key)
  BY <1>7, <1>10 DEF Upsert
<1> HIDE DEF b, j, n
<1>12. RowsOf(P, 0, ys) = Change(RowsIn(P, 0, cells, b + 1, j), key, n)
  BY <1>6, <1>8 DEF Change
<1>13. /\ PagesIn(P, 0, cells, 1, (b + 1) - 1) \subseteq PagesOf(P, 0, cells)
       /\ PagesIn(P, 0, cells, j + 1, Len(cells)) \subseteq PagesOf(P, 0, cells)
  <2>1. 1 \in Nat \ {0} /\ (b + 1) - 1 \in 0 .. Len(cells) /\ j + 1 \in Nat \ {0} /\ Len(cells) \in 0 .. Len(cells)
    BY <1>2, <1>3
  <2> QED BY <1>3, <2>1, InOf
<1>14. /\ PagesIn(P, 0, cells, 1, (b + 1) - 1) \cap PagesOf(P, 0, ys) = {}
       /\ PagesOf(P, 0, ys) \cap PagesIn(P, 0, cells, j + 1, Len(cells)) = {}
  BY <1>8, <1>13
<1>15. Changed(P, 0, cells, b + 1, j, key, n, ys, t)
  BY <1>3, <1>4, <1>5, <1>8, <1>10, <1>12, <1>14, SpliceChange
<1>16. Len(t) >= 1
  BY <1>2, <1>3, <1>9, <1>15 DEF Changed
<1>17. Updated(P, 0, cells, key, n, PagesOf(P, 0, cells) \cup EntryPages(P, new), t)
  BY <1>8, <1>13, <1>15 DEF Changed, Updated
<1> QED BY <1>11, <1>16, <1>17 DEF n

\* rewrite_delete in a leaf: the entries without the one of the key.
LEMMA RemovedGood ==
    ASSUME NEW P, PageMap(P), NEW cells, Strand(P, 0, cells), NEW key \in Nat,
           Holds(Rows(P, cells), Below(Rows(P, cells), key) + 1, key)
    PROVE  Updated(P, 0, cells, key, {}, PagesOf(P, 0, cells), Removed(cells, Rows(P, cells), key))
<1> DEFINE b == Below(Rows(P, cells), key)
<1>1. Searched(P, cells, b, key)
  BY SearchGood
<1>2. Len(cells) \in Nat
  BY SeqFacts DEF Strand
<1>3. /\ b \in Nat /\ b + 1 \in 1 .. Len(cells) + 1 /\ b + 1 \in 0 .. Len(cells)
      /\ b + 1 <= b + 1 + 1 /\ 0 \in Nat /\ b + 1 \in Int
  BY <1>1, <1>2 DEF Searched
<1>4. Around(P, 0, cells, b + 1, b + 1, key)
  BY <1>1 DEF Searched
<1>5. OfKey({}, key)
  BY DEF OfKey
<1>6. \A r \in RowsIn(P, 0, cells, b + 1, b + 1) : r.key = key
  <3>1. RowsIn(P, 0, cells, b + 1, b + 1) = ItemRows(P, 0, cells[b + 1])
    BY <1>3, InOne
  <3>2. Row(P, cells[b + 1]).key = key
    BY <1>1 DEF Searched
  <3> QED BY <3>1, <3>2 DEF ItemRows
<1>7. PICK ys : ys = << >>
  OBVIOUS
<1>8. RowsOf(P, 0, ys) = {} /\ PagesOf(P, 0, ys) = {} /\ Strand(P, 0, ys)
  BY <1>7, StrandOne
<1>10. PICK t : t = Splice(cells, b + 1, b + 1, ys)
  OBVIOUS
<1>11. t = Removed(cells, Rows(P, cells), key)
  BY <1>7, <1>10 DEF Removed
<1> HIDE DEF b
<1>12. RowsOf(P, 0, ys) = Change(RowsIn(P, 0, cells, b + 1, b + 1), key, {})
  BY <1>6, <1>8 DEF Change
<1>13. /\ PagesIn(P, 0, cells, 1, (b + 1) - 1) \subseteq PagesOf(P, 0, cells)
       /\ PagesIn(P, 0, cells, b + 1 + 1, Len(cells)) \subseteq PagesOf(P, 0, cells)
  <2>1. 1 \in Nat \ {0} /\ (b + 1) - 1 \in 0 .. Len(cells) /\ b + 1 + 1 \in Nat \ {0} /\ Len(cells) \in 0 .. Len(cells)
    BY <1>2, <1>3
  <2> QED BY <1>3, <2>1, InOf
<1>14. /\ PagesIn(P, 0, cells, 1, (b + 1) - 1) \cap PagesOf(P, 0, ys) = {}
       /\ PagesOf(P, 0, ys) \cap PagesIn(P, 0, cells, b + 1 + 1, Len(cells)) = {}
  BY <1>8
<1>15. Changed(P, 0, cells, b + 1, b + 1, key, {}, ys, t)
  BY <1>3, <1>4, <1>5, <1>8, <1>10, <1>12, <1>14, SpliceChange
<1>17. Updated(P, 0, cells, key, {}, PagesOf(P, 0, cells), t)
  BY <1>8, <1>13, <1>15 DEF Changed, Updated
<1> QED BY <1>11, <1>17

\* A level written after other pages.
LEMMA LevelAfter ==
    ASSUME NEW st, GoodState(st), NEW s, GoodState(s), Evolves(st, s), NEW u, NEW h, NEW rows, NEW part, NEW own,
           Level(s, u, h, rows, part), part \subseteq own \cup Taken(st, s)
    PROVE  Level(st, u, h, rows, own)
<1>1. GoodState(u) /\ Evolves(s, u)
  BY DEF Level
<1>2. Evolves(st, u)
  BY <1>1, EvolvesFurther
<1>3. Taken(st, s) \subseteq Taken(st, u) /\ Taken(s, u) \subseteq Taken(st, u)
  BY <1>1, TakenBy
<1>4. st.err => u.err
  BY DEF Level, Evolves
<1> QED BY <1>1, <1>2, <1>3, <1>4 DEF Level

\* A level that ended in an error promises nothing.
LEMMA LevelNot ==
    ASSUME NEW st, NEW u, GoodState(u), Evolves(st, u), u.err, NEW h, NEW rows, NEW own
    PROVE  Level(st, u, h, rows, own)
BY DEF Level

\* An entry to insert, stored in pages of its own.
NewEntry(st, new, key) ==
    /\ GoodState(st) /\ key \in Keys /\ key \in Nat
    /\ new \in Cell /\ ItemOk(st.pages, 0, new) /\ Row(st.pages, new).key = key
    /\ EntryPages(st.pages, new) \cap Free(st) = {}
\* A subtree of height h that no slot to come is part of.
Target(st, h, x) ==
    x \in Ref /\ ItemOk(st.pages, h, x) /\ ItemPages(st.pages, h, x) \cap Free(st) = {}
\* What rewrite_insert makes of it.
InsertOwn(st, new, h, x) == (ItemPages(st.pages, h, x) \ {x.page}) \cup EntryPages(st.pages, new)
InsertMakes(st, new, key, h, x, u) ==
    Level(st, u, h, Change(ItemRows(st.pages, h, x), key, {Row(st.pages, new)}),
          InsertOwn(st, new, h, x))
InsertsBelow(st, new, key, h, below) ==
    \A y : Target(st, h, y) /\ EntryPages(st.pages, new) \cap ItemPages(st.pages, h, y) = {}
            => InsertMakes(st, new, key, h, y, below[y.page])

\* rewrite_insert on a leaf: its rows with the entry's, in one or two new
\* leaves.
LEMMA InsertLeaf ==
    ASSUME NEW st, NEW new, NEW key, NewEntry(st, new, key), NEW x, Target(st, 1, x),
           EntryPages(st.pages, new) \cap ItemPages(st.pages, 1, x) = {}, NEW below
    PROVE  InsertMakes(st, new, key, 1, x, InsertAt(st, x.page, new, key, below))
<1>1. GoodState(st) /\ PageMap(st.pages)
  BY DEF NewEntry, GoodState
<1>2. /\ IsPage(st.pages, x.page, "leaf") /\ Strand(st.pages, 0, st.pages[x.page].cells)
      /\ RowsOf(st.pages, 0, st.pages[x.page].cells) = ItemRows(st.pages, 1, x)
      /\ PagesOf(st.pages, 0, st.pages[x.page].cells) = ItemPages(st.pages, 1, x) \ {x.page}
  BY <1>1, LeafOpen DEF Target
<1>3. PICK cells : cells = st.pages[x.page].cells
  OBVIOUS
<1>4. PICK t : t = Upsert(cells, Rows(st.pages, cells), new, key)
  OBVIOUS
<1>5. /\ Strand(st.pages, 0, cells) /\ RowsOf(st.pages, 0, cells) = ItemRows(st.pages, 1, x)
      /\ PagesOf(st.pages, 0, cells) = ItemPages(st.pages, 1, x) \ {x.page}
  BY <1>2, <1>3
<1>6. EntryPages(st.pages, new) \cap PagesOf(st.pages, 0, cells) = {}
  BY <1>5
<1>7. /\ Updated(st.pages, 0, cells, key, {Row(st.pages, new)},
                 PagesOf(st.pages, 0, cells) \cup EntryPages(st.pages, new), t)
      /\ t # << >>
  BY <1>1, <1>4, <1>5, <1>6, UpsertGood DEF NewEntry
<1>8. Strand(st.pages, 0, t) /\ PagesOf(st.pages, 0, t) \cap Free(st) = {}
  BY <1>5, <1>7 DEF Updated, Target, NewEntry
<1>9. Level(st, LeafLevel(st, t), 1, RowsOf(st.pages, 0, t), PagesOf(st.pages, 0, t))
  BY <1>1, <1>7, <1>8, LeafLevelGood
<1>10. InsertAt(st, x.page, new, key, below) = LeafLevel(st, t)
  BY <1>2, <1>3, <1>4 DEF InsertAt, IsPage
<1>11. RowsOf(st.pages, 0, t) = Change(ItemRows(st.pages, 1, x), key, {Row(st.pages, new)})
  BY <1>5, <1>7 DEF Updated
<1>12. PagesOf(st.pages, 0, t) \subseteq InsertOwn(st, new, 1, x)
  BY <1>5, <1>7 DEF Updated, InsertOwn
<1>13. Evolves(st, st)
  BY <1>1, AsideSelf
<1>14. Level(st, LeafLevel(st, t), 1, RowsOf(st.pages, 0, t), InsertOwn(st, new, 1, x))
  BY <1>1, <1>9, <1>12, <1>13, LevelAfter
<1> QED BY <1>10, <1>11, <1>14 DEF InsertMakes

\* A child of a subtree.
LEMMA ChildTarget ==
    ASSUME NEW st, GoodState(st), NEW h \in Nat \ {0}, NEW refs, Strand(st.pages, h, refs),
           PagesOf(st.pages, h, refs) \cap Free(st) = {}, NEW i \in 1 .. Len(refs)
    PROVE  Target(st, h, refs[i]) /\ ItemPages(st.pages, h, refs[i]) \subseteq PagesOf(st.pages, h, refs)
<1>1. PageMap(st.pages)
  BY DEF GoodState
<1>2. DOMAIN refs = 1 .. Len(refs) /\ \A k \in DOMAIN refs : refs[k] \in Kind(h) /\ ItemOk(st.pages, h, refs[k])
  BY <1>1, StrandParts
<1>3. ItemPages(st.pages, h, refs[i]) \subseteq PagesOf(st.pages, h, refs)
  BY <1>2 DEF PagesOf
<1> QED BY <1>2, <1>3 DEF Target, Kind

\* The references after a call for one of them, seen in its pages.
ChildDone(st, s, h, refs, i) ==
    /\ PageMap(s.pages) /\ Strand(s.pages, h, refs)
    /\ RowsOf(s.pages, h, refs) = RowsOf(st.pages, h, refs)
    /\ PagesOf(s.pages, h, refs) = PagesOf(st.pages, h, refs)
    /\ PagesOf(s.pages, h, refs) \cap Free(s) = {}
    /\ RowsIn(s.pages, h, refs, i, i) = ItemRows(st.pages, h, refs[i])
    /\ PagesIn(s.pages, h, refs, i, i) = ItemPages(st.pages, h, refs[i])
\* The children of a page are as they were when the call for one of them
\* returns.
LEMMA ChildSame ==
    ASSUME NEW st, GoodState(st), NEW s, GoodState(s), Evolves(st, s), NEW h \in Nat \ {0}, NEW refs,
           Strand(st.pages, h, refs), PagesOf(st.pages, h, refs) \cap Free(st) = {}, NEW i \in 1 .. Len(refs)
    PROVE  ChildDone(st, s, h, refs, i)
<1>1. PageMap(st.pages) /\ PageMap(s.pages)
  BY DEF GoodState
<1>2. /\ Strand(s.pages, h, refs) /\ RowsOf(s.pages, h, refs) = RowsOf(st.pages, h, refs)
      /\ PagesOf(s.pages, h, refs) = PagesOf(st.pages, h, refs)
      /\ PagesOf(s.pages, h, refs) \cap Free(s) = {}
  BY RestStands
<1>3. Target(st, h, refs[i])
  BY ChildTarget
<1>4. Keeps(st.pages, s.pages, ItemPages(st.pages, h, refs[i]))
  BY <1>3, EvolvesKeeps DEF Target
<1>5. refs[i] \in Kind(h) /\ ItemOk(st.pages, h, refs[i])
  BY <1>3 DEF Target, Kind
<1>6. /\ ItemRows(s.pages, h, refs[i]) = ItemRows(st.pages, h, refs[i])
      /\ ItemPages(s.pages, h, refs[i]) = ItemPages(st.pages, h, refs[i])
  BY <1>1, <1>4, <1>5, ItemSame
<1>7. /\ RowsIn(s.pages, h, refs, i, i) = ItemRows(s.pages, h, refs[i])
      /\ PagesIn(s.pages, h, refs, i, i) = ItemPages(s.pages, h, refs[i])
  BY InOne
<1> QED BY <1>1, <1>2, <1>6, <1>7 DEF ChildDone

\* The references with one replaced by what a call made of it.
Grafted(st, s, h, refs, i, key, new, own, t) ==
    /\ Strand(s.pages, h, t) /\ RowsOf(s.pages, h, t) = Change(RowsOf(st.pages, h, refs), key, new)
    /\ PagesOf(s.pages, h, t) \subseteq PagesOf(st.pages, h, refs) \cup own \cup Taken(st, s)
    /\ PagesOf(s.pages, h, t) \cap Free(s) = {}
    /\ Len(t) = Len(refs) - 1 + Len(s.refs)
\* The children with one replaced by what the call for it returned.
LEMMA GraftGood ==
    ASSUME NEW st, GoodState(st), NEW s, GoodState(s), Evolves(st, s), NEW h \in Nat \ {0}, NEW refs,
           Strand(st.pages, h, refs), PagesOf(st.pages, h, refs) \cap Free(st) = {}, refs # << >>,
           NEW key \in Nat, NEW new, OfKey(new, key), NEW i, i = Route(refs, key),
           Strand(s.pages, h, s.refs),
           RowsOf(s.pages, h, s.refs) = Change(ItemRows(st.pages, h, refs[i]), key, new),
           NEW own, own \cap PagesOf(st.pages, h, refs) = {}, own \cap Free(st) = {},
           PagesOf(s.pages, h, s.refs) \subseteq ItemPages(st.pages, h, refs[i]) \cup own \cup Taken(st, s)
    PROVE  Grafted(st, s, h, refs, i, key, new, own, Splice(refs, i, i, s.refs))
<1> DEFINE Q == s.pages
<1>1. PageMap(st.pages) /\ PageMap(s.pages)
  BY DEF GoodState
<1>2. i \in 1 .. Len(refs)
  BY <1>1, RouteGood
<1>3. ChildDone(st, s, h, refs, i)
  BY <1>2, ChildSame
<1>4. Strand(Q, h, refs) /\ PagesOf(Q, h, refs) = PagesOf(st.pages, h, refs)
  BY <1>3 DEF ChildDone
<1>5. Around(Q, h, refs, i, i, key)
  BY <1>1, <1>4, RouteGood
<1>6. Len(refs) \in Nat /\ i \in Nat \ {0} /\ i \in Int
  BY <1>2, <1>4, SeqFacts DEF Strand
<1>7. /\ PagesIn(Q, h, refs, 1, i - 1) \subseteq PagesOf(Q, h, refs)
      /\ PagesIn(Q, h, refs, i + 1, Len(refs)) \subseteq PagesOf(Q, h, refs)
  <2>1. 1 \in Nat \ {0} /\ i - 1 \in 0 .. Len(refs) /\ i + 1 \in Nat \ {0} /\ Len(refs) \in 0 .. Len(refs)
    BY <1>2, <1>6
  <2> QED BY <1>4, <2>1, InOf
<1>8. /\ PagesIn(Q, h, refs, 1, i - 1) \cap PagesIn(Q, h, refs, i, i) = {}
      /\ PagesIn(Q, h, refs, i, i) \cap PagesIn(Q, h, refs, i + 1, Len(refs)) = {}
  <2>1. /\ 1 \in Nat \ {0} /\ i - 1 \in Nat /\ i \in 0 .. Len(refs) /\ i - 1 < i /\ i \in Nat
        /\ i + 1 \in Nat /\ Len(refs) \in 0 .. Len(refs) /\ i < i + 1
    BY <1>2, <1>6
  <2>2. PagesIn(Q, h, refs, 1, i - 1) \cap PagesIn(Q, h, refs, i, i) = {}
    BY <1>4, <2>1, InParts
  <2>3. PagesIn(Q, h, refs, i, i) \cap PagesIn(Q, h, refs, i + 1, Len(refs)) = {}
    BY <1>4, <1>6, <2>1, InParts
  <2> QED BY <2>2, <2>3
<1>9. PagesIn(Q, h, refs, i, i) = ItemPages(st.pages, h, refs[i]) /\ PagesIn(Q, h, refs, i, i) \subseteq PagesOf(Q, h, refs)
  <2>1. i \in 0 .. Len(refs)
    BY <1>2, <1>6
  <2> QED BY <1>3, <1>4, <1>6, <2>1, InOf DEF ChildDone
<1>10. /\ PagesIn(Q, h, refs, 1, i - 1) \cap PagesOf(Q, h, s.refs) = {}
       /\ PagesOf(Q, h, s.refs) \cap PagesIn(Q, h, refs, i + 1, Len(refs)) = {}
  BY <1>4, <1>7, <1>8, <1>9 DEF Taken
<1>11. RowsOf(Q, h, s.refs) = Change(RowsIn(Q, h, refs, i, i), key, new)
  BY <1>3 DEF ChildDone
<1>12. PICK t : t = Splice(refs, i, i, s.refs)
  OBVIOUS
<1>13. i \in 1 .. Len(refs) + 1 /\ i \in 0 .. Len(refs) /\ i <= i + 1
  BY <1>2, <1>6
<1> HIDE DEF Q
<1>14. Changed(Q, h, refs, i, i, key, new, s.refs, t)
  BY <1>1, <1>4, <1>5, <1>10, <1>11, <1>12, <1>13, SpliceChange DEF Q
<1>15. Len(t) = Len(refs) - 1 + Len(s.refs)
  <2>1. Len(s.refs) \in Nat
    BY SeqFacts DEF Strand
  <2> QED BY <1>6, <1>14, <2>1 DEF Changed
<1>16. Strand(Q, h, t) /\ RowsOf(Q, h, t) = Change(RowsOf(st.pages, h, refs), key, new)
  BY <1>3, <1>14 DEF Changed, ChildDone, Q
<1>17. PagesOf(Q, h, t) \subseteq PagesOf(st.pages, h, refs) \cup own \cup Taken(st, s)
  BY <1>4, <1>7, <1>9, <1>14 DEF Changed, Q
<1>18. Free(s) \subseteq Free(st)
  BY FreeShrinks
<1>19. PagesOf(Q, h, t) \cap Free(s) = {}
  BY <1>17, <1>18 DEF Taken
<1> QED BY <1>12, <1>15, <1>16, <1>17, <1>19 DEF Grafted, Q

\* rewrite_insert on an internal page, when it is right on the children.
LEMMA InsertInner ==
    ASSUME SeparatorsAreShort, NEW st, NEW new, NEW key, NewEntry(st, new, key),
           NEW h \in Nat \ {0}, NEW x, Target(st, h + 1, x),
           EntryPages(st.pages, new) \cap ItemPages(st.pages, h + 1, x) = {},
           NEW below, InsertsBelow(st, new, key, h, below)
    PROVE  InsertMakes(st, new, key, h + 1, x, InsertAt(st, x.page, new, key, below))
<1>1. GoodState(st) /\ PageMap(st.pages) /\ key \in Nat
  BY DEF NewEntry, GoodState
<1>2. PICK refs : refs = Children(st.pages, x.page)
  OBVIOUS
<1>3. /\ IsPage(st.pages, x.page, "internal") /\ Len(refs) >= 2 /\ Strand(st.pages, h, refs)
      /\ RowsOf(st.pages, h, refs) = ItemRows(st.pages, h + 1, x)
      /\ PagesOf(st.pages, h, refs) \subseteq ItemPages(st.pages, h + 1, x) \ {x.page}
  BY <1>1, <1>2, InnerOpen DEF Target
<1>4. PICK i : i = Route(refs, key)
  OBVIOUS
<1>5. refs # << >>
  BY <1>3
<1>6. i \in 1 .. Len(refs)
  BY <1>1, <1>3, <1>4, <1>5, RouteGood
<1>7. PagesOf(st.pages, h, refs) \cap Free(st) = {}
  BY <1>3 DEF Target
<1>8. Target(st, h, refs[i]) /\ ItemPages(st.pages, h, refs[i]) \subseteq PagesOf(st.pages, h, refs)
  BY <1>1, <1>3, <1>6, <1>7, ChildTarget
<1>9. PICK s : s = below[refs[i].page]
  OBVIOUS
<1>10. EntryPages(st.pages, new) \cap ItemPages(st.pages, h, refs[i]) = {}
  BY <1>3, <1>8
<1>11. InsertMakes(st, new, key, h, refs[i], s)
  BY <1>8, <1>9, <1>10 DEF InsertsBelow
<1>12. GoodState(s) /\ Evolves(st, s)
  BY <1>11 DEF InsertMakes, Level
<1>13. PICK t : t = Splice(refs, i, i, s.refs)
  OBVIOUS
<1>14. InsertAt(st, x.page, new, key, below) = IF s.err THEN s ELSE InternalLevel(s, t, 1)
  BY <1>2, <1>3, <1>4, <1>9, <1>13 DEF InsertAt, IsPage
<1>15. CASE s.err
  <2>1. Level(st, s, h + 1, Change(ItemRows(st.pages, h + 1, x), key, {Row(st.pages, new)}),
              InsertOwn(st, new, h + 1, x))
    BY <1>12, <1>15, LevelNot
  <2> QED BY <1>14, <1>15, <2>1 DEF InsertMakes
<1>16. CASE ~s.err
  <2> DEFINE n == {Row(st.pages, new)}
             own == EntryPages(st.pages, new)
  <2>1. /\ Strand(s.pages, h, s.refs) /\ Len(s.refs) \in {1, 2}
        /\ RowsOf(s.pages, h, s.refs) = Change(ItemRows(st.pages, h, refs[i]), key, n)
        /\ PagesOf(s.pages, h, s.refs) \subseteq ItemPages(st.pages, h, refs[i]) \cup own \cup Taken(st, s)
    BY <1>11, <1>16 DEF InsertMakes, Level, InsertOwn
  <2>2. OfKey(n, key)
    BY DEF OfKey, NewEntry, ItemOk
  <2>3. own \cap PagesOf(st.pages, h, refs) = {} /\ own \cap Free(st) = {}
    BY <1>3 DEF NewEntry
  <2> HIDE DEF n, own
  <2>4. Grafted(st, s, h, refs, i, key, n, own, t)
    BY <1>1, <1>3, <1>4, <1>5, <1>7, <1>12, <1>13, <2>1, <2>2, <2>3, GraftGood
  <2>5. Len(refs) \in Nat
    BY <1>3, SeqFacts DEF Strand
  <2>6. Len(t) >= 2
    <3>1. Len(t) = Len(refs) - 1 + Len(s.refs)
      BY <2>4 DEF Grafted
    <3>2. Len(refs) >= 2
      BY <1>3
    <3>a. Len(s.refs) \in {1, 2}
      BY <2>1, Zenon
    <3>b. PICK m \in {1, 2} : m = Len(s.refs)
      BY <3>a, Zenon
    <3>3. m \in Nat /\ m >= 1
      OBVIOUS
    <3>4. PICK k \in Nat : k = Len(refs)
      BY <2>5
    <3>5. Len(t) = k - 1 + m /\ k >= 2
      BY <3>1, <3>2, <3>b, <3>4
    <3> QED BY <3>3, <3>4, <3>5
  <2>7. Level(s, InternalLevel(s, t, 1), h + 1, RowsOf(s.pages, h, t), PagesOf(s.pages, h, t))
    <3>1. 1 \in {1, 2}
      OBVIOUS
    <3> QED BY <1>12, <2>4, <2>6, <3>1, InternalLevelGood DEF Grafted
  <2>8. RowsOf(s.pages, h, t) = Change(ItemRows(st.pages, h + 1, x), key, n)
    BY <1>3, <2>4 DEF Grafted
  <2>9. PagesOf(s.pages, h, t) \subseteq InsertOwn(st, new, h + 1, x) \cup Taken(st, s)
    BY <1>3, <2>4 DEF Grafted, InsertOwn, own
  <2>10. Level(st, InternalLevel(s, t, 1), h + 1, RowsOf(s.pages, h, t), InsertOwn(st, new, h + 1, x))
    BY <1>1, <1>12, <2>7, <2>9, LevelAfter
  <2> QED BY <1>14, <1>16, <2>8, <2>10 DEF InsertMakes, n
<1> QED BY <1>15, <1>16

\* rewrite_insert calls itself one level further down.
LEMMA InsertLevel ==
    ASSUME NEW st, NEW new, NEW key, NEW run, InsertRun(run, st, new, key),
           NEW d \in 1 .. MaxTreeHeight, NEW id \in Nat
    PROVE  run[d][id] = InsertAt(st, id, new, key, run[d - 1])
<1> DEFINE v(p) == InsertAt(st, p, new, key, run[d - 1])
<1>1. run[d] = [p \in Nat |-> v(p)]
  BY DEF InsertRun
<1> HIDE DEF v
<1>2. run[d][id] = v(id)
  BY <1>1
<1> QED BY <1>2 DEF v

\* rewrite_insert keeps the subtree's rows, but for the key.
LEMMA InsertGood ==
    ASSUME SeparatorsAreShort, NEW st, NEW new, NEW key, NewEntry(st, new, key),
           NEW h \in 1 .. MaxTreeHeight, NEW x, Target(st, h, x),
           EntryPages(st.pages, new) \cap ItemPages(st.pages, h, x) = {}
    PROVE  InsertMakes(st, new, key, h, x, Insert(st, x.page, new, key))
<1>1. PICK run : InsertRun(run, st, new, key) /\ InsertBy(run, st, new, key)
  BY InsertSteps
<1> DEFINE Good(g, d) == InsertsBelow(st, new, key, g, run[d])
           S == {m \in Nat : \A d \in m + 1 .. MaxTreeHeight : Good(m + 1, d)}
<1>2. MaxTreeHeight \in Nat \ {0}
  BY HeightIsPositive
<1>3. S = Nat
  <2>1. 0 \in S
    <3>1. ASSUME NEW d \in 0 + 1 .. MaxTreeHeight PROVE Good(0 + 1, d)
      <4>1. d \in 1 .. MaxTreeHeight /\ 0 + 1 = 1
        BY <1>2, <3>1
      <4>2. ASSUME NEW y, Target(st, 1, y),
                   EntryPages(st.pages, new) \cap ItemPages(st.pages, 1, y) = {}
            PROVE  InsertMakes(st, new, key, 1, y, run[d][y.page])
        <5>1. y.page \in Nat
          BY <4>2 DEF Target, Ref
        <5>2. run[d][y.page] = InsertAt(st, y.page, new, key, run[d - 1])
          BY <1>1, <4>1, <5>1, InsertLevel
        <5> QED BY <4>2, <5>2, InsertLeaf
      <4> QED BY <4>1, <4>2 DEF InsertsBelow
    <3> HIDE DEF Good
    <3> QED BY <3>1
  <2>2. ASSUME NEW m \in S PROVE m + 1 \in S
    <3>1. m \in Nat /\ m + 1 \in Nat \ {0} /\ \A d \in m + 1 .. MaxTreeHeight : Good(m + 1, d)
      BY <2>2
    <3>2. ASSUME NEW d \in m + 1 + 1 .. MaxTreeHeight PROVE Good(m + 1 + 1, d)
      <4>1. d \in 1 .. MaxTreeHeight /\ d - 1 \in m + 1 .. MaxTreeHeight
        BY <1>2, <3>1, <3>2
      <4>2. InsertsBelow(st, new, key, m + 1, run[d - 1])
        BY <3>1, <4>1
      <4>3. PICK h1 \in Nat \ {0} : h1 = m + 1
        BY <3>1
      <4>4. ASSUME NEW y, Target(st, h1 + 1, y),
                   EntryPages(st.pages, new) \cap ItemPages(st.pages, h1 + 1, y) = {}
            PROVE  InsertMakes(st, new, key, h1 + 1, y, run[d][y.page])
        <5>1. y.page \in Nat
          BY <4>4 DEF Target, Ref
        <5>2. run[d][y.page] = InsertAt(st, y.page, new, key, run[d - 1])
          BY <1>1, <4>1, <5>1, InsertLevel
        <5> QED BY <4>2, <4>3, <4>4, <5>2, InsertInner
      <4> QED BY <4>3, <4>4 DEF InsertsBelow
    <3> HIDE DEF Good
    <3> QED BY <3>1, <3>2
  <2> HIDE DEF S
  <2> QED BY <2>1, <2>2, NatSetInduction DEF S
<1>4. InsertsBelow(st, new, key, h, run[MaxTreeHeight])
  <2>1. h - 1 \in Nat /\ (h - 1) + 1 = h /\ MaxTreeHeight \in h .. MaxTreeHeight
    BY <1>2
  <2>2. h - 1 \in S
    <3> HIDE DEF S
    <3> QED BY <1>3, <2>1
  <2>3. \A d \in (h - 1) + 1 .. MaxTreeHeight : Good((h - 1) + 1, d)
    <3> HIDE DEF Good
    <3> QED BY <2>2
  <2> QED BY <2>1, <2>3
<1>5. InsertMakes(st, new, key, h, x, run[MaxTreeHeight][x.page])
  BY <1>4 DEF InsertsBelow
<1>6. Insert(st, x.page, new, key) = IF st.err THEN st ELSE run[MaxTreeHeight][x.page]
  BY <1>1 DEF InsertBy
<1>7. GoodState(st) /\ Evolves(st, st)
  BY AsideSelf DEF NewEntry
<1>8. CASE st.err
  BY <1>6, <1>7, <1>8, LevelNot DEF InsertMakes
<1> QED BY <1>5, <1>6, <1>8

\* A page and the strand it holds, of the height k.
Opened(P, k, id, xs) ==
    /\ IF k = 0 THEN IsPage(P, id, "leaf") /\ xs = P[id].cells
       ELSE IsPage(P, id, "internal") /\ xs = Children(P, id)
    /\ Strand(P, k, xs) /\ xs # << >>
Holder(P, k, x, rows, own) ==
    \E xs : Opened(P, k, x.page, xs) /\ RowsOf(P, k, xs) = rows /\ PagesOf(P, k, xs) \subseteq own

\* A subtree, opened: its page holds a strand of its rows.
LEMMA ItemHolds ==
    ASSUME NEW P, PageMap(P), NEW k \in Nat, NEW x \in Ref, ItemOk(P, k + 1, x)
    PROVE  Holder(P, k, x, ItemRows(P, k + 1, x), ItemPages(P, k + 1, x))
<1>1. CASE k = 0
  <2>1. ItemOk(P, 1, x) /\ k + 1 = 1
    BY <1>1
  <2>2. PICK xs : xs = P[x.page].cells
    OBVIOUS
  <2>3. /\ IsPage(P, x.page, "leaf") /\ xs # << >> /\ Strand(P, 0, xs)
        /\ RowsOf(P, 0, xs) = ItemRows(P, 1, x) /\ PagesOf(P, 0, xs) = ItemPages(P, 1, x) \ {x.page}
    BY <2>1, <2>2, LeafOpen
  <2>4. Opened(P, 0, x.page, xs)
    BY <2>2, <2>3 DEF Opened
  <2> QED BY <1>1, <2>1, <2>3, <2>4 DEF Holder
<1>2. CASE k # 0
  <2>1. k \in Nat \ {0}
    BY <1>2
  <2>2. PICK xs : xs = Children(P, x.page)
    OBVIOUS
  <2>3. /\ IsPage(P, x.page, "internal") /\ Len(xs) >= 2 /\ Strand(P, k, xs)
        /\ RowsOf(P, k, xs) = ItemRows(P, k + 1, x) /\ PagesOf(P, k, xs) \subseteq ItemPages(P, k + 1, x) \ {x.page}
    BY <2>1, <2>2, InnerOpen
  <2>4. Opened(P, k, x.page, xs)
    BY <1>2, <2>2, <2>3 DEF Opened
  <2> QED BY <2>3, <2>4 DEF Holder
<1> QED BY <1>1, <1>2

\* A page of one child that holds some rows, opened.
LEMMA ThinHolds ==
    ASSUME NEW P, PageMap(P), NEW k \in Nat, NEW x, NEW rows, NEW own, Thin(P, k + 1, x, rows, own)
    PROVE  k \in Nat \ {0} /\ Holder(P, k, x, rows, own)
<1>1. k \in Nat \ {0} /\ k + 1 - 1 = k
  BY DEF Thin
<1>2. PICK y \in Ref : Children(P, x.page) = <<y>> /\ Proper(P, k, y, rows, own)
  BY <1>1 DEF Thin
<1>3. PICK ys : ys = <<y>>
  OBVIOUS
<1>4. Strand(P, k, ys) /\ RowsOf(P, k, ys) = rows /\ PagesOf(P, k, ys) \subseteq own
  BY <1>1, <1>2, <1>3, ProperStrand
<1>5. IsPage(P, x.page, "internal") /\ ys # << >>
  BY <1>3 DEF Thin
<1>6. Opened(P, k, x.page, ys)
  BY <1>1, <1>2, <1>3, <1>4, <1>5 DEF Opened
<1> QED BY <1>1, <1>4, <1>6 DEF Holder

\* rebalance_leaf_pair and rebalance_internal_pair keep the rows of the pair.
LEMMA CombineGood ==
    ASSUME NEW s, GoodState(s), NEW k \in Nat, NEW x, NEW y, NEW rows1, NEW own1, NEW rows2, NEW own2,
           Holder(s.pages, k, x, rows1, own1), Holder(s.pages, k, y, rows2, own2),
           Before(rows1, rows2), own1 \cap own2 = {}, own1 \cap Free(s) = {}, own2 \cap Free(s) = {}
    PROVE  Level(s, Combine(s, x.page, y.page), k + 1, rows1 \cup rows2, own1 \cup own2)
<1>1. PICK xs : /\ Opened(s.pages, k, x.page, xs) /\ RowsOf(s.pages, k, xs) = rows1
                /\ PagesOf(s.pages, k, xs) \subseteq own1
  BY DEF Holder
<1>2. PICK ys : /\ Opened(s.pages, k, y.page, ys) /\ RowsOf(s.pages, k, ys) = rows2
                /\ PagesOf(s.pages, k, ys) \subseteq own2
  BY DEF Holder
<1>3. Strand(s.pages, k, xs) /\ xs # << >> /\ Strand(s.pages, k, ys) /\ ys # << >>
  BY <1>1, <1>2 DEF Opened
<1>4. PICK t : t = xs \o ys
  OBVIOUS
<1>5. Apart(s.pages, k, xs, ys)
  BY <1>1, <1>2 DEF Apart
<1>6. Strand(s.pages, k, t) /\ Joined(s.pages, k, xs, ys, t)
  BY <1>3, <1>4, <1>5, JoinedStrand
<1>7. RowsOf(s.pages, k, t) = rows1 \cup rows2 /\ PagesOf(s.pages, k, t) \subseteq own1 \cup own2
  BY <1>1, <1>2, <1>6 DEF Joined
<1>8. PagesOf(s.pages, k, t) \cap Free(s) = {}
  BY <1>7
<1>9. Len(t) >= 2
  <2>1. xs \in Seq(Kind(k)) /\ ys \in Seq(Kind(k))
    BY <1>3 DEF Strand
  <2>2. Len(xs) \in Nat /\ Len(ys) \in Nat /\ Len(t) = Len(xs) + Len(ys)
    BY <1>4, <2>1
  <2>3. Len(xs) # 0 /\ Len(ys) # 0
    BY <1>3, <2>1
  <2> QED BY <2>2, <2>3
<1>10. Evolves(s, s)
  BY AsideSelf
<1>11. CASE k = 0
  <2>1. Combine(s, x.page, y.page) = LeafLevel(s, t)
    BY <1>1, <1>2, <1>4, <1>11 DEF Combine, Opened, IsPage
  <2>2. t # << >> /\ Strand(s.pages, 0, t) /\ PagesOf(s.pages, 0, t) \cap Free(s) = {}
    BY <1>6, <1>8, <1>9, <1>11
  <2>3. Level(s, LeafLevel(s, t), 1, RowsOf(s.pages, 0, t), PagesOf(s.pages, 0, t))
    BY <2>2, LeafLevelGood
  <2>4. Level(s, LeafLevel(s, t), 1, RowsOf(s.pages, 0, t), own1 \cup own2)
    BY <1>7, <1>10, <1>11, <2>3, LevelAfter
  <2>5. k + 1 = 1
    BY <1>11
  <2>6. RowsOf(s.pages, 0, t) = rows1 \cup rows2
    BY <1>7, <1>11
  <2> QED BY <2>1, <2>4, <2>5, <2>6, Zenon
<1>12. CASE k # 0
  <2>1. Combine(s, x.page, y.page) = InternalLevel(s, t, 2)
    BY <1>1, <1>2, <1>4, <1>12 DEF Combine, Opened, IsPage
  <2>2. k \in Nat \ {0} /\ 2 \in {1, 2}
    BY <1>12
  <2>3. Level(s, InternalLevel(s, t, 2), k + 1, RowsOf(s.pages, k, t), PagesOf(s.pages, k, t))
    BY <1>6, <1>8, <1>9, <2>2, InternalLevelGood
  <2>4. Level(s, InternalLevel(s, t, 2), k + 1, RowsOf(s.pages, k, t), own1 \cup own2)
    BY <1>7, <1>10, <2>3, LevelAfter
  <2> QED BY <1>7, <2>1, <2>4
<1> QED BY <1>11, <1>12

\* What rebalance_after_delete returns: the children to keep, with the rows.
Rebalanced(s, u, g, rows, own) ==
    /\ GoodState(u) /\ Evolves(s, u) /\ (s.err => u.err)
    /\ ~u.err => /\ Strand(u.pages, g, u.refs) /\ u.refs # << >>
                 /\ RowsOf(u.pages, g, u.refs) = rows
                 /\ PagesOf(u.pages, g, u.refs) \subseteq own \cup Taken(s, u)
                 /\ PagesOf(u.pages, g, u.refs) \cap Free(u) = {}

\* A rebalancing that ended in an error promises nothing.
LEMMA RebalancedNot ==
    ASSUME NEW s, NEW u, GoodState(u), Evolves(s, u), u.err, NEW g, NEW rows, NEW own
    PROVE  Rebalanced(s, u, g, rows, own)
BY DEF Rebalanced

\* A part of a strand is the same where the strand's pages are kept.
LEMMA PartSame ==
    ASSUME NEW P, PageMap(P), NEW Q, PageMap(Q), NEW h \in Nat, NEW xs, Strand(P, h, xs),
           Keeps(P, Q, PagesOf(P, h, xs)), NEW i \in Nat \ {0}, NEW j \in 0 .. Len(xs)
    PROVE  RowsIn(Q, h, xs, i, j) = RowsIn(P, h, xs, i, j) /\ PagesIn(Q, h, xs, i, j) = PagesIn(P, h, xs, i, j)
<1>1. DOMAIN xs = 1 .. Len(xs) /\ Len(xs) \in Nat /\ \A k \in DOMAIN xs : xs[k] \in Kind(h) /\ ItemOk(P, h, xs[k])
  BY StrandParts
<1>2. ASSUME NEW k \in i .. j
      PROVE  ItemRows(Q, h, xs[k]) = ItemRows(P, h, xs[k]) /\ ItemPages(Q, h, xs[k]) = ItemPages(P, h, xs[k])
  <2>1. k \in DOMAIN xs
    BY <1>1
  <2>2. Keeps(P, Q, ItemPages(P, h, xs[k]))
    BY <2>1 DEF Keeps, PagesOf
  <2> QED BY <1>1, <2>1, <2>2, ItemSame
<1> QED BY <1>2 DEF RowsIn, PagesIn

\* A pair of neighbours replaced by what its call returned.
LEMMA PairGood ==
    ASSUME NEW s, GoodState(s), NEW g \in Nat \ {0}, NEW zs, Strand(s.pages, g, zs),
           PagesOf(s.pages, g, zs) \cap Free(s) = {}, NEW l \in 1 .. Len(zs) - 1,
           NEW rows, NEW own, NEW v, Level(s, v, g, rows, own),
           Before(RowsIn(s.pages, g, zs, 1, l - 1), rows),
           Before(rows, RowsIn(s.pages, g, zs, l + 2, Len(zs))),
           own \cap PagesIn(s.pages, g, zs, 1, l - 1) = {},
           own \cap PagesIn(s.pages, g, zs, l + 2, Len(zs)) = {}, own \cap Free(s) = {}
    PROVE  Rebalanced(s, Returns(v, Splice(zs, l, l + 1, v.refs)), g,
                      RowsIn(s.pages, g, zs, 1, l - 1) \cup rows \cup RowsIn(s.pages, g, zs, l + 2, Len(zs)),
                      PagesOf(s.pages, g, zs) \cup own)
<1>1. GoodState(v) /\ Evolves(s, v) /\ (s.err => v.err)
  BY DEF Level
<1>2. PICK t : t = Splice(zs, l, l + 1, v.refs)
  OBVIOUS
<1>3. PICK u : u = Returns(v, t)
  OBVIOUS
<1>4. /\ u.refs = t /\ u.err = v.err /\ GoodState(u) /\ Evolves(v, u) /\ Free(u) = Free(v) /\ u.pages = v.pages
  BY <1>1, <1>3, AsideReturns
<1>5. Evolves(s, u) /\ (s.err => u.err)
  BY <1>1, <1>4, EvolvesFurther
<1>6. CASE u.err
  BY <1>2, <1>3, <1>4, <1>5, <1>6, RebalancedNot
<1>7. CASE ~u.err
  <2> DEFINE Q == v.pages
             rest == RowsIn(s.pages, g, zs, 1, l - 1) \cup rows \cup RowsIn(s.pages, g, zs, l + 2, Len(zs))
  <2>1. /\ Strand(Q, g, v.refs) /\ RowsOf(Q, g, v.refs) = rows
        /\ PagesOf(Q, g, v.refs) \subseteq own \cup Taken(s, v)
    BY <1>4, <1>7 DEF Level
  <2>2. v.refs # << >>
    <3>1. Len(v.refs) \in {1, 2}
      BY <1>4, <1>7 DEF Level
    <3>2. PICK m \in {1, 2} : m = Len(v.refs)
      BY <3>1, Zenon
    <3>3. m # 0
      OBVIOUS
    <3>4. ASSUME v.refs = << >> PROVE FALSE
      <4>1. Len(v.refs) = 0
        BY <3>4
      <4> QED BY <3>2, <3>3, <4>1, Zenon
    <3> QED BY <3>4
  <2>3. /\ Strand(Q, g, zs) /\ PagesOf(Q, g, zs) = PagesOf(s.pages, g, zs)
        /\ PagesOf(Q, g, zs) \cap Free(v) = {}
    <3>1. g \in Nat
      OBVIOUS
    <3>2. /\ Strand(v.pages, g, zs) /\ RowsOf(v.pages, g, zs) = RowsOf(s.pages, g, zs)
          /\ PagesOf(v.pages, g, zs) = PagesOf(s.pages, g, zs)
          /\ PagesOf(v.pages, g, zs) \cap Free(v) = {}
      <4> HIDE DEF Q, rest
      <4> QED BY <1>1, <3>1, RestStands
    <3> QED BY <3>2
  <2>4. PageMap(s.pages) /\ PageMap(Q)
    BY <1>1 DEF GoodState
  <2>5. Keeps(s.pages, Q, PagesOf(s.pages, g, zs))
    BY <1>1, EvolvesKeeps
  <2>6. /\ Len(zs) \in Nat /\ l \in Nat /\ l - 1 \in 0 .. Len(zs) /\ l + 2 \in Nat \ {0} /\ 1 \in Nat \ {0}
        /\ Len(zs) \in 0 .. Len(zs) /\ l \in 1 .. Len(zs) + 1 /\ l + 1 \in 0 .. Len(zs) /\ l <= l + 1 + 1
        /\ l + 1 + 1 = l + 2
    <3>1. Len(zs) \in Nat
      BY SeqFacts DEF Strand
    <3> QED BY <3>1
  <2>7. /\ RowsIn(Q, g, zs, 1, l - 1) = RowsIn(s.pages, g, zs, 1, l - 1)
        /\ PagesIn(Q, g, zs, 1, l - 1) = PagesIn(s.pages, g, zs, 1, l - 1)
    BY <2>4, <2>5, <2>6, PartSame
  <2>8. /\ RowsIn(Q, g, zs, l + 2, Len(zs)) = RowsIn(s.pages, g, zs, l + 2, Len(zs))
        /\ PagesIn(Q, g, zs, l + 2, Len(zs)) = PagesIn(s.pages, g, zs, l + 2, Len(zs))
    BY <2>4, <2>5, <2>6, PartSame
  <2>9. /\ PagesIn(Q, g, zs, 1, l - 1) \subseteq PagesOf(Q, g, zs)
        /\ PagesIn(Q, g, zs, l + 2, Len(zs)) \subseteq PagesOf(Q, g, zs)
    BY <2>3, <2>6, InOf
  <2>10. /\ PagesIn(Q, g, zs, 1, l - 1) \cap PagesOf(Q, g, v.refs) = {}
         /\ PagesOf(Q, g, v.refs) \cap PagesIn(Q, g, zs, l + 2, Len(zs)) = {}
    BY <2>1, <2>3, <2>7, <2>8, <2>9 DEF Taken
  <2>11. Fitting(Q, g, zs, l, l + 1, v.refs)
    BY <2>1, <2>6, <2>7, <2>8, <2>10 DEF Fitting
  <2> HIDE DEF Q
  <2>12. Replaced(Q, g, zs, l, l + 1, v.refs, t)
    BY <1>2, <2>1, <2>3, <2>6, <2>11, SpliceStrand
  <2>13. Strand(Q, g, t) /\ RowsOf(Q, g, t) = rest
    BY <2>1, <2>6, <2>7, <2>8, <2>12 DEF Replaced
  <2>14. PagesOf(Q, g, t) \subseteq PagesOf(s.pages, g, zs) \cup own \cup Taken(s, v)
    BY <2>1, <2>3, <2>6, <2>9, <2>12 DEF Replaced
  <2>15. t # << >>
    <3>1. RowsOf(Q, g, v.refs) # {}
      BY <2>1, <2>2, <2>4, StrandParts
    <3>2. RowsOf(Q, g, t) # {}
      BY <2>1, <2>13, <3>1
    <3> QED BY <3>2, StrandOne
  <2>16. Free(v) \subseteq Free(s)
    BY <1>1, FreeShrinks
  <2>17. PagesOf(Q, g, t) \cap Free(u) = {}
    BY <1>4, <2>14, <2>16 DEF Taken
  <2>18. Taken(s, v) = Taken(s, u)
    BY <1>4 DEF Taken
  <2>19. Rebalanced(s, u, g, rest, PagesOf(s.pages, g, zs) \cup own)
    BY <1>4, <1>5, <2>13, <2>14, <2>15, <2>17, <2>18 DEF Rebalanced, Q
  <2> QED BY <1>2, <1>3, <2>19
<1> QED BY <1>6, <1>7

\* What two neighbours hold.
LEMMA InTwo ==
    ASSUME NEW P, NEW h, NEW xs, NEW i \in Int
    PROVE  /\ RowsIn(P, h, xs, i, i + 1) = ItemRows(P, h, xs[i]) \cup ItemRows(P, h, xs[i + 1])
           /\ PagesIn(P, h, xs, i, i + 1) = ItemPages(P, h, xs[i]) \cup ItemPages(P, h, xs[i + 1])
<1>1. i .. i + 1 = {i, i + 1}
  OBVIOUS
<1> QED BY <1>1 DEF RowsIn, PagesIn

\* The numbers around a pair of neighbours.
LEMMA PairNumbers ==
    ASSUME NEW n \in Nat, NEW l \in 1 .. n - 1
    PROVE  /\ l \in Nat /\ l \in Int /\ l - 1 \in Nat /\ l - 1 \in 0 .. n /\ l + 1 \in Nat /\ l + 1 \in 0 .. n
           /\ l \in 1 .. n /\ l + 1 \in 1 .. n /\ l + 2 \in Nat /\ l + 2 \in Nat \ {0} /\ n \in 0 .. n
           /\ 1 \in Nat \ {0} /\ l \in Nat \ {0} /\ l - 1 < l /\ l + 1 < l + 2 /\ l < l + 1
           /\ l \in 1 .. n + 1 /\ l <= l + 1 + 1 /\ l + 1 + 1 = l + 2
OBVIOUS

\* rebalance_after_delete combines two neighbours.
LEMMA PairCall ==
    ASSUME NEW s, GoodState(s), NEW k \in Nat, NEW zs, Strand(s.pages, k + 1, zs),
           PagesOf(s.pages, k + 1, zs) \cap Free(s) = {}, NEW l \in 1 .. Len(zs) - 1,
           NEW x, NEW y, NEW rows1, NEW own1, NEW rows2, NEW own2,
           Holder(s.pages, k, x, rows1, own1), Holder(s.pages, k, y, rows2, own2),
           rows1 \subseteq ItemRows(s.pages, k + 1, zs[l]),
           rows2 \subseteq ItemRows(s.pages, k + 1, zs[l + 1]),
           own1 \cap own2 = {}, own1 \cap Free(s) = {}, own2 \cap Free(s) = {},
           own1 \cap PagesIn(s.pages, k + 1, zs, 1, l - 1) = {},
           own2 \cap PagesIn(s.pages, k + 1, zs, 1, l - 1) = {},
           own1 \cap PagesIn(s.pages, k + 1, zs, l + 2, Len(zs)) = {},
           own2 \cap PagesIn(s.pages, k + 1, zs, l + 2, Len(zs)) = {},
           NEW v, v = Combine(s, x.page, y.page)
    PROVE  Rebalanced(s, Returns(v, Splice(zs, l, l + 1, v.refs)), k + 1,
                      RowsIn(s.pages, k + 1, zs, 1, l - 1) \cup (rows1 \cup rows2)
                          \cup RowsIn(s.pages, k + 1, zs, l + 2, Len(zs)),
                      PagesOf(s.pages, k + 1, zs) \cup (own1 \cup own2))
<1>1. PICK g \in Nat \ {0} : g = k + 1
  OBVIOUS
<1> DEFINE R(i, j) == RowsIn(s.pages, g, zs, i, j)
           N(i, j) == PagesIn(s.pages, g, zs, i, j)
<1>2. Strand(s.pages, g, zs)
  BY <1>1
<1>3. Len(zs) \in Nat /\ DOMAIN zs = 1 .. Len(zs)
  BY <1>2, SeqFacts DEF Strand
<1>4. /\ l \in Nat /\ l \in Int /\ l - 1 \in Nat /\ l - 1 \in 0 .. Len(zs) /\ l + 1 \in Nat
      /\ l + 1 \in 0 .. Len(zs) /\ l \in 1 .. Len(zs) /\ l + 1 \in 1 .. Len(zs) /\ l + 2 \in Nat
      /\ l + 2 \in Nat \ {0} /\ Len(zs) \in 0 .. Len(zs) /\ 1 \in Nat \ {0} /\ l \in Nat \ {0}
      /\ l - 1 < l /\ l + 1 < l + 2 /\ l < l + 1
  BY <1>3, PairNumbers
<1>5. Before(rows1, rows2)
  <2>1. Before(ItemRows(s.pages, g, zs[l]), ItemRows(s.pages, g, zs[l + 1]))
    BY <1>2, <1>3, <1>4 DEF Strand
  <2> QED BY <1>1, <2>1 DEF Before
<1>6. Level(s, v, g, rows1 \cup rows2, own1 \cup own2)
  BY <1>1, <1>5, CombineGood
<1>7. rows1 \cup rows2 \subseteq R(l, l + 1)
  <2>1. RowsIn(s.pages, g, zs, l, l + 1) = ItemRows(s.pages, g, zs[l]) \cup ItemRows(s.pages, g, zs[l + 1])
    BY <1>4, InTwo
  <2> QED BY <1>1, <2>1
<1>8. Before(R(1, l - 1), R(l, l + 1))
  BY <1>2, <1>4, InParts
<1>9. Before(R(l, l + 1), R(l + 2, Len(zs)))
  BY <1>2, <1>4, InParts
<1>10. Before(R(1, l - 1), rows1 \cup rows2) /\ Before(rows1 \cup rows2, R(l + 2, Len(zs)))
  BY <1>7, <1>8, <1>9 DEF Before
<1>11. /\ (own1 \cup own2) \cap N(1, l - 1) = {} /\ (own1 \cup own2) \cap N(l + 2, Len(zs)) = {}
       /\ (own1 \cup own2) \cap Free(s) = {}
  BY <1>1
<1>12. PagesOf(s.pages, g, zs) \cap Free(s) = {}
  BY <1>1
<1>13. PICK rows, own : rows = rows1 \cup rows2 /\ own = own1 \cup own2
  OBVIOUS
<1>14. Rebalanced(s, Returns(v, Splice(zs, l, l + 1, v.refs)), g,
                  R(1, l - 1) \cup rows \cup R(l + 2, Len(zs)), PagesOf(s.pages, g, zs) \cup own)
  BY <1>2, <1>6, <1>10, <1>11, <1>12, <1>13, PairGood
<1> QED BY <1>1, <1>13, <1>14

\* rebalance_after_delete on a strand of children.
LEMMA RebalanceGood ==
    ASSUME NEW s, GoodState(s), NEW k \in Nat, NEW kids, Strand(s.pages, k + 1, kids), kids # << >>,
           PagesOf(s.pages, k + 1, kids) \cap Free(s) = {}, NEW a \in 1 .. Len(kids)
    PROVE  Rebalanced(s, Rebalance(s, kids, a), k + 1, RowsOf(s.pages, k + 1, kids),
                      PagesOf(s.pages, k + 1, kids))
<1>1. PICK g \in Nat \ {0} : g = k + 1
  OBVIOUS
<1>2. Strand(s.pages, g, kids) /\ PageMap(s.pages) /\ PagesOf(s.pages, g, kids) \cap Free(s) = {}
  BY <1>1 DEF GoodState
<1>3. Len(kids) \in Nat /\ DOMAIN kids = 1 .. Len(kids)
  BY <1>2, SeqFacts DEF Strand
<1>4. CASE Len(kids) < 2 \/ ~Underfull(s.pages, kids[a].page)
  <2>1. PICK u : u = Returns(s, kids)
    OBVIOUS
  <2>2. Rebalance(s, kids, a) = u
    BY <1>4, <2>1 DEF Rebalance
  <2>3. u.refs = kids /\ u.err = s.err /\ GoodState(u) /\ Evolves(s, u) /\ Free(u) = Free(s) /\ u.pages = s.pages
    BY <2>1, AsideReturns
  <2>4. Rebalanced(s, u, g, RowsOf(s.pages, g, kids), PagesOf(s.pages, g, kids))
    BY <1>2, <2>3 DEF Rebalanced
  <2> QED BY <1>1, <2>2, <2>4
<1>5. CASE ~(Len(kids) < 2) /\ Underfull(s.pages, kids[a].page)
  <2>1. PICK l : l = IF a > 1 THEN a - 1 ELSE 1
    OBVIOUS
  <2>2. l \in 1 .. Len(kids) - 1
    BY <1>3, <1>5, <2>1
  <2>3. PICK v : v = Combine(s, kids[l].page, kids[l + 1].page)
    OBVIOUS
  <2>4. Rebalance(s, kids, a) = Returns(v, Splice(kids, l, l + 1, v.refs))
    BY <1>5, <2>1, <2>3 DEF Rebalance
  <2>5. /\ l \in Nat /\ l \in Int /\ l - 1 \in Nat /\ l - 1 \in 0 .. Len(kids) /\ l + 1 \in Nat
        /\ l + 1 \in 0 .. Len(kids) /\ l \in 1 .. Len(kids) /\ l + 1 \in 1 .. Len(kids) /\ l + 2 \in Nat
        /\ l + 2 \in Nat \ {0} /\ Len(kids) \in 0 .. Len(kids) /\ 1 \in Nat \ {0} /\ l \in Nat \ {0}
        /\ l - 1 < l /\ l + 1 < l + 2 /\ l < l + 1
        /\ l \in 1 .. Len(kids) + 1 /\ l <= l + 1 + 1 /\ l + 1 + 1 = l + 2
    BY <1>3, <2>2, PairNumbers
  <2> DEFINE x == kids[l]
             y == kids[l + 1]
             own1 == ItemPages(s.pages, g, x)
             own2 == ItemPages(s.pages, g, y)
             N(i, j) == PagesIn(s.pages, g, kids, i, j)
             R(i, j) == RowsIn(s.pages, g, kids, i, j)
  <2>6. x \in Ref /\ y \in Ref /\ ItemOk(s.pages, g, x) /\ ItemOk(s.pages, g, y)
    BY <1>2, <1>3, <2>5, StrandParts DEF Kind
  <2>7. Holder(s.pages, k, x, ItemRows(s.pages, g, x), own1) /\ Holder(s.pages, k, y, ItemRows(s.pages, g, y), own2)
    BY <1>1, <1>2, <2>6, ItemHolds
  <2>8. own1 \cap own2 = {}
    BY <1>2, <1>3, <2>5 DEF Strand
  <2>9. N(l, l + 1) = own1 \cup own2 /\ R(l, l + 1) = ItemRows(s.pages, g, x) \cup ItemRows(s.pages, g, y)
    BY <2>5, InTwo
  <2>10. N(1, l - 1) \cap N(l, l + 1) = {}
    BY <1>2, <2>5, InParts
  <2>11. N(l, l + 1) \cap N(l + 2, Len(kids)) = {}
    BY <1>2, <2>5, InParts
  <2>12. InThree(s.pages, g, kids, l, l + 1)
    BY <1>2, <2>5, InAll
  <2>13. own1 \cup own2 \subseteq PagesOf(s.pages, g, kids)
    BY <2>9, <2>12 DEF InThree
  <2>14. Rebalanced(s, Returns(v, Splice(kids, l, l + 1, v.refs)), k + 1,
                    RowsIn(s.pages, k + 1, kids, 1, l - 1) \cup (ItemRows(s.pages, k + 1, x) \cup ItemRows(s.pages, k + 1, y))
                        \cup RowsIn(s.pages, k + 1, kids, l + 2, Len(kids)),
                    PagesOf(s.pages, k + 1, kids) \cup (own1 \cup own2))
    <3>1. /\ own1 \cap Free(s) = {} /\ own2 \cap Free(s) = {}
          /\ own1 \cap N(1, l - 1) = {} /\ own2 \cap N(1, l - 1) = {}
          /\ own1 \cap N(l + 2, Len(kids)) = {} /\ own2 \cap N(l + 2, Len(kids)) = {}
      BY <1>2, <2>9, <2>10, <2>11, <2>13
    <3> HIDE DEF own1, own2
    <3> QED BY <1>1, <2>2, <2>3, <2>7, <2>8, <3>1, PairCall DEF x, y
  <2>15. /\ R(1, l - 1) \cup (ItemRows(s.pages, g, x) \cup ItemRows(s.pages, g, y)) \cup R(l + 2, Len(kids))
               = RowsOf(s.pages, g, kids)
         /\ PagesOf(s.pages, g, kids) \cup (own1 \cup own2) = PagesOf(s.pages, g, kids)
    BY <2>5, <2>9, <2>12, <2>13 DEF InThree
  <2> HIDE DEF own1, own2, x, y
  <2> QED BY <1>1, <2>4, <2>14, <2>15
<1> QED BY <1>4, <1>5

\* One reference replaced by another one.
OneReplaced(S, xs, i, x, t) ==
    /\ t \in Seq(S) /\ Len(t) = Len(xs) /\ t[i] = x
    /\ \A j \in 1 .. Len(xs) : j # i => t[j] = xs[j]
\* One reference replaced by another one.
LEMMA SpliceOne ==
    ASSUME NEW S, NEW xs \in Seq(S), NEW i \in 1 .. Len(xs), NEW x \in S, NEW ys, ys = <<x>>,
           NEW t, t = Splice(xs, i, i, ys)
    PROVE  OneReplaced(S, xs, i, x, t)
<1>1. Len(xs) \in Nat
  BY SeqFacts
<1>2. PICK a : a = SubSeq(xs, 1, i - 1)
  OBVIOUS
<1>3. PICK c : c = SubSeq(xs, i + 1, Len(xs))
  OBVIOUS
<1>4. PICK m : m = a \o ys
  OBVIOUS
<1>5. t = m \o c
  BY <1>2, <1>3, <1>4 DEF Splice
<1>6. /\ a \in Seq(S) /\ Len(a) = i - 1
      /\ \A k \in 1 .. i - 1 : a[k] = xs[k]
  <2>1. 1 \in Nat \ {0} /\ i - 1 \in 0 .. Len(xs) /\ 1 <= (i - 1) + 1 /\ (i - 1) + 1 - 1 = i - 1
        /\ \A k \in 1 .. i - 1 : 1 + k - 1 = k
    BY <1>1
  <2> QED BY <1>2, <2>1, SubSeqFacts
<1>7. /\ c \in Seq(S) /\ Len(c) = Len(xs) - i
      /\ \A k \in 1 .. Len(xs) - i : c[k] = xs[i + k]
  <2>1. i + 1 \in Nat \ {0} /\ Len(xs) \in 0 .. Len(xs) /\ i + 1 <= Len(xs) + 1 /\ Len(xs) + 1 - (i + 1) = Len(xs) - i
        /\ \A k \in 1 .. Len(xs) - i : (i + 1) + k - 1 = i + k
    BY <1>1
  <2> QED BY <1>3, <2>1, SubSeqFacts
<1>8. ys \in Seq(S) /\ Len(ys) = 1 /\ ys[1] = x
  OBVIOUS
<1>9. /\ m \in Seq(S) /\ Len(m) = Len(a) + Len(ys)
      /\ \A k \in 1 .. Len(a) + Len(ys) : m[k] = IF k <= Len(a) THEN a[k] ELSE ys[k - Len(a)]
  BY <1>4, <1>6, <1>8, ConcatProperties
<1>10. /\ t \in Seq(S) /\ Len(t) = Len(m) + Len(c)
       /\ \A k \in 1 .. Len(m) + Len(c) : t[k] = IF k <= Len(m) THEN m[k] ELSE c[k - Len(m)]
  <2>1. m \in Seq(S) /\ c \in Seq(S)
    BY <1>7, <1>9
  <2>2. /\ m \o c \in Seq(S) /\ Len(m \o c) = Len(m) + Len(c)
        /\ \A k \in 1 .. Len(m) + Len(c) : (m \o c)[k] = IF k <= Len(m) THEN m[k] ELSE c[k - Len(m)]
    BY <2>1, ConcatProperties, Zenon
  <2> QED BY <1>5, <2>2, Zenon
<1>11. i \in Nat /\ i >= 1 /\ i <= Len(xs) /\ Len(a) = i - 1 /\ Len(m) = i /\ Len(t) = Len(xs) /\ Len(c) = Len(xs) - i
  BY <1>1, <1>6, <1>7, <1>8, <1>9, <1>10
<1>12. t[i] = x
  <2>1. i \in 1 .. Len(m) + Len(c) /\ i <= Len(m) /\ i \in 1 .. Len(a) + Len(ys) /\ ~(i <= Len(a)) /\ i - Len(a) = 1
    BY <1>1, <1>8, <1>11
  <2>2. t[i] = m[i]
    BY <1>10, <2>1
  <2>3. m[i] = ys[i - Len(a)]
    BY <1>9, <2>1
  <2> QED BY <1>8, <2>1, <2>2, <2>3
<1>13. ASSUME NEW j \in 1 .. Len(xs), j # i PROVE t[j] = xs[j]
  <2>1. j \in 1 .. Len(m) + Len(c)
    BY <1>1, <1>11
  <2>2. t[j] = IF j <= Len(m) THEN m[j] ELSE c[j - Len(m)]
    BY <1>10, <2>1
  <2>3. CASE j < i
    <3>1. j \in 1 .. i - 1 /\ j <= Len(a) /\ j <= Len(m) /\ j \in 1 .. Len(a) + Len(ys)
      BY <1>1, <1>8, <1>11, <2>3
    <3>2. m[j] = a[j]
      BY <1>9, <3>1
    <3> QED BY <1>6, <2>2, <3>1, <3>2
  <2>4. CASE j > i
    <3>1. ~(j <= Len(m)) /\ j - Len(m) \in 1 .. Len(xs) - i /\ i + (j - Len(m)) = j
      BY <1>1, <1>11, <2>4
    <3>2. c[j - Len(m)] = xs[i + (j - Len(m))]
      BY <1>7, <3>1
    <3> QED BY <2>2, <3>1, <3>2
  <2> QED BY <1>11, <1>13, <2>3, <2>4
<1> QED BY <1>10, <1>11, <1>12, <1>13 DEF OneReplaced

\* A part of two sequences that agree there.
LEMMA SubSeqSame ==
    ASSUME NEW S, NEW xs \in Seq(S), NEW t \in Seq(S), Len(t) = Len(xs),
           NEW i \in Nat \ {0}, NEW j \in 0 .. Len(xs), i <= j + 1,
           \A k \in i .. j : t[k] = xs[k]
    PROVE  SubSeq(t, i, j) = SubSeq(xs, i, j)
<1>1. PICK c : c = SubSeq(xs, i, j)
  OBVIOUS
<1>2. PICK d : d = SubSeq(t, i, j)
  OBVIOUS
<1>3. /\ c \in Seq(S) /\ Len(c) = j + 1 - i
      /\ \A k \in 1 .. j + 1 - i : i + k - 1 \in i .. j /\ c[k] = xs[i + k - 1]
  BY <1>1, SubSeqFacts
<1>4. /\ d \in Seq(S) /\ Len(d) = j + 1 - i
      /\ \A k \in 1 .. j + 1 - i : i + k - 1 \in i .. j /\ d[k] = t[i + k - 1]
  <2>1. j \in 0 .. Len(t)
    OBVIOUS
  <2> QED BY <1>2, <2>1, SubSeqFacts
<1>5. \A k \in 1 .. j + 1 - i : c[k] = d[k]
  BY <1>3, <1>4
<1>6. Len(c) = Len(d) /\ \A k \in 1 .. Len(c) : c[k] = d[k]
  BY <1>3, <1>4, <1>5
<1>7. c = d
  BY <1>3, <1>4, <1>6, SeqEqual
<1> QED BY <1>1, <1>2, <1>7

\* A replaced reference is forgotten when a pair it is of is replaced.
LEMMA SpliceTwice ==
    ASSUME NEW S, NEW xs \in Seq(S), NEW l \in 1 .. Len(xs) - 1, NEW i \in {l, l + 1},
           NEW t \in Seq(S), Len(t) = Len(xs), \A j \in 1 .. Len(xs) : j # i => t[j] = xs[j], NEW zs
    PROVE  Splice(t, l, l + 1, zs) = Splice(xs, l, l + 1, zs)
<1>1. Len(xs) \in Nat
  BY SeqFacts
<1>2. SubSeq(t, 1, l - 1) = SubSeq(xs, 1, l - 1)
  <2>1. 1 \in Nat \ {0} /\ l - 1 \in 0 .. Len(xs) /\ 1 <= (l - 1) + 1
    BY <1>1
  <2>2. \A k \in 1 .. l - 1 : k \in 1 .. Len(xs) /\ k # i
    BY <1>1
  <2> QED BY <2>1, <2>2, SubSeqSame
<1>3. SubSeq(t, l + 1 + 1, Len(t)) = SubSeq(xs, l + 1 + 1, Len(xs))
  <2>1. l + 1 + 1 \in Nat \ {0} /\ Len(xs) \in 0 .. Len(xs) /\ l + 1 + 1 <= Len(xs) + 1
    BY <1>1
  <2>2. \A k \in l + 1 + 1 .. Len(xs) : k \in 1 .. Len(xs) /\ k # i
    BY <1>1
  <2>3. SubSeq(t, l + 1 + 1, Len(xs)) = SubSeq(xs, l + 1 + 1, Len(xs))
    BY <2>1, <2>2, SubSeqSame
  <2> QED BY <2>3
<1> QED BY <1>2, <1>3 DEF Splice

\* A pair of neighbours around the key, of which one is a page of one child.
PairRows(P, g, refs, l, key, rows1, rows2) ==
    /\ rows1 \subseteq ItemRows(P, g, refs[l]) /\ rows2 \subseteq ItemRows(P, g, refs[l + 1])
    /\ rows1 \cup rows2 = Change(RowsIn(P, g, refs, l, l + 1), key, {})
\* The rows of a child that lost the key and of its neighbour are the rows
\* of the two but for the key.
LEMMA ThinPairRows ==
    ASSUME NEW P, PageMap(P), NEW g \in Nat \ {0}, NEW refs, Strand(P, g, refs), NEW l \in 1 .. Len(refs) - 1,
           NEW key \in Nat, NEW i \in {l, l + 1}, Around(P, g, refs, i, i, key)
    PROVE  LET thin == Change(RowsIn(P, g, refs, i, i), key, {})
           IN  /\ i = l => PairRows(P, g, refs, l, key, thin, ItemRows(P, g, refs[l + 1]))
               /\ i = l + 1 => PairRows(P, g, refs, l, key, ItemRows(P, g, refs[l]), thin)
               /\ Change(RowsOf(P, g, refs), key, {}) =
                    RowsIn(P, g, refs, 1, l - 1) \cup Change(RowsIn(P, g, refs, l, l + 1), key, {})
                        \cup RowsIn(P, g, refs, l + 2, Len(refs))
<1>1. Len(refs) \in Nat /\ DOMAIN refs = 1 .. Len(refs)
  BY SeqFacts DEF Strand
<1>2. /\ l \in Nat /\ l \in Int /\ l - 1 \in Nat /\ l - 1 \in 0 .. Len(refs) /\ l + 1 \in Nat
      /\ l + 1 \in 0 .. Len(refs) /\ l \in 1 .. Len(refs) /\ l + 1 \in 1 .. Len(refs) /\ l + 2 \in Nat
      /\ l + 2 \in Nat \ {0} /\ Len(refs) \in 0 .. Len(refs) /\ 1 \in Nat \ {0} /\ l \in Nat \ {0}
      /\ l - 1 < l /\ l + 1 < l + 2 /\ l < l + 1
      /\ l \in 1 .. Len(refs) + 1 /\ l <= l + 1 + 1 /\ l + 1 + 1 = l + 2
  BY <1>1, PairNumbers
<1>3. i \in Int
  BY <1>2
<1>4. RowsIn(P, g, refs, i, i) = ItemRows(P, g, refs[i])
  BY <1>3, InOne
<1>5. RowsIn(P, g, refs, l, l + 1) = ItemRows(P, g, refs[l]) \cup ItemRows(P, g, refs[l + 1])
  BY <1>2, InTwo
<1>6. RowsOf(P, g, refs) \subseteq KV
  BY StrandParts
<1>7. ASSUME NEW j \in 1 .. Len(refs), j # i
      PROVE  \A r \in ItemRows(P, g, refs[j]) : r.key # key
  <2>1. ASSUME NEW r \in ItemRows(P, g, refs[j]) PROVE r.key # key
    <3>1. r \in KV /\ r.key \in Nat
      BY <1>1, <1>6, <1>7, <2>1, KeysAreNumbers DEF RowsOf
    <3>2. CASE j < i
      <4>1. j \in 1 .. i - 1
        BY <1>2, <3>2
      <4>2. r \in RowsIn(P, g, refs, 1, i - 1)
        BY <2>1, <4>1 DEF RowsIn
      <4>3. r.key < key
        BY <4>2 DEF Around
      <4> QED BY <3>1, <4>3
    <3>3. CASE j > i
      <4>1. j \in i + 1 .. Len(refs)
        BY <1>2, <3>3
      <4>2. r \in RowsIn(P, g, refs, i + 1, Len(refs))
        BY <2>1, <4>1 DEF RowsIn
      <4>3. key < r.key
        BY <4>2 DEF Around
      <4> QED BY <3>1, <4>3
    <3> QED BY <1>2, <1>7, <3>2, <3>3
  <2> QED BY <2>1
<1>8. ASSUME i = l
      PROVE  PairRows(P, g, refs, l, key, Change(RowsIn(P, g, refs, i, i), key, {}), ItemRows(P, g, refs[l + 1]))
  <2>1. \A r \in ItemRows(P, g, refs[l + 1]) : r.key # key
    BY <1>2, <1>7, <1>8
  <2> QED BY <1>4, <1>5, <1>8, <2>1 DEF PairRows, Change
<1>9. ASSUME i = l + 1
      PROVE  PairRows(P, g, refs, l, key, ItemRows(P, g, refs[l]), Change(RowsIn(P, g, refs, i, i), key, {}))
  <2>1. \A r \in ItemRows(P, g, refs[l]) : r.key # key
    BY <1>2, <1>7, <1>9
  <2> QED BY <1>4, <1>5, <1>9, <2>1 DEF PairRows, Change
<1>10. InThree(P, g, refs, l, l + 1)
  BY <1>2, InAll
<1>11. \A r \in RowsIn(P, g, refs, 1, l - 1) : r.key # key
  <2>1. \A j \in 1 .. l - 1 : j \in 1 .. Len(refs) /\ j # i
    BY <1>1, <1>2
  <2> QED BY <1>7, <2>1 DEF RowsIn
<1>12. \A r \in RowsIn(P, g, refs, l + 2, Len(refs)) : r.key # key
  <2>1. \A j \in l + 2 .. Len(refs) : j \in 1 .. Len(refs) /\ j # i
    BY <1>1, <1>2
  <2> QED BY <1>7, <2>1 DEF RowsIn
<1>13. Change(RowsOf(P, g, refs), key, {}) =
         RowsIn(P, g, refs, 1, l - 1) \cup Change(RowsIn(P, g, refs, l, l + 1), key, {})
             \cup RowsIn(P, g, refs, l + 2, Len(refs))
  BY <1>2, <1>10, <1>11, <1>12 DEF InThree, Change
<1> QED BY <1>8, <1>9, <1>13

\* The pages of a reference that replaced one are apart from the others.
Aloof(s, g, refs, i, own) ==
    /\ own \cap Free(s) = {}
    /\ own \cap PagesIn(s.pages, g, refs, 1, i - 1) = {}
    /\ own \cap PagesIn(s.pages, g, refs, i + 1, Len(refs)) = {}
\* The pages left and right of a pair are among those left and right of
\* either of the two.
LEMMA AloofParts ==
    ASSUME NEW P, NEW g \in Nat \ {0}, NEW refs, Len(refs) \in Nat, NEW l \in 1 .. Len(refs) - 1,
           NEW i \in {l, l + 1}
    PROVE  LET N(a, b) == PagesIn(P, g, refs, a, b)
           IN  /\ N(1, l - 1) \subseteq N(1, i - 1) /\ N(l + 2, Len(refs)) \subseteq N(i + 1, Len(refs))
               /\ i = l => ItemPages(P, g, refs[l + 1]) \subseteq N(i + 1, Len(refs))
               /\ i = l + 1 => ItemPages(P, g, refs[l]) \subseteq N(1, i - 1)
<1>1. 1 .. l - 1 \subseteq 1 .. i - 1 /\ l + 2 .. Len(refs) \subseteq i + 1 .. Len(refs)
  OBVIOUS
<1>2. (i = l => l + 1 \in i + 1 .. Len(refs)) /\ (i = l + 1 => l \in 1 .. i - 1)
  OBVIOUS
<1> QED BY <1>1, <1>2 DEF PagesIn

\* page_is_underfull holds of an internal page of one child.
LEMMA ThinUnderfull ==
    ASSUME NEW P, NEW h, NEW x, NEW rows, NEW own, Thin(P, h, x, rows, own)
    PROVE  Underfull(P, x.page)
<1>1. P[x.page].kind = "internal" /\ Len(P[x.page].cells) = 1
  BY DEF Thin, IsPage
<1>2. Len(P[x.page].cells) < 2
  BY <1>1
<1> QED BY <1>1, <1>2 DEF Underfull

\* rebalance_after_delete does away with a page of one child.
LEMMA RebalanceThin ==
    ASSUME NEW s, GoodState(s), NEW k \in Nat, NEW refs, Strand(s.pages, k + 1, refs), Len(refs) >= 2,
           PagesOf(s.pages, k + 1, refs) \cap Free(s) = {}, NEW i \in 1 .. Len(refs), NEW key \in Nat,
           Around(s.pages, k + 1, refs, i, i, key), NEW x, NEW own,
           Thin(s.pages, k + 1, x, Change(RowsIn(s.pages, k + 1, refs, i, i), key, {}), own),
           Aloof(s, k + 1, refs, i, own), NEW xs, xs = <<x>>, NEW kids, kids = Splice(refs, i, i, xs)
    PROVE  Rebalanced(s, Rebalance(s, kids, i), k + 1, Change(RowsOf(s.pages, k + 1, refs), key, {}),
                      PagesOf(s.pages, k + 1, refs) \cup own)
<1>1. PICK g \in Nat \ {0} : g = k + 1
  OBVIOUS
<1>2. PICK P : P = s.pages
  OBVIOUS
<1>3. /\ Strand(P, g, refs) /\ PageMap(P) /\ PagesOf(P, g, refs) \cap Free(s) = {}
      /\ Around(P, g, refs, i, i, key)
  BY <1>1, <1>2 DEF GoodState
<1>4. /\ refs \in Seq(Ref) /\ Len(refs) \in Nat /\ DOMAIN refs = 1 .. Len(refs)
      /\ \A j \in DOMAIN refs : refs[j] \in Ref /\ ItemOk(P, g, refs[j])
  BY <1>3, StrandParts DEF Kind
<1>5. PICK thin : thin = Change(RowsIn(P, g, refs, i, i), key, {})
  OBVIOUS
<1>6. Thin(P, g, x, thin, own) /\ x \in Ref
  <2>1. Thin(P, g, x, thin, own)
    BY <1>1, <1>2, <1>5
  <2> QED BY <2>1 DEF Thin
<1>7. Holder(P, k, x, thin, own)
  BY <1>1, <1>3, <1>6, ThinHolds
<1>8. /\ kids \in Seq(Ref) /\ Len(kids) = Len(refs) /\ kids[i] = x
      /\ \A j \in 1 .. Len(refs) : j # i => kids[j] = refs[j]
  <2>1. OneReplaced(Ref, refs, i, x, kids)
    BY <1>4, <1>6, SpliceOne
  <2> QED BY <2>1 DEF OneReplaced
<1>9. Underfull(s.pages, kids[i].page)
  <2>1. Underfull(P, x.page)
    BY <1>6, ThinUnderfull
  <2> QED BY <1>2, <1>8, <2>1
<1>10. PICK l : l = IF i > 1 THEN i - 1 ELSE 1
  OBVIOUS
<1>11. l \in 1 .. Len(refs) - 1 /\ i \in {l, l + 1}
  BY <1>4, <1>10
<1>12. PICK v : v = Combine(s, kids[l].page, kids[l + 1].page)
  OBVIOUS
<1>13. Rebalance(s, kids, i) = Returns(v, Splice(refs, l, l + 1, v.refs))
  <2>1. Rebalance(s, kids, i) = Returns(v, Splice(kids, l, l + 1, v.refs))
    BY <1>8, <1>9, <1>10, <1>12 DEF Rebalance
  <2>2. PICK zs : zs = v.refs
    OBVIOUS
  <2>3. kids \in Seq(Ref) /\ Len(kids) = Len(refs) /\ \A j \in 1 .. Len(refs) : j # i => kids[j] = refs[j]
    BY <1>8
  <2>4. refs \in Seq(Ref)
    BY <1>4
  <2>5. Splice(kids, l, l + 1, zs) = Splice(refs, l, l + 1, zs)
    BY <1>11, <2>3, <2>4, SpliceTwice
  <2> QED BY <2>1, <2>2, <2>5
<1>14. /\ l \in Nat /\ l \in Int /\ l - 1 \in Nat /\ l - 1 \in 0 .. Len(refs) /\ l + 1 \in Nat
       /\ l + 1 \in 0 .. Len(refs) /\ l \in 1 .. Len(refs) /\ l + 1 \in 1 .. Len(refs) /\ l + 2 \in Nat
       /\ l + 2 \in Nat \ {0} /\ Len(refs) \in 0 .. Len(refs) /\ 1 \in Nat \ {0} /\ l \in Nat \ {0}
       /\ l - 1 < l /\ l + 1 < l + 2 /\ l < l + 1
       /\ l \in 1 .. Len(refs) + 1 /\ l <= l + 1 + 1 /\ l + 1 + 1 = l + 2
  BY <1>4, <1>11, PairNumbers
<1> DEFINE N(a, b) == PagesIn(P, g, refs, a, b)
           R(a, b) == RowsIn(P, g, refs, a, b)
<1>15. /\ N(1, l - 1) \subseteq N(1, i - 1) /\ N(l + 2, Len(refs)) \subseteq N(i + 1, Len(refs))
       /\ i = l => ItemPages(P, g, refs[l + 1]) \subseteq N(i + 1, Len(refs))
       /\ i = l + 1 => ItemPages(P, g, refs[l]) \subseteq N(1, i - 1)
  BY <1>4, <1>11, AloofParts
<1>16. N(1, l - 1) \cap N(l, l + 1) = {}
  BY <1>3, <1>14, InParts
<1>17. N(l, l + 1) \cap N(l + 2, Len(refs)) = {}
  BY <1>3, <1>14, InParts
<1>18. N(l, l + 1) \subseteq PagesOf(P, g, refs)
  BY <1>3, <1>14, InOf
<1>19. N(l, l + 1) = ItemPages(P, g, refs[l]) \cup ItemPages(P, g, refs[l + 1])
  BY <1>14, InTwo
<1>20. /\ own \cap Free(s) = {} /\ own \cap N(1, i - 1) = {} /\ own \cap N(i + 1, Len(refs)) = {}
  BY <1>1, <1>2 DEF Aloof
<1>21. /\ i = l => PairRows(P, g, refs, l, key, thin, ItemRows(P, g, refs[l + 1]))
       /\ i = l + 1 => PairRows(P, g, refs, l, key, ItemRows(P, g, refs[l]), thin)
       /\ Change(RowsOf(P, g, refs), key, {}) =
            R(1, l - 1) \cup Change(R(l, l + 1), key, {}) \cup R(l + 2, Len(refs))
  BY <1>3, <1>5, <1>11, ThinPairRows
<1>22. CASE i = l
  <2> DEFINE y == refs[l + 1]
             rows2 == ItemRows(P, g, y)
             own2 == ItemPages(P, g, y)
  <2>1. y \in Ref /\ ItemOk(P, g, y) /\ l + 1 # i
    BY <1>4, <1>14, <1>22
  <2>2. Holder(P, k, y, rows2, own2)
    BY <1>1, <1>3, <2>1, ItemHolds
  <2>3. v = Combine(s, x.page, y.page)
    BY <1>8, <1>12, <1>14, <1>22, <2>1
  <2>4. /\ own \cap own2 = {} /\ own2 \cap Free(s) = {} /\ own \cap N(1, l - 1) = {}
        /\ own2 \cap N(1, l - 1) = {} /\ own \cap N(l + 2, Len(refs)) = {}
        /\ own2 \cap N(l + 2, Len(refs)) = {} /\ own2 \subseteq PagesOf(P, g, refs)
    BY <1>3, <1>15, <1>16, <1>17, <1>18, <1>19, <1>20, <1>22
  <2>5. PairRows(P, g, refs, l, key, thin, rows2)
    BY <1>21, <1>22
  <2>6. /\ thin \subseteq ItemRows(s.pages, k + 1, refs[l])
        /\ rows2 \subseteq ItemRows(s.pages, k + 1, refs[l + 1])
    BY <1>1, <1>2, <2>5 DEF PairRows
  <2>7. own \cap own2 = {}
    BY <2>4
  <2> HIDE DEF y, rows2, own2
  <2>8. Rebalanced(s, Returns(v, Splice(refs, l, l + 1, v.refs)), k + 1,
                   RowsIn(s.pages, k + 1, refs, 1, l - 1) \cup (thin \cup rows2)
                       \cup RowsIn(s.pages, k + 1, refs, l + 2, Len(refs)),
                   PagesOf(s.pages, k + 1, refs) \cup (own \cup own2))
    BY <1>1, <1>2, <1>7, <1>11, <1>20, <2>2, <2>3, <2>4, <2>6, <2>7, PairCall
  <2>9. RowsIn(s.pages, k + 1, refs, 1, l - 1) \cup (thin \cup rows2) \cup RowsIn(s.pages, k + 1, refs, l + 2, Len(refs))
          = Change(RowsOf(s.pages, k + 1, refs), key, {})
    BY <1>1, <1>2, <1>21, <2>5 DEF PairRows
  <2>10. PagesOf(s.pages, k + 1, refs) \cup (own \cup own2) = PagesOf(s.pages, k + 1, refs) \cup own
    BY <1>1, <1>2, <2>4
  <2> QED BY <1>13, <2>8, <2>9, <2>10
<1>23. CASE i = l + 1
  <2> DEFINE y == refs[l]
             rows2 == ItemRows(P, g, y)
             own2 == ItemPages(P, g, y)
  <2>1. y \in Ref /\ ItemOk(P, g, y) /\ l # i
    BY <1>4, <1>14, <1>23
  <2>2. Holder(P, k, y, rows2, own2)
    BY <1>1, <1>3, <2>1, ItemHolds
  <2>3. v = Combine(s, y.page, x.page)
    BY <1>8, <1>12, <1>14, <1>23, <2>1
  <2>4. /\ own \cap own2 = {} /\ own2 \cap Free(s) = {} /\ own \cap N(1, l - 1) = {}
        /\ own2 \cap N(1, l - 1) = {} /\ own \cap N(l + 2, Len(refs)) = {}
        /\ own2 \cap N(l + 2, Len(refs)) = {} /\ own2 \subseteq PagesOf(P, g, refs)
    BY <1>3, <1>15, <1>16, <1>17, <1>18, <1>19, <1>20, <1>23
  <2>5. PairRows(P, g, refs, l, key, rows2, thin)
    BY <1>21, <1>23
  <2>6. /\ rows2 \subseteq ItemRows(s.pages, k + 1, refs[l])
        /\ thin \subseteq ItemRows(s.pages, k + 1, refs[l + 1])
    BY <1>1, <1>2, <2>5 DEF PairRows
  <2>7. own2 \cap own = {}
    BY <2>4
  <2> HIDE DEF y, rows2, own2
  <2>8. Rebalanced(s, Returns(v, Splice(refs, l, l + 1, v.refs)), k + 1,
                   RowsIn(s.pages, k + 1, refs, 1, l - 1) \cup (rows2 \cup thin)
                       \cup RowsIn(s.pages, k + 1, refs, l + 2, Len(refs)),
                   PagesOf(s.pages, k + 1, refs) \cup (own2 \cup own))
    BY <1>1, <1>2, <1>7, <1>11, <1>20, <2>2, <2>3, <2>4, <2>6, <2>7, PairCall
  <2>9. RowsIn(s.pages, k + 1, refs, 1, l - 1) \cup (rows2 \cup thin) \cup RowsIn(s.pages, k + 1, refs, l + 2, Len(refs))
          = Change(RowsOf(s.pages, k + 1, refs), key, {})
    BY <1>1, <1>2, <1>21, <2>5 DEF PairRows
  <2>10. PagesOf(s.pages, k + 1, refs) \cup (own2 \cup own) = PagesOf(s.pages, k + 1, refs) \cup own
    BY <1>1, <1>2, <2>4
  <2> QED BY <1>13, <2>8, <2>9, <2>10
<1> QED BY <1>11, <1>22, <1>23

\* What rewrite_delete returns: nothing of an empty subtree, else one
\* reference, to a page it wrote, which may have one child.
Slim(P, h, x, rows, own) == Proper(P, h, x, rows, own) \/ Thin(P, h, x, rows, own)
Shrunk(st, u, h, rows, own) ==
    /\ GoodState(u) /\ Evolves(st, u) /\ (st.err => u.err)
    /\ ~u.err => \/ u.refs = << >> /\ rows = {}
                 \/ \E x \in Ref : /\ u.refs = <<x>> /\ x.page \in Taken(st, u)
                                   /\ Slim(u.pages, h, x, rows, own \cup Taken(st, u))

\* A rewrite_delete that ended in an error promises nothing.
LEMMA ShrunkNot ==
    ASSUME NEW st, NEW u, GoodState(u), Evolves(st, u), u.err, NEW h, NEW rows, NEW own
    PROVE  Shrunk(st, u, h, rows, own)
BY DEF Shrunk

\* More pages may be allowed.
LEMMA SlimWider ==
    ASSUME NEW P, NEW h, NEW x, NEW rows, NEW own, Slim(P, h, x, rows, own), NEW more, own \subseteq more
    PROVE  Slim(P, h, x, rows, more)
<1>1. CASE Proper(P, h, x, rows, own)
  BY <1>1 DEF Slim, Proper
<1>2. CASE Thin(P, h, x, rows, own)
  <2>1. PICK y \in Ref : Children(P, x.page) = <<y>> /\ Proper(P, h - 1, y, rows, own)
    BY <1>2 DEF Thin
  <2>2. Proper(P, h - 1, y, rows, more)
    BY <2>1 DEF Proper
  <2>3. Thin(P, h, x, rows, more)
    BY <1>2, <2>1, <2>2 DEF Thin
  <2> QED BY <2>3 DEF Slim
<1> QED BY <1>1, <1>2 DEF Slim

\* rewrite_delete after other parts of the rewriting.
LEMMA ShrunkAfter ==
    ASSUME NEW st, GoodState(st), NEW s, GoodState(s), Evolves(st, s), NEW u, NEW h, NEW rows, NEW part, NEW own,
           Shrunk(s, u, h, rows, part), part \subseteq own \cup Taken(st, s)
    PROVE  Shrunk(st, u, h, rows, own)
<1>1. GoodState(u) /\ Evolves(s, u)
  BY DEF Shrunk
<1>2. Evolves(st, u)
  BY <1>1, EvolvesFurther
<1>3. Taken(st, s) \subseteq Taken(st, u) /\ Taken(s, u) \subseteq Taken(st, u)
  BY <1>1, TakenBy
<1>4. st.err => u.err
  BY DEF Shrunk, Evolves
<1>5. CASE u.err
  BY <1>1, <1>2, <1>5, ShrunkNot
<1>6. CASE u.refs = << >> /\ rows = {}
  BY <1>1, <1>2, <1>4, <1>6 DEF Shrunk
<1>7. ASSUME NEW x \in Ref, u.refs = <<x>>, x.page \in Taken(s, u), Slim(u.pages, h, x, rows, part \cup Taken(s, u))
      PROVE  Shrunk(st, u, h, rows, own)
  <2>1. part \cup Taken(s, u) \subseteq own \cup Taken(st, u)
    BY <1>3
  <2>2. Slim(u.pages, h, x, rows, own \cup Taken(st, u))
    BY <1>7, <2>1, SlimWider
  <2>3. x.page \in Taken(st, u)
    BY <1>3, <1>7
  <2> QED BY <1>1, <1>2, <1>4, <1>7, <2>2, <2>3 DEF Shrunk
<1> QED BY <1>5, <1>6, <1>7 DEF Shrunk

\* The only reference in a sequence.
LEMMA OneInSequence ==
    ASSUME NEW x \in Ref
    PROVE  Append(<< >>, x) = <<x>>
OBVIOUS

\* One page written in the place of the subtree's.
LEMMA OneShrunk ==
    ASSUME NEW st, GoodState(st), NEW u, NEW h, NEW rows, NEW own,
           OneMore(Returns(st, << >>), u, h, rows, own)
    PROVE  Shrunk(st, u, h, rows, own)
<1>1. PICK r : r = Returns(st, << >>)
  OBVIOUS
<1>2. /\ r.refs = << >> /\ r.err = st.err /\ GoodState(r) /\ Evolves(st, r) /\ Free(r) = Free(st)
  BY <1>1, AsideReturns
<1>3. OneMore(r, u, h, rows, own)
  BY <1>1
<1>4. GoodState(u) /\ Evolves(r, u) /\ (r.err => u.err)
  BY <1>3 DEF OneMore
<1>5. Shrunk(r, u, h, rows, own)
  <2>1. CASE u.err
    BY <1>4, <2>1, ShrunkNot
  <2>2. CASE ~u.err
    <3>1. PICK x \in Ref : /\ u.refs = Append(r.refs, x) /\ x.page \in Taken(r, u)
                           /\ Proper(u.pages, h, x, rows, own \cup Taken(r, u))
      BY <1>3, <2>2 DEF OneMore
    <3>2. u.refs = <<x>>
      BY <1>2, <3>1, OneInSequence
    <3> QED BY <1>4, <3>1, <3>2 DEF Shrunk, Slim
  <2> QED BY <2>1, <2>2
<1>6. own \subseteq own \cup Taken(st, r)
  OBVIOUS
<1> QED BY <1>2, <1>5, <1>6, ShrunkAfter

\* The same, of one child.
LEMMA ThinShrunk ==
    ASSUME NEW st, GoodState(st), NEW u, NEW h, NEW rows, NEW own, NEW r, r = Returns(st, << >>),
           OneThin(r, u, h, rows, own)
    PROVE  Shrunk(st, u, h, rows, own)
<1>2. /\ r.refs = << >> /\ r.err = st.err /\ GoodState(r) /\ Evolves(st, r) /\ Free(r) = Free(st)
  BY AsideReturns
<1>4. GoodState(u) /\ Evolves(r, u) /\ (r.err => u.err)
  BY DEF OneThin
<1>5. Shrunk(r, u, h, rows, own)
  <2>1. CASE u.err
    BY <1>4, <2>1, ShrunkNot
  <2>2. CASE ~u.err
    <3>1. PICK x \in Ref : /\ u.refs = Append(r.refs, x) /\ x.page \in Taken(r, u)
                           /\ Thin(u.pages, h, x, rows, own \cup Taken(r, u))
      BY <2>2 DEF OneThin
    <3>2. u.refs = <<x>>
      BY <1>2, <3>1, OneInSequence
    <3> QED BY <1>4, <3>1, <3>2 DEF Shrunk, Slim
  <2> QED BY <2>1, <2>2
<1>6. own \subseteq own \cup Taken(st, r)
  OBVIOUS
<1> QED BY <1>2, <1>5, <1>6, ShrunkAfter

\* The page written above the children that are kept.
LEMMA ParentGood ==
    ASSUME NEW st, GoodState(st), NEW s, GoodState(s), Evolves(st, s), NEW h \in Nat \ {0}, NEW w, NEW rows,
           NEW part, Rebalanced(s, w, h, rows, part), NEW own, part \subseteq own \cup Taken(st, s),
           NEW u, u = IF w.err THEN w ELSE CommitInternal(Returns(w, << >>), w.refs)
    PROVE  Shrunk(st, u, h + 1, rows, own)
<1>1. GoodState(w) /\ Evolves(s, w)
  BY DEF Rebalanced
<1>2. Evolves(st, w)
  BY <1>1, EvolvesFurther
<1>3. CASE w.err
  BY <1>1, <1>2, <1>3, ShrunkNot
<1>4. CASE ~w.err
  <2>1. PICK refs : refs = w.refs
    OBVIOUS
  <2>2. PICK r : r = Returns(w, << >>)
    OBVIOUS
  <2>3. /\ Strand(w.pages, h, refs) /\ refs # << >> /\ RowsOf(w.pages, h, refs) = rows
        /\ PagesOf(w.pages, h, refs) \subseteq part \cup Taken(s, w)
        /\ PagesOf(w.pages, h, refs) \cap Free(w) = {}
    BY <1>4, <2>1 DEF Rebalanced
  <2>4. u = CommitInternal(r, refs)
    BY <1>4, <2>1, <2>2
  <2>5. GoodState(r) /\ Free(r) = Free(w) /\ r.pages = w.pages
    BY <1>1, <2>2, AsideReturns
  <2>6. Strand(r.pages, h, refs) /\ PagesOf(r.pages, h, refs) \cap Free(r) = {}
    BY <2>3, <2>5
  <2>7. Len(refs) \in Nat /\ Len(refs) # 0
    <3>1. refs \in Seq(Kind(h))
      BY <2>3 DEF Strand
    <3> QED BY <2>3, <3>1
  <2>8. RowsOf(r.pages, h, refs) = rows /\ PagesOf(r.pages, h, refs) = PagesOf(w.pages, h, refs)
    BY <2>3, <2>5
  <2>9. PICK pages : pages = PagesOf(w.pages, h, refs)
    OBVIOUS
  <2>10. ASSUME Len(refs) >= 2 PROVE Shrunk(w, u, h + 1, rows, pages)
    <3>1. OneMore(r, u, h + 1, RowsOf(r.pages, h, refs), PagesOf(r.pages, h, refs))
      BY <2>4, <2>5, <2>6, <2>10, CommitInternalFull
    <3>2. OneMore(Returns(w, << >>), u, h + 1, rows, pages)
      BY <2>2, <2>8, <2>9, <3>1
    <3> QED BY <1>1, <3>2, OneShrunk
  <2>11. ASSUME Len(refs) = 1 PROVE Shrunk(w, u, h + 1, rows, pages)
    <3>1. OneThin(r, u, h + 1, RowsOf(r.pages, h, refs), PagesOf(r.pages, h, refs))
      BY <2>4, <2>5, <2>6, <2>11, CommitInternalThin
    <3>2. OneThin(r, u, h + 1, rows, pages)
      BY <2>8, <2>9, <3>1
    <3> QED BY <1>1, <2>2, <3>2, ThinShrunk
  <2>12. Shrunk(w, u, h + 1, rows, pages)
    <3>1. PICK n \in Nat : n = Len(refs) /\ n # 0
      BY <2>7, Zenon
    <3>2. n = 1 \/ n >= 2
      BY <3>1
    <3>3. Len(refs) = 1 \/ Len(refs) >= 2
      BY <3>1, <3>2, Zenon
    <3> QED BY <2>10, <2>11, <3>3, Zenon
  <2>13. pages \subseteq own \cup Taken(st, w)
    <3>1. Taken(st, s) \subseteq Taken(st, w) /\ Taken(s, w) \subseteq Taken(st, w)
      BY <1>1, TakenBy
    <3> QED BY <2>3, <2>9, <3>1
  <2> QED BY <1>1, <1>2, <2>12, <2>13, ShrunkAfter
<1> QED BY <1>3, <1>4

\* What rewrite_delete makes of a subtree of height h.
DeleteMakes(st, key, h, x, u) ==
    Shrunk(st, u, h, Change(ItemRows(st.pages, h, x), key, {}), ItemPages(st.pages, h, x) \ {x.page})
DeletesBelow(st, key, h, below) ==
    \A y : Target(st, h, y) => DeleteMakes(st, key, h, y, below[y.page])

\* A rewrite_delete that ends in an error at once.
LEMMA FailGood ==
    ASSUME NEW st, GoodState(st), NEW h, NEW rows, NEW own
    PROVE  Shrunk(st, Fail(st), h, rows, own)
<1>1. Fail(st).err = TRUE /\ GoodState(Fail(st)) /\ Evolves(st, Fail(st))
  BY AsideFail
<1> QED BY <1>1, ShrunkNot

\* A rewrite_delete that leaves nothing of the subtree.
LEMMA EmptyGood ==
    ASSUME NEW st, GoodState(st), NEW h, NEW own
    PROVE  Shrunk(st, Returns(st, << >>), h, {}, own)
<1>1. PICK u : u = Returns(st, << >>)
  OBVIOUS
<1>2. u.refs = << >> /\ u.err = st.err /\ GoodState(u) /\ Evolves(st, u)
  BY <1>1, AsideReturns
<1>3. Shrunk(st, u, h, {}, own)
  BY <1>2 DEF Shrunk
<1> QED BY <1>1, <1>3

\* rewrite_delete on a leaf: its rows but for the key, in one new leaf, or
\* nothing.
LEMMA DeleteLeaf ==
    ASSUME NEW st, GoodState(st), NEW key \in Nat, NEW x, Target(st, 1, x), NEW below
    PROVE  DeleteMakes(st, key, 1, x, DeleteAt(st, x.page, key, below))
<1>1. PageMap(st.pages)
  BY DEF GoodState
<1>2. PICK cells : cells = st.pages[x.page].cells
  OBVIOUS
<1>3. /\ IsPage(st.pages, x.page, "leaf") /\ Strand(st.pages, 0, cells)
      /\ RowsOf(st.pages, 0, cells) = ItemRows(st.pages, 1, x)
      /\ PagesOf(st.pages, 0, cells) = ItemPages(st.pages, 1, x) \ {x.page}
  BY <1>1, <1>2, LeafOpen DEF Target
<1>4. PICK rest : rest = Removed(cells, Rows(st.pages, cells), key)
  OBVIOUS
<1>5. PICK u : u = DeleteAt(st, x.page, key, below)
  OBVIOUS
<1>6. u = IF ~Holds(Rows(st.pages, cells), Below(Rows(st.pages, cells), key) + 1, key) THEN Fail(st)
          ELSE IF rest = << >> THEN Returns(st, << >>)
          ELSE CommitLeaf(Returns(st, << >>), rest)
  BY <1>2, <1>3, <1>4, <1>5 DEF DeleteAt, IsPage
<1>7. PICK rows, own : /\ rows = Change(ItemRows(st.pages, 1, x), key, {})
                       /\ own = ItemPages(st.pages, 1, x) \ {x.page}
  OBVIOUS
<1>8. CASE ~Holds(Rows(st.pages, cells), Below(Rows(st.pages, cells), key) + 1, key)
  <2>1. Shrunk(st, u, 1, rows, own)
    BY <1>6, <1>8, FailGood
  <2> QED BY <1>5, <1>7, <2>1 DEF DeleteMakes
<1>9. CASE Holds(Rows(st.pages, cells), Below(Rows(st.pages, cells), key) + 1, key)
  <2>1. Updated(st.pages, 0, cells, key, {}, PagesOf(st.pages, 0, cells), rest)
    BY <1>1, <1>3, <1>4, <1>9, RemovedGood
  <2>2. /\ Strand(st.pages, 0, rest) /\ RowsOf(st.pages, 0, rest) = rows
        /\ PagesOf(st.pages, 0, rest) \subseteq own
    BY <1>3, <1>7, <2>1 DEF Updated
  <2>3. CASE rest = << >>
    <3>1. RowsOf(st.pages, 0, << >>) = {}
      BY StrandOne
    <3>2. rows = {}
      BY <2>2, <2>3, <3>1
    <3>3. Shrunk(st, u, 1, rows, own)
      BY <1>6, <1>9, <2>3, <3>2, EmptyGood
    <3> QED BY <1>5, <1>7, <3>3 DEF DeleteMakes
  <2>4. CASE rest # << >>
    <3>1. PICK r : r = Returns(st, << >>)
      OBVIOUS
    <3>2. GoodState(r) /\ Free(r) = Free(st) /\ r.pages = st.pages
      BY <3>1, AsideReturns
    <3>3. own \cap Free(st) = {}
      BY <1>7 DEF Target
    <3>4. Strand(r.pages, 0, rest) /\ PagesOf(r.pages, 0, rest) \cap Free(r) = {}
      BY <2>2, <3>2, <3>3
    <3>5. u = CommitLeaf(r, rest)
      BY <1>6, <1>9, <2>4, <3>1
    <3>6. OneMore(r, u, 1, RowsOf(r.pages, 0, rest), PagesOf(r.pages, 0, rest))
      BY <2>4, <3>2, <3>4, <3>5, CommitLeafGood
    <3>7. PICK part : part = PagesOf(st.pages, 0, rest)
      OBVIOUS
    <3>8. OneMore(Returns(st, << >>), u, 1, rows, part)
      BY <2>2, <3>1, <3>2, <3>6, <3>7
    <3>9. Shrunk(st, u, 1, rows, part)
      BY <3>8, OneShrunk
    <3>10. Evolves(st, st) /\ part \subseteq own \cup Taken(st, st)
      BY <2>2, <3>7, AsideSelf
    <3>11. Shrunk(st, u, 1, rows, own)
      BY <3>9, <3>10, ShrunkAfter
    <3> QED BY <1>5, <1>7, <3>11 DEF DeleteMakes
  <2> QED BY <2>3, <2>4
<1> QED BY <1>8, <1>9

\* The children after the delete in one of them, with its neighbour taken in
\* when it is underfull.
LEMMA KidsGood ==
    ASSUME NEW st, GoodState(st), NEW key \in Nat, NEW k \in Nat, NEW refs, Strand(st.pages, k + 1, refs),
           Len(refs) >= 2, PagesOf(st.pages, k + 1, refs) \cap Free(st) = {}, NEW i, i = Route(refs, key),
           NEW s, DeleteMakes(st, key, k + 1, refs[i], s), ~s.err,
           NEW kids, kids = Splice(refs, i, i, s.refs)
    PROVE  /\ kids # << >>
           /\ \E part : /\ part \subseteq PagesOf(st.pages, k + 1, refs) \cup Taken(st, s)
                        /\ Rebalanced(s, Rebalance(s, kids, IF i <= Len(kids) THEN i ELSE Len(kids)), k + 1,
                                      Change(RowsOf(st.pages, k + 1, refs), key, {}), part)
<1>1. PICK g \in Nat \ {0} : g = k + 1
  OBVIOUS
<1>2. PICK a : a = IF i <= Len(kids) THEN i ELSE Len(kids)
  OBVIOUS
<1>3. PICK rows, own : /\ rows = Change(ItemRows(st.pages, g, refs[i]), key, {})
                       /\ own = ItemPages(st.pages, g, refs[i]) \ {refs[i].page}
  OBVIOUS
<1>4. Shrunk(st, s, g, rows, own)
  BY <1>1, <1>3 DEF DeleteMakes
<1>5. GoodState(s) /\ Evolves(st, s) /\ PageMap(s.pages) /\ PageMap(st.pages)
  BY <1>4 DEF Shrunk, GoodState
<1>6. /\ Strand(st.pages, g, refs) /\ PagesOf(st.pages, g, refs) \cap Free(st) = {} /\ refs # << >>
  BY <1>1
<1>7. i \in 1 .. Len(refs)
  BY <1>5, <1>6, RouteGood
<1>8. Len(refs) \in Nat
  BY <1>6, SeqFacts DEF Strand
<1>9. Target(st, g, refs[i]) /\ ItemPages(st.pages, g, refs[i]) \subseteq PagesOf(st.pages, g, refs)
  BY <1>6, <1>7, ChildTarget
<1>10. own \subseteq PagesOf(st.pages, g, refs) /\ own \subseteq ItemPages(st.pages, g, refs[i])
  BY <1>3, <1>9
<1>11. ASSUME Strand(s.pages, g, s.refs), RowsOf(s.pages, g, s.refs) = rows,
              PagesOf(s.pages, g, s.refs) \subseteq own \cup Taken(st, s)
       PROVE  /\ kids # << >>
              /\ \E part : /\ part \subseteq PagesOf(st.pages, g, refs) \cup Taken(st, s)
                           /\ Rebalanced(s, Rebalance(s, kids, a), g,
                                         Change(RowsOf(st.pages, g, refs), key, {}), part)
  <2>1. OfKey({}, key)
    BY DEF OfKey
  <2>2. {} \cap PagesOf(st.pages, g, refs) = {} /\ {} \cap Free(st) = {}
    OBVIOUS
  <2>3. PagesOf(s.pages, g, s.refs) \subseteq ItemPages(st.pages, g, refs[i]) \cup {} \cup Taken(st, s)
    BY <1>10, <1>11
  <2>4. Grafted(st, s, g, refs, i, key, {}, {}, kids)
    BY <1>3, <1>5, <1>6, <1>11, <2>1, <2>2, <2>3, GraftGood
  <2>5. Len(s.refs) \in Nat
    BY <1>11, SeqFacts DEF Strand
  <2>6. Len(kids) = Len(refs) - 1 + Len(s.refs)
    BY <2>4 DEF Grafted
  <2>7. Len(kids) \in Nat /\ Len(kids) >= 1
    <3>1. PICK m \in Nat : m = Len(s.refs)
      BY <2>5, Zenon
    <3>2. PICK n \in Nat : n = Len(refs)
      BY <1>8, Zenon
    <3>3. n >= 2
      BY <3>2
    <3>4. Len(kids) = n - 1 + m
      BY <2>6, <3>1, <3>2, Zenon
    <3> QED BY <3>3, <3>4
  <2>8. kids # << >> /\ a \in 1 .. Len(kids)
    BY <1>2, <1>7, <2>7
  <2>9. /\ Strand(s.pages, g, kids) /\ RowsOf(s.pages, g, kids) = Change(RowsOf(st.pages, g, refs), key, {})
        /\ PagesOf(s.pages, g, kids) \subseteq PagesOf(st.pages, g, refs) \cup Taken(st, s)
        /\ PagesOf(s.pages, g, kids) \cap Free(s) = {}
    BY <2>4 DEF Grafted
  <2>10. Rebalanced(s, Rebalance(s, kids, a), k + 1, RowsOf(s.pages, k + 1, kids), PagesOf(s.pages, k + 1, kids))
    BY <1>1, <1>5, <2>8, <2>9, RebalanceGood
  <2>11. Rebalanced(s, Rebalance(s, kids, a), g, RowsOf(s.pages, g, kids), PagesOf(s.pages, g, kids))
    BY <1>1, <2>10
  <2> QED BY <2>8, <2>9, <2>11
<1>12. CASE s.refs = << >> /\ rows = {}
  <2>1. Strand(s.pages, g, s.refs) /\ RowsOf(s.pages, g, s.refs) = {} /\ PagesOf(s.pages, g, s.refs) = {}
    BY <1>12, StrandOne
  <2> QED BY <1>1, <1>2, <1>11, <1>12, <2>1
<1>13. ASSUME NEW x \in Ref, s.refs = <<x>>, Proper(s.pages, g, x, rows, own \cup Taken(st, s))
       PROVE  /\ kids # << >>
              /\ \E part : /\ part \subseteq PagesOf(st.pages, g, refs) \cup Taken(st, s)
                           /\ Rebalanced(s, Rebalance(s, kids, a), g,
                                         Change(RowsOf(st.pages, g, refs), key, {}), part)
  <2>1. /\ Strand(s.pages, g, s.refs) /\ RowsOf(s.pages, g, s.refs) = rows
        /\ PagesOf(s.pages, g, s.refs) \subseteq own \cup Taken(st, s)
    <3>1. PICK mine : mine = own \cup Taken(st, s)
      OBVIOUS
    <3>2. Proper(s.pages, g, x, rows, mine)
      BY <1>13, <3>1
    <3>3. PICK xs : xs = <<x>>
      OBVIOUS
    <3>4. Strand(s.pages, g, xs) /\ RowsOf(s.pages, g, xs) = rows /\ PagesOf(s.pages, g, xs) \subseteq mine
      BY <1>5, <1>13, <3>2, <3>3, ProperStrand
    <3> QED BY <1>13, <3>1, <3>3, <3>4
  <2> QED BY <1>11, <2>1
<1>14. ASSUME NEW x \in Ref, s.refs = <<x>>, Thin(s.pages, g, x, rows, own \cup Taken(st, s))
       PROVE  /\ kids # << >>
              /\ \E part : /\ part \subseteq PagesOf(st.pages, g, refs) \cup Taken(st, s)
                           /\ Rebalanced(s, Rebalance(s, kids, a), g,
                                         Change(RowsOf(st.pages, g, refs), key, {}), part)
  <2>1. ChildDone(st, s, g, refs, i)
    BY <1>5, <1>6, <1>7, ChildSame
  <2>2. /\ Strand(s.pages, g, refs) /\ RowsOf(s.pages, g, refs) = RowsOf(st.pages, g, refs)
        /\ PagesOf(s.pages, g, refs) = PagesOf(st.pages, g, refs)
        /\ PagesOf(s.pages, g, refs) \cap Free(s) = {}
        /\ RowsIn(s.pages, g, refs, i, i) = ItemRows(st.pages, g, refs[i])
        /\ PagesIn(s.pages, g, refs, i, i) = ItemPages(st.pages, g, refs[i])
    BY <2>1 DEF ChildDone
  <2>3. Around(s.pages, g, refs, i, i, key)
    BY <1>5, <1>6, <2>2, RouteGood
  <2>4. PICK mine : mine = own \cup Taken(st, s)
    OBVIOUS
  <2>5. Thin(s.pages, g, x, Change(RowsIn(s.pages, g, refs, i, i), key, {}), mine)
    BY <1>3, <1>14, <2>2, <2>4
  <2>6. /\ 1 \in Nat \ {0} /\ i - 1 \in Nat /\ i - 1 \in 0 .. Len(refs) /\ i \in Nat \ {0} /\ i \in Nat
        /\ i \in 0 .. Len(refs) /\ i - 1 < i /\ i < i + 1 /\ i + 1 \in Nat /\ i + 1 \in Nat \ {0}
        /\ Len(refs) \in 0 .. Len(refs)
    BY <1>7, <1>8
  <2>7. PagesIn(s.pages, g, refs, 1, i - 1) \cap PagesIn(s.pages, g, refs, i, i) = {}
    BY <2>2, <2>6, InParts
  <2>8. PagesIn(s.pages, g, refs, i, i) \cap PagesIn(s.pages, g, refs, i + 1, Len(refs)) = {}
    BY <2>2, <2>6, InParts
  <2>9. /\ PagesIn(s.pages, g, refs, 1, i - 1) \subseteq PagesOf(s.pages, g, refs)
        /\ PagesIn(s.pages, g, refs, i + 1, Len(refs)) \subseteq PagesOf(s.pages, g, refs)
    BY <2>2, <2>6, InOf
  <2>10. Free(s) \subseteq Free(st)
    BY <1>5, FreeShrinks
  <2>11. Aloof(s, g, refs, i, mine)
    <3>1. mine \cap Free(s) = {}
      BY <1>6, <1>10, <2>4, <2>10 DEF Taken
    <3>2. mine \cap PagesIn(s.pages, g, refs, 1, i - 1) = {}
      BY <1>6, <1>10, <2>2, <2>4, <2>7, <2>9 DEF Taken
    <3>3. mine \cap PagesIn(s.pages, g, refs, i + 1, Len(refs)) = {}
      BY <1>6, <1>10, <2>2, <2>4, <2>8, <2>9 DEF Taken
    <3> QED BY <3>1, <3>2, <3>3 DEF Aloof
  <2>12. PICK xs : xs = <<x>>
    OBVIOUS
  <2>13. kids = Splice(refs, i, i, xs)
    BY <1>14, <2>12
  <2>14. OneReplaced(Ref, refs, i, x, kids)
    <3>1. refs \in Seq(Ref)
      BY <1>6 DEF Strand, Kind
    <3> QED BY <1>7, <2>12, <2>13, <3>1, SpliceOne
  <2>15. Len(kids) = Len(refs)
    BY <2>14 DEF OneReplaced
  <2>16. a = i /\ kids # << >>
    BY <1>2, <1>7, <1>8, <2>15
  <2>17. Rebalanced(s, Rebalance(s, kids, i), k + 1, Change(RowsOf(s.pages, k + 1, refs), key, {}),
                    PagesOf(s.pages, k + 1, refs) \cup mine)
    BY <1>1, <1>5, <1>7, <2>2, <2>3, <2>5, <2>11, <2>12, <2>13, RebalanceThin
  <2>18. PagesOf(s.pages, k + 1, refs) \cup mine \subseteq PagesOf(st.pages, g, refs) \cup Taken(st, s)
    BY <1>1, <1>10, <2>2, <2>4
  <2>19. Rebalanced(s, Rebalance(s, kids, a), g, Change(RowsOf(st.pages, g, refs), key, {}),
                    PagesOf(s.pages, k + 1, refs) \cup mine)
    BY <1>1, <2>2, <2>16, <2>17
  <2> QED BY <2>16, <2>18, <2>19
<1>15. \/ s.refs = << >> /\ rows = {}
       \/ \E x \in Ref : s.refs = <<x>> /\ Slim(s.pages, g, x, rows, own \cup Taken(st, s))
  BY <1>4 DEF Shrunk
<1>16. CASE \E x \in Ref : s.refs = <<x>> /\ Slim(s.pages, g, x, rows, own \cup Taken(st, s))
  <2>1. /\ kids # << >>
        /\ \E part : /\ part \subseteq PagesOf(st.pages, g, refs) \cup Taken(st, s)
                     /\ Rebalanced(s, Rebalance(s, kids, a), g,
                                   Change(RowsOf(st.pages, g, refs), key, {}), part)
    BY <1>13, <1>14, <1>16 DEF Slim
  <2> QED BY <1>1, <1>2, <2>1
<1> QED BY <1>12, <1>15, <1>16

\* rewrite_delete on an internal page, when it is right on the children.
LEMMA DeleteInner ==
    ASSUME NEW st, GoodState(st), NEW key \in Nat, NEW h \in Nat \ {0}, NEW x, Target(st, h + 1, x),
           NEW below, DeletesBelow(st, key, h, below)
    PROVE  DeleteMakes(st, key, h + 1, x, DeleteAt(st, x.page, key, below))
<1>1. PageMap(st.pages)
  BY DEF GoodState
<1>2. PICK refs : refs = Children(st.pages, x.page)
  OBVIOUS
<1>3. /\ IsPage(st.pages, x.page, "internal") /\ Len(refs) >= 2 /\ Strand(st.pages, h, refs)
      /\ RowsOf(st.pages, h, refs) = ItemRows(st.pages, h + 1, x)
      /\ PagesOf(st.pages, h, refs) \subseteq ItemPages(st.pages, h + 1, x) \ {x.page}
  BY <1>1, <1>2, InnerOpen DEF Target
<1>4. PICK i : i = Route(refs, key)
  OBVIOUS
<1>5. refs # << >>
  BY <1>3
<1>6. i \in 1 .. Len(refs)
  BY <1>1, <1>3, <1>4, <1>5, RouteGood
<1>7. PagesOf(st.pages, h, refs) \cap Free(st) = {}
  BY <1>3 DEF Target
<1>8. Target(st, h, refs[i])
  BY <1>1, <1>3, <1>6, <1>7, ChildTarget
<1>9. PICK s : s = below[refs[i].page]
  OBVIOUS
<1>10. DeleteMakes(st, key, h, refs[i], s)
  BY <1>8, <1>9 DEF DeletesBelow
<1>11. GoodState(s) /\ Evolves(st, s)
  BY <1>10 DEF DeleteMakes, Shrunk
<1>12. PICK kids : kids = Splice(refs, i, i, s.refs)
  OBVIOUS
<1>13. PICK w : w = Rebalance(s, kids, IF i <= Len(kids) THEN i ELSE Len(kids))
  OBVIOUS
<1>14. PICK u : u = IF w.err THEN w ELSE CommitInternal(Returns(w, << >>), w.refs)
  BY Zenon
<1>15. DeleteAt(st, x.page, key, below) = IF s.err \/ kids = << >> THEN Returns(s, << >>) ELSE u
  BY <1>2, <1>3, <1>4, <1>9, <1>12, <1>13, <1>14, ZenonT(60) DEF DeleteAt, IsPage
<1> DEFINE rows == Change(ItemRows(st.pages, h + 1, x), key, {})
           own == ItemPages(st.pages, h + 1, x) \ {x.page}
<1>16. CASE s.err
  <2> HIDE DEF rows, own
  <2>1. PICK v : v = Returns(s, << >>)
    OBVIOUS
  <2>2. GoodState(v) /\ Evolves(s, v) /\ v.err = s.err
    BY <1>11, <2>1, AsideReturns
  <2>3. Evolves(st, v) /\ v.err
    BY <1>11, <1>16, <2>2, EvolvesFurther
  <2>4. Shrunk(st, v, h + 1, rows, own)
    BY <2>2, <2>3, ShrunkNot
  <2> QED BY <1>15, <1>16, <2>1, <2>4 DEF DeleteMakes, rows, own
<1>17. CASE ~s.err
  <2>1. PICK k \in Nat : h = k + 1
    <3>1. h - 1 \in Nat /\ h = (h - 1) + 1
      OBVIOUS
    <3> QED BY <3>1
  <2>2. /\ Strand(st.pages, k + 1, refs) /\ PagesOf(st.pages, k + 1, refs) \cap Free(st) = {}
        /\ DeleteMakes(st, key, k + 1, refs[i], s)
    BY <1>3, <1>7, <1>10, <2>1
  <2>3. /\ kids # << >>
        /\ \E part : /\ part \subseteq PagesOf(st.pages, k + 1, refs) \cup Taken(st, s)
                     /\ Rebalanced(s, w, k + 1, Change(RowsOf(st.pages, k + 1, refs), key, {}), part)
    BY <1>3, <1>4, <1>12, <1>13, <1>17, <2>2, KidsGood
  <2>4. PICK part : /\ part \subseteq PagesOf(st.pages, h, refs) \cup Taken(st, s)
                    /\ Rebalanced(s, w, h, Change(RowsOf(st.pages, h, refs), key, {}), part)
    BY <2>1, <2>3
  <2>5. Rebalanced(s, w, h, rows, part) /\ part \subseteq own \cup Taken(st, s)
    BY <1>3, <2>4
  <2> HIDE DEF rows, own
  <2>6. Shrunk(st, u, h + 1, rows, own)
    BY <1>11, <1>14, <2>5, ParentGood
  <2> QED BY <1>15, <1>17, <2>3, <2>6 DEF DeleteMakes, rows, own
<1> QED BY <1>16, <1>17

\* rewrite_delete calls itself one level further down.
LEMMA DeleteLevel ==
    ASSUME NEW st, NEW key, NEW run, DeleteRun(run, st, key), NEW d \in 1 .. MaxTreeHeight, NEW id \in Nat
    PROVE  run[d][id] = DeleteAt(st, id, key, run[d - 1])
<1> DEFINE v(p) == DeleteAt(st, p, key, run[d - 1])
<1>1. run[d] = [p \in Nat |-> v(p)]
  BY DEF DeleteRun
<1> HIDE DEF v
<1>2. run[d][id] = v(id)
  BY <1>1
<1> QED BY <1>2 DEF v

\* rewrite_delete keeps the subtree's rows, but for the key.
LEMMA DeleteGood ==
    ASSUME NEW st, GoodState(st), NEW key \in Nat, NEW h \in 1 .. MaxTreeHeight, NEW x, Target(st, h, x)
    PROVE  DeleteMakes(st, key, h, x, Delete(st, x.page, key))
<1>1. PICK run : DeleteRun(run, st, key) /\ DeleteBy(run, st, key)
  BY DeleteSteps
<1> DEFINE Good(g, d) == DeletesBelow(st, key, g, run[d])
           S == {m \in Nat : \A d \in m + 1 .. MaxTreeHeight : Good(m + 1, d)}
<1>2. MaxTreeHeight \in Nat \ {0}
  BY HeightIsPositive
<1>3. S = Nat
  <2>1. 0 \in S
    <3>1. ASSUME NEW d \in 0 + 1 .. MaxTreeHeight PROVE Good(0 + 1, d)
      <4>1. d \in 1 .. MaxTreeHeight /\ 0 + 1 = 1
        BY <1>2, <3>1
      <4>2. ASSUME NEW y, Target(st, 1, y)
            PROVE  DeleteMakes(st, key, 1, y, run[d][y.page])
        <5>1. y.page \in Nat
          BY <4>2 DEF Target, Ref
        <5>2. run[d][y.page] = DeleteAt(st, y.page, key, run[d - 1])
          BY <1>1, <4>1, <5>1, DeleteLevel
        <5> QED BY <4>2, <5>2, DeleteLeaf
      <4> QED BY <4>1, <4>2 DEF DeletesBelow
    <3> HIDE DEF Good
    <3> QED BY <3>1
  <2>2. ASSUME NEW m \in S PROVE m + 1 \in S
    <3>1. m \in Nat /\ m + 1 \in Nat \ {0} /\ \A d \in m + 1 .. MaxTreeHeight : Good(m + 1, d)
      BY <2>2
    <3>2. ASSUME NEW d \in m + 1 + 1 .. MaxTreeHeight PROVE Good(m + 1 + 1, d)
      <4>1. d \in 1 .. MaxTreeHeight /\ d - 1 \in m + 1 .. MaxTreeHeight
        BY <1>2, <3>1, <3>2
      <4>2. DeletesBelow(st, key, m + 1, run[d - 1])
        BY <3>1, <4>1
      <4>3. PICK h1 \in Nat \ {0} : h1 = m + 1
        BY <3>1
      <4>4. ASSUME NEW y, Target(st, h1 + 1, y)
            PROVE  DeleteMakes(st, key, h1 + 1, y, run[d][y.page])
        <5>1. y.page \in Nat
          BY <4>4 DEF Target, Ref
        <5>2. run[d][y.page] = DeleteAt(st, y.page, key, run[d - 1])
          BY <1>1, <4>1, <5>1, DeleteLevel
        <5> QED BY <4>2, <4>3, <4>4, <5>2, DeleteInner
      <4> QED BY <4>3, <4>4 DEF DeletesBelow
    <3> HIDE DEF Good
    <3> QED BY <3>1, <3>2
  <2> HIDE DEF S
  <2> QED BY <2>1, <2>2, NatSetInduction DEF S
<1>4. DeletesBelow(st, key, h, run[MaxTreeHeight])
  <2>1. h - 1 \in Nat /\ (h - 1) + 1 = h /\ MaxTreeHeight \in h .. MaxTreeHeight
    BY <1>2
  <2>2. h - 1 \in S
    <3> HIDE DEF S
    <3> QED BY <1>3, <2>1
  <2>3. \A d \in (h - 1) + 1 .. MaxTreeHeight : Good((h - 1) + 1, d)
    <3> HIDE DEF Good
    <3> QED BY <2>2
  <2> QED BY <2>1, <2>3
<1>5. DeleteMakes(st, key, h, x, run[MaxTreeHeight][x.page])
  BY <1>4 DEF DeletesBelow
<1>6. Delete(st, x.page, key) = run[MaxTreeHeight][x.page]
  BY <1>1 DEF DeleteBy
<1> QED BY <1>5, <1>6

\* A whole page is not an internal page of one child.
LEMMA OnlyChildStays ==
    ASSUME NEW P, PageMap(P), NEW d \in Nat, NEW id \in Nat, Subtree(P, id, d + 1).ok
    PROVE  OnlyChild(P, id) = id
<1>1. LeafNode(P, id) \/ InnerNode(P, id, d)
  BY SubtreeUp
<1>2. CASE LeafNode(P, id)
  BY <1>2 DEF LeafNode, IsPage, OnlyChild
<1>3. CASE InnerNode(P, id, d)
  <2>1. Len(P[id].cells) \in Nat
    BY <1>3, InnerParts
  <2>2. PICK n \in Nat : n = Len(P[id].cells)
    BY <2>1
  <2>3. n >= 2
    BY <1>3, <2>2 DEF InnerNode
  <2>4. n # 1
    BY <2>3
  <2> QED BY <2>2, <2>4 DEF OnlyChild
<1> QED BY <1>1, <1>2, <1>3

\* delete stops going down from the root at a page that has more than one
\* child.
LEMMA ContractStays ==
    ASSUME NEW pages, NEW id, NEW run, ContractRun(run, pages, id), NEW n \in 0 .. MaxTreeHeight,
           NEW top, run[n] = top, OnlyChild(pages, top) = top
    PROVE  Contract(pages, id) = top
<1> DEFINE S == {m \in Nat : n + m <= MaxTreeHeight => run[n + m] = top}
<1>1. MaxTreeHeight \in Nat \ {0}
  BY HeightIsPositive
<1>2. n \in Nat /\ n + 0 = n
  BY <1>1
<1>3. 0 \in S
  BY <1>2
<1>4. ASSUME NEW m \in S PROVE m + 1 \in S
  <2>1. m \in Nat /\ (n + m <= MaxTreeHeight => run[n + m] = top)
    BY <1>4
  <2>2. ASSUME n + (m + 1) <= MaxTreeHeight PROVE run[n + (m + 1)] = top
    <3>1. PICK d \in Nat : d = n + (m + 1)
      BY <1>2, <2>1
    <3>2. d \in 1 .. MaxTreeHeight /\ d - 1 = n + m /\ n + m <= MaxTreeHeight
      BY <1>1, <1>2, <2>1, <2>2, <3>1
    <3>3. run[d] = OnlyChild(pages, run[d - 1])
      BY <3>2 DEF ContractRun
    <3> QED BY <2>1, <3>1, <3>2, <3>3
  <2> QED BY <2>1, <2>2
<1>5. S = Nat
  <2> HIDE DEF S
  <2> QED BY <1>3, <1>4, NatSetInduction DEF S
<1>6. MaxTreeHeight - n \in Nat /\ n + (MaxTreeHeight - n) = MaxTreeHeight
  BY <1>1, <1>2
<1>7. run[MaxTreeHeight] = top
  <2>1. MaxTreeHeight - n \in S
    <3> HIDE DEF S
    <3> QED BY <1>5, <1>6
  <2> QED BY <1>1, <1>6, <2>1
<1> QED BY <1>7 DEF ContractRun

\* The root of a delete: the page it wrote, or its only child.
LEMMA ContractGood ==
    ASSUME NEW P, PageMap(P), NEW h \in Nat \ {0}, NEW x \in Ref, NEW rows, NEW own, Slim(P, h, x, rows, own)
    PROVE  \E g \in Nat \ {0} : \E y \in Ref : Contract(P, x.page) = y.page /\ Proper(P, g, y, rows, own)
<1>1. PICK run : ContractRun(run, P, x.page)
  BY ContractSteps
<1>2. MaxTreeHeight \in Nat \ {0}
  BY HeightIsPositive
<1>3. run[0] = x.page /\ 0 \in 0 .. MaxTreeHeight /\ 1 \in 0 .. MaxTreeHeight /\ 1 \in 1 .. MaxTreeHeight
  BY <1>1, <1>2 DEF ContractRun
<1>4. ASSUME NEW g \in Nat \ {0}, NEW y \in Ref, Proper(P, g, y, rows, own)
      PROVE  OnlyChild(P, y.page) = y.page
  <2>1. y.page \in Nat /\ Subtree(P, y.page, g).ok
    BY <1>4 DEF Proper, ItemOk, Ref
  <2>2. PICK d \in Nat : g = d + 1
    <3>1. g - 1 \in Nat /\ g = (g - 1) + 1
      OBVIOUS
    <3> QED BY <3>1
  <2> QED BY <2>1, <2>2, OnlyChildStays
<1>5. CASE Proper(P, h, x, rows, own)
  <2>1. OnlyChild(P, x.page) = x.page
    BY <1>4, <1>5
  <2>2. Contract(P, x.page) = x.page
    BY <1>1, <1>3, <2>1, ContractStays
  <2> QED BY <1>5, <2>2
<1>6. CASE Thin(P, h, x, rows, own)
  <2>1. PICK y \in Ref : Children(P, x.page) = <<y>> /\ Proper(P, h - 1, y, rows, own)
    BY <1>6 DEF Thin
  <2>2. h - 1 \in Nat \ {0}
    BY <1>6 DEF Thin
  <2>3. IsPage(P, x.page, "internal") /\ Len(P[x.page].cells) = 1
    BY <1>6 DEF Thin
  <2>4. OnlyChild(P, y.page) = y.page
    BY <1>4, <2>1, <2>2
  <2>5. PICK cells : cells = P[x.page].cells
    OBVIOUS
  <2>6. cells \in Seq([key : Stored(Keys), child : Nat])
    BY <2>3, <2>5, PageParts
  <2>7. DOMAIN cells = 1 .. Len(cells) /\ 1 \in DOMAIN cells
    BY <2>3, <2>5, <2>6, SeqFacts
  <2>8. Children(P, x.page)[1] = [min |-> Decode(P, cells[1].key), page |-> cells[1].child]
    BY <2>5, <2>7 DEF Children
  <2>9. PICK xs : xs = <<y>>
    OBVIOUS
  <2>10. xs[1] = y
    BY <2>9
  <2>11. [min |-> Decode(P, cells[1].key), page |-> cells[1].child] = y
    BY <2>1, <2>8, <2>9, <2>10
  <2>12. cells[1].child = y.page
    BY <2>11
  <2>13. OnlyChild(P, x.page) = y.page
    BY <2>3, <2>5, <2>12 DEF OnlyChild, IsPage
  <2>14. run[1] = OnlyChild(P, run[1 - 1])
    BY <1>1, <1>3 DEF ContractRun
  <2>15. run[1] = y.page
    <3>1. 1 - 1 = 0
      OBVIOUS
    <3> QED BY <1>3, <2>13, <2>14, <3>1
  <2>16. Contract(P, x.page) = y.page
    BY <1>1, <1>3, <2>4, <2>15, ContractStays
  <2> QED BY <2>1, <2>2, <2>16
<1> QED BY <1>5, <1>6 DEF Slim

\* The powers of two.
Powers(pow) == pow \in [Nat -> Nat] /\ pow[0] = 1 /\ \A n \in Nat : pow[n + 1] = 2 * pow[n]

KeysIn(rows) == {r.key : r \in rows}
OneOfEach(rows) == \A r, s \in rows : r.key = s.key => r = s
\* Fewer keys than a tree of more than MAX_TREE_HEIGHT levels holds.
FewRows(rows) ==
    /\ IsFiniteSet(KeysIn(rows))
    /\ \E pow : Powers(pow) /\ Cardinality(KeysIn(rows)) < pow[MaxTreeHeight]

\* The keys of two sets of rows.
LEMMA KeysInUnion ==
    ASSUME NEW A, NEW B
    PROVE  KeysIn(A \cup B) = KeysIn(A) \cup KeysIn(B)
BY DEF KeysIn

\* Some of the rows have no more keys than all of them.
LEMMA SomeKeys ==
    ASSUME NEW more, IsFiniteSet(KeysIn(more)), NEW rows, rows \subseteq more
    PROVE  /\ IsFiniteSet(KeysIn(rows)) /\ Cardinality(KeysIn(rows)) \in Nat
           /\ Cardinality(KeysIn(rows)) <= Cardinality(KeysIn(more)) /\ Cardinality(KeysIn(more)) \in Nat
<1>1. PICK T : T = KeysIn(more)
  OBVIOUS
<1>2. KeysIn(rows) \in SUBSET T
  BY <1>1 DEF KeysIn
<1>3. PICK S \in SUBSET T : S = KeysIn(rows)
  BY <1>2
<1>4. IsFiniteSet(T)
  BY <1>1
<1>5. IsFiniteSet(S) /\ Cardinality(S) <= Cardinality(T)
  BY <1>4, FS_Subset
<1>6. Cardinality(S) \in Nat /\ Cardinality(T) \in Nat
  BY <1>4, <1>5, FS_CardinalityType
<1> QED BY <1>1, <1>3, <1>5, <1>6

\* The keys of rows apart from each other add up.
LEMMA ApartKeys ==
    ASSUME NEW A, A \subseteq KV, NEW B, B \subseteq KV, Before(A, B),
           IsFiniteSet(KeysIn(A)), IsFiniteSet(KeysIn(B))
    PROVE  Cardinality(KeysIn(A \cup B)) = Cardinality(KeysIn(A)) + Cardinality(KeysIn(B))
<1>1. PICK S, T : S = KeysIn(A) /\ T = KeysIn(B)
  OBVIOUS
<1>2. S \cap T = {}
  <2>1. ASSUME NEW r \in A, NEW s \in B PROVE r.key # s.key
    <3>1. r.key \in Nat /\ s.key \in Nat
      BY KeysAreNumbers
    <3>2. r.key < s.key
      BY DEF Before
    <3> QED BY <3>1, <3>2
  <2> QED BY <1>1, <2>1 DEF KeysIn
<1>3. IsFiniteSet(S) /\ IsFiniteSet(T) /\ Cardinality(S) \in Nat /\ Cardinality(T) \in Nat
  BY <1>1, FS_CardinalityType
<1>4. Cardinality(S \cup T) = Cardinality(S) + Cardinality(T) - Cardinality(S \cap T)
  BY <1>3, FS_Union
<1>5. Cardinality(S \cap T) = 0
  BY <1>2, FS_EmptySet
<1>6. PICK a \in Nat, b \in Nat : a = Cardinality(S) /\ b = Cardinality(T)
  BY <1>3
<1>7. Cardinality(S \cup T) = a + b
  BY <1>4, <1>5, <1>6
<1>8. KeysIn(A \cup B) = S \cup T
  BY <1>1, KeysInUnion
<1> QED BY <1>1, <1>6, <1>7, <1>8

\* A strand has each key once if its items do.
LEMMA StrandOfEach ==
    ASSUME NEW P, PageMap(P), NEW h \in Nat, NEW xs, Strand(P, h, xs),
           \A i \in DOMAIN xs : OneOfEach(ItemRows(P, h, xs[i]))
    PROVE  OneOfEach(RowsOf(P, h, xs))
<1>1. ASSUME NEW r \in RowsOf(P, h, xs), NEW s \in RowsOf(P, h, xs), r.key = s.key PROVE r = s
  <2>1. PICK i \in DOMAIN xs : r \in ItemRows(P, h, xs[i])
    BY DEF RowsOf
  <2>2. PICK j \in DOMAIN xs : s \in ItemRows(P, h, xs[j])
    BY DEF RowsOf
  <2>3. RowsOf(P, h, xs) \subseteq KV /\ i \in Nat /\ j \in Nat
    <3>1. DOMAIN xs = 1 .. Len(xs)
      BY StrandParts
    <3> QED BY <3>1, StrandParts
  <2>4. r.key \in Nat /\ s.key \in Nat
    BY <2>3, KeysAreNumbers
  <2>5. CASE i < j
    <3>1. Before(ItemRows(P, h, xs[i]), ItemRows(P, h, xs[j]))
      BY <2>5 DEF Strand
    <3>2. r.key < s.key
      BY <2>1, <2>2, <3>1 DEF Before
    <3> QED BY <1>1, <2>4, <3>2
  <2>6. CASE j < i
    <3>1. Before(ItemRows(P, h, xs[j]), ItemRows(P, h, xs[i]))
      BY <2>6 DEF Strand
    <3>2. s.key < r.key
      BY <2>1, <2>2, <3>1 DEF Before
    <3> QED BY <1>1, <2>4, <3>2
  <2>7. CASE i = j
    BY <1>1, <2>1, <2>2, <2>7 DEF OneOfEach
  <2> QED BY <2>3, <2>5, <2>6, <2>7
<1> QED BY <1>1 DEF OneOfEach

\* A subtree of height h has each key once, and at least 2^(h-1) of them.
Full(P, pow, h, x) ==
    /\ OneOfEach(ItemRows(P, h, x))
    /\ pow[h - 1] <= Cardinality(KeysIn(ItemRows(P, h, x)))

\* A leaf has a key at least, and each once.
LEMMA FullLeaf ==
    ASSUME NEW pow, Powers(pow), NEW P, PageMap(P), NEW x \in Ref, ItemOk(P, 1, x),
           IsFiniteSet(KeysIn(ItemRows(P, 1, x)))
    PROVE  Full(P, pow, 1, x)
<1>1. PICK rows : rows = ItemRows(P, 1, x)
  OBVIOUS
<1>2. PICK cells : cells = P[x.page].cells
  OBVIOUS
<1>3. Strand(P, 0, cells) /\ RowsOf(P, 0, cells) = rows
  BY <1>1, <1>2, LeafOpen
<1>4. OneOfEach(rows)
  <2>1. ASSUME NEW i \in DOMAIN cells PROVE OneOfEach(ItemRows(P, 0, cells[i]))
    BY DEF ItemRows, OneOfEach
  <2>2. 0 \in Nat
    OBVIOUS
  <2> QED BY <1>3, <2>1, <2>2, StrandOfEach
<1>5. 1 \in Nat /\ x \in Kind(1) /\ 1 - 1 = 0
  BY DEF Kind
<1>6. rows \subseteq KV /\ rows # {}
  BY <1>1, <1>5, ItemFacts
<1>7. IsFiniteSet(KeysIn(rows)) /\ Cardinality(KeysIn(rows)) \in Nat
  BY <1>1, SomeKeys
<1>8. KeysIn(rows) # {}
  BY <1>6 DEF KeysIn
<1>9. Cardinality(KeysIn(rows)) # 0
  BY <1>7, <1>8, FS_EmptySet
<1>10. PICK n \in Nat : n = Cardinality(KeysIn(rows))
  BY <1>7
<1>11. 1 <= n
  BY <1>9, <1>10
<1>12. pow[1 - 1] <= Cardinality(KeysIn(rows))
  BY <1>5, <1>10, <1>11 DEF Powers
<1> QED BY <1>1, <1>4, <1>12 DEF Full

\* An internal page has two children at least, and so twice the keys of a
\* child.
LEMMA FullInner ==
    ASSUME NEW pow, Powers(pow), NEW P, PageMap(P), NEW h \in Nat \ {0},
           \A y \in Ref : ItemOk(P, h, y) /\ IsFiniteSet(KeysIn(ItemRows(P, h, y))) => Full(P, pow, h, y),
           NEW x \in Ref, ItemOk(P, h + 1, x), IsFiniteSet(KeysIn(ItemRows(P, h + 1, x)))
    PROVE  Full(P, pow, h + 1, x)
<1>1. PICK rows : rows = ItemRows(P, h + 1, x)
  OBVIOUS
<1>2. PICK refs : refs = Children(P, x.page)
  OBVIOUS
<1>3. Strand(P, h, refs) /\ RowsOf(P, h, refs) = rows /\ Len(refs) >= 2
  BY <1>1, <1>2, InnerOpen
<1>4. /\ DOMAIN refs = 1 .. Len(refs) /\ Len(refs) \in Nat /\ rows \subseteq KV
      /\ \A i \in DOMAIN refs : refs[i] \in Ref /\ ItemOk(P, h, refs[i])
  BY <1>3, StrandParts DEF Kind
<1>5. \A i \in DOMAIN refs : Full(P, pow, h, refs[i])
  <2>1. ASSUME NEW i \in DOMAIN refs PROVE Full(P, pow, h, refs[i])
    <3>1. PICK part : part = ItemRows(P, h, refs[i])
      OBVIOUS
    <3>2. part \subseteq rows
      BY <1>3, <3>1 DEF RowsOf
    <3>3. IsFiniteSet(KeysIn(part))
      BY <1>1, <3>2, SomeKeys
    <3> QED BY <1>4, <3>1, <3>3
  <2> QED BY <2>1
<1>6. OneOfEach(rows)
  BY <1>3, <1>5, StrandOfEach DEF Full
<1>7. 1 \in DOMAIN refs /\ 2 \in DOMAIN refs
  BY <1>3, <1>4
<1>8. PICK A, B : A = ItemRows(P, h, refs[1]) /\ B = ItemRows(P, h, refs[2])
  OBVIOUS
<1>9. Before(A, B) /\ A \cup B \subseteq rows
  <2>1. 1 < 2
    OBVIOUS
  <2> QED BY <1>3, <1>7, <1>8, <2>1 DEF Strand, RowsOf
<1>10. A \subseteq KV /\ B \subseteq KV /\ IsFiniteSet(KeysIn(A)) /\ IsFiniteSet(KeysIn(B))
  <2>1. A \subseteq rows /\ B \subseteq rows /\ IsFiniteSet(KeysIn(rows))
    BY <1>1, <1>9
  <2> QED BY <1>4, <2>1, SomeKeys
<1>11. PICK a \in Nat, b \in Nat : a = Cardinality(KeysIn(A)) /\ b = Cardinality(KeysIn(B))
  BY <1>10, SomeKeys
<1>12. PICK c \in Nat : c = Cardinality(KeysIn(rows))
  BY <1>1, SomeKeys
<1>13. Cardinality(KeysIn(A \cup B)) = a + b
  BY <1>9, <1>10, <1>11, ApartKeys
<1>14. PICK both : both = A \cup B
  OBVIOUS
<1>15. Cardinality(KeysIn(both)) <= Cardinality(KeysIn(rows))
  BY <1>1, <1>9, <1>14, SomeKeys
<1>16. a + b <= c
  BY <1>12, <1>13, <1>14, <1>15
<1>17. pow[h - 1] <= a /\ pow[h - 1] <= b
  BY <1>5, <1>7, <1>8, <1>11 DEF Full
<1>18. PICK k \in Nat : h = k + 1
  <2>1. h - 1 \in Nat /\ h = (h - 1) + 1
    OBVIOUS
  <2> QED BY <2>1
<1>19. PICK p \in Nat : p = pow[k]
  BY DEF Powers
<1>20. pow[k + 1] = 2 * p
  BY <1>19 DEF Powers
<1>21. h - 1 = k /\ (h + 1) - 1 = k + 1
  BY <1>18
<1>22. p <= a /\ p <= b
  BY <1>17, <1>19, <1>21
<1>23. 2 * p <= c
  BY <1>16, <1>22
<1>24. pow[(h + 1) - 1] <= Cardinality(KeysIn(rows))
  BY <1>12, <1>20, <1>21, <1>23
<1> QED BY <1>1, <1>6, <1>24 DEF Full

\* A subtree of height h has at least 2^(h-1) keys, and each once.
LEMMA FullItem ==
    ASSUME NEW pow, Powers(pow), NEW P, PageMap(P), NEW h \in Nat \ {0}, NEW x \in Ref, ItemOk(P, h, x),
           IsFiniteSet(KeysIn(ItemRows(P, h, x)))
    PROVE  Full(P, pow, h, x)
<1> DEFINE S == {m \in Nat : \A y \in Ref : ItemOk(P, m + 1, y) /\ IsFiniteSet(KeysIn(ItemRows(P, m + 1, y))) => Full(P, pow, m + 1, y)}
<1>1. 0 \in S
  <2>1. 0 + 1 = 1
    OBVIOUS
  <2> QED BY <2>1, FullLeaf
<1>2. ASSUME NEW m \in S PROVE m + 1 \in S
  <2>1. m + 1 \in Nat \ {0} /\ \A y \in Ref : ItemOk(P, m + 1, y) /\ IsFiniteSet(KeysIn(ItemRows(P, m + 1, y))) => Full(P, pow, m + 1, y)
    BY <1>2
  <2>2. PICK g \in Nat \ {0} : g = m + 1
    BY <2>1
  <2>3. \A y \in Ref : ItemOk(P, g + 1, y) /\ IsFiniteSet(KeysIn(ItemRows(P, g + 1, y))) => Full(P, pow, g + 1, y)
    BY <2>1, <2>2, FullInner
  <2> QED BY <2>2, <2>3
<1>3. S = Nat
  <2> HIDE DEF S
  <2> QED BY <1>1, <1>2, NatSetInduction DEF S
<1>4. h - 1 \in Nat /\ (h - 1) + 1 = h
  OBVIOUS
<1>5. h - 1 \in S
  <2> HIDE DEF S
  <2> QED BY <1>3, <1>4
<1> QED BY <1>4, <1>5

\* The powers of two grow.
LEMMA PowersGrow ==
    ASSUME NEW pow, Powers(pow), NEW n \in Nat, NEW m \in Nat, n <= m
    PROVE  pow[n] <= pow[m]
<1> DEFINE S == {d \in Nat : pow[n] <= pow[n + d]}
<1>1. 0 \in S
  <2>1. n + 0 = n /\ pow[n] \in Nat
    BY DEF Powers
  <2> QED BY <2>1
<1>2. ASSUME NEW d \in S PROVE d + 1 \in S
  <2>1. d \in Nat /\ pow[n] <= pow[n + d]
    BY <1>2
  <2>2. PICK e \in Nat : e = n + d
    BY <2>1
  <2>3. pow[e + 1] = 2 * pow[e] /\ pow[e] \in Nat /\ pow[n] \in Nat
    BY DEF Powers
  <2>4. pow[n] <= pow[e + 1]
    <3>1. PICK p \in Nat, q \in Nat : p = pow[n] /\ q = pow[e]
      BY <2>3
    <3>2. p <= q
      BY <2>1, <2>2, <3>1
    <3> QED BY <2>3, <3>1, <3>2
  <2>5. n + (d + 1) = e + 1 /\ d + 1 \in Nat
    BY <2>1, <2>2
  <2> QED BY <2>4, <2>5
<1>3. S = Nat
  <2> HIDE DEF S
  <2> QED BY <1>1, <1>2, NatSetInduction DEF S
<1>4. m - n \in Nat /\ n + (m - n) = m
  OBVIOUS
<1>5. m - n \in S
  <2> HIDE DEF S
  <2> QED BY <1>3, <1>4
<1> QED BY <1>4, <1>5

\* No tree is deeper than the height limit.
LEMMA HeightBound ==
    ASSUME NEW P, PageMap(P), NEW h \in Nat \ {0}, NEW x \in Ref, ItemOk(P, h, x), FewRows(ItemRows(P, h, x))
    PROVE  h <= MaxTreeHeight
<1>1. PICK rows : rows = ItemRows(P, h, x)
  OBVIOUS
<1>2. PICK pow : Powers(pow) /\ Cardinality(KeysIn(rows)) < pow[MaxTreeHeight]
  BY <1>1 DEF FewRows
<1>3. IsFiniteSet(KeysIn(rows))
  BY <1>1 DEF FewRows
<1>4. Full(P, pow, h, x)
  BY <1>1, <1>2, <1>3, FullItem
<1>5. PICK c \in Nat : c = Cardinality(KeysIn(rows))
  BY <1>3, SomeKeys
<1>8. PICK k \in Nat : k = h - 1
  OBVIOUS
<1>9. PICK p \in Nat, q \in Nat : p = pow[k] /\ q = pow[MaxTreeHeight]
  BY <1>2, HeightIsPositive DEF Powers
<1>10. p <= c /\ c < q
  BY <1>1, <1>2, <1>4, <1>5, <1>8, <1>9 DEF Full
<1>11. ASSUME MaxTreeHeight <= k PROVE FALSE
  <2>1. pow[MaxTreeHeight] <= pow[k]
    BY <1>2, <1>11, HeightIsPositive, PowersGrow
  <2>2. q <= p
    BY <1>9, <2>1
  <2> QED BY <1>10, <2>2
<1> QED BY <1>8, <1>11, HeightIsPositive

\* A subtree has each key once.
LEMMA EachOfItem ==
    ASSUME NEW P, PageMap(P), NEW h \in Nat \ {0}, NEW x \in Ref, ItemOk(P, h, x), FewRows(ItemRows(P, h, x))
    PROVE  OneOfEach(ItemRows(P, h, x))
<1>1. PICK pow : Powers(pow)
  BY DEF FewRows
<1> QED BY <1>1, FullItem DEF Full, FewRows

-----------------------------------------------------------------------------
\* The map of some rows, at a key.
LEMMA MapWith ==
    ASSUME NEW rows, OneOfEach(rows), NEW r \in rows, r.key \in Keys
    PROVE  RowsMap(rows)[r.key] = r.val
<1>1. PICK k \in Keys : k = r.key
  OBVIOUS
<1>2. PICK s : s = CHOOSE t \in rows : t.key = k
  OBVIOUS
<1>3. s \in rows /\ s.key = k
  BY <1>1, <1>2
<1>4. s = r
  BY <1>1, <1>3 DEF OneOfEach
<1>5. \E t \in rows : t.key = k
  BY <1>1
<1>6. RowsMap(rows)[k] = s.val
  BY <1>2, <1>5 DEF RowsMap
<1> QED BY <1>1, <1>4, <1>6

\* The map of some rows, at a key that none of them has.
LEMMA MapWithout ==
    ASSUME NEW rows, NEW k \in Keys, \A r \in rows : r.key # k
    PROVE  RowsMap(rows)[k] = Missing
BY DEF RowsMap

\* What put and delete do to the map.
NewRows(op) == IF op.val = Missing THEN {} ELSE {op}
\* The rows changed at a key are the map after the put or the delete.
LEMMA ChangeMap ==
    ASSUME NEW rows, rows \subseteq KV, OneOfEach(rows), NEW op \in Op, NEW key, key = op.key
    PROVE  RowsMap(Change(rows, key, NewRows(op))) = Effect(RowsMap(rows), op)
<1>1. PICK new : new = Change(rows, key, NewRows(op))
  OBVIOUS
<1>2. op.key \in Keys /\ (op.val # Missing => op \in KV)
  BY DEF Op, Entry, KV
<1>3. \A r \in new : (r \in rows /\ r.key # key) \/ (r = op /\ op.val # Missing)
  BY <1>1 DEF Change, NewRows
<1>4. \A r \in rows : r.key # key => r \in new
  BY <1>1 DEF Change
<1>5. OneOfEach(new)
  BY <1>3 DEF OneOfEach
<1>6. ASSUME NEW k \in Keys PROVE RowsMap(new)[k] = IF k = op.key THEN op.val ELSE RowsMap(rows)[k]
  <2>1. CASE k = op.key /\ op.val = Missing
    <3>1. \A r \in new : r.key # k
      BY <1>3, <2>1
    <3> QED BY <2>1, <3>1, MapWithout
  <2>2. CASE k = op.key /\ op.val # Missing
    <3>1. op \in new
      BY <1>1, <2>2 DEF Change, NewRows
    <3> QED BY <1>2, <1>5, <2>2, <3>1, MapWith
  <2>3. CASE k # op.key /\ \E r \in rows : r.key = k
    <3>1. PICK r \in rows : r.key = k
      BY <2>3
    <3>2. r \in new
      BY <1>4, <2>3, <3>1
    <3>3. RowsMap(new)[k] = r.val /\ RowsMap(rows)[k] = r.val
      BY <1>5, <3>1, <3>2, MapWith
    <3> QED BY <2>3, <3>3
  <2>4. CASE k # op.key /\ ~\E r \in rows : r.key = k
    <3>1. \A r \in new : r.key # k
      BY <1>3, <2>4
    <3>2. RowsMap(new)[k] = Missing /\ RowsMap(rows)[k] = Missing
      BY <2>4, <3>1, MapWithout
    <3> QED BY <2>4, <3>2
  <2> QED BY <2>1, <2>2, <2>3, <2>4
<1>7. DOMAIN RowsMap(rows) = Keys /\ DOMAIN RowsMap(new) = Keys
  BY DEF RowsMap
<1>8. PICK f, g : f = RowsMap(rows) /\ g = RowsMap(new)
  OBVIOUS
<1>9. DOMAIN f = Keys /\ DOMAIN g = Keys /\ g = [k \in Keys |-> g[k]] /\ \A k \in Keys : g[k] = IF k = op.key THEN op.val ELSE f[k]
  <2>1. DOMAIN f = Keys /\ \A k \in Keys : g[k] = IF k = op.key THEN op.val ELSE f[k]
    BY <1>6, <1>7, <1>8
  <2>2. g = [k \in Keys |-> g[k]]
    BY <1>8 DEF RowsMap
  <2>3. DOMAIN g = Keys
    BY <1>7, <1>8
  <2> QED BY <2>1, <2>2, <2>3
<1>10. g = [f EXCEPT ![op.key] = op.val]
  BY <1>2, <1>9
<1> QED BY <1>1, <1>8, <1>10 DEF Effect

\* Some pages up to n that are not in use, in ascending order.
Pool(s, refs, n) ==
    /\ s \in Seq(Nat)
    /\ \A i \in DOMAIN s : s[i] >= FirstPage /\ s[i] <= n /\ s[i] \notin refs
    /\ \A i, j \in DOMAIN s : i < j => s[i] < s[j]

\* refresh_reusable_pages takes the next page or passes it over.
LEMMA PoolNext ==
    ASSUME NEW refs, NEW n \in Nat, n + 1 >= FirstPage, NEW s, Pool(s, refs, n),
           NEW t, t = IF n + 1 \in refs THEN s ELSE Append(s, n + 1)
    PROVE  Pool(t, refs, n + 1)
<1>1. s \in Seq(Nat)
  BY DEF Pool
<1>2. DOMAIN s = 1 .. Len(s) /\ Len(s) \in Nat /\ \A i \in DOMAIN s : i \in Nat /\ s[i] \in Nat
  BY <1>1, SeqFacts
<1>3. CASE n + 1 \in refs
  <2>1. t = s
    BY <1>3
  <2>2. \A i \in DOMAIN s : s[i] <= n + 1
    BY <1>2 DEF Pool
  <2> QED BY <2>1, <2>2 DEF Pool
<1>4. CASE n + 1 \notin refs
  <2>1. PICK e \in Nat : e = n + 1
    OBVIOUS
  <2>2. t = Append(s, e)
    BY <1>4, <2>1
  <2>3. /\ t \in Seq(Nat) /\ Len(t) = Len(s) + 1 /\ (\A i \in 1 .. Len(s) : t[i] = s[i]) /\ t[Len(s) + 1] = e
    BY <1>1, <2>2, AppendFacts, SMTT(30)
  <2>4. PICK m \in Nat : m = Len(s)
    BY <1>2
  <2>5. DOMAIN t = 1 .. m + 1 /\ t[m + 1] = e /\ \A i \in 1 .. m : t[i] = s[i] /\ i \in DOMAIN s
    <3>1. DOMAIN t = 1 .. Len(t)
      BY <2>3, SeqFacts
    <3>2. Len(t) = m + 1
      BY <2>3, <2>4
    <3> QED BY <1>2, <2>3, <2>4, <3>1, <3>2
  <2>6. ASSUME NEW i \in DOMAIN t PROVE t[i] >= FirstPage /\ t[i] <= n + 1 /\ t[i] \notin refs
    <3>1. CASE i = m + 1
      BY <1>4, <2>1, <2>5, <3>1
    <3>2. CASE i # m + 1
      <4>1. i \in 1 .. m
        BY <2>5, <3>2
      <4> QED BY <1>2, <2>5, <4>1 DEF Pool
    <3> QED BY <3>1, <3>2
  <2>7. ASSUME NEW i \in DOMAIN t, NEW j \in DOMAIN t, i < j PROVE t[i] < t[j]
    <3>1. i \in 1 .. m
      BY <2>5, <2>7
    <3>2. CASE j = m + 1
      BY <1>2, <2>1, <2>5, <3>1, <3>2 DEF Pool
    <3>3. CASE j # m + 1
      <4>1. j \in 1 .. m
        BY <2>5, <3>3
      <4> QED BY <2>5, <2>7, <3>1, <4>1 DEF Pool
    <3> QED BY <3>2, <3>3
  <2> QED BY <2>3, <2>6, <2>7 DEF Pool
<1> QED BY <1>3, <1>4

\* refresh_reusable_pages.
LEMMA PoolGood ==
    ASSUME NEW refs, NEW count \in Nat, count >= FirstPage
    PROVE  Pool(Reusable(refs, count), refs, count - 1)
<1>1. PICK run : ReusableRun(run, refs, count)
  BY ReusableSteps
<1>2. FirstPage = 2
  BY DEF FirstPage
<1> DEFINE S == {m \in Nat : m + 1 <= count - 1 => Pool(run[m + 1], refs, m + 1)}
<1>3. 0 \in S
  <2>1. run[1] = << >>
    <3>1. FirstPage - 1 = 1
      BY <1>2
    <3> QED BY <1>1, <3>1 DEF ReusableRun
  <2>2. Pool(<< >>, refs, 1)
    BY DEF Pool
  <2>3. 0 + 1 = 1
    OBVIOUS
  <2> QED BY <2>1, <2>2, <2>3
<1>4. ASSUME NEW m \in S PROVE m + 1 \in S
  <2>1. m \in Nat /\ (m + 1 <= count - 1 => Pool(run[m + 1], refs, m + 1))
    BY <1>4
  <2>2. ASSUME (m + 1) + 1 <= count - 1 PROVE Pool(run[(m + 1) + 1], refs, (m + 1) + 1)
    <3>1. PICK n \in Nat : n = m + 1
      BY <2>1
    <3>2. n + 1 \in FirstPage .. count - 1 /\ n + 1 >= FirstPage /\ m + 1 <= count - 1 /\ (n + 1) - 1 = n
      BY <1>2, <2>1, <2>2, <3>1
    <3>3. Pool(run[n], refs, n)
      BY <2>1, <3>1, <3>2
    <3>4. run[n + 1] = IF n + 1 \in refs THEN run[(n + 1) - 1] ELSE Append(run[(n + 1) - 1], n + 1)
      BY <1>1, <3>2 DEF ReusableRun
    <3>5. PICK s, t : s = run[n] /\ t = run[n + 1]
      OBVIOUS
    <3>6. t = IF n + 1 \in refs THEN s ELSE Append(s, n + 1)
      BY <3>2, <3>4, <3>5
    <3>7. Pool(t, refs, n + 1)
      BY <3>2, <3>3, <3>5, <3>6, PoolNext
    <3> QED BY <3>1, <3>5, <3>7
  <2> QED BY <2>1, <2>2
<1>5. S = Nat
  <2> HIDE DEF S
  <2> QED BY <1>3, <1>4, NatSetInduction DEF S
<1>6. count - 2 \in Nat /\ (count - 2) + 1 = count - 1
  BY <1>2
<1>7. count - 2 \in S
  <2> HIDE DEF S
  <2> QED BY <1>5, <1>6
<1>8. Pool(run[count - 1], refs, count - 1)
  BY <1>6, <1>7
<1> QED BY <1>1, <1>8 DEF ReusableRun

-----------------------------------------------------------------------------
\* A committed file and the tree in it.
Base(P, count, t) ==
    /\ PageMap(P) /\ count \in Nat /\ count >= FirstPage /\ DOMAIN P \subseteq FirstPage .. count - 1
    /\ \A id \in t.refs : id \in DOMAIN P
    /\ t.ok

StartsAs(P, count, t, st) ==
    /\ IsState(st) /\ st.pages = P /\ st.count = count /\ st.writes = << >> /\ st.err = FALSE
    /\ st.pool = Reusable(t.refs, count) /\ st.refs = << >>
\* The state a rewriting starts in.
LEMMA StartState ==
    ASSUME NEW P, NEW count, NEW t, Base(P, count, t), NEW st, st = Rewriting(P, count, t)
    PROVE  StartsAs(P, count, t, st)
BY DEF Rewriting, IsState, Base, StartsAs

\* The slot of the i-th write: a reusable page first, then a new one.
SlotIs(p, pool, n, refs, count, i) ==
    /\ p \in Nat /\ p >= FirstPage /\ (p < count => p \notin refs)
    /\ i <= n => p < count /\ i \in DOMAIN pool /\ p = pool[i]
    /\ i > n => p = count + i - n - 1 /\ p >= count
\* The slot of a write: a reusable page while there is one, then a new
\* page.
LEMMA StartSlots ==
    ASSUME NEW st, NEW refs, NEW count \in Nat, count >= FirstPage, st.count = count, NEW pool, pool = st.pool,
           Pool(pool, refs, count - 1), NEW i \in Nat \ {0}
    PROVE  SlotIs(Slot(st, i), pool, Len(pool), refs, count, i)
<1>2. pool \in Seq(Nat)
  BY DEF Pool
<1>3. DOMAIN pool = 1 .. Len(pool) /\ Len(pool) \in Nat /\ \A k \in DOMAIN pool : pool[k] \in Nat
  BY <1>2, SeqFacts
<1>4. PICK n \in Nat : n = Len(pool)
  BY <1>3
<1>5. FirstPage = 2
  BY DEF FirstPage
<1>6. PICK p : p = Slot(st, i)
  OBVIOUS
<1>7. CASE i <= n
  <2>1. i \in DOMAIN pool
    BY <1>3, <1>4, <1>7
  <2>2. p = pool[i]
    BY <1>4, <1>6, <1>7 DEF Slot
  <2>3. p \in Nat /\ p >= FirstPage /\ p <= count - 1 /\ p \notin refs
    BY <1>3, <2>1, <2>2 DEF Pool
  <2>4. p < count /\ ~(i > n)
    BY <1>7, <2>3
  <2>5. SlotIs(p, pool, n, refs, count, i)
    BY <2>1, <2>2, <2>3, <2>4 DEF SlotIs
  <2> QED BY <1>4, <1>6, <2>5
<1>8. CASE i > n
  <2>1. p = count + i - n - 1
    BY <1>4, <1>6, <1>8 DEF Slot
  <2>2. p \in Nat /\ p >= count /\ p >= FirstPage /\ ~(p < count) /\ ~(i <= n)
    BY <1>5, <1>8, <2>1
  <2>3. SlotIs(p, pool, n, refs, count, i)
    BY <2>1, <2>2 DEF SlotIs
  <2> QED BY <1>4, <1>6, <2>3
<1> QED BY <1>7, <1>8

\* No slot is taken twice.
LEMMA SlotsApart ==
    ASSUME NEW st, NEW refs, NEW count \in Nat, count >= FirstPage, st.count = count, NEW pool, pool = st.pool,
           Pool(pool, refs, count - 1), NEW i \in Nat \ {0}, NEW j \in Nat \ {0}, i < j
    PROVE  Slot(st, i) # Slot(st, j)
<1>1. PICK n : n = Len(pool)
  OBVIOUS
<1>2. n \in Nat
  <2>1. pool \in Seq(Nat)
    BY DEF Pool
  <2> QED BY <1>1, <2>1, SeqFacts
<1>3. PICK p, q : p = Slot(st, i) /\ q = Slot(st, j)
  OBVIOUS
<1>4. SlotIs(p, pool, n, refs, count, i) /\ SlotIs(q, pool, n, refs, count, j)
  BY <1>1, <1>3, StartSlots
<1>5. p \in Nat /\ q \in Nat
  BY <1>4 DEF SlotIs
<1>6. CASE j <= n
  <2>1. i <= n
    BY <1>2, <1>6
  <2>2. i \in DOMAIN pool /\ j \in DOMAIN pool /\ p = pool[i] /\ q = pool[j]
    BY <1>4, <1>6, <2>1 DEF SlotIs
  <2>3. pool[i] < pool[j]
    BY <2>2 DEF Pool
  <2> QED BY <1>3, <1>5, <2>2, <2>3
<1>7. CASE j > n /\ i <= n
  <2>1. p < count /\ q >= count
    BY <1>4, <1>7 DEF SlotIs
  <2> QED BY <1>3, <1>5, <2>1
<1>8. CASE j > n /\ i > n
  <2>1. p = count + i - n - 1 /\ q = count + j - n - 1
    BY <1>4, <1>8 DEF SlotIs
  <2> QED BY <1>2, <1>3, <2>1
<1> QED BY <1>2, <1>6, <1>7, <1>8

\* refresh_reusable_pages: nothing of the tree is among the slots.
Begun(P, count, t, st) ==
    /\ GoodState(st) /\ StartsAs(P, count, t, st)
    /\ Pool(st.pool, t.refs, count - 1) /\ t.refs \cap Free(st) = {}
\* The state a rewriting starts in is a good one, and no slot to come is
\* part of the tree.
LEMMA StartGood ==
    ASSUME NEW P, NEW count, NEW t, Base(P, count, t), NEW st, st = Rewriting(P, count, t)
    PROVE  Begun(P, count, t, st)
<1>1. /\ PageMap(P) /\ count \in Nat /\ count >= FirstPage /\ \A id \in t.refs : id \in Nat /\ id < count
  BY DEF Base, PageMap
<1>2. StartsAs(P, count, t, st)
  BY StartState
<1>3. Pool(st.pool, t.refs, count - 1)
  BY <1>1, <1>2, PoolGood DEF StartsAs
<1>4. PICK pool : pool = st.pool
  OBVIOUS
<1>5. \A i \in Nat \ {0} : SlotIs(Slot(st, i), pool, Len(pool), t.refs, count, i)
  BY <1>1, <1>2, <1>3, <1>4, StartSlots DEF StartsAs
<1>6. ASSUME NEW i \in Nat \ {0}, NEW j \in Nat \ {0}, Slot(st, i) = Slot(st, j) PROVE i = j
  <2>1. ~(i < j)
    BY <1>1, <1>2, <1>3, <1>4, <1>6, SlotsApart DEF StartsAs
  <2>2. ~(j < i)
    BY <1>1, <1>2, <1>3, <1>4, <1>6, SlotsApart DEF StartsAs
  <2> QED BY <2>1, <2>2
<1>7. Sourced(st)
  <2>1. st.pool \in Seq(Nat) /\ st.count \in Nat
    BY <1>1, <1>2, <1>3 DEF StartsAs, Pool
  <2>2. \A i \in Nat \ {0} : Slot(st, i) \in Nat /\ Slot(st, i) >= FirstPage
    BY <1>5 DEF SlotIs
  <2> QED BY <1>6, <2>1, <2>2 DEF Sourced
<1>8. GoodState(st)
  <2>1. st.writes \in Seq([id : Nat, page : Page]) /\ DOMAIN st.writes = {}
    BY <1>2 DEF StartsAs
  <2>2. st.err \in BOOLEAN /\ IsState(st) /\ PageMap(st.pages)
    BY <1>1, <1>2 DEF StartsAs
  <2> QED BY <1>7, <2>1, <2>2 DEF GoodState
<1>9. t.refs \cap Free(st) = {}
  <2>1. ASSUME NEW id \in t.refs, id \in Free(st) PROVE FALSE
    <3>1. PICK i \in Nat : i > Len(st.writes) /\ id = Slot(st, i)
      BY <2>1 DEF Free
    <3>2. Len(st.writes) = 0
      BY <1>2 DEF StartsAs
    <3>3. i \in Nat \ {0}
      BY <3>1, <3>2
    <3>4. id < count => id \notin t.refs
      BY <1>5, <3>1, <3>3 DEF SlotIs
    <3> QED BY <1>1, <2>1, <3>4
  <2> QED BY <2>1
<1> QED BY <1>2, <1>3, <1>8, <1>9 DEF Begun

\* The pages of the committed extent.
LEMMA CommittedFacts ==
    ASSUME NEW P, PageMap(P), NEW n
    PROVE  /\ PageMap(Committed(P, n)) /\ DOMAIN Committed(P, n) = {id \in DOMAIN P : id < n}
           /\ \A id \in DOMAIN P : id < n => Committed(P, n)[id] = P[id]
BY DEF PageMap, Committed, Restrict

\* What a tree refers to is committed.
LEMMA TreeRefs ==
    ASSUME NEW P, PageMap(P), NEW n \in Nat, NEW root \in Nat, Tree(P, n, root).ok
    PROVE  /\ \A id \in Tree(P, n, root).refs : id \in DOMAIN P /\ id < n
           /\ root # RootNone => root \in Tree(P, n, root).refs
<1>1. CASE root = RootNone
  BY <1>1 DEF Tree
<1>2. CASE root # RootNone
  <2>1. Tree(P, n, root) = Subtree(Committed(P, n), root, MaxTreeHeight)
    BY <1>2 DEF Tree
  <2>2. Shaped(Committed(P, n), Tree(P, n, root), root, MaxTreeHeight)
    BY <2>1, CommittedFacts, TreeShaped, HeightIsPositive
  <2> QED BY <2>2, CommittedFacts DEF Shaped
<1> QED BY <1>1, <1>2

\* A tree is the same after anything that keeps its pages.
LEMMA TreeSame ==
    ASSUME NEW P, PageMap(P), NEW Q, PageMap(Q), NEW n \in Nat, NEW m \in Nat, NEW root \in Nat,
           Tree(P, n, root).ok, Keeps(P, Q, Tree(P, n, root).refs),
           \A id \in Tree(P, n, root).refs : id < m
    PROVE  Tree(Q, m, root) = Tree(P, n, root)
<1>1. CASE root = RootNone
  BY <1>1 DEF Tree
<1>2. CASE root # RootNone
  <2> DEFINE T == Tree(P, n, root)
             A == Committed(P, n)
             B == Committed(Q, m)
  <2>1. T = Subtree(A, root, MaxTreeHeight) /\ Tree(Q, m, root) = Subtree(B, root, MaxTreeHeight)
    BY <1>2 DEF Tree
  <2>2. /\ PageMap(A) /\ PageMap(B) /\ DOMAIN A = {id \in DOMAIN P : id < n}
        /\ DOMAIN B = {id \in DOMAIN Q : id < m}
        /\ \A id \in DOMAIN P : id < n => A[id] = P[id]
        /\ \A id \in DOMAIN Q : id < m => B[id] = Q[id]
    BY CommittedFacts
  <2> HIDE DEF A, B
  <2>3. Shaped(A, T, root, MaxTreeHeight)
    BY <2>1, <2>2, TreeShaped, HeightIsPositive
  <2>4. Keeps(A, B, T.refs)
    BY <2>2 DEF Keeps
  <2>5. MaxTreeHeight \in Nat /\ T.height <= MaxTreeHeight
    BY <2>3, HeightIsPositive DEF Shaped
  <2> HIDE DEF T
  <2>6. T.ok
    BY DEF T
  <2> QED BY <2>1, <2>2, <2>4, <2>5, <2>6, SubtreeSame DEF T
<1> QED BY <1>1, <1>2

\* Rows are a map from keys to values.
LEMMA RowsMapIsMap ==
    ASSUME NEW rows, rows \subseteq KV
    PROVE  RowsMap(rows) \in Map
<1>1. ASSUME NEW k \in Keys, \E r \in rows : r.key = k PROVE (CHOOSE r \in rows : r.key = k).val \in Values
  BY <1>1 DEF KV
<1> QED BY <1>1 DEF RowsMap, Map, Entry

\* The keys a map holds, and that they are fewer than a tree of more than
\* MAX_TREE_HEIGHT levels holds.
Kept(map) == {k \in Keys : map[k] # Missing}
FewKept(map) ==
    /\ IsFiniteSet(Kept(map))
    /\ \E pow : Powers(pow) /\ Cardinality(Kept(map)) < pow[MaxTreeHeight]
\* The keys of some rows are those their map holds.
LEMMA KeptKeys ==
    ASSUME NEW rows, rows \subseteq KV
    PROVE  Kept(RowsMap(rows)) = KeysIn(rows) /\ (FewKept(RowsMap(rows)) <=> FewRows(rows))
<1>1. PICK f : f = RowsMap(rows)
  OBVIOUS
<1>2. ASSUME NEW k \in Keys, f[k] # Missing PROVE k \in KeysIn(rows)
  BY <1>1, <1>2, MapWithout DEF KeysIn
<1>3. ASSUME NEW r \in rows PROVE r.key \in Keys /\ f[r.key] # Missing
  <2>1. r.key \in Keys
    BY DEF KV
  <2>2. PICK k \in Keys : k = r.key
    BY <2>1
  <2>3. PICK s : s = CHOOSE x \in rows : x.key = k
    OBVIOUS
  <2>4. s \in rows
    BY <2>2, <2>3
  <2>5. s.val \in Values
    BY <2>4 DEF KV
  <2>6. f[k] = s.val
    BY <1>1, <2>2, <2>3 DEF RowsMap
  <2> QED BY <2>1, <2>2, <2>5, <2>6, MissingIsNoValue
<1>4. Kept(f) = KeysIn(rows)
  BY <1>2, <1>3 DEF Kept, KeysIn
<1> QED BY <1>1, <1>4 DEF FewKept, FewRows

-----------------------------------------------------------------------------
\* The tree under a root, once the file is extended to count pages, is whole
\* and holds the map.
Reads(P, count, root, map) ==
    LET t == Tree(P, count, root)
    IN  t.ok /\ t.rows \subseteq KV /\ RowsMap(t.rows) = map
\* The pages to come: each once, those beyond the extent in order.
InOrder(w, count) ==
    /\ w \in Seq([id : Nat, page : Page])
    /\ \A i, j \in DOMAIN w : w[i].id = w[j].id => i = j
    /\ \A i \in DOMAIN w : w[i].id >= FirstPage
    /\ w # << >> => w[1].id <= count
    /\ \A i \in DOMAIN w : i + 1 \in DOMAIN w => w[i + 1].id <= count \/ w[i + 1].id = w[i].id + 1
Aims(Q, root, old, map) ==
    /\ root \in Nat /\ root # old
    /\ \A n \in Nat : (\A id \in DOMAIN Q : id < n) => Reads(Q, n, root, map)
\* What a mutation promises as long as it runs: the writes to come spare the
\* published tree, and lead to the tree of the new map.
Promise(P, count, root, old, map, w, err, next) ==
    /\ InOrder(w, count) /\ err \in BOOLEAN
    /\ \A i \in DOMAIN w : w[i].id \notin Tree(P, count, root).refs
    /\ ~err => Aims(Applied(P, w), next, root, map)
PlanHolds(P, count, root, op) ==
    LET plan == Plan(P, count, root, op)
        map == RowsMap(Tree(P, count, root).rows)
        err == plan.st.err \/ ~FewKept(Effect(map, op))
    IN  Promise(P, count, root, root, Effect(map, op), plan.st.writes, err, plan.root)
PlansAreSound ==
    \A P : \A count, root \in Nat, op \in Op :
        /\ PageMap(P) /\ count >= FirstPage /\ DOMAIN P \subseteq FirstPage .. count - 1
        /\ Tree(P, count, root).ok /\ Tree(P, count, root).rows \subseteq KV
        /\ FewKept(RowsMap(Tree(P, count, root).rows)) /\ (op.val = Missing => root # RootNone)
        => PlanHolds(P, count, root, op)
-----------------------------------------------------------------------------
\* The slots stay the same throughout.
LEMMA SlotStays ==
    ASSUME NEW s, NEW st, Evolves(s, st), NEW i
    PROVE  Slot(st, i) = Slot(s, i)
BY DEF Evolves, Slot

\* The i-th write goes to the i-th slot.
LEMMA WriteSlot ==
    ASSUME NEW s, NEW st, GoodState(st), Evolves(s, st), NEW i \in DOMAIN st.writes
    PROVE  i \in Nat \ {0} /\ st.writes[i].id = Slot(s, i) /\ st.writes[i].id \in Nat
<1>1. i \in Nat \ {0}
  BY GoodLen
<1>2. st.writes[i].id = Slot(st, i)
  BY DEF GoodState
<1>3. Slot(st, i) = Slot(s, i)
  BY SlotStays
<1>4. Slot(st, i) \in Nat
  BY <1>1 DEF GoodState, Sourced
<1> QED BY <1>1, <1>2, <1>3, <1>4

\* The writes take the slots in order.
LEMMA WritesInOrder ==
    ASSUME NEW P, NEW count, NEW t, Base(P, count, t), NEW s, Begun(P, count, t, s),
           NEW st, GoodState(st), Evolves(s, st)
    PROVE  InOrder(st.writes, count)
<1>1. PICK w : w = st.writes
  OBVIOUS
<1>2. w \in Seq([id : Nat, page : Page]) /\ Len(w) \in Nat /\ DOMAIN w = 1 .. Len(w)
  BY <1>1, GoodLen DEF GoodState
<1>3. \A i \in DOMAIN w : i \in Nat \ {0} /\ w[i].id = Slot(s, i)
  BY <1>1, WriteSlot
<1>4. PICK pool : pool = s.pool
  OBVIOUS
<1>5. PICK n \in Nat : n = Len(pool)
  <2>1. pool \in Seq(Nat)
    BY <1>4 DEF Begun, Pool
  <2> QED BY <2>1, SeqFacts
<1>6. /\ count \in Nat /\ count >= FirstPage /\ s.count = count /\ Pool(pool, t.refs, count - 1)
      /\ Sourced(s)
  BY <1>4 DEF Base, Begun, StartsAs, GoodState
<1>7. \A i \in Nat \ {0} : SlotIs(Slot(s, i), pool, n, t.refs, count, i)
  BY <1>4, <1>5, <1>6, StartSlots
<1>8. ASSUME NEW i \in DOMAIN w, NEW j \in DOMAIN w, w[i].id = w[j].id PROVE i = j
  BY <1>3, <1>6, <1>8 DEF Sourced
<1>9. ASSUME NEW i \in DOMAIN w PROVE w[i].id >= FirstPage
  BY <1>3, <1>7 DEF SlotIs
<1>10. ASSUME w # << >> PROVE w[1].id <= count
  <2>1. 1 \in DOMAIN w
    BY <1>2, <1>10, EmptySeq
  <2>2. PICK p : p = w[1].id
    OBVIOUS
  <2>3. SlotIs(p, pool, n, t.refs, count, 1)
    BY <1>3, <1>7, <2>1, <2>2
  <2>4. p \in Nat /\ (1 <= n => p < count) /\ (1 > n => p = count + 1 - n - 1)
    BY <2>3 DEF SlotIs
  <2>5. p <= count
    BY <1>5, <1>6, <2>4
  <2> QED BY <2>2, <2>5
<1>11. ASSUME NEW i \in DOMAIN w, i + 1 \in DOMAIN w PROVE w[i + 1].id <= count \/ w[i + 1].id = w[i].id + 1
  <2>1. i \in Nat \ {0} /\ i + 1 \in Nat \ {0}
    BY <1>3
  <2>2. PICK p, q : p = w[i].id /\ q = w[i + 1].id
    OBVIOUS
  <2>3. PICK j : j = i + 1
    OBVIOUS
  <2>4. SlotIs(p, pool, n, t.refs, count, i) /\ SlotIs(q, pool, n, t.refs, count, j)
    BY <1>3, <1>7, <1>11, <2>1, <2>2, <2>3
  <2>5. p \in Nat /\ q \in Nat /\ (i > n => p = count + i - n - 1) /\ (j <= n => q < count) /\ (j > n => q = count + j - n - 1)
    BY <2>4 DEF SlotIs
  <2>6. q <= count \/ q = p + 1
    BY <1>5, <1>6, <2>1, <2>3, <2>5
  <2> QED BY <2>2, <2>6
<1>12. InOrder(w, count)
  BY <1>2, <1>8, <1>9, <1>10, <1>11 DEF InOrder
<1> QED BY <1>1, <1>12

\* No write goes to a page of the published tree.
LEMMA WritesSpare ==
    ASSUME NEW P, NEW count, NEW t, Base(P, count, t), NEW s, Begun(P, count, t, s),
           NEW st, GoodState(st), Evolves(s, st), NEW i \in DOMAIN st.writes
    PROVE  st.writes[i].id \notin t.refs
<1>1. i \in Nat \ {0} /\ st.writes[i].id = Slot(s, i)
  BY WriteSlot
<1>2. Len(s.writes) = 0
  BY DEF Begun, StartsAs
<1>3. Slot(s, i) \in Free(s)
  <2>1. i > Len(s.writes) /\ i \in Nat
    BY <1>1, <1>2
  <2> QED BY <2>1 DEF Free
<1> QED BY <1>1, <1>3 DEF Begun

\* The pages the rewriting saw are those the writes make.
LEMMA WritesMake ==
    ASSUME NEW P, NEW count, NEW t, Base(P, count, t), NEW s, Begun(P, count, t, s),
           NEW st, GoodState(st), Evolves(s, st), NEW ids, ids \subseteq DOMAIN st.pages, ids \cap Free(st) = {}
    PROVE  LET Q == Applied(P, st.writes)
           IN  PageMap(Q) /\ DOMAIN Q = DOMAIN st.pages /\ Keeps(st.pages, Q, ids)
<1> DEFINE w == st.writes
           Q == Applied(P, st.writes)
<1>1. /\ w \in Seq([id : Nat, page : Page]) /\ DOMAIN w = 1 .. Len(w) /\ Len(w) \in Nat
  BY GoodLen DEF GoodState
<1>2. \A i \in DOMAIN w : /\ i \in Nat \ {0} /\ w[i].id = Slot(s, i) /\ w[i].id \in Nat /\ w[i].page \in Page
                          /\ w[i].id \in DOMAIN st.pages /\ st.pages[w[i].id] = w[i].page
  <2>1. \A i \in DOMAIN w : i \in Nat \ {0} /\ w[i].id = Slot(s, i) /\ w[i].id \in Nat
    BY WriteSlot
  <2>2. \A i \in DOMAIN w : w[i] \in [id : Nat, page : Page]
    <3> HIDE DEF w
    <3>1. PICK S : S = [id : Nat, page : Page]
      OBVIOUS
    <3>2. w \in Seq(S)
      BY <1>1, <3>1
    <3> QED BY <3>1, <3>2, SeqFacts
  <2>3. \A i \in DOMAIN w : w[i].id \in DOMAIN st.pages /\ st.pages[w[i].id] = w[i].page
    BY DEF GoodState
  <2> QED BY <2>1, <2>2, <2>3
<1>3. /\ PageMap(P) /\ PageMap(st.pages) /\ s.pages = P /\ Len(s.writes) = 0 /\ Sourced(s)
  BY DEF Base, Begun, StartsAs, GoodState
<1>4. /\ DOMAIN st.pages = DOMAIN P \cup (Free(s) \ Free(st)) /\ \A id \in DOMAIN P \ Free(s) : st.pages[id] = P[id]
  BY <1>3 DEF Evolves
<1>5. Q = [id \in DOMAIN P \cup {w[i].id : i \in DOMAIN w} |->
             IF \E i \in DOMAIN w : w[i].id = id THEN w[CHOOSE i \in DOMAIN w : w[i].id = id].page ELSE P[id]]
  BY DEF Applied
<1> HIDE DEF w, Q
<1>6. ASSUME NEW id \in Free(s) \ Free(st) PROVE \E i \in DOMAIN w : w[i].id = id
  <2>1. PICK i \in Nat : i > Len(s.writes) /\ id = Slot(s, i)
    BY DEF Free
  <2>2. i \in Nat \ {0} /\ id = Slot(st, i)
    BY <1>3, <2>1, SlotStays
  <2>3. ~(i > Len(w))
    BY <1>6, <2>2 DEF Free, w
  <2>4. i \in DOMAIN w
    BY <1>1, <2>2, <2>3
  <2> QED BY <1>2, <2>1, <2>4
<1>7. DOMAIN Q = DOMAIN st.pages
  <2>1. DOMAIN Q = DOMAIN P \cup {w[i].id : i \in DOMAIN w}
    BY <1>5
  <2>2. \A i \in DOMAIN w : w[i].id \in DOMAIN st.pages
    BY <1>2
  <2>3. DOMAIN Q \subseteq DOMAIN st.pages
    BY <1>4, <2>1, <2>2
  <2>4. DOMAIN st.pages \subseteq DOMAIN Q
    BY <1>4, <1>6, <2>1
  <2> QED BY <2>3, <2>4
<1>8. ASSUME NEW id \in DOMAIN Q, \E i \in DOMAIN w : w[i].id = id PROVE Q[id] = st.pages[id] /\ Q[id] \in Page
  <2>1. PICK c : c = CHOOSE i \in DOMAIN w : w[i].id = id
    OBVIOUS
  <2>2. c \in DOMAIN w /\ w[c].id = id
    BY <1>8, <2>1
  <2>3. Q[id] = w[c].page
    BY <1>5, <1>8, <2>1
  <2> QED BY <1>2, <2>2, <2>3
<1>9. ASSUME NEW id \in DOMAIN Q, ~\E i \in DOMAIN w : w[i].id = id PROVE Q[id] = P[id] /\ id \in DOMAIN P
  <2>1. id \in DOMAIN P
    BY <1>5, <1>9
  <2> QED BY <1>5, <1>9, <2>1
<1>10. PageMap(Q)
  BY <1>3, <1>7, <1>8, <1>9 DEF PageMap
<1>11. ASSUME NEW id \in ids PROVE id \in DOMAIN Q /\ Q[id] = st.pages[id]
  <2>1. id \in DOMAIN Q /\ id \notin Free(st)
    BY <1>7
  <2>2. CASE \E i \in DOMAIN w : w[i].id = id
    BY <1>8, <2>1, <2>2
  <2>3. CASE ~\E i \in DOMAIN w : w[i].id = id
    <3>1. id \in DOMAIN P /\ Q[id] = P[id]
      BY <1>9, <2>1, <2>3
    <3>2. id \notin Free(s)
      BY <1>6, <2>1, <2>3
    <3> QED BY <1>4, <2>1, <3>1, <3>2
  <2> QED BY <2>2, <2>3
<1> QED BY <1>7, <1>10, <1>11 DEF Keeps, Q

\* A committed tree as an item, as high as the tree is.
Trunk(P, t, root, x, h) ==
    /\ h \in 1 .. MaxTreeHeight /\ x \in Ref /\ x.page = root /\ ItemOk(P, h, x)
    /\ ItemRows(P, h, x) = t.rows /\ ItemPages(P, h, x) = t.refs
\* A committed tree that is not empty is an item.
LEMMA TrunkIs ==
    ASSUME NEW P, NEW count, NEW root \in Nat, root # RootNone, NEW t, t = Tree(P, count, root), Base(P, count, t),
           t.rows \subseteq KV
    PROVE  \E x, h : Trunk(P, t, root, x, h)
<1>1. PICK A : A = Committed(P, count)
  OBVIOUS
<1>2. t = Subtree(A, root, MaxTreeHeight)
  BY <1>1 DEF Tree
<1>3. PageMap(P) /\ PageMap(A) /\ \A id \in t.refs : id \in DOMAIN P
  BY <1>1, CommittedFacts DEF Base
<1>4. t.ok
  BY DEF Base
<1>5. MaxTreeHeight \in Nat
  BY HeightIsPositive
<1>6. Shaped(A, t, root, MaxTreeHeight)
  BY <1>2, <1>3, <1>4, <1>5, TreeShaped
<1>7. PICK h : h = t.height
  OBVIOUS
<1>8. h \in 1 .. MaxTreeHeight /\ h \in Nat
  BY <1>5, <1>6, <1>7 DEF Shaped
<1>9. Keeps(A, P, t.refs)
  <2>1. DOMAIN A \subseteq DOMAIN P /\ \A id \in DOMAIN A : A[id] = P[id]
    BY <1>1, <1>3, CommittedFacts
  <2> QED BY <1>3, <2>1 DEF Keeps
<1>10. Subtree(P, root, h) = t
  <2>1. Subtree(A, root, MaxTreeHeight).height <= h
    BY <1>2, <1>7, <1>8
  <2> QED BY <1>2, <1>3, <1>4, <1>5, <1>8, <1>9, <2>1, SubtreeSame
<1>11. t.min \in Keys
  <2>1. \E r \in t.rows : r.key = t.min
    BY <1>6 DEF Shaped, Bounded
  <2> QED BY <2>1, KeysAreNumbers
<1>12. PICK x : x = [min |-> t.min, page |-> root]
  OBVIOUS
<1>13. x \in Ref /\ x.page = root /\ x.min = t.min
  BY <1>11, <1>12 DEF Ref
<1>14. h # 0
  BY <1>8
<1>15. Trunk(P, t, root, x, h)
  BY <1>4, <1>7, <1>8, <1>10, <1>13, <1>14 DEF Trunk, ItemOk, ItemRows, ItemPages
<1> QED BY <1>15

\* Nothing under the empty root.
LEMMA AimsAtNone ==
    ASSUME NEW Q, NEW old \in Nat, old # RootNone
    PROVE  Aims(Q, RootNone, old, RowsMap({}))
<1>1. RootNone \in Nat /\ RootNone # old
  BY DEF RootNone
<1>2. ASSUME NEW n \in Nat PROVE Reads(Q, n, RootNone, RowsMap({}))
  BY DEF Reads, Tree
<1> QED BY <1>1, <1>2 DEF Aims

\* A root that holds the rows.
LEMMA AimsAt ==
    ASSUME NEW Q, PageMap(Q), NEW g \in Nat \ {0}, NEW y \in Ref, ItemOk(Q, g, y), NEW rows, ItemRows(Q, g, y) = rows,
           FewRows(rows), NEW old, y.page # old, y.page >= FirstPage
    PROVE  Aims(Q, y.page, old, RowsMap(rows))
<1>1. PICK refs : refs = ItemPages(Q, g, y)
  OBVIOUS
<1>2. g \in Nat /\ g # 0 /\ y \in Kind(g)
  BY DEF Kind
<1>3. rows \subseteq KV /\ refs \subseteq DOMAIN Q
  BY <1>1, <1>2, ItemFacts
<1>4. g <= MaxTreeHeight
  BY HeightBound
<1>5. PICK r : r = y.page
  OBVIOUS
<1>6. PICK v : v = Subtree(Q, r, g)
  OBVIOUS
<1>7. v.ok /\ v.height = g /\ v.rows = rows /\ v.refs = refs
  BY <1>1, <1>2, <1>5, <1>6 DEF ItemOk, ItemRows, ItemPages
<1>8. r \in Nat /\ r # old /\ r # RootNone
  <2>1. r \in Nat /\ r >= FirstPage
    BY <1>5 DEF Ref
  <2> QED BY <1>5, <2>1 DEF FirstPage, RootNone
<1>9. ASSUME NEW n \in Nat, \A id \in DOMAIN Q : id < n PROVE Reads(Q, n, r, RowsMap(rows))
  <2>1. PICK A : A = Committed(Q, n)
    OBVIOUS
  <2>2. PageMap(A) /\ Keeps(Q, A, refs)
    <3>1. /\ PageMap(A) /\ DOMAIN A = {id \in DOMAIN Q : id < n}
          /\ \A id \in DOMAIN Q : id < n => A[id] = Q[id]
      BY <2>1, CommittedFacts
    <3>2. DOMAIN A = DOMAIN Q /\ \A id \in DOMAIN Q : A[id] = Q[id]
      BY <1>9, <3>1
    <3> QED BY <3>1, <3>2 DEF Keeps
  <2>3. MaxTreeHeight \in Nat
    BY HeightIsPositive
  <2>4. Subtree(A, r, MaxTreeHeight) = v
    <3>1. Subtree(Q, r, g).ok /\ Keeps(Q, A, Subtree(Q, r, g).refs) /\ Subtree(Q, r, g).height <= MaxTreeHeight
      BY <1>4, <1>6, <1>7, <2>2
    <3> QED BY <1>2, <1>6, <1>8, <2>2, <2>3, <3>1, SubtreeSame
  <2>5. Tree(Q, n, r) = v
    BY <1>8, <2>1, <2>4 DEF Tree
  <2> QED BY <1>3, <1>7, <2>5 DEF Reads
<1> QED BY <1>5, <1>8, <1>9 DEF Aims

\* Both the pages as rewritten and those the writes make hold the new tree.
Goal(P, u, next, old, map) ==
    Aims(Applied(P, u.writes), next, old, map) /\ Aims(u.pages, next, old, map)
\* A root that holds the rows, in pages the writes make.
LEMMA AimsAtRoot ==
    ASSUME NEW P, NEW count, NEW t, Base(P, count, t), NEW s, Begun(P, count, t, s),
           NEW st, GoodState(st), Evolves(s, st), NEW y, NEW g \in Nat \ {0}, NEW rows, NEW own,
           Proper(st.pages, g, y, rows, own), own \cap Free(st) = {}, NEW old, old \notin own,
           FewRows(rows)
    PROVE  Goal(P, st, y.page, old, RowsMap(rows))
<1>1. PICK Q : Q = Applied(P, st.writes)
  OBVIOUS
<1>2. /\ y \in Ref /\ ItemOk(st.pages, g, y) /\ ItemRows(st.pages, g, y) = rows
      /\ ItemPages(st.pages, g, y) \subseteq own /\ y \in Kind(g) /\ g \in Nat /\ g # 0
  BY DEF Proper, Kind
<1>3. PICK refs : refs = ItemPages(st.pages, g, y)
  OBVIOUS
<1>4. PageMap(st.pages)
  BY DEF GoodState
<1>5. refs \subseteq DOMAIN st.pages /\ y.page \in refs
  BY <1>2, <1>3, <1>4, ItemFacts
<1>6. PageMap(Q) /\ Keeps(st.pages, Q, refs)
  <2>1. refs \cap Free(st) = {}
    BY <1>2, <1>3
  <2> QED BY <1>1, <1>5, <2>1, WritesMake
<1>7. ItemOk(Q, g, y) /\ ItemRows(Q, g, y) = rows
  BY <1>2, <1>3, <1>4, <1>6, ItemSame
<1>8. y.page # old
  BY <1>2, <1>3, <1>5
<1>9. y.page >= FirstPage
  <2>1. PICK r : r = y.page
    OBVIOUS
  <2>2. r \in DOMAIN P \/ r \in Free(s)
    <3>1. r \in DOMAIN st.pages
      BY <1>5, <2>1
    <3>2. s.pages = P
      BY DEF Begun, StartsAs
    <3> QED BY <3>1, <3>2 DEF Evolves
  <2>3. CASE r \in DOMAIN P
    <3>1. r \in FirstPage .. count - 1
      BY <2>3 DEF Base
    <3> QED BY <2>1, <3>1
  <2>4. CASE r \in Free(s)
    <3>1. PICK i \in Nat : i > Len(s.writes) /\ r = Slot(s, i)
      BY <2>4 DEF Free
    <3>2. Len(s.writes) = 0
      BY DEF Begun, StartsAs
    <3>3. i \in Nat \ {0}
      BY <3>1, <3>2
    <3> QED BY <2>1, <3>1, <3>3 DEF Begun, GoodState, Sourced
  <2> QED BY <2>2, <2>3, <2>4
<1>10. Aims(Q, y.page, old, RowsMap(rows)) /\ Aims(st.pages, y.page, old, RowsMap(rows))
  BY <1>2, <1>4, <1>6, <1>7, <1>8, <1>9, AimsAt
<1> QED BY <1>1, <1>10 DEF Goal

\* What a rewriting leads to: the root it publishes holds the rows, unless
\* they are so many that the tree may be too high.
Outcome(P, s, u, old, next, rows) ==
    /\ GoodState(u) /\ Evolves(s, u)
    /\ ~u.err /\ FewRows(rows) => Goal(P, u, next, old, RowsMap(rows))

\* The old root is not among what the new tree takes over.
LEMMA OwnPages ==
    ASSUME NEW P, NEW count, NEW t, Base(P, count, t), NEW s, Begun(P, count, t, s),
           NEW u, GoodState(u), Evolves(s, u), NEW root, root \in t.refs, NEW own,
           own = (t.refs \ {root}) \cup Taken(s, u)
    PROVE  own \cap Free(u) = {} /\ root \notin own
<1>1. t.refs \cap Free(s) = {} /\ GoodState(s)
  BY DEF Begun
<1>2. Free(u) \subseteq Free(s)
  BY <1>1, FreeShrinks
<1>3. Taken(s, u) \cap Free(u) = {} /\ Taken(s, u) \subseteq Free(s)
  BY DEF Taken
<1> QED BY <1>1, <1>2, <1>3

\* The committed tree may be rewritten: no slot to come is part of it.
LEMMA TrunkTarget ==
    ASSUME NEW P, NEW count, NEW t, Base(P, count, t), NEW s, Begun(P, count, t, s),
           NEW root, NEW x, NEW h, Trunk(P, t, root, x, h)
    PROVE  GoodState(s) /\ Target(s, h, x) /\ root \in t.refs /\ h \in Nat \ {0}
<1>1. GoodState(s) /\ s.pages = P /\ t.refs \cap Free(s) = {} /\ PageMap(P)
  BY DEF Begun, StartsAs, Base
<1>2. h \in Nat \ {0}
  BY HeightIsPositive DEF Trunk
<1>3. Target(s, h, x)
  BY <1>1 DEF Target, Trunk
<1>4. x.page \in ItemPages(P, h, x)
  <2>1. x \in Kind(h) /\ h # 0 /\ h \in Nat /\ ItemOk(P, h, x)
    BY <1>2 DEF Trunk, Kind
  <2> QED BY <1>1, <2>1, ItemFacts
<1> QED BY <1>1, <1>2, <1>3, <1>4 DEF Trunk

\* delete.
LEMMA DeleteOutcome ==
    ASSUME NEW P, NEW count, NEW t, Base(P, count, t), NEW s, Begun(P, count, t, s),
           NEW root \in Nat, root # RootNone, NEW x, NEW h, Trunk(P, t, root, x, h),
           NEW key \in Nat, NEW plan, plan = PlanDelete(s, root, key)
    PROVE  Outcome(P, s, plan.st, root, plan.root, Change(t.rows, key, {}))
<1>1. PICK u : u = Delete(s, root, key)
  OBVIOUS
<1>2. s.err = FALSE /\ s.pages = P
  BY DEF Begun, StartsAs
<1>3. plan.st = u /\ plan.root = IF u.err THEN root ELSE IF u.refs = << >> THEN RootNone
                                 ELSE Contract(u.pages, u.refs[1].page)
  BY <1>1, <1>2 DEF PlanDelete, Planned
<1>4. GoodState(s) /\ Target(s, h, x) /\ root \in t.refs /\ h \in Nat \ {0}
  BY TrunkTarget
<1>5. h \in 1 .. MaxTreeHeight /\ x.page = root /\ ItemRows(P, h, x) = t.rows /\ ItemPages(P, h, x) = t.refs
  BY DEF Trunk
<1>6. PICK rows, own : rows = Change(t.rows, key, {}) /\ own = (t.refs \ {root}) \cup Taken(s, u)
  OBVIOUS
<1>7. DeleteMakes(s, key, h, x, u)
  BY <1>1, <1>4, <1>5, DeleteGood
<1>8. Shrunk(s, u, h, rows, t.refs \ {root})
  BY <1>2, <1>5, <1>6, <1>7 DEF DeleteMakes
<1>9. GoodState(u) /\ Evolves(s, u)
  BY <1>8 DEF Shrunk
<1>10. own \cap Free(u) = {} /\ root \notin own
  BY <1>4, <1>6, <1>9, OwnPages
<1>11. ASSUME ~u.err, FewRows(rows) PROVE Goal(P, u, plan.root, root, RowsMap(rows))
  <2>1. CASE u.refs = << >> /\ rows = {}
    <3>1. plan.root = RootNone
      BY <1>3, <1>11, <2>1
    <3> QED BY <2>1, <3>1, AimsAtNone DEF Goal
  <2>2. ASSUME NEW z \in Ref, u.refs = <<z>>, Slim(u.pages, h, z, rows, own)
        PROVE  Goal(P, u, plan.root, root, RowsMap(rows))
    <3>1. PageMap(u.pages)
      BY <1>9 DEF GoodState
    <3>2. PICK g \in Nat \ {0}, y \in Ref : Contract(u.pages, z.page) = y.page /\ Proper(u.pages, g, y, rows, own)
      BY <1>4, <2>2, <3>1, ContractGood
    <3>3. PICK xs : xs = <<z>>
      OBVIOUS
    <3>4. u.refs # << >> /\ u.refs[1] = z
      BY <2>2
    <3>5. plan.root = y.page
      BY <1>3, <1>11, <3>2, <3>4
    <3>6. Goal(P, u, y.page, root, RowsMap(rows))
      BY <1>9, <1>10, <1>11, <3>2, AimsAtRoot
    <3> QED BY <3>5, <3>6
  <2>3. \/ u.refs = << >> /\ rows = {}
        \/ \E z \in Ref : u.refs = <<z>> /\ Slim(u.pages, h, z, rows, own)
    BY <1>6, <1>8, <1>11 DEF Shrunk
  <2> QED BY <2>1, <2>2, <2>3
<1> QED BY <1>3, <1>6, <1>9, <1>11 DEF Outcome

-----------------------------------------------------------------------------
\* put, once the key and the value are stored: the entry, in pages of its own.
Stowed(s, s2, new, op) ==
    /\ GoodState(s2) /\ Evolves(s, s2) /\ s2.err = FALSE /\ s2.refs = << >>
    /\ NewEntry(s2, new, op.key) /\ Row(s2.pages, new) = op
    /\ EntryPages(s2.pages, new) \subseteq Taken(s, s2)
\* put stores the key and the value: they make the entry.
LEMMA StoredEntry ==
    ASSUME NEW s, GoodState(s), s.err = FALSE, s.refs = << >>, NEW op \in KV,
           NEW s1, s1 = StoreKey(s, op.key), NEW s2, s2 = StoreValue(s1, op.key, op.val),
           NEW new, new = [key |-> s1.stored, val |-> s2.stored]
    PROVE  Stowed(s, s2, new, op)
<1>1. op.key \in Keys /\ op.val \in Values /\ op.key \in Nat /\ op = [key |-> op.key, val |-> op.val]
  BY KeysAreNumbers DEF KV
<1>2. PICK k, v : k = op.key /\ v = op.val
  OBVIOUS
<1>3. /\ GoodState(s1) /\ Evolves(s, s1) /\ s1.refs = << >> /\ s1.err = FALSE
      /\ s1.stored \in Stored(Keys) /\ Decode(s1.pages, s1.stored) = k
      /\ ChainPages(s1.pages, s1.stored) \subseteq Taken(s, s1)
  BY <1>1, <1>2, StoreKeyGood DEF Taken
<1>4. /\ GoodState(s2) /\ Evolves(s1, s2) /\ s2.refs = << >> /\ s2.err = FALSE
      /\ s2.stored \in Stored(Values) /\ Decode(s2.pages, s2.stored) = v
      /\ ChainPages(s2.pages, s2.stored) \subseteq Taken(s1, s2)
  BY <1>1, <1>2, <1>3, StoreValueGood DEF Taken
<1>5. Evolves(s, s2) /\ Taken(s, s1) \subseteq Taken(s, s2) /\ Taken(s1, s2) \subseteq Taken(s, s2)
      /\ Taken(s, s1) \cap Free(s1) = {} /\ Taken(s, s1) \cap Taken(s1, s2) = {} /\ Taken(s, s2) \cap Free(s2) = {}
  <2>1. Evolves(s, s2)
    BY <1>3, <1>4, EvolvesFurther
  <2>2. /\ Taken(s, s1) \subseteq Taken(s, s2) /\ Taken(s1, s2) \subseteq Taken(s, s2)
        /\ Taken(s, s1) \cap Free(s1) = {} /\ Taken(s, s1) \cap Taken(s1, s2) = {}
    BY <1>3, <1>4, TakenBy
  <2> QED BY <2>1, <2>2 DEF Taken
<1>6. Decode(s2.pages, s1.stored) = k /\ ChainPages(s2.pages, s1.stored) = ChainPages(s1.pages, s1.stored)
  <2>1. ChainPages(s1.pages, s1.stored) \cap Free(s1) = {}
    BY <1>3, <1>5
  <2>2. PICK ids : ids = ChainPages(s1.pages, s1.stored)
    OBVIOUS
  <2>3. Keeps(s1.pages, s2.pages, ids)
    BY <1>4, <2>1, <2>2, EvolvesKeeps
  <2>4. Decode(s1.pages, s1.stored) # Torn
    BY <1>1, <1>2, <1>3, TornIsNoDatum
  <2> QED BY <1>3, <2>2, <2>3, <2>4, DecodeSame
<1>7. new.key = s1.stored /\ new.val = s2.stored /\ new \in Cell
  BY <1>3, <1>4 DEF Cell
<1>8. PICK P : P = s2.pages
  OBVIOUS
<1>9. /\ Decode(P, new.key) = k /\ Decode(P, new.val) = v
      /\ ChainPages(P, new.key) \subseteq Taken(s, s1) /\ ChainPages(P, new.val) \subseteq Taken(s1, s2)
  BY <1>3, <1>4, <1>6, <1>7, <1>8
<1>10. Row(P, new) = op
  BY <1>1, <1>2, <1>9 DEF Row
<1>11. EntryReads(P, new)
  <2>1. k # Torn /\ v # Torn
    BY <1>1, <1>2, TornIsNoDatum
  <2> QED BY <1>5, <1>9, <2>1 DEF EntryReads
<1>12. EntryPages(P, new) \subseteq Taken(s, s2)
  BY <1>5, <1>9 DEF EntryPages
<1>13. ItemOk(P, 0, new)
  BY <1>10, <1>11 DEF ItemOk
<1>14. NewEntry(s2, new, op.key)
  <2>1. EntryPages(s2.pages, new) \cap Free(s2) = {}
    BY <1>5, <1>8, <1>12
  <2>2. Row(s2.pages, new).key = op.key
    BY <1>8, <1>10
  <2> QED BY <1>1, <1>4, <1>7, <1>8, <1>13, <2>1, <2>2 DEF NewEntry
<1> QED BY <1>4, <1>5, <1>8, <1>10, <1>12, <1>14 DEF Stowed

\* The empty root is no slot.
LEMMA FreeAreSlots ==
    ASSUME NEW s, GoodState(s)
    PROVE  RootNone \notin Free(s)
<1>1. ASSUME RootNone \in Free(s) PROVE FALSE
  <2>1. PICK i \in Nat : i > Len(s.writes) /\ RootNone = Slot(s, i)
    BY <1>1 DEF Free
  <2>2. Len(s.writes) \in Nat
    BY GoodLen
  <2>3. PICK n \in Nat : n = Len(s.writes)
    BY <2>2
  <2>4. i \in Nat \ {0}
    BY <2>1, <2>3
  <2>5. Slot(s, i) >= FirstPage
    BY <2>4 DEF GoodState, Sourced
  <2> QED BY <2>1, <2>5 DEF RootNone, FirstPage
<1> QED BY <1>1

\* The first reference a call returned holds the rows.
Placed(s, u, rows, own) ==
    /\ GoodState(u) /\ Evolves(s, u)
    /\ ~u.err => \E g \in Nat \ {0} : \E y \in Ref : /\ u.refs[1] = y
                                                     /\ Proper(u.pages, g, y, rows, own \cup Taken(s, u))

\* A put that ended in an error promises nothing.
LEMMA PlacedNot ==
    ASSUME NEW s, NEW u, GoodState(u), Evolves(s, u), u.err, NEW rows, NEW own
    PROVE  Placed(s, u, rows, own)
BY DEF Placed

\* More pages may be allowed.
LEMMA ProperWider ==
    ASSUME NEW P, NEW h, NEW x, NEW rows, NEW own, Proper(P, h, x, rows, own), NEW more, own \subseteq more
    PROVE  Proper(P, h, x, rows, more)
BY DEF Proper

\* After other pages were written.
LEMMA PlacedAfter ==
    ASSUME NEW s, GoodState(s), NEW v, GoodState(v), Evolves(s, v), NEW u, NEW rows, NEW part, Placed(v, u, rows, part),
           NEW own, part \subseteq own \cup Taken(s, v)
    PROVE  Placed(s, u, rows, own)
<1>1. GoodState(u) /\ Evolves(v, u)
  BY DEF Placed
<1>2. Evolves(s, u) /\ Taken(s, v) \subseteq Taken(s, u) /\ Taken(v, u) \subseteq Taken(s, u)
  BY <1>1, EvolvesFurther, TakenBy
<1>3. PICK more, less : more = own \cup Taken(s, u) /\ less = part \cup Taken(v, u)
  OBVIOUS
<1>4. less \subseteq more
  BY <1>2, <1>3
<1>5. ASSUME ~u.err
      PROVE  \E g \in Nat \ {0} : \E y \in Ref : u.refs[1] = y /\ Proper(u.pages, g, y, rows, more)
  <2>1. PICK g \in Nat \ {0}, y \in Ref : u.refs[1] = y /\ Proper(u.pages, g, y, rows, less)
    BY <1>3, <1>5 DEF Placed
  <2>2. Proper(u.pages, g, y, rows, more)
    BY <1>4, <2>1, ProperWider
  <2> QED BY <2>1, <2>2
<1> QED BY <1>1, <1>2, <1>3, <1>5 DEF Placed

\* One page written.
LEMMA OnePlaced ==
    ASSUME NEW s, GoodState(s), s.refs = << >>, NEW u, NEW h \in Nat \ {0}, NEW rows, NEW own,
           OneMore(s, u, h, rows, own)
    PROVE  Placed(s, u, rows, own)
<1>1. GoodState(u) /\ Evolves(s, u)
  BY DEF OneMore
<1>2. PICK mine : mine = own \cup Taken(s, u)
  OBVIOUS
<1>3. ASSUME ~u.err
      PROVE  \E g \in Nat \ {0} : \E y \in Ref : u.refs[1] = y /\ Proper(u.pages, g, y, rows, mine)
  <2>1. PICK x \in Ref : u.refs = Append(s.refs, x) /\ Proper(u.pages, h, x, rows, mine)
    BY <1>2, <1>3 DEF OneMore
  <2>2. u.refs = <<x>>
    BY <2>1, OneInSequence
  <2>3. u.refs[1] = x
    BY <2>2
  <2> QED BY <2>1, <2>3
<1> QED BY <1>1, <1>2, <1>3 DEF Placed

\* The top of a put: one page of the level, or a new root above two.
LEMMA TopGood ==
    ASSUME NEW s, GoodState(s), NEW h \in Nat \ {0}, NEW w, NEW rows, NEW own, own \cap Free(s) = {},
           Level(s, w, h, rows, own),
           NEW u, u = IF w.err \/ Len(w.refs) = 1 THEN w ELSE CommitInternal(Returns(w, << >>), w.refs)
    PROVE  Placed(s, u, rows, own)
<1>1. GoodState(w) /\ Evolves(s, w)
  BY DEF Level
<1>2. CASE w.err
  BY <1>1, <1>2, PlacedNot
<1>3. ASSUME ~w.err PROVE Placed(s, u, rows, own)
  <2>1. PICK refs : refs = w.refs
    OBVIOUS
  <2>2. PICK mine : mine = own \cup Taken(s, w)
    OBVIOUS
  <2>3. /\ Strand(w.pages, h, refs) /\ Len(refs) \in {1, 2} /\ RowsOf(w.pages, h, refs) = rows
        /\ PagesOf(w.pages, h, refs) \subseteq mine
    BY <1>3, <2>1, <2>2 DEF Level
  <2>4. refs \in Seq(Ref) /\ h # 0
    BY <2>3 DEF Strand, Kind
  <2>5. PICK n \in {1, 2} : n = Len(refs)
    BY <2>3, Zenon
  <2>6. DOMAIN refs = 1 .. n /\ \A i \in DOMAIN refs : refs[i] \in Ref
    BY <2>4, <2>5, SeqFacts
  <2>7. CASE n = 1
    <3>1. u = w
      BY <2>1, <2>5, <2>7
    <3>2. DOMAIN refs = {1}
      BY <2>6, <2>7
    <3>3. PICK y \in Ref : y = refs[1]
      BY <2>6, <3>2
    <3>4. ItemOk(w.pages, h, y) /\ RowsOf(w.pages, h, refs) = ItemRows(w.pages, h, y)
          /\ PagesOf(w.pages, h, refs) = ItemPages(w.pages, h, y)
      BY <2>3, <3>2, <3>3 DEF Strand, RowsOf, PagesOf
    <3>5. Proper(w.pages, h, y, rows, mine)
      BY <2>3, <3>4 DEF Proper
    <3>6. w.refs[1] = y
      BY <2>1, <3>3
    <3> QED BY <1>1, <2>2, <3>1, <3>5, <3>6 DEF Placed
  <2>8. CASE n = 2
    <3>1. PICK r : r = Returns(w, << >>)
      OBVIOUS
    <3>2. GoodState(r) /\ Evolves(w, r) /\ r.pages = w.pages /\ Free(r) = Free(w) /\ r.refs = << >>
      BY <1>1, <3>1, AsideReturns
    <3>3. u = CommitInternal(r, refs)
      <4>1. Len(w.refs) # 1
        BY <2>1, <2>5, <2>8
      <4> QED BY <1>3, <2>1, <3>1, <4>1
    <3>4. mine \cap Free(r) = {}
      BY <1>1, <2>2, <3>2, FreeShrinks DEF Taken
    <3>5. PICK all : all = PagesOf(r.pages, h, refs)
      OBVIOUS
    <3>6. Strand(r.pages, h, refs) /\ RowsOf(r.pages, h, refs) = rows /\ all \subseteq mine /\ all \cap Free(r) = {}
      BY <2>3, <3>2, <3>4, <3>5
    <3>7. Len(refs) >= 2
      BY <2>5, <2>8
    <3>8. OneMore(r, u, h + 1, rows, all)
      BY <3>2, <3>3, <3>5, <3>6, <3>7, CommitInternalFull
    <3>9. PICK g \in Nat \ {0} : g = h + 1
      OBVIOUS
    <3>10. Placed(r, u, rows, all)
      BY <3>2, <3>8, <3>9, OnePlaced
    <3>11. Evolves(s, r)
      BY <1>1, <3>2, EvolvesFurther
    <3>12. all \subseteq own \cup Taken(s, r)
      BY <2>2, <3>2, <3>6 DEF Taken
    <3> QED BY <3>2, <3>10, <3>11, <3>12, PlacedAfter
  <2> QED BY <2>5, <2>7, <2>8
<1> QED BY <1>2, <1>3

\* put below the top, and its outcome at the top.
PutTop(w) == IF w.err \/ Len(w.refs) = 1 THEN w ELSE CommitInternal(Returns(w, << >>), w.refs)
PutsTo(plan, u, root) == plan.st = u /\ plan.root = IF u.err THEN root ELSE u.refs[1].page
\* put, in its parts: store the datum, rewrite the tree, write a new root
\* above two pages.
LEMMA PutPlan ==
    ASSUME NEW s, s.err = FALSE, NEW root, NEW key, NEW val, NEW s1, s1 = StoreKey(s, key),
           NEW s2, s2 = StoreValue(s1, key, val), NEW new, new = [key |-> s1.stored, val |-> s2.stored],
           NEW w, w = IF root = RootNone THEN CommitLeaf(s2, <<new>>) ELSE Insert(s2, root, new, key),
           NEW u, u = PutTop(w), NEW plan, plan = PlanPut(s, root, key, val)
    PROVE  PutsTo(plan, u, root)
BY DEF PlanPut, Planned, PutTop, PutsTo

\* Into an empty tree.
LEMMA FirstPut ==
    ASSUME NEW s, NEW s2, NEW new, NEW op \in KV, Stowed(s, s2, new, op), NEW w, w = CommitLeaf(s2, <<new>>)
    PROVE  OneMore(s2, w, 1, {op}, EntryPages(s2.pages, new))
<1>1. GoodState(s2) /\ new \in Cell /\ ItemOk(s2.pages, 0, new) /\ EntryPages(s2.pages, new) \cap Free(s2) = {}
      /\ Row(s2.pages, new) = op
  BY DEF Stowed, NewEntry
<1>2. PICK xs : xs = <<new>>
  OBVIOUS
<1>3. new \in Kind(0)
  BY <1>1 DEF Kind
<1>4. /\ Strand(s2.pages, 0, xs) /\ RowsOf(s2.pages, 0, xs) = ItemRows(s2.pages, 0, new)
      /\ PagesOf(s2.pages, 0, xs) = ItemPages(s2.pages, 0, new)
  BY <1>1, <1>2, <1>3, StrandOne
<1>5. ItemRows(s2.pages, 0, new) = {op} /\ ItemPages(s2.pages, 0, new) = EntryPages(s2.pages, new)
  BY <1>1 DEF ItemRows, ItemPages
<1>6. xs # << >>
  BY <1>2
<1>7. PICK rows, own : rows = RowsOf(s2.pages, 0, xs) /\ own = PagesOf(s2.pages, 0, xs)
  OBVIOUS
<1>8. OneMore(s2, CommitLeaf(s2, xs), 1, rows, own)
  BY <1>1, <1>4, <1>5, <1>6, <1>7, CommitLeafGood
<1> QED BY <1>2, <1>4, <1>5, <1>7, <1>8

\* Into a tree.
LEMMA LaterPut ==
    ASSUME SeparatorsAreShort, NEW P, NEW count, NEW t, Base(P, count, t), NEW s, Begun(P, count, t, s),
           NEW root \in Nat, NEW x, NEW h, Trunk(P, t, root, x, h),
           NEW s2, NEW new, NEW op \in KV, Stowed(s, s2, new, op), NEW w, w = Insert(s2, root, new, op.key)
    PROVE  Level(s2, w, h, Change(t.rows, op.key, {op}), (t.refs \ {root}) \cup EntryPages(s2.pages, new))
<1>1. GoodState(s) /\ Target(s, h, x) /\ root \in t.refs /\ h \in Nat \ {0}
  BY TrunkTarget
<1>2. /\ h \in 1 .. MaxTreeHeight /\ x.page = root /\ ItemRows(P, h, x) = t.rows /\ ItemPages(P, h, x) = t.refs
      /\ ItemOk(P, h, x) /\ x \in Ref /\ x \in Kind(h) /\ h \in Nat
  BY <1>1 DEF Trunk, Kind
<1>3. s.pages = P /\ PageMap(P) /\ t.refs \cap Free(s) = {}
  BY DEF Begun, StartsAs, Base
<1>4. GoodState(s2) /\ Evolves(s, s2) /\ PageMap(s2.pages) /\ Free(s2) \subseteq Free(s)
  <2>1. GoodState(s2) /\ Evolves(s, s2)
    BY DEF Stowed
  <2> QED BY <1>1, <2>1, FreeShrinks DEF GoodState
<1>5. Keeps(P, s2.pages, t.refs)
  BY <1>3, <1>4, EvolvesKeeps
<1>6. ItemOk(s2.pages, h, x) /\ ItemRows(s2.pages, h, x) = t.rows /\ ItemPages(s2.pages, h, x) = t.refs
  BY <1>2, <1>3, <1>4, <1>5, ItemSame
<1>7. Target(s2, h, x)
  BY <1>2, <1>3, <1>4, <1>6 DEF Target
<1>8. NewEntry(s2, new, op.key) /\ EntryPages(s2.pages, new) \subseteq Free(s) /\ Row(s2.pages, new) = op
  BY DEF Stowed, Taken
<1>9. EntryPages(s2.pages, new) \cap ItemPages(s2.pages, h, x) = {}
  BY <1>3, <1>6, <1>8
<1>10. InsertMakes(s2, new, op.key, h, x, w)
  BY <1>2, <1>7, <1>8, <1>9, InsertGood
<1> QED BY <1>2, <1>6, <1>8, <1>10 DEF InsertMakes, InsertOwn

\* put.
LEMMA PutOutcome ==
    ASSUME SeparatorsAreShort, NEW P, NEW count, NEW t, Base(P, count, t), NEW s, Begun(P, count, t, s),
           NEW root \in Nat, IF root = RootNone THEN t.rows = {} /\ t.refs = {} ELSE \E x, h : Trunk(P, t, root, x, h),
           NEW op \in KV, NEW plan, plan = PlanPut(s, root, op.key, op.val)
    PROVE  Outcome(P, s, plan.st, root, plan.root, Change(t.rows, op.key, {op}))
<1>1. PICK key, val : key = op.key /\ val = op.val
  OBVIOUS
<1>2. PICK s1 : s1 = StoreKey(s, key)
  OBVIOUS
<1>3. PICK s2 : s2 = StoreValue(s1, key, val)
  OBVIOUS
<1>4. PICK new : new = [key |-> s1.stored, val |-> s2.stored]
  OBVIOUS
<1>5. PICK w : w = IF root = RootNone THEN CommitLeaf(s2, <<new>>) ELSE Insert(s2, root, new, key)
  OBVIOUS
<1>6. PICK u : u = PutTop(w)
  OBVIOUS
<1>7. GoodState(s) /\ s.err = FALSE /\ s.refs = << >> /\ s.pages = P
  BY DEF Begun, StartsAs
<1>8. plan.st = u /\ plan.root = IF u.err THEN root ELSE u.refs[1].page
  <2>1. plan = PlanPut(s, root, key, val) /\ s.err = FALSE
    BY <1>1, <1>7
  <2>2. PutsTo(plan, u, root)
    BY <1>2, <1>3, <1>4, <1>5, <1>6, <2>1, PutPlan
  <2> QED BY <2>2 DEF PutsTo
<1>9. Stowed(s, s2, new, op)
  BY <1>1, <1>2, <1>3, <1>4, <1>7, StoredEntry
<1>10. GoodState(s2) /\ Evolves(s, s2) /\ s2.refs = << >>
  BY <1>9 DEF Stowed
<1>11. PICK rows, part : /\ rows = Change(t.rows, key, {op})
                         /\ part = (t.refs \ {root}) \cup EntryPages(s2.pages, new)
  OBVIOUS
<1>12. EntryPages(s2.pages, new) \subseteq Taken(s, s2) /\ EntryPages(s2.pages, new) \cap Free(s2) = {}
  BY <1>9 DEF Stowed, NewEntry
<1>13. Free(s2) \subseteq Free(s) /\ t.refs \cap Free(s) = {}
  BY <1>7, <1>10, FreeShrinks DEF Begun
<1>14. part \subseteq (t.refs \ {root}) \cup Taken(s, s2) /\ part \cap Free(s2) = {}
  BY <1>11, <1>12, <1>13
<1>15. Placed(s2, u, rows, part)
  <2>1. CASE root = RootNone
    <3>1. rows = {op} /\ part = EntryPages(s2.pages, new)
      BY <1>11, <2>1 DEF Change
    <3>2. w = CommitLeaf(s2, <<new>>)
      BY <1>5, <2>1
    <3>3. OneMore(s2, w, 1, rows, part)
      BY <1>9, <3>1, <3>2, FirstPut
    <3>4. 1 \in Nat \ {0}
      OBVIOUS
    <3>5. Placed(s2, w, rows, part)
      BY <1>10, <3>3, <3>4, OnePlaced
    <3>6. u = w
      <4>1. CASE w.err
        BY <1>6, <4>1 DEF PutTop
      <4>2. CASE ~w.err
        <5>1. PICK x \in Ref : w.refs = Append(s2.refs, x)
          BY <3>3, <4>2 DEF OneMore
        <5>2. w.refs = <<x>>
          BY <1>10, <5>1, OneInSequence
        <5>3. Len(w.refs) = 1
          BY <5>2
        <5> QED BY <1>6, <5>3 DEF PutTop
      <4> QED BY <4>1, <4>2
    <3> QED BY <3>5, <3>6
  <2>2. CASE root # RootNone
    <3>1. PICK x, h : Trunk(P, t, root, x, h)
      BY <2>2
    <3>2. w = Insert(s2, root, new, op.key)
      BY <1>1, <1>5, <2>2
    <3>3. Level(s2, w, h, rows, part)
      BY <1>1, <1>9, <1>11, <3>1, <3>2, LaterPut
    <3>4. h \in Nat \ {0}
      BY <3>1, TrunkTarget
    <3>5. u = IF w.err \/ Len(w.refs) = 1 THEN w ELSE CommitInternal(Returns(w, << >>), w.refs)
      BY <1>6 DEF PutTop
    <3> QED BY <1>10, <1>14, <3>3, <3>4, <3>5, TopGood
  <2> QED BY <2>1, <2>2
<1>16. Placed(s, u, rows, t.refs \ {root})
  BY <1>7, <1>10, <1>14, <1>15, PlacedAfter
<1>17. GoodState(u) /\ Evolves(s, u)
  BY <1>16 DEF Placed
<1>18. PICK own : own = (t.refs \ {root}) \cup Taken(s, u)
  OBVIOUS
<1>19. own \cap Free(u) = {} /\ root \notin own
  <2>1. CASE root = RootNone
    BY <1>7, <1>17, <1>18, <2>1, FreeAreSlots DEF Taken
  <2>2. CASE root # RootNone
    <3>1. root \in t.refs
      BY <2>2, TrunkTarget
    <3> QED BY <1>17, <1>18, <3>1, OwnPages
  <2> QED BY <2>1, <2>2
<1>20. ASSUME ~u.err, FewRows(rows) PROVE Goal(P, u, plan.root, root, RowsMap(rows))
  <2>1. PICK g \in Nat \ {0}, y \in Ref : u.refs[1] = y /\ Proper(u.pages, g, y, rows, own)
    BY <1>16, <1>18, <1>20 DEF Placed
  <2>2. plan.root = y.page
    BY <1>8, <1>20, <2>1
  <2>3. Goal(P, u, y.page, root, RowsMap(rows))
    BY <1>17, <1>19, <1>20, <2>1, AimsAtRoot
  <2> QED BY <2>2, <2>3
<1> QED BY <1>1, <1>8, <1>11, <1>17, <1>20 DEF Outcome

\* What the rewriting of a put or a delete is, and what it leads to.
Leads(P, count, root, op) ==
    LET t == Tree(P, count, root)
        s == Start(P, count, root)
        plan == Plan(P, count, root, op)
        rows == Change(t.rows, op.key, NewRows(op))
    IN  /\ Base(P, count, t) /\ Begun(P, count, t, s)
        /\ rows \subseteq KV /\ RowsMap(rows) = Effect(RowsMap(t.rows), op)
        /\ Outcome(P, s, plan.st, root, plan.root, rows)
\* A put or a delete from a whole tree leads to the tree of the new map.
LEMMA PlanLeads ==
    ASSUME SeparatorsAreShort, NEW P, NEW count \in Nat, NEW root \in Nat, NEW op \in Op,
           PageMap(P), count >= FirstPage, DOMAIN P \subseteq FirstPage .. count - 1,
           Tree(P, count, root).ok, Tree(P, count, root).rows \subseteq KV,
           FewKept(RowsMap(Tree(P, count, root).rows)), op.val = Missing => root # RootNone
    PROVE  Leads(P, count, root, op)
<1>1. PICK t : t = Tree(P, count, root)
  OBVIOUS
<1>2. PICK s : s = Start(P, count, root) /\ s = Rewriting(P, count, t)
  BY <1>1 DEF Start
<1>3. PICK plan : plan = Plan(P, count, root, op)
  OBVIOUS
<1>4. plan = IF op.val = Missing THEN PlanDelete(s, root, op.key) ELSE PlanPut(s, root, op.key, op.val)
  BY <1>2, <1>3 DEF Plan, PlanFrom
<1>5. t.ok /\ t.rows \subseteq KV
  BY <1>1
<1>6. \A id \in t.refs : id \in DOMAIN P
  BY <1>1, TreeRefs
<1>7. Base(P, count, t)
  BY <1>5, <1>6 DEF Base
<1>8. Begun(P, count, t, s)
  BY <1>2, <1>7, StartGood
<1>9. OneOfEach(t.rows) /\ IF root = RootNone THEN t.rows = {} /\ t.refs = {} ELSE \E x, h : Trunk(P, t, root, x, h)
  <2>1. CASE root # RootNone
    <3>1. PICK x, h : Trunk(P, t, root, x, h)
      BY <1>1, <1>5, <1>7, <2>1, TrunkIs
    <3>2. h \in Nat \ {0}
      BY <1>7, <1>8, <3>1, TrunkTarget
    <3>3. x \in Ref /\ ItemOk(P, h, x) /\ ItemRows(P, h, x) = t.rows
      BY <3>1 DEF Trunk
    <3>4. FewRows(ItemRows(P, h, x))
      BY <1>1, <1>5, <3>3, KeptKeys
    <3>5. OneOfEach(ItemRows(P, h, x))
      BY <1>7, <3>2, <3>3, <3>4, EachOfItem DEF Base
    <3> QED BY <2>1, <3>1, <3>3, <3>5
  <2>2. CASE root = RootNone
    <3>1. t.rows = {} /\ t.refs = {}
      BY <1>1, <2>2 DEF Tree
    <3> QED BY <2>2, <3>1 DEF OneOfEach
  <2> QED BY <2>1, <2>2
<1>10. PICK u, next, key : u = plan.st /\ next = plan.root /\ key = op.key
  OBVIOUS
<1>11. PICK rows : rows = Change(t.rows, key, NewRows(op))
  OBVIOUS
<1>12. key \in Keys /\ key \in Nat /\ (op.val # Missing => op \in KV)
  <2>1. op.key \in Keys /\ (op.val # Missing => op \in KV)
    BY DEF Op, Entry, KV
  <2> QED BY <1>10, <2>1, KeysAreOrdered
<1>13. Outcome(P, s, u, root, next, rows)
  <2>1. CASE op.val = Missing
    <3>1. plan = PlanDelete(s, root, key) /\ rows = Change(t.rows, key, {}) /\ root # RootNone
      BY <1>4, <1>10, <1>11, <2>1 DEF NewRows
    <3>2. PICK x, h : Trunk(P, t, root, x, h)
      BY <1>9, <3>1
    <3> QED BY <1>7, <1>8, <1>10, <1>12, <3>1, <3>2, DeleteOutcome
  <2>2. CASE op.val # Missing
    <3>1. plan = PlanPut(s, root, op.key, op.val) /\ rows = Change(t.rows, op.key, {op}) /\ op \in KV
      BY <1>4, <1>10, <1>11, <1>12, <2>2 DEF NewRows
    <3> QED BY <1>7, <1>8, <1>9, <1>10, <3>1, PutOutcome
  <2> QED BY <2>1, <2>2
<1>14. RowsMap(rows) = Effect(RowsMap(t.rows), op)
  BY <1>5, <1>9, <1>10, <1>11, ChangeMap
<1>15. rows \subseteq KV
  BY <1>5, <1>11, <1>12 DEF Change, NewRows
<1> QED BY <1>1, <1>2, <1>3, <1>7, <1>8, <1>10, <1>11, <1>13, <1>14, <1>15 DEF Leads

\* A put or a delete from a whole tree keeps its promise.
LEMMA PlanKeeps ==
    ASSUME SeparatorsAreShort, NEW P, NEW count \in Nat, NEW root \in Nat, NEW op \in Op,
           PageMap(P), count >= FirstPage, DOMAIN P \subseteq FirstPage .. count - 1,
           Tree(P, count, root).ok, Tree(P, count, root).rows \subseteq KV,
           FewKept(RowsMap(Tree(P, count, root).rows)), op.val = Missing => root # RootNone
    PROVE  PlanHolds(P, count, root, op)
<1>1. PICK t, s, plan : t = Tree(P, count, root) /\ s = Start(P, count, root) /\ plan = Plan(P, count, root, op)
  OBVIOUS
<1>2. PICK u, next, rows : u = plan.st /\ next = plan.root /\ rows = Change(t.rows, op.key, NewRows(op))
  OBVIOUS
<1>3. /\ Base(P, count, t) /\ Begun(P, count, t, s) /\ rows \subseteq KV
      /\ RowsMap(rows) = Effect(RowsMap(t.rows), op) /\ Outcome(P, s, u, root, next, rows)
  BY <1>1, <1>2, PlanLeads DEF Leads
<1>4. GoodState(u) /\ Evolves(s, u)
  BY <1>3 DEF Outcome
<1>5. PICK e \in BOOLEAN : e <=> (u.err \/ ~FewKept(Effect(RowsMap(t.rows), op)))
  OBVIOUS
<1>6. InOrder(u.writes, count)
  BY <1>3, <1>4, WritesInOrder
<1>7. \A i \in DOMAIN u.writes : u.writes[i].id \notin t.refs
  BY <1>3, <1>4, WritesSpare
<1>8. ~e => Aims(Applied(P, u.writes), next, root, Effect(RowsMap(t.rows), op))
  <2>1. ASSUME ~e PROVE FewRows(rows) /\ ~u.err
    BY <1>3, <1>5, <2>1, KeptKeys
  <2> QED BY <1>3, <2>1 DEF Outcome, Goal
<1>9. Promise(P, count, root, root, Effect(RowsMap(t.rows), op), u.writes, e, next)
  BY <1>1, <1>6, <1>7, <1>8 DEF Promise
<1> QED BY <1>1, <1>2, <1>5, <1>9 DEF PlanHolds

\* Every plan is sound.
LEMMA EveryPlanIsSound ==
    ASSUME SeparatorsAreShort
    PROVE  PlansAreSound
BY PlanKeeps DEF PlansAreSound
=============================================================================
