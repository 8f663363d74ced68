------------------------- MODULE BTreeShapesProofs -------------------------
(***************************************************************************)
(* Between faults, the published tree holds the acknowledged map, and get  *)
(* and range_scan read that map from it, whatever sequence of mutations    *)
(* made it and however its pages split, merged and were recycled.          *)
(***************************************************************************)
EXTENDS BTreeShapes, BTreePlanProofs

\* The steps of Reached.
ReachedRun(run, P) ==
    /\ run[0] = [q \in Nat |-> {}]
    /\ \A d \in 1 .. MaxTreeHeight + 1 :
          run[d] = [q \in Nat |->
                {q} \cup UNION {IF P[q].kind = "leaf" THEN EntryPages(P, c)
                                ELSE ChainPages(P, c.key) \cup run[d - 1][c.child] :
                                    c \in Range(P[q].cells)}]
    /\ \A id : Reached(P, id) = run[MaxTreeHeight + 1][id]

\* What a root reaches is gathered level by level.
LEMMA ReachedSteps ==
    ASSUME NEW P
    PROVE  \E run : ReachedRun(run, P)
<1> DEFINE N == MaxTreeHeight + 1
           Step(x, i) == [q \in Nat |->
                {q} \cup UNION {IF P[q].kind = "leaf" THEN EntryPages(P, c)
                                ELSE ChainPages(P, c.key) \cup x[c.child] :
                                    c \in Range(P[q].cells)}]
           Base0 == [q \in Nat |-> {}]
           Def(g, m) == g = [i \in 0 .. m |-> IF i = 0 THEN Base0 ELSE Step(g[i - 1], i)]
           f == CHOOSE g : Def(g, N)
           S == {m \in Nat : \E g : Def(g, 0 + m)}
<1>0. N \in Int /\ N >= 0 /\ 0 \in Int
  BY HeightIsPositive
<1>3. \A id : Reached(P, id) = f[MaxTreeHeight + 1][id]
  <2> DEFINE g == CHOOSE reached :
                    reached = [d \in 0 .. MaxTreeHeight + 1 |->
                                [q \in Nat |->
                                    IF d = 0 THEN {} ELSE
                                    {q} \cup UNION {IF P[q].kind = "leaf" THEN EntryPages(P, c)
                                                    ELSE ChainPages(P, c.key) \cup reached[d - 1][c.child] :
                                                        c \in Range(P[q].cells)}]]
  <2>1. g = f
    BY Zenon
  <2>2. \A id : Reached(P, id) = g[MaxTreeHeight + 1][id]
    BY DEF Reached
  <2> HIDE DEF f, g
  <2> QED BY <2>1, <2>2
<1> HIDE DEF N, Step, Base0
<1>1. S = Nat
  <2>1. 0 \in S
    <3>1. Def([i \in 0 .. 0 + 0 |-> Base0], 0 + 0)
      BY <1>0
    <3> QED BY <3>1
  <2>2. ASSUME NEW m \in S PROVE m + 1 \in S
    <3>1. PICK g : Def(g, 0 + m)
      OBVIOUS
    <3> DEFINE n == 0 + m
               h == [i \in 0 .. n + 1 |-> IF i = n + 1 THEN Step(g[n], n + 1) ELSE g[i]]
               v(i) == IF i = 0 THEN Base0 ELSE Step(h[i - 1], i)
    <3>2. n \in Int /\ n >= 0 /\ n + 1 = 0 + (m + 1) /\ m + 1 \in Nat
      BY <1>0
    <3>3. g = [i \in 0 .. n |-> IF i = 0 THEN Base0 ELSE Step(g[i - 1], i)]
      BY <3>1
    <3> HIDE DEF n
    <3>4. ASSUME NEW i \in 0 .. n + 1 PROVE h[i] = v(i)
      <4>1. CASE i = n + 1
        <5>1. i # 0 /\ n \in 0 .. n + 1 /\ n # n + 1 /\ i - 1 = n
          BY <1>0, <3>2, <4>1
        <5>2. h[n] = g[n] /\ h[i] = Step(g[n], n + 1)
          BY <4>1, <5>1
        <5> QED BY <4>1, <5>1, <5>2
      <4>2. CASE i # n + 1 /\ i # 0
        <5>1. i \in 0 .. n /\ i - 1 \in 0 .. n + 1 /\ i - 1 # n + 1
          BY <1>0, <3>2, <4>2
        <5>2. g[i] = Step(g[i - 1], i)
          BY <3>3, <4>2, <5>1
        <5>3. h[i] = g[i] /\ h[i - 1] = g[i - 1]
          BY <4>2, <5>1
        <5> QED BY <4>2, <5>2, <5>3
      <4>3. CASE i = 0 /\ i # n + 1
        <5>1. i \in 0 .. n
          BY <1>0, <3>2, <4>3
        <5>2. g[i] = Base0
          BY <3>3, <4>3, <5>1
        <5>3. h[i] = g[i]
          BY <4>3
        <5> QED BY <4>3, <5>2, <5>3
      <4> QED BY <4>1, <4>2, <4>3
    <3>5. h = [i \in 0 .. n + 1 |-> h[i]]
      OBVIOUS
    <3> HIDE DEF h
    <3>6. h = [i \in 0 .. n + 1 |-> v(i)]
      BY <3>4, <3>5
    <3>7. Def(h, 0 + (m + 1))
      BY <3>2, <3>6
    <3> HIDE DEF Def
    <3> QED BY <3>2, <3>7
  <2> HIDE DEF S
  <2> QED BY <2>1, <2>2, NatSetInduction DEF S
<1>2. Def(f, N)
  <2>1. N - 0 \in Nat /\ N = 0 + (N - 0)
    BY <1>0
  <2>2. N - 0 \in S
    BY <1>1, <2>1
  <2>3. \E g : Def(g, N)
    BY <2>1, <2>2
  <2> HIDE DEF Def
  <2> QED BY <2>3, Zenon
<1> HIDE DEF f
<1>4. f[0] = Base0 /\ \A i \in 1 .. N : f[i] = Step(f[i - 1], i)
  <2> DEFINE v(i) == IF i = 0 THEN Base0 ELSE Step(f[i - 1], i)
  <2>1. f = [i \in 0 .. N |-> v(i)]
    BY <1>2
  <2>2. 0 \in 0 .. N /\ \A i \in 1 .. N : i \in 0 .. N /\ i # 0
    BY <1>0
  <2> HIDE DEF v
  <2>3. f[0] = v(0) /\ \A i \in 1 .. N : f[i] = v(i)
    BY <2>1, <2>2
  <2> QED BY <2>2, <2>3 DEF v
<1> QED
  <2>1. ReachedRun(f, P)
    BY <1>3, <1>4 DEF N, Base0, Step, ReachedRun
  <2> HIDE DEF f
  <2> QED BY <2>1

\* What a page of a level reaches.
LEMMA ReachedLevel ==
    ASSUME NEW P, NEW run, ReachedRun(run, P), NEW d \in 0 .. MaxTreeHeight, NEW q \in Nat
    PROVE  LET cells == P[q].cells
           IN  /\ P[q].kind = "leaf" => run[d + 1][q] = {q} \cup UNION {EntryPages(P, cells[i]) : i \in DOMAIN cells}
               /\ P[q].kind # "leaf" => run[d + 1][q] = {q} \cup UNION {ChainPages(P, cells[i].key) \cup
                                                                        run[d][cells[i].child] : i \in DOMAIN cells}
<1> DEFINE part(p, c) == IF P[p].kind = "leaf" THEN EntryPages(P, c) ELSE ChainPages(P, c.key) \cup run[d][c.child]
           all(p) == {p} \cup UNION {part(p, c) : c \in Range(P[p].cells)}
<1>1. d + 1 \in 1 .. MaxTreeHeight + 1 /\ (d + 1) - 1 = d
  BY HeightIsPositive
<1>2. run[d + 1] = [p \in Nat |-> all(p)]
  BY <1>1 DEF ReachedRun
<1> HIDE DEF part
<1>3. run[d + 1][q] = {q} \cup UNION {part(q, c) : c \in Range(P[q].cells)}
  BY <1>2
<1>4. PICK cells : cells = P[q].cells
  OBVIOUS
<1>5. UNION {part(q, c) : c \in Range(cells)} = UNION {part(q, cells[i]) : i \in DOMAIN cells}
  <2>1. Range(cells) = {cells[i] : i \in DOMAIN cells}
    BY DEF Range
  <2> QED BY <2>1
<1>6. CASE P[q].kind = "leaf"
  <2>1. UNION {part(q, cells[i]) : i \in DOMAIN cells} = UNION {EntryPages(P, cells[i]) : i \in DOMAIN cells}
    BY <1>6 DEF part
  <2> QED BY <1>3, <1>4, <1>5, <1>6, <2>1
<1>7. CASE P[q].kind # "leaf"
  <2>1. UNION {part(q, cells[i]) : i \in DOMAIN cells} =
          UNION {ChainPages(P, cells[i].key) \cup run[d][cells[i].child] : i \in DOMAIN cells}
    BY <1>7 DEF part
  <2> QED BY <1>3, <1>4, <1>5, <1>7, <2>1
<1> QED BY <1>6, <1>7

\* A root reaches the pages of a valid tree, each of them and no other.
LEMMA ReachedHolds ==
    ASSUME NEW P, PageMap(P), NEW id \in Nat, Subtree(P, id, MaxTreeHeight).ok
    PROVE  Reached(P, id) = Subtree(P, id, MaxTreeHeight).refs
<1>1. PICK run : ReachedRun(run, P)
  BY ReachedSteps
<1> DEFINE Good(d) == \A q \in Nat : Subtree(P, q, d).ok => run[d + 1][q] = Subtree(P, q, d).refs
           S == {d \in Nat : d <= MaxTreeHeight => Good(d)}
<1>2. MaxTreeHeight \in Nat
  BY HeightIsPositive
<1>3. 0 \in S
  BY NothingAtZero
<1>4. ASSUME NEW d \in S PROVE d + 1 \in S
  <2>1. d \in Nat /\ d + 1 \in Nat /\ (d <= MaxTreeHeight => Good(d))
    BY <1>4
  <2>2. ASSUME d + 1 <= MaxTreeHeight, NEW q \in Nat, Subtree(P, q, d + 1).ok
        PROVE  run[d + 1 + 1][q] = Subtree(P, q, d + 1).refs
    <3>1. PICK e \in 0 .. MaxTreeHeight : e = d + 1
      BY <1>2, <2>1, <2>2
    <3>2. PICK cells : cells = P[q].cells
      OBVIOUS
    <3>3. /\ P[q].kind = "leaf" => run[e + 1][q] = {q} \cup UNION {EntryPages(P, cells[i]) : i \in DOMAIN cells}
          /\ P[q].kind # "leaf" => run[e + 1][q] = {q} \cup UNION {ChainPages(P, cells[i].key) \cup
                                                                   run[e][cells[i].child] : i \in DOMAIN cells}
      BY <1>1, <3>2, ReachedLevel
    <3>4. CASE LeafNode(P, q) /\ Subtree(P, q, d + 1) = LeafSummary(P, q)
      <4>1. P[q].kind = "leaf"
        BY <3>4 DEF LeafNode, IsPage
      <4>2. Subtree(P, q, d + 1).refs = {q} \cup UNION {EntryPages(P, cells[i]) : i \in DOMAIN cells}
        BY <3>2, <3>4 DEF LeafSummary, Summary
      <4> QED BY <3>1, <3>3, <4>1, <4>2
    <3>5. CASE InnerNode(P, q, d) /\ Subtree(P, q, d + 1) = InnerSummary(P, q, d)
      <4>1. P[q].kind # "leaf"
        BY <3>5 DEF InnerNode, IsPage
      <4>2. Subtree(P, q, d + 1).refs = {q} \cup UNION {KidPages(P, q, i, d) : i \in DOMAIN cells}
        BY <3>2, <3>5 DEF InnerSummary, Summary
      <4>3. ASSUME NEW i \in DOMAIN cells
            PROVE  KidPages(P, q, i, d) = ChainPages(P, cells[i].key) \cup run[e][cells[i].child]
        <5>1. PICK c : c = cells[i]
          OBVIOUS
        <5>2. c.child \in Nat
          BY <3>2, <3>5, <5>1, InnerParts
        <5>3. Subtree(P, c.child, d).ok
          BY <3>2, <3>5, <5>1 DEF InnerNode, Kid
        <5>4. Good(d)
          BY <1>2, <2>1, <2>2
        <5>5. Subtree(P, c.child, d).refs = run[e][c.child]
          BY <3>1, <5>2, <5>3, <5>4
        <5>6. KidPages(P, q, i, d) = ChainPages(P, c.key) \cup Subtree(P, c.child, d).refs
          BY <3>2, <5>1 DEF KidPages, SepPages, Kid
        <5> QED BY <5>1, <5>5, <5>6
      <4>4. UNION {KidPages(P, q, i, d) : i \in DOMAIN cells} =
              UNION {ChainPages(P, cells[i].key) \cup run[e][cells[i].child] : i \in DOMAIN cells}
        BY <4>3
      <4> QED BY <3>1, <3>3, <4>1, <4>2, <4>4
    <3> QED BY <2>1, <2>2, <3>4, <3>5, SubtreeUp
  <2> QED BY <2>1, <2>2
<1>5. S = Nat
  <2> HIDE DEF S
  <2> QED BY <1>3, <1>4, NatSetInduction DEF S
<1>6. Good(MaxTreeHeight)
  <2>1. MaxTreeHeight \in S
    <3> HIDE DEF S
    <3> QED BY <1>2, <1>5
  <2> QED BY <1>2, <2>1
<1> QED BY <1>1, <1>6 DEF ReachedRun

\* The pages of the tree are kept, and are enough to read it.
LEMMA KeptTree ==
    ASSUME NEW P, PageMap(P), NEW n \in Nat, NEW r \in Nat, NEW map, Reads(P, n, r, map),
           NEW Q, Q = Keep(P, r)
    PROVE  PageMap(Q) /\ DOMAIN Q \subseteq DOMAIN P /\ Reads(Q, n, r, map)
<1>1. PICK t : t = Tree(P, n, r)
  OBVIOUS
<1>2. t.ok
  BY <1>1 DEF Reads
<1>3. CASE r = RootNone
  <2>1. Q = [x \in {} |-> P[x]]
    BY <1>3 DEF Keep, Restrict
  <2>2. DOMAIN Q = {}
    BY <2>1
  <2>3. Tree(Q, n, r) = t
    BY <1>1, <1>3 DEF Tree
  <2> QED BY <1>1, <2>2, <2>3 DEF PageMap, Reads
<1>4. CASE r # RootNone
  <2>1. PICK A : A = Committed(P, n)
    OBVIOUS
  <2>2. t = Subtree(A, r, MaxTreeHeight)
    BY <1>1, <1>4, <2>1 DEF Tree
  <2>3. /\ PageMap(A) /\ DOMAIN A = {id \in DOMAIN P : id < n}
        /\ \A id \in DOMAIN P : id < n => A[id] = P[id]
    BY <2>1, CommittedFacts
  <2>4. MaxTreeHeight \in Nat
    BY HeightIsPositive
  <2>5. Shaped(A, t, r, MaxTreeHeight)
    BY <1>2, <2>2, <2>3, <2>4, TreeShaped
  <2>6. t.refs \subseteq DOMAIN A /\ t.height <= MaxTreeHeight
    BY <2>4, <2>5 DEF Shaped
  <2>7. Keeps(A, P, t.refs)
    BY <2>3 DEF Keeps
  <2>8. Subtree(P, r, MaxTreeHeight) = t
    BY <1>2, <2>2, <2>3, <2>4, <2>6, <2>7, SubtreeSame
  <2>9. Reached(P, r) = t.refs
    BY <1>2, <2>8, ReachedHolds
  <2>10. Q = [x \in t.refs |-> P[x]]
    BY <1>4, <2>9 DEF Keep, Restrict
  <2>11. DOMAIN Q = t.refs /\ (\A id \in t.refs : Q[id] = P[id]) /\ t.refs \subseteq DOMAIN P
    BY <2>3, <2>6, <2>10
  <2>12. PageMap(Q) /\ Keeps(P, Q, t.refs)
    BY <2>11 DEF PageMap, Keeps
  <2>13. \A id \in t.refs : id < n
    BY <1>1, <1>2, TreeRefs
  <2>14. Tree(Q, n, r) = t
    BY <1>1, <1>2, <2>12, <2>13, TreeSame
  <2> QED BY <1>1, <2>11, <2>12, <2>14 DEF Reads
<1> QED BY <1>3, <1>4

-----------------------------------------------------------------------------
\* prepare_tree_page: a rewriting writes no page at or beyond the page count
\* it publishes, and does not lower that count.
LEMMA CountCovers ==
    ASSUME NEW P, NEW n, NEW t, Base(P, n, t), NEW s, Begun(P, n, t, s),
           NEW u, GoodState(u), Evolves(s, u)
    PROVE  /\ CountAfter(u) \in Nat /\ CountAfter(u) >= n
           /\ DOMAIN u.pages \subseteq FirstPage .. CountAfter(u) - 1
<1>1. PICK w : w = Len(u.writes)
  OBVIOUS
<1>2. PICK l : l = Len(u.pool)
  OBVIOUS
<1>3. w \in Nat /\ l \in Nat /\ u.pool = s.pool /\ u.count = n
  <2>1. w \in Nat
    BY <1>1, GoodLen
  <2>2. l \in Nat
    BY <1>2 DEF GoodState, Sourced
  <2> QED BY <2>1, <2>2 DEF Evolves, Begun, StartsAs
<1>4. n \in Nat /\ n >= FirstPage /\ DOMAIN P \subseteq FirstPage .. n - 1
  BY DEF Base
<1>5. CountAfter(u) = IF w <= l THEN n ELSE n + w - l
  BY <1>1, <1>2, <1>3 DEF CountAfter
<1>6. PICK c : c = CountAfter(u)
  OBVIOUS
<1>7. c \in Nat /\ c >= n /\ (w > l => c = n + w - l)
  BY <1>3, <1>4, <1>5, <1>6
<1>8. DOMAIN u.pages = DOMAIN P \cup (Free(s) \ Free(u))
  BY DEF Evolves, Begun, StartsAs
<1>9. ASSUME NEW id \in Free(s) \ Free(u) PROVE id \in FirstPage .. c - 1
  <2>1. PICK i \in Nat : i > Len(s.writes) /\ id = Slot(s, i)
    BY <1>9 DEF Free
  <2>2. i \in Nat \ {0}
    <3>1. Len(s.writes) = 0
      BY DEF Begun, StartsAs
    <3> QED BY <2>1, <3>1
  <2>3. i <= w
    <3>1. Slot(u, i) = id
      BY <2>1, SlotStays
    <3> QED BY <1>1, <1>3, <1>9, <2>1, <3>1 DEF Free
  <2>4. s.count = n /\ Pool(s.pool, t.refs, n - 1)
    BY DEF Begun, StartsAs
  <2>5. SlotIs(id, s.pool, l, t.refs, n, i)
    BY <1>2, <1>3, <1>4, <2>1, <2>2, <2>4, StartSlots
  <2>6. id \in Nat /\ id >= FirstPage /\ (i <= l => id < n) /\ (i > l => id = n + i - l - 1)
    BY <2>5 DEF SlotIs
  <2> QED BY <1>3, <1>4, <1>7, <2>2, <2>3, <2>6
<1> QED
  <2>1. FirstPage .. n - 1 \subseteq FirstPage .. c - 1
    BY <1>4, <1>7 DEF FirstPage
  <2> QED BY <1>4, <1>6, <1>7, <1>8, <1>9, <2>1

\* The published tree is whole, within the extent, and holds the map.
ShInv ==
    /\ PageMap(pages) /\ count \in Nat /\ count >= FirstPage
    /\ DOMAIN pages \subseteq FirstPage .. count - 1
    /\ root \in Nat /\ Reads(pages, count, root, store)

\* The empty tree holds the empty map.
LEMMA ShInit == Init => ShInv
<1> SUFFICES ASSUME Init PROVE ShInv
  OBVIOUS
<1>1. DOMAIN pages = {}
  BY DEF Init
<1>2. PageMap(pages) /\ DOMAIN pages \subseteq FirstPage .. count - 1
  BY <1>1 DEF PageMap
<1>3. count \in Nat /\ count >= FirstPage /\ root \in Nat
  BY DEF Init, FirstPage, RootNone
<1>4. Tree(pages, count, root) = [ok |-> TRUE, rows |-> {}, height |-> 0, refs |-> {}]
  BY DEF Init, Tree
<1>5. RowsMap({}) = store
  <2>1. RowsMap({}) = [k \in Keys |-> Missing]
    BY DEF RowsMap
  <2> QED BY <2>1 DEF Init, EmptyMap
<1> QED BY <1>2, <1>3, <1>4, <1>5 DEF ShInv, Reads

\* A mutation that is due, from the published tree: what its plan leads to.
LEMMA DueLeads ==
    ASSUME SeparatorsAreShort, ShInv, FewKept(store), NEW op \in Op, Due(op)
    PROVE  Leads(pages, count, root, op)
<1>1. op.val = Missing => root # RootNone
  BY DEF Due, Lookup
<1>2. /\ PageMap(pages) /\ count \in Nat /\ count >= FirstPage
      /\ DOMAIN pages \subseteq FirstPage .. count - 1 /\ root \in Nat
      /\ Tree(pages, count, root).ok /\ Tree(pages, count, root).rows \subseteq KV
      /\ RowsMap(Tree(pages, count, root).rows) = store
  BY DEF ShInv, Reads
<1> QED BY <1>1, <1>2, PlanLeads

\* A mutation keeps the published tree whole and makes it hold the new map.
LEMMA MutateKeeps ==
    ASSUME SeparatorsAreShort, ShInv, FewKept(store), FewKept(store'), NEW op \in Op, Mutate(op)
    PROVE  ShInv'
<1>1. PICK plan : plan = Plan(pages, count, root, op) /\ (Publish(op, plan) \/ Refuse(plan))
  BY DEF Mutate
<1>2. Due(op)
  BY DEF Mutate
<1>3. PICK t : t = Tree(pages, count, root)
  OBVIOUS
<1>4. PICK s : s = Start(pages, count, root)
  OBVIOUS
<1>5. PICK rows : rows = Change(t.rows, op.key, NewRows(op))
  OBVIOUS
<1>6. PICK u : u = plan.st
  OBVIOUS
<1>7. /\ PageMap(pages) /\ count \in Nat /\ count >= FirstPage
      /\ DOMAIN pages \subseteq FirstPage .. count - 1 /\ root \in Nat
      /\ t.ok /\ t.rows \subseteq KV /\ RowsMap(t.rows) = store
  BY <1>3 DEF ShInv, Reads
<1>8. /\ Base(pages, count, t) /\ Begun(pages, count, t, s)
      /\ rows \subseteq KV /\ RowsMap(rows) = Effect(store, op)
      /\ Outcome(pages, s, u, root, plan.root, rows)
  <2>1. Leads(pages, count, root, op)
    BY <1>2, DueLeads
  <2> QED BY <1>1, <1>3, <1>4, <1>5, <1>6, <1>7, <2>1 DEF Leads
<1>9. GoodState(u) /\ Evolves(s, u)
  BY <1>8 DEF Outcome
<1>10. PICK c : c = CountAfter(u)
  OBVIOUS
<1>11. c \in Nat /\ c >= count /\ DOMAIN u.pages \subseteq FirstPage .. c - 1
  BY <1>8, <1>9, <1>10, CountCovers
<1>12. CASE Publish(op, plan)
  <2>1. ~u.err /\ root' = plan.root /\ count' = c /\ pages' = Keep(u.pages, plan.root)
        /\ store' = Effect(store, op)
    BY <1>6, <1>10, <1>12 DEF Publish
  <2>2. FewRows(rows)
    BY <1>8, <2>1, KeptKeys
  <2>3. Aims(u.pages, plan.root, root, store')
    BY <1>8, <2>1, <2>2 DEF Outcome, Goal
  <2>4. \A id \in DOMAIN u.pages : id < c
    BY <1>11 DEF FirstPage
  <2>5. plan.root \in Nat /\ Reads(u.pages, c, plan.root, store')
    BY <1>11, <2>3, <2>4 DEF Aims
  <2>6. PageMap(u.pages)
    BY <1>9 DEF GoodState
  <2>7. PageMap(pages') /\ DOMAIN pages' \subseteq DOMAIN u.pages /\ Reads(pages', c, root', store')
    BY <1>11, <2>1, <2>5, <2>6, KeptTree
  <2> QED BY <1>7, <1>11, <2>1, <2>5, <2>7 DEF ShInv, FirstPage
<1>13. CASE Refuse(plan)
  <2>1. count' = c /\ pages' = pages /\ root' = root /\ store' = store
    BY <1>6, <1>10, <1>13 DEF Refuse
  <2>2. \A id \in t.refs : id < c
    <3>1. \A id \in t.refs : id < count /\ id \in Nat
      BY <1>3, <1>7, TreeRefs DEF PageMap
    <3> QED BY <1>7, <1>11, <3>1
  <2>3. Tree(pages, c, root) = t
    BY <1>3, <1>7, <1>11, <2>2, TreeSame DEF Keeps
  <2>4. Reads(pages', count', root', store')
    BY <1>7, <2>1, <2>3 DEF Reads
  <2>5. DOMAIN pages \subseteq FirstPage .. c - 1
    BY <1>7, <1>11 DEF FirstPage
  <2>6. PageMap(pages') /\ DOMAIN pages' \subseteq FirstPage .. count' - 1
    BY <1>7, <2>1, <2>5
  <2> QED BY <1>7, <1>11, <2>1, <2>4, <2>6 DEF ShInv, FirstPage
<1> QED BY <1>1, <1>12, <1>13

\* A tree that never has to hold as many keys as MAX_TREE_HEIGHT levels may
\* be needed for is whole at every step (one fewer than 2^MAX_TREE_HEIGHT).
LEMMA ShStep ==
    ASSUME SeparatorsAreShort, ShInv, FewKept(store), FewKept(store'), [Next]_vars
    PROVE  ShInv'
<1>1. CASE Next
  BY <1>1, MutateKeeps DEF Next
<1>2. CASE UNCHANGED vars
  BY <1>2 DEF vars, ShInv
<1> QED BY <1>1, <1>2

\* Between faults, what a mutation publishes is a tree that
\* validate_reachable_tree accepts and whose rows are the acknowledged map
\* (rewrite_insert, rewrite_delete), for every sequence of mutations and
\* every data, as long as the map holds fewer than 2^MAX_TREE_HEIGHT keys.
THEOREM PublishedTreeHoldsStore ==
    ASSUME SeparatorsAreShort
    PROVE  Spec /\ [](FewKept(store)) => []TreeHoldsStore
<1>1. Init => ShInv
  BY ShInit
<1>2. ShInv /\ FewKept(store) /\ FewKept(store') /\ [Next]_vars => ShInv'
  BY ShStep
<1>3. ShInv => TreeHoldsStore
  BY DEF ShInv, Reads, TreeHoldsStore
<1>4. FewKept(store)' <=> FewKept(store')
  BY DEF FewKept, Kept
<1> QED BY <1>1, <1>2, <1>3, <1>4, PTL DEF Spec

-----------------------------------------------------------------------------
\* get, one level at a time.
LookupRun(run, P, key) ==
    /\ run[0] = [q \in Nat |-> Torn]
    /\ \A d \in 1 .. MaxTreeHeight : run[d] = [q \in Nat |-> LookupAt(P, q, key, run[d - 1])]
LookupBy(run, P, key) ==
    \A r : Lookup(P, r, key) = IF r = RootNone THEN Missing ELSE run[MaxTreeHeight][r]

\* get goes down one level at a time.
LEMMA LookupSteps ==
    ASSUME NEW P, NEW key
    PROVE  \E run : LookupRun(run, P, key) /\ LookupBy(run, P, key)
<1> DEFINE N == MaxTreeHeight
           Step(x, i) == [q \in Nat |-> LookupAt(P, q, key, x)]
           Base0 == [q \in Nat |-> Torn]
           Def(g, m) == g = [i \in 0 .. m |-> IF i = 0 THEN Base0 ELSE Step(g[i - 1], i)]
           f == CHOOSE g : Def(g, N)
           S == {m \in Nat : \E g : Def(g, 0 + m)}
<1>0. N \in Int /\ N >= 0 /\ 0 \in Int
  BY HeightIsPositive
<1>3. LookupBy(f, P, key)
  <2> DEFINE g == CHOOSE found :
                    found = [d \in 0 .. MaxTreeHeight |->
                                [p \in Nat |-> IF d = 0 THEN Torn
                                               ELSE LookupAt(P, p, key, found[d - 1])]]
  <2>1. g = f
    BY Zenon
  <2>2. \A r : Lookup(P, r, key) = IF r = RootNone THEN Missing ELSE g[MaxTreeHeight][r]
    BY DEF Lookup
  <2> HIDE DEF f, g
  <2> QED BY <2>1, <2>2 DEF LookupBy
<1> HIDE DEF N, Step, Base0
<1>1. S = Nat
  <2>1. 0 \in S
    <3>1. Def([i \in 0 .. 0 + 0 |-> Base0], 0 + 0)
      BY <1>0
    <3> QED BY <3>1
  <2>2. ASSUME NEW m \in S PROVE m + 1 \in S
    <3>1. PICK g : Def(g, 0 + m)
      OBVIOUS
    <3> DEFINE n == 0 + m
               h == [i \in 0 .. n + 1 |-> IF i = n + 1 THEN Step(g[n], n + 1) ELSE g[i]]
               v(i) == IF i = 0 THEN Base0 ELSE Step(h[i - 1], i)
    <3>2. n \in Int /\ n >= 0 /\ n + 1 = 0 + (m + 1) /\ m + 1 \in Nat
      BY <1>0
    <3>3. g = [i \in 0 .. n |-> IF i = 0 THEN Base0 ELSE Step(g[i - 1], i)]
      BY <3>1
    <3> HIDE DEF n
    <3>4. ASSUME NEW i \in 0 .. n + 1 PROVE h[i] = v(i)
      <4>1. CASE i = n + 1
        <5>1. i # 0 /\ n \in 0 .. n + 1 /\ n # n + 1 /\ i - 1 = n
          BY <1>0, <3>2, <4>1
        <5>2. h[n] = g[n] /\ h[i] = Step(g[n], n + 1)
          BY <4>1, <5>1
        <5> QED BY <4>1, <5>1, <5>2
      <4>2. CASE i # n + 1 /\ i # 0
        <5>1. i \in 0 .. n /\ i - 1 \in 0 .. n + 1 /\ i - 1 # n + 1
          BY <1>0, <3>2, <4>2
        <5>2. g[i] = Step(g[i - 1], i)
          BY <3>3, <4>2, <5>1
        <5>3. h[i] = g[i] /\ h[i - 1] = g[i - 1]
          BY <4>2, <5>1
        <5> QED BY <4>2, <5>2, <5>3
      <4>3. CASE i = 0 /\ i # n + 1
        <5>1. i \in 0 .. n
          BY <1>0, <3>2, <4>3
        <5>2. g[i] = Base0
          BY <3>3, <4>3, <5>1
        <5>3. h[i] = g[i]
          BY <4>3
        <5> QED BY <4>3, <5>2, <5>3
      <4> QED BY <4>1, <4>2, <4>3
    <3>5. h = [i \in 0 .. n + 1 |-> h[i]]
      OBVIOUS
    <3> HIDE DEF h
    <3>6. h = [i \in 0 .. n + 1 |-> v(i)]
      BY <3>4, <3>5
    <3>7. Def(h, 0 + (m + 1))
      BY <3>2, <3>6
    <3> HIDE DEF Def
    <3> QED BY <3>2, <3>7
  <2> HIDE DEF S
  <2> QED BY <2>1, <2>2, NatSetInduction DEF S
<1>2. Def(f, N)
  <2>1. N - 0 \in Nat /\ N = 0 + (N - 0)
    BY <1>0
  <2>2. N - 0 \in S
    BY <1>1, <2>1
  <2>3. \E g : Def(g, N)
    BY <2>1, <2>2
  <2> HIDE DEF Def
  <2> QED BY <2>3, Zenon
<1> HIDE DEF f
<1>4. f[0] = Base0 /\ \A i \in 1 .. N : f[i] = Step(f[i - 1], i)
  <2> DEFINE v(i) == IF i = 0 THEN Base0 ELSE Step(f[i - 1], i)
  <2>1. f = [i \in 0 .. N |-> v(i)]
    BY <1>2
  <2>2. 0 \in 0 .. N /\ \A i \in 1 .. N : i \in 0 .. N /\ i # 0
    BY <1>0
  <2> HIDE DEF v
  <2>3. f[0] = v(0) /\ \A i \in 1 .. N : f[i] = v(i)
    BY <2>1, <2>2
  <2> QED BY <2>2, <2>3 DEF v
<1> QED
  <2>1. LookupRun(f, P, key) /\ LookupBy(f, P, key)
    BY <1>3, <1>4 DEF N, Base0, Step, LookupRun
  <2> HIDE DEF f
  <2> QED BY <2>1

\* get in a leaf: the value of the row with the key.
LEMMA LookupLeaf ==
    ASSUME NEW P, PageMap(P), NEW x \in Ref, ItemOk(P, 1, x), NEW key, NEW below
    PROVE  LookupAt(P, x.page, key, below) = RowsMap(ItemRows(P, 1, x))[key]
<1>1. PICK cells : cells = P[x.page].cells
  OBVIOUS
<1>2. /\ IsPage(P, x.page, "leaf") /\ Strand(P, 0, cells) /\ RowsOf(P, 0, cells) = ItemRows(P, 1, x)
  BY <1>1, LeafOpen
<1>3. Range(Rows(P, cells)) = {Row(P, cells[i]) : i \in DOMAIN cells}
  BY DEF Range, Rows
<1>4. RowsOf(P, 0, cells) = {Row(P, cells[i]) : i \in DOMAIN cells}
  BY DEF RowsOf, ItemRows
<1> QED BY <1>1, <1>2, <1>3, <1>4 DEF LookupAt, IsPage

\* The rows of a strand around a key: those with the key are those of the
\* item the key belongs to.
LEMMA AroundMap ==
    ASSUME NEW P, PageMap(P), NEW h \in Nat, NEW xs, Strand(P, h, xs), NEW i \in 1 .. Len(xs),
           NEW key \in Keys, key \in Nat, Around(P, h, xs, i, i, key), OneOfEach(RowsOf(P, h, xs))
    PROVE  /\ RowsMap(ItemRows(P, h, xs[i]))[key] = RowsMap(RowsOf(P, h, xs))[key]
           /\ ItemRows(P, h, xs[i]) \subseteq RowsOf(P, h, xs)
<1>1. Len(xs) \in Nat /\ i \in Nat \ {0} /\ i <= Len(xs)
  BY SeqFacts DEF Strand
<1>2. InThree(P, h, xs, i, i)
  <2>1. i \in 1 .. Len(xs) + 1 /\ i \in 0 .. Len(xs) /\ i <= i + 1
    BY <1>1
  <2> QED BY <2>1, InAll
<1>3. PICK rows : rows = RowsOf(P, h, xs)
  OBVIOUS
<1>4. PICK mine : mine = ItemRows(P, h, xs[i])
  OBVIOUS
<1>5. PICK low : low = RowsIn(P, h, xs, 1, i - 1)
  OBVIOUS
<1>6. PICK high : high = RowsIn(P, h, xs, i + 1, Len(xs))
  OBVIOUS
<1>7. rows = low \cup mine \cup high
  BY <1>1, <1>2, <1>3, <1>4, <1>5, <1>6, InOne DEF InThree
<1>8. (\A r \in low : r.key < key) /\ \A r \in high : key < r.key
  BY <1>5, <1>6 DEF Around
<1>9. \A r \in rows : r.key = key => r \in mine
  BY <1>7, <1>8
<1>10. OneOfEach(mine)
  BY <1>3, <1>7 DEF OneOfEach
<1>11. CASE \E r \in mine : r.key = key
  <2>1. PICK r \in mine : r.key = key
    BY <1>11
  <2>2. r \in rows
    BY <1>7
  <2>3. RowsMap(mine)[key] = r.val /\ RowsMap(rows)[key] = r.val
    BY <1>3, <1>10, <2>1, <2>2, MapWith
  <2> QED BY <1>3, <1>4, <1>7, <2>3
<1>12. CASE ~\E r \in mine : r.key = key
  <2>1. \A r \in rows : r.key # key
    BY <1>9, <1>12
  <2>2. RowsMap(mine)[key] = Missing /\ RowsMap(rows)[key] = Missing
    BY <1>12, <2>1, MapWithout
  <2> QED BY <1>3, <1>4, <1>7, <2>2
<1> QED BY <1>11, <1>12

\* get in an internal page: what get answers in the child it routes to.
LEMMA LookupInner ==
    ASSUME NEW P, PageMap(P), NEW h \in Nat \ {0}, NEW x \in Ref, ItemOk(P, h + 1, x),
           NEW key \in Keys, OneOfEach(ItemRows(P, h + 1, x)), NEW below,
           \A y \in Ref : ItemOk(P, h, y) /\ OneOfEach(ItemRows(P, h, y)) =>
                              below[y.page] = RowsMap(ItemRows(P, h, y))[key]
    PROVE  LookupAt(P, x.page, key, below) = RowsMap(ItemRows(P, h + 1, x))[key]
<1>1. PICK refs : refs = Children(P, x.page)
  OBVIOUS
<1>2. /\ IsPage(P, x.page, "internal") /\ Len(refs) >= 2 /\ Strand(P, h, refs)
      /\ RowsOf(P, h, refs) = ItemRows(P, h + 1, x)
  BY <1>1, InnerOpen
<1>3. refs \in Seq(Ref) /\ Len(refs) \in Nat /\ DOMAIN refs = 1 .. Len(refs)
  BY <1>2, SeqFacts DEF Strand, Kind
<1>4. key \in Nat
  BY KeysAreOrdered
<1>5. PICK i : i = Route(refs, key)
  OBVIOUS
<1>6. i \in 1 .. Len(refs) /\ Around(P, h, refs, i, i, key)
  <2>1. refs # << >>
    BY <1>2, <1>3
  <2> QED BY <1>2, <1>4, <1>5, <2>1, RouteGood
<1>7. PICK y : y = refs[i]
  OBVIOUS
<1>8. y \in Ref /\ ItemOk(P, h, y)
  <2>1. i \in DOMAIN refs
    BY <1>3, <1>6
  <2> QED BY <1>2, <1>3, <1>7, <2>1, SeqFacts DEF Strand
<1>9. /\ RowsMap(ItemRows(P, h, y))[key] = RowsMap(RowsOf(P, h, refs))[key]
      /\ ItemRows(P, h, y) \subseteq RowsOf(P, h, refs)
  BY <1>2, <1>4, <1>6, <1>7, AroundMap
<1>10. OneOfEach(ItemRows(P, h, y))
  BY <1>2, <1>9 DEF OneOfEach
<1>11. below[y.page] = RowsMap(ItemRows(P, h + 1, x))[key]
  BY <1>2, <1>8, <1>9, <1>10
<1>12. LookupAt(P, x.page, key, below) = below[y.page]
  BY <1>1, <1>2, <1>5, <1>7 DEF LookupAt, IsPage
<1> QED BY <1>11, <1>12

\* get in a valid tree answers by the rows of the tree.
LEMMA LookupGood ==
    ASSUME NEW P, PageMap(P), NEW h \in 1 .. MaxTreeHeight, NEW x \in Ref, ItemOk(P, h, x),
           OneOfEach(ItemRows(P, h, x)), NEW key \in Keys, x.page # RootNone
    PROVE  Lookup(P, x.page, key) = RowsMap(ItemRows(P, h, x))[key]
<1>1. PICK run : LookupRun(run, P, key) /\ LookupBy(run, P, key)
  BY LookupSteps
<1>2. MaxTreeHeight \in Nat \ {0}
  BY HeightIsPositive
<1>3. ASSUME NEW d \in 1 .. MaxTreeHeight, NEW q \in Nat PROVE run[d][q] = LookupAt(P, q, key, run[d - 1])
  <2>1. run[d] = [p \in Nat |-> LookupAt(P, p, key, run[d - 1])]
    BY <1>1 DEF LookupRun
  <2> QED BY <2>1
\* A subtree of height g is read with g levels or more.
<1> DEFINE Good(g) == \A d \in g .. MaxTreeHeight : \A y \in Ref :
                          ItemOk(P, g, y) /\ OneOfEach(ItemRows(P, g, y)) =>
                              run[d][y.page] = RowsMap(ItemRows(P, g, y))[key]
           S == {n \in Nat : n + 1 <= MaxTreeHeight => Good(n + 1)}
<1>4. 0 \in S
  <2>1. ASSUME NEW d \in 1 .. MaxTreeHeight, NEW y \in Ref, ItemOk(P, 1, y)
        PROVE  run[d][y.page] = RowsMap(ItemRows(P, 1, y))[key]
    <3>1. y.page \in Nat
      BY DEF Ref
    <3> QED BY <1>3, <2>1, <3>1, LookupLeaf
  <2>2. Good(1)
    BY <2>1
  <2>3. 0 + 1 = 1
    OBVIOUS
  <2> HIDE DEF Good
  <2> QED BY <2>2, <2>3
<1>5. ASSUME NEW n \in S PROVE n + 1 \in S
  <2>1. n \in Nat /\ n + 1 \in Nat /\ n + 1 \in Nat \ {0} /\ (n + 1 <= MaxTreeHeight => Good(n + 1))
    BY <1>5
  <2>2. ASSUME n + 1 + 1 <= MaxTreeHeight, NEW d \in n + 1 + 1 .. MaxTreeHeight, NEW y \in Ref,
               ItemOk(P, n + 1 + 1, y), OneOfEach(ItemRows(P, n + 1 + 1, y))
        PROVE  run[d][y.page] = RowsMap(ItemRows(P, n + 1 + 1, y))[key]
    <3>1. PICK g \in Nat \ {0} : g = n + 1
      BY <2>1
    <3>2. d \in 1 .. MaxTreeHeight /\ d - 1 \in g .. MaxTreeHeight
      BY <1>2, <2>1, <2>2, <3>1
    <3>3. Good(g)
      <4> HIDE DEF Good
      <4> QED BY <1>2, <2>1, <2>2, <3>1
    <3>4. \A z \in Ref : ItemOk(P, g, z) /\ OneOfEach(ItemRows(P, g, z)) =>
                             run[d - 1][z.page] = RowsMap(ItemRows(P, g, z))[key]
      BY <3>2, <3>3
    <3>5. y.page \in Nat
      BY DEF Ref
    <3>6. ItemOk(P, g + 1, y) /\ OneOfEach(ItemRows(P, g + 1, y))
      BY <2>2, <3>1
    <3>7. LookupAt(P, y.page, key, run[d - 1]) = RowsMap(ItemRows(P, g + 1, y))[key]
      BY <3>4, <3>6, LookupInner
    <3>8. run[d][y.page] = LookupAt(P, y.page, key, run[d - 1])
      BY <1>3, <3>2, <3>5
    <3> QED BY <3>1, <3>7, <3>8
  <2>3. n + 1 + 1 <= MaxTreeHeight => Good(n + 1 + 1)
    BY <2>2
  <2> HIDE DEF Good
  <2> QED BY <2>1, <2>3
<1>6. S = Nat
  <2> HIDE DEF S
  <2> QED BY <1>4, <1>5, NatSetInduction DEF S
<1>7. Good(h)
  <2>1. h - 1 \in Nat /\ h - 1 + 1 = h /\ h <= MaxTreeHeight
    BY <1>2
  <2>2. h - 1 \in S
    <3> HIDE DEF S
    <3> QED BY <1>6, <2>1
  <2> HIDE DEF Good
  <2> QED BY <2>1, <2>2
<1>8. run[MaxTreeHeight][x.page] = RowsMap(ItemRows(P, h, x))[key]
  <2>1. MaxTreeHeight \in h .. MaxTreeHeight
    BY <1>2
  <2> QED BY <1>7, <2>1
<1> QED BY <1>1, <1>8 DEF LookupBy

-----------------------------------------------------------------------------
\* The first rows of W in the order of their keys, up to a limit.
FirstRows(A, W, limit) ==
    /\ A \in Seq(KV) /\ Len(A) <= limit
    /\ \A i, j \in DOMAIN A : i < j => A[i].key < A[j].key
    /\ \A i \in DOMAIN A : A[i] \in W
    /\ \A w \in W, i \in DOMAIN A : w.key <= A[i].key => \E j \in DOMAIN A : A[j] = w
    /\ Len(A) < limit => \A w \in W : \E j \in DOMAIN A : A[j] = w

\* There is one sequence of first rows.
LEMMA FirstRowsAreOne ==
    ASSUME NEW W, W \subseteq KV, OneOfEach(W), NEW limit \in Nat,
           NEW A, FirstRows(A, W, limit), NEW B, FirstRows(B, W, limit)
    PROVE  A = B
<1>1. ASSUME NEW C, FirstRows(C, W, limit)
      PROVE  /\ C \in Seq(KV) /\ Len(C) \in Nat /\ DOMAIN C = 1 .. Len(C)
             /\ \A i \in 1 .. Len(C) : C[i].key \in Nat
  BY <1>1, SeqFacts, KeysAreNumbers DEF FirstRows
<1> DEFINE S == {i \in Nat : i \in 1 .. Len(A) /\ i \in 1 .. Len(B) /\ A[i] # B[i]}
\* Of two sequences that agree below i, neither has the lower key there.
<1>2. ASSUME NEW C, FirstRows(C, W, limit), NEW D, FirstRows(D, W, limit),
             NEW i \in Nat, i \in 1 .. Len(C), i \in 1 .. Len(D),
             \A j \in 1 .. i - 1 : C[j] = D[j]
      PROVE  ~(C[i].key < D[i].key)
  <2>0. /\ DOMAIN C = 1 .. Len(C) /\ DOMAIN D = 1 .. Len(D) /\ Len(C) \in Nat /\ Len(D) \in Nat
        /\ (\A j \in 1 .. Len(C) : C[j].key \in Nat) /\ \A j \in 1 .. Len(D) : D[j].key \in Nat
    BY <1>1, <1>2
  <2>1. SUFFICES ASSUME C[i].key < D[i].key PROVE FALSE
    OBVIOUS
  <2>2. C[i] \in W /\ C[i].key <= D[i].key
    BY <2>0, <1>2, <2>1 DEF FirstRows
  <2>3. PICK j \in DOMAIN D : D[j] = C[i]
    BY <2>0, <1>2, <2>2 DEF FirstRows
  <2>4. j \in 1 .. Len(D) /\ j \in Nat
    BY <2>0
  <2>5. D[j].key < D[i].key
    BY <2>1, <2>3
  <2>6. j < i
    <3>1. CASE j = i
      BY <2>0, <1>2, <2>5, <3>1
    <3>2. CASE i < j
      <4>1. D[i].key < D[j].key
        BY <2>0, <1>2, <2>4, <3>2 DEF FirstRows
      <4>2. D[i].key \in Nat /\ D[j].key \in Nat
        BY <2>0, <1>2, <2>4
      <4> QED BY <2>5, <4>1, <4>2
    <3> QED BY <1>2, <2>4, <3>1, <3>2
  <2>7. C[j] = D[j] /\ j \in 1 .. Len(C)
    BY <2>0, <1>2, <2>4, <2>6
  <2>8. C[j].key < C[i].key
    BY <2>0, <1>2, <2>6, <2>7 DEF FirstRows
  <2>9. C[j].key = C[i].key /\ C[i].key \in Nat
    BY <2>0, <1>2, <2>3, <2>7
  <2> QED BY <2>8, <2>9
<1>3. S = {}
  <2>1. SUFFICES ASSUME S # {} PROVE FALSE
    OBVIOUS
  <2>2. PICK i \in S : \A j \in S : i <= j
    BY <2>1, LeastNatural
  <2>3. i \in Nat /\ i \in 1 .. Len(A) /\ i \in 1 .. Len(B) /\ A[i] # B[i]
    OBVIOUS
  <2>4. ASSUME NEW j \in 1 .. i - 1 PROVE A[j] = B[j]
    <3>1. j \in Nat /\ j \in 1 .. Len(A) /\ j \in 1 .. Len(B) /\ ~(i <= j)
      BY <1>1, <2>3
    <3> QED BY <2>2, <3>1
  <2>5. ~(A[i].key < B[i].key) /\ ~(B[i].key < A[i].key)
    BY <1>2, <2>3, <2>4
  <2>6. A[i].key = B[i].key
    BY <1>1, <2>3, <2>5
  <2>7. A[i] \in W /\ B[i] \in W
    BY <1>1, <2>3 DEF FirstRows
  <2> QED BY <2>3, <2>6, <2>7 DEF OneOfEach
<1>4. ASSUME NEW C, FirstRows(C, W, limit), NEW D, FirstRows(D, W, limit), Len(C) < Len(D),
             \A i \in 1 .. Len(C) : C[i] = D[i]
      PROVE  FALSE
  <2>0. /\ DOMAIN C = 1 .. Len(C) /\ DOMAIN D = 1 .. Len(D) /\ Len(C) \in Nat /\ Len(D) \in Nat
        /\ \A j \in 1 .. Len(D) : D[j].key \in Nat
    BY <1>1, <1>4
  <2>1. PICK n \in Nat : n = Len(C) + 1
    BY <2>0
  <2>2. n \in 1 .. Len(D) /\ Len(C) < limit
    <3>1. Len(D) <= limit
      BY <1>4 DEF FirstRows
    <3> QED BY <2>0, <1>4, <2>1, <3>1
  <2>3. D[n] \in W
    BY <2>0, <1>4, <2>2 DEF FirstRows
  <2>4. PICK j \in DOMAIN C : C[j] = D[n]
    BY <1>4, <2>2, <2>3 DEF FirstRows
  <2>5. j \in 1 .. Len(C) /\ j < n /\ j \in 1 .. Len(D)
    BY <2>0, <1>4, <2>1
  <2>6. D[j].key < D[n].key
    BY <2>0, <1>4, <2>2, <2>5 DEF FirstRows
  <2>7. D[j] = D[n] /\ D[n].key \in Nat
    BY <2>0, <1>4, <2>2, <2>4, <2>5
  <2> QED BY <2>6, <2>7
<1>5. \A i \in 1 .. Len(A) : i \in 1 .. Len(B) => A[i] = B[i]
  BY <1>1, <1>3
<1>6. Len(A) = Len(B)
  <2>1. ~(Len(A) < Len(B))
    <3>1. SUFFICES ASSUME Len(A) < Len(B) PROVE FALSE
      OBVIOUS
    <3>2. \A i \in 1 .. Len(A) : A[i] = B[i]
      BY <1>1, <1>5, <3>1
    <3> QED BY <1>4, <3>1, <3>2
  <2>2. ~(Len(B) < Len(A))
    <3>1. SUFFICES ASSUME Len(B) < Len(A) PROVE FALSE
      OBVIOUS
    <3>2. \A i \in 1 .. Len(B) : B[i] = A[i]
      BY <1>1, <1>5, <3>1
    <3> QED BY <1>4, <3>1, <3>2
  <2> QED BY <1>1, <2>1, <2>2
<1> QED
  <2>1. A \in Seq(KV) /\ B \in Seq(KV) /\ \A i \in 1 .. Len(A) : A[i] = B[i]
    BY <1>1, <1>5, <1>6
  <2>2. A = [i \in 1 .. Len(A) |-> A[i]] /\ B = [i \in 1 .. Len(B) |-> B[i]]
    BY <2>1
  <2> QED BY <1>6, <2>1, <2>2

\* A row beyond the others is the next of the first rows.
LEMMA FirstRowsNext ==
    ASSUME NEW W, W \subseteq KV, NEW limit \in Nat, NEW A, FirstRows(A, W, limit), Len(A) < limit,
           NEW row \in KV, Before(W, {row})
    PROVE  FirstRows(Append(A, row), W \cup {row}, limit)
<1>1. /\ A \in Seq(KV) /\ Len(A) \in Nat /\ DOMAIN A = 1 .. Len(A)
      /\ \A i \in 1 .. Len(A) : A[i] \in W /\ A[i].key \in Nat
  BY SeqFacts, KeysAreNumbers DEF FirstRows
<1>2. PICK n \in Nat : n = Len(A)
  <2>1. Len(A) \in Nat
    BY <1>1
  <2> QED BY <2>1
<1>3. PICK B : B = Append(A, row)
  OBVIOUS
<1>4. /\ B \in Seq(KV) /\ Len(B) = n + 1 /\ DOMAIN B = 1 .. n + 1
      /\ (\A i \in 1 .. n : B[i] = A[i]) /\ B[n + 1] = row
  BY <1>1, <1>2, <1>3
<1>5. \A w \in W : w.key < row.key /\ w.key \in Nat /\ row.key \in Nat
  BY KeysAreNumbers DEF Before
<1>6. ASSUME NEW i \in 1 .. n + 1, NEW j \in 1 .. n + 1, i < j PROVE B[i].key < B[j].key
  <2>1. i \in 1 .. n
    BY <1>6
  <2>2. CASE j = n + 1
    BY <1>1, <1>2, <1>4, <1>5, <2>1, <2>2
  <2>3. CASE j # n + 1
    <3>1. j \in 1 .. n
      BY <2>3
    <3> QED BY <1>1, <1>2, <1>4, <1>6, <2>1, <3>1 DEF FirstRows
  <2> QED BY <2>2, <2>3
<1>7. ASSUME NEW i \in 1 .. n + 1 PROVE B[i] \in W \cup {row}
  BY <1>1, <1>2, <1>4
<1>8. ASSUME NEW w \in W \cup {row} PROVE \E j \in 1 .. n + 1 : B[j] = w
  <2>1. CASE w = row
    BY <1>4, <2>1
  <2>2. CASE w \in W
    <3>1. PICK j \in 1 .. n : A[j] = w
      BY <1>1, <1>2, <2>2 DEF FirstRows
    <3> QED BY <1>4, <3>1
  <2> QED BY <2>1, <2>2
<1>9. Len(B) <= limit
  BY <1>2, <1>4
<1> QED BY <1>3, <1>4, <1>6, <1>7, <1>8, <1>9 DEF FirstRows

\* Rows beyond the others change nothing once there are enough.
LEMMA FirstRowsFull ==
    ASSUME NEW W, W \subseteq KV, NEW limit \in Nat, NEW A, FirstRows(A, W, limit), Len(A) >= limit,
           NEW S, S \subseteq KV, Before(W, S)
    PROVE  FirstRows(A, W \cup S, limit)
<1>1. /\ A \in Seq(KV) /\ Len(A) \in Nat /\ DOMAIN A = 1 .. Len(A)
      /\ \A i \in 1 .. Len(A) : A[i] \in W /\ A[i].key \in Nat
  BY SeqFacts, KeysAreNumbers DEF FirstRows
<1>2. ASSUME NEW w \in W \cup S, NEW i \in DOMAIN A, w.key <= A[i].key
      PROVE  \E j \in DOMAIN A : A[j] = w
  <2>1. w \in W
    <3>1. CASE w \in S
      <4>1. A[i].key < w.key /\ w.key \in Nat /\ A[i].key \in Nat
        BY <1>1, <3>1, KeysAreNumbers DEF Before
      <4> QED BY <1>2, <4>1
    <3> QED BY <1>2, <3>1
  <2> QED BY <1>2, <2>1 DEF FirstRows
<1>3. ~(Len(A) < limit)
  BY <1>1
<1> QED BY <1>1, <1>2, <1>3 DEF FirstRows

-----------------------------------------------------------------------------
\* The rows within the bounds, and what scan_subtree has collected of the
\* rows R it has passed.
Window(R, start, end) == {r \in R : start <= r.key /\ r.key < end}
Got(acc, R, start, end, limit) ==
    /\ acc \in Collected
    /\ FirstRows(acc.rows, Window(R, start, end), limit)
    /\ acc.stop => Len(acc.rows) = limit \/ \E r \in R : r.key >= end
    /\ ~acc.stop => Len(acc.rows) < limit

\* A scan that has stopped passes further rows by.
LEMMA StoppedScan ==
    ASSUME NEW start \in Nat, NEW end \in Nat, NEW limit \in Nat,
           NEW R, R \subseteq KV, NEW S, S \subseteq KV, Before(R, S),
           NEW acc, Got(acc, R, start, end, limit), acc.stop
    PROVE  Got(acc, R \cup S, start, end, limit)
<1>1. PICK A : A = acc.rows
  OBVIOUS
<1>2. PICK W : W = Window(R, start, end)
  OBVIOUS
<1>3. PICK V : V = Window(S, start, end)
  OBVIOUS
<1>4. /\ Window(R \cup S, start, end) = W \cup V /\ W \subseteq R /\ V \subseteq S
  BY <1>2, <1>3 DEF Window
<1>5. W \subseteq KV /\ V \subseteq KV /\ Before(W, V)
  BY <1>4 DEF Before
<1>6. FirstRows(A, W \cup V, limit)
  <2>1. FirstRows(A, W, limit)
    BY <1>1, <1>2 DEF Got
  <2>2. CASE Len(A) = limit
    BY <1>5, <2>1, <2>2, FirstRowsFull
  <2>3. CASE \E r \in R : r.key >= end
    <3>1. V = {}
      <4>1. SUFFICES ASSUME NEW v \in V PROVE FALSE
        OBVIOUS
      <4>2. PICK r \in R : r.key >= end
        BY <2>3
      <4>3. r.key < v.key /\ v.key < end /\ r.key \in Nat /\ v.key \in Nat
        BY <1>3, <1>4, <1>5, KeysAreNumbers DEF Before, Window
      <4> QED BY <4>2, <4>3
    <3>2. W \cup V = W
      BY <3>1
    <3> QED BY <2>1, <3>2
  <2> QED BY <1>1, <2>2, <2>3 DEF Got
<1>7. /\ acc \in Collected
      /\ acc.stop => Len(acc.rows) = limit \/ \E r \in R \cup S : r.key >= end
      /\ ~acc.stop => Len(acc.rows) < limit
  BY DEF Got
<1> QED BY <1>1, <1>4, <1>6, <1>7 DEF Got

\* Rows below the start are passed by.
LEMMA LowRows ==
    ASSUME NEW start \in Nat, NEW end \in Nat, NEW limit \in Nat,
           NEW R, NEW S, S \subseteq KV, \A s \in S : s.key < start,
           NEW acc, Got(acc, R, start, end, limit)
    PROVE  Got(acc, R \cup S, start, end, limit)
<1>1. \A s \in S : s.key \in Nat /\ ~(start <= s.key)
  BY KeysAreNumbers
<1>2. Window(R \cup S, start, end) = Window(R, start, end)
  BY <1>1 DEF Window
<1> QED BY <1>2 DEF Got

\* Rows from the end on stop the scan.
LEMMA HighRows ==
    ASSUME NEW start \in Nat, NEW end \in Nat, NEW limit \in Nat,
           NEW R, NEW S, S \subseteq KV, S # {}, \A s \in S : s.key >= end,
           NEW acc, Got(acc, R, start, end, limit)
    PROVE  Got([acc EXCEPT !.stop = TRUE], R \cup S, start, end, limit)
<1>1. \A s \in S : s.key \in Nat /\ ~(s.key < end)
  BY KeysAreNumbers
<1>2. Window(R \cup S, start, end) = Window(R, start, end)
  BY <1>1 DEF Window
<1>3. PICK b : b = [acc EXCEPT !.stop = TRUE]
  OBVIOUS
<1>4. b \in Collected /\ b.rows = acc.rows /\ b.stop = TRUE
  BY <1>3 DEF Got, Collected
<1>5. \E r \in R \cup S : r.key >= end
  OBVIOUS
<1> QED BY <1>2, <1>3, <1>4, <1>5 DEF Got

\* The parts of what is collected.
LEMMA Collecting ==
    ASSUME NEW n \in Nat, NEW limit \in Nat, NEW rows, NEW b, b = [rows |-> rows, stop |-> n >= limit]
    PROVE  /\ b.stop \in BOOLEAN /\ (b.stop <=> n >= limit)
           /\ b.rows = rows /\ b = [rows |-> b.rows, stop |-> b.stop]
<1>1. b.stop \in BOOLEAN
  OBVIOUS
<1>2. b.stop <=> n >= limit
  OBVIOUS
<1>3. b = [rows |-> rows, stop |-> b.stop] /\ b.rows = rows
  OBVIOUS
<1> QED BY <1>1, <1>2, <1>3

\* scan_subtree at a row.
LEMMA VisitRowGood ==
    ASSUME NEW start \in Nat, NEW end \in Nat, NEW limit \in Nat,
           NEW R, R \subseteq KV, NEW row \in KV, Before(R, {row}),
           NEW acc, Got(acc, R, start, end, limit)
    PROVE  Got(VisitRow(acc, row, start, end, limit), R \cup {row}, start, end, limit)
<1>1. row.key \in Nat
  BY KeysAreNumbers
<1>2. CASE acc.stop
  BY <1>2, StoppedScan DEF VisitRow
<1>3. CASE row.key < start
  BY <1>3, LowRows DEF VisitRow
<1>4. CASE ~acc.stop /\ ~(row.key < start) /\ row.key >= end
  BY <1>4, HighRows DEF VisitRow
<1>5. CASE ~acc.stop /\ ~(row.key < start) /\ ~(row.key >= end)
  <2>1. PICK A : A = acc.rows
    OBVIOUS
  <2>2. PICK W : W = Window(R, start, end)
    OBVIOUS
  <2>3. PICK b : b = VisitRow(acc, row, start, end, limit)
    OBVIOUS
  <2>4. b = [rows |-> Append(A, row), stop |-> Len(A) + 1 >= limit]
    BY <1>5, <2>1, <2>3 DEF VisitRow
  <2>5. A \in Seq(KV) /\ Len(A) \in Nat /\ Len(A) < limit /\ FirstRows(A, W, limit)
    <3>1. FirstRows(A, W, limit) /\ Len(A) < limit
      BY <1>5, <2>1, <2>2 DEF Got
    <3> QED BY <3>1, SeqFacts DEF FirstRows
  <2>6. W \subseteq KV /\ Before(W, {row}) /\ Window(R \cup {row}, start, end) = W \cup {row}
    BY <1>1, <1>5, <2>2 DEF Window, Before
  <2>7. FirstRows(Append(A, row), W \cup {row}, limit)
    BY <2>5, <2>6, FirstRowsNext
  <2>8. Append(A, row) \in Seq(KV) /\ Len(Append(A, row)) = Len(A) + 1
    BY <2>5
  <2>9. b \in Collected /\ b.rows = Append(A, row) /\ (b.stop <=> Len(A) + 1 >= limit)
    <3>1. PICK n \in Nat : n = Len(A) + 1
      BY <2>5
    <3>2. b = [rows |-> Append(A, row), stop |-> n >= limit]
      BY <2>4, <3>1
    <3>3. b.stop \in BOOLEAN /\ (b.stop <=> n >= limit)
      BY <3>2, Collecting
    <3>4. b.rows = Append(A, row) /\ b = [rows |-> b.rows, stop |-> b.stop]
      BY <3>2, Collecting
    <3>5. b \in [rows : Seq(KV), stop : BOOLEAN]
      BY <2>8, <3>3, <3>4
    <3> QED BY <3>1, <3>3, <3>4, <3>5 DEF Collected, KV
  <2>10. b.stop => Len(b.rows) = limit
    BY <2>5, <2>8, <2>9
  <2>11. ~b.stop => Len(b.rows) < limit
    BY <2>5, <2>8, <2>9
  <2> QED BY <2>3, <2>6, <2>7, <2>9, <2>10, <2>11 DEF Got
<1> QED BY <1>2, <1>3, <1>4, <1>5

-----------------------------------------------------------------------------
\* scan_subtree, one row, one child and one level at a time.
LeafRun(seen, acc, rows, start, end, limit) ==
    /\ seen[0] = acc
    /\ \A i \in 1 .. Len(rows) : seen[i] = VisitRow(seen[i - 1], rows[i], start, end, limit)
    /\ VisitLeaf(acc, rows, start, end, limit) = seen[Len(rows)]
ChildrenRun(seen, acc, refs, start, end, below) ==
    /\ seen[0] = acc
    /\ \A i \in 1 .. Len(refs) : seen[i] = VisitChild(seen[i - 1], refs, i, start, end, below)
    /\ VisitChildren(acc, refs, start, end, below) = seen[Len(refs)]
ScanRun(run, P, start, end, limit) ==
    /\ run[0] = [x \in Nat \X Collected |-> x[2]]
    /\ \A d \in 1 .. MaxTreeHeight :
          run[d] = [x \in Nat \X Collected |-> ScanAt(P, x[1], x[2], start, end, limit, run[d - 1])]
ScanBy(run, P, start, end, limit) ==
    \A r : RangeScan(P, r, start, end, limit) =
              IF limit = 0 \/ end = start \/ r = RootNone THEN << >>
              ELSE run[MaxTreeHeight][<<r, [rows |-> << >>, stop |-> FALSE]>>].rows

\* A leaf is scanned one row at a time.
LEMMA LeafScanSteps ==
    ASSUME NEW acc, NEW rows, Len(rows) \in Nat, NEW start, NEW end, NEW limit
    PROVE  \E seen : LeafRun(seen, acc, rows, start, end, limit)
<1> DEFINE N == Len(rows)
           Step(x, i) == VisitRow(x, rows[i], start, end, limit)
           Base0 == acc
           Def(g, m) == g = [i \in 0 .. m |-> IF i = 0 THEN Base0 ELSE Step(g[i - 1], i)]
           f == CHOOSE g : Def(g, N)
           S == {m \in Nat : \E g : Def(g, 0 + m)}
<1>0. N \in Int /\ N >= 0 /\ 0 \in Int
  OBVIOUS
<1>3. VisitLeaf(acc, rows, start, end, limit) = f[Len(rows)]
  BY DEF VisitLeaf
<1> HIDE DEF N, Step, Base0
<1>1. S = Nat
  <2>1. 0 \in S
    <3>1. Def([i \in 0 .. 0 + 0 |-> Base0], 0 + 0)
      BY <1>0
    <3> QED BY <3>1
  <2>2. ASSUME NEW m \in S PROVE m + 1 \in S
    <3>1. PICK g : Def(g, 0 + m)
      OBVIOUS
    <3> DEFINE n == 0 + m
               h == [i \in 0 .. n + 1 |-> IF i = n + 1 THEN Step(g[n], n + 1) ELSE g[i]]
               v(i) == IF i = 0 THEN Base0 ELSE Step(h[i - 1], i)
    <3>2. n \in Int /\ n >= 0 /\ n + 1 = 0 + (m + 1) /\ m + 1 \in Nat
      BY <1>0
    <3>3. g = [i \in 0 .. n |-> IF i = 0 THEN Base0 ELSE Step(g[i - 1], i)]
      BY <3>1
    <3> HIDE DEF n
    <3>4. ASSUME NEW i \in 0 .. n + 1 PROVE h[i] = v(i)
      <4>1. CASE i = n + 1
        <5>1. i # 0 /\ n \in 0 .. n + 1 /\ n # n + 1 /\ i - 1 = n
          BY <1>0, <3>2, <4>1
        <5>2. h[n] = g[n] /\ h[i] = Step(g[n], n + 1)
          BY <4>1, <5>1
        <5> QED BY <4>1, <5>1, <5>2
      <4>2. CASE i # n + 1 /\ i # 0
        <5>1. i \in 0 .. n /\ i - 1 \in 0 .. n + 1 /\ i - 1 # n + 1
          BY <1>0, <3>2, <4>2
        <5>2. g[i] = Step(g[i - 1], i)
          BY <3>3, <4>2, <5>1
        <5>3. h[i] = g[i] /\ h[i - 1] = g[i - 1]
          BY <4>2, <5>1
        <5> QED BY <4>2, <5>2, <5>3
      <4>3. CASE i = 0 /\ i # n + 1
        <5>1. i \in 0 .. n
          BY <1>0, <3>2, <4>3
        <5>2. g[i] = Base0
          BY <3>3, <4>3, <5>1
        <5>3. h[i] = g[i]
          BY <4>3
        <5> QED BY <4>3, <5>2, <5>3
      <4> QED BY <4>1, <4>2, <4>3
    <3>5. h = [i \in 0 .. n + 1 |-> h[i]]
      OBVIOUS
    <3> HIDE DEF h
    <3>6. h = [i \in 0 .. n + 1 |-> v(i)]
      BY <3>4, <3>5
    <3>7. Def(h, 0 + (m + 1))
      BY <3>2, <3>6
    <3> HIDE DEF Def
    <3> QED BY <3>2, <3>7
  <2> HIDE DEF S
  <2> QED BY <2>1, <2>2, NatSetInduction DEF S
<1>2. Def(f, N)
  <2>1. N - 0 \in Nat /\ N = 0 + (N - 0)
    BY <1>0
  <2>2. N - 0 \in S
    BY <1>1, <2>1
  <2>3. \E g : Def(g, N)
    BY <2>1, <2>2
  <2> HIDE DEF Def
  <2> QED BY <2>3, Zenon
<1> HIDE DEF f
<1>4. f[0] = Base0 /\ \A i \in 1 .. N : f[i] = Step(f[i - 1], i)
  <2> DEFINE v(i) == IF i = 0 THEN Base0 ELSE Step(f[i - 1], i)
  <2>1. f = [i \in 0 .. N |-> v(i)]
    BY <1>2
  <2>2. 0 \in 0 .. N /\ \A i \in 1 .. N : i \in 0 .. N /\ i # 0
    BY <1>0
  <2> HIDE DEF v
  <2>3. f[0] = v(0) /\ \A i \in 1 .. N : f[i] = v(i)
    BY <2>1, <2>2
  <2> QED BY <2>2, <2>3 DEF v
<1> QED
  <2>1. LeafRun(f, acc, rows, start, end, limit)
    BY <1>3, <1>4 DEF N, Base0, Step, LeafRun
  <2> HIDE DEF f
  <2> QED BY <2>1

\* An internal page is scanned one child at a time.
LEMMA ChildrenScanSteps ==
    ASSUME NEW acc, NEW refs, Len(refs) \in Nat, NEW start, NEW end, NEW below
    PROVE  \E seen : ChildrenRun(seen, acc, refs, start, end, below)
<1> DEFINE N == Len(refs)
           Step(x, i) == VisitChild(x, refs, i, start, end, below)
           Base0 == acc
           Def(g, m) == g = [i \in 0 .. m |-> IF i = 0 THEN Base0 ELSE Step(g[i - 1], i)]
           f == CHOOSE g : Def(g, N)
           S == {m \in Nat : \E g : Def(g, 0 + m)}
<1>0. N \in Int /\ N >= 0 /\ 0 \in Int
  OBVIOUS
<1>3. VisitChildren(acc, refs, start, end, below) = f[Len(refs)]
  BY DEF VisitChildren
<1> HIDE DEF N, Step, Base0
<1>1. S = Nat
  <2>1. 0 \in S
    <3>1. Def([i \in 0 .. 0 + 0 |-> Base0], 0 + 0)
      BY <1>0
    <3> QED BY <3>1
  <2>2. ASSUME NEW m \in S PROVE m + 1 \in S
    <3>1. PICK g : Def(g, 0 + m)
      OBVIOUS
    <3> DEFINE n == 0 + m
               h == [i \in 0 .. n + 1 |-> IF i = n + 1 THEN Step(g[n], n + 1) ELSE g[i]]
               v(i) == IF i = 0 THEN Base0 ELSE Step(h[i - 1], i)
    <3>2. n \in Int /\ n >= 0 /\ n + 1 = 0 + (m + 1) /\ m + 1 \in Nat
      BY <1>0
    <3>3. g = [i \in 0 .. n |-> IF i = 0 THEN Base0 ELSE Step(g[i - 1], i)]
      BY <3>1
    <3> HIDE DEF n
    <3>4. ASSUME NEW i \in 0 .. n + 1 PROVE h[i] = v(i)
      <4>1. CASE i = n + 1
        <5>1. i # 0 /\ n \in 0 .. n + 1 /\ n # n + 1 /\ i - 1 = n
          BY <1>0, <3>2, <4>1
        <5>2. h[n] = g[n] /\ h[i] = Step(g[n], n + 1)
          BY <4>1, <5>1
        <5> QED BY <4>1, <5>1, <5>2
      <4>2. CASE i # n + 1 /\ i # 0
        <5>1. i \in 0 .. n /\ i - 1 \in 0 .. n + 1 /\ i - 1 # n + 1
          BY <1>0, <3>2, <4>2
        <5>2. g[i] = Step(g[i - 1], i)
          BY <3>3, <4>2, <5>1
        <5>3. h[i] = g[i] /\ h[i - 1] = g[i - 1]
          BY <4>2, <5>1
        <5> QED BY <4>2, <5>2, <5>3
      <4>3. CASE i = 0 /\ i # n + 1
        <5>1. i \in 0 .. n
          BY <1>0, <3>2, <4>3
        <5>2. g[i] = Base0
          BY <3>3, <4>3, <5>1
        <5>3. h[i] = g[i]
          BY <4>3
        <5> QED BY <4>3, <5>2, <5>3
      <4> QED BY <4>1, <4>2, <4>3
    <3>5. h = [i \in 0 .. n + 1 |-> h[i]]
      OBVIOUS
    <3> HIDE DEF h
    <3>6. h = [i \in 0 .. n + 1 |-> v(i)]
      BY <3>4, <3>5
    <3>7. Def(h, 0 + (m + 1))
      BY <3>2, <3>6
    <3> HIDE DEF Def
    <3> QED BY <3>2, <3>7
  <2> HIDE DEF S
  <2> QED BY <2>1, <2>2, NatSetInduction DEF S
<1>2. Def(f, N)
  <2>1. N - 0 \in Nat /\ N = 0 + (N - 0)
    BY <1>0
  <2>2. N - 0 \in S
    BY <1>1, <2>1
  <2>3. \E g : Def(g, N)
    BY <2>1, <2>2
  <2> HIDE DEF Def
  <2> QED BY <2>3, Zenon
<1> HIDE DEF f
<1>4. f[0] = Base0 /\ \A i \in 1 .. N : f[i] = Step(f[i - 1], i)
  <2> DEFINE v(i) == IF i = 0 THEN Base0 ELSE Step(f[i - 1], i)
  <2>1. f = [i \in 0 .. N |-> v(i)]
    BY <1>2
  <2>2. 0 \in 0 .. N /\ \A i \in 1 .. N : i \in 0 .. N /\ i # 0
    BY <1>0
  <2> HIDE DEF v
  <2>3. f[0] = v(0) /\ \A i \in 1 .. N : f[i] = v(i)
    BY <2>1, <2>2
  <2> QED BY <2>2, <2>3 DEF v
<1> QED
  <2>1. ChildrenRun(f, acc, refs, start, end, below)
    BY <1>3, <1>4 DEF N, Base0, Step, ChildrenRun
  <2> HIDE DEF f
  <2> QED BY <2>1

\* A tree is scanned one level at a time.
LEMMA ScanSteps ==
    ASSUME NEW P, NEW start, NEW end, NEW limit
    PROVE  \E run : ScanRun(run, P, start, end, limit) /\ ScanBy(run, P, start, end, limit)
<1> DEFINE N == MaxTreeHeight
           Step(x, i) == [y \in Nat \X Collected |-> ScanAt(P, y[1], y[2], start, end, limit, x)]
           Base0 == [x \in Nat \X Collected |-> x[2]]
           Def(g, m) == g = [i \in 0 .. m |-> IF i = 0 THEN Base0 ELSE Step(g[i - 1], i)]
           f == CHOOSE g : Def(g, N)
           S == {m \in Nat : \E g : Def(g, 0 + m)}
<1>0. N \in Int /\ N >= 0 /\ 0 \in Int
  BY HeightIsPositive
<1>3. ScanBy(f, P, start, end, limit)
  <2> DEFINE g == CHOOSE scan :
                    scan = [d \in 0 .. MaxTreeHeight |->
                                [x \in Nat \X Collected |->
                                    IF d = 0 THEN x[2]
                                    ELSE ScanAt(P, x[1], x[2], start, end, limit, scan[d - 1])]]
  <2>1. g = f
    BY Zenon
  <2>2. ScanBy(g, P, start, end, limit)
    BY DEF RangeScan, ScanBy
  <2> HIDE DEF f, g
  <2> QED BY <2>1, <2>2
<1> HIDE DEF N, Step, Base0
<1>1. S = Nat
  <2>1. 0 \in S
    <3>1. Def([i \in 0 .. 0 + 0 |-> Base0], 0 + 0)
      BY <1>0
    <3> QED BY <3>1
  <2>2. ASSUME NEW m \in S PROVE m + 1 \in S
    <3>1. PICK g : Def(g, 0 + m)
      OBVIOUS
    <3> DEFINE n == 0 + m
               h == [i \in 0 .. n + 1 |-> IF i = n + 1 THEN Step(g[n], n + 1) ELSE g[i]]
               v(i) == IF i = 0 THEN Base0 ELSE Step(h[i - 1], i)
    <3>2. n \in Int /\ n >= 0 /\ n + 1 = 0 + (m + 1) /\ m + 1 \in Nat
      BY <1>0
    <3>3. g = [i \in 0 .. n |-> IF i = 0 THEN Base0 ELSE Step(g[i - 1], i)]
      BY <3>1
    <3> HIDE DEF n
    <3>4. ASSUME NEW i \in 0 .. n + 1 PROVE h[i] = v(i)
      <4>1. CASE i = n + 1
        <5>1. i # 0 /\ n \in 0 .. n + 1 /\ n # n + 1 /\ i - 1 = n
          BY <1>0, <3>2, <4>1
        <5>2. h[n] = g[n] /\ h[i] = Step(g[n], n + 1)
          BY <4>1, <5>1
        <5> QED BY <4>1, <5>1, <5>2
      <4>2. CASE i # n + 1 /\ i # 0
        <5>1. i \in 0 .. n /\ i - 1 \in 0 .. n + 1 /\ i - 1 # n + 1
          BY <1>0, <3>2, <4>2
        <5>2. g[i] = Step(g[i - 1], i)
          BY <3>3, <4>2, <5>1
        <5>3. h[i] = g[i] /\ h[i - 1] = g[i - 1]
          BY <4>2, <5>1
        <5> QED BY <4>2, <5>2, <5>3
      <4>3. CASE i = 0 /\ i # n + 1
        <5>1. i \in 0 .. n
          BY <1>0, <3>2, <4>3
        <5>2. g[i] = Base0
          BY <3>3, <4>3, <5>1
        <5>3. h[i] = g[i]
          BY <4>3
        <5> QED BY <4>3, <5>2, <5>3
      <4> QED BY <4>1, <4>2, <4>3
    <3>5. h = [i \in 0 .. n + 1 |-> h[i]]
      OBVIOUS
    <3> HIDE DEF h
    <3>6. h = [i \in 0 .. n + 1 |-> v(i)]
      BY <3>4, <3>5
    <3>7. Def(h, 0 + (m + 1))
      BY <3>2, <3>6
    <3> HIDE DEF Def
    <3> QED BY <3>2, <3>7
  <2> HIDE DEF S
  <2> QED BY <2>1, <2>2, NatSetInduction DEF S
<1>2. Def(f, N)
  <2>1. N - 0 \in Nat /\ N = 0 + (N - 0)
    BY <1>0
  <2>2. N - 0 \in S
    BY <1>1, <2>1
  <2>3. \E g : Def(g, N)
    BY <2>1, <2>2
  <2> HIDE DEF Def
  <2> QED BY <2>3, Zenon
<1> HIDE DEF f
<1>4. f[0] = Base0 /\ \A i \in 1 .. N : f[i] = Step(f[i - 1], i)
  <2> DEFINE v(i) == IF i = 0 THEN Base0 ELSE Step(f[i - 1], i)
  <2>1. f = [i \in 0 .. N |-> v(i)]
    BY <1>2
  <2>2. 0 \in 0 .. N /\ \A i \in 1 .. N : i \in 0 .. N /\ i # 0
    BY <1>0
  <2> HIDE DEF v
  <2>3. f[0] = v(0) /\ \A i \in 1 .. N : f[i] = v(i)
    BY <2>1, <2>2
  <2> QED BY <2>2, <2>3 DEF v
<1> QED
  <2>1. ScanRun(f, P, start, end, limit) /\ ScanBy(f, P, start, end, limit)
    BY <1>3, <1>4 DEF N, Base0, Step, ScanRun
  <2> HIDE DEF f
  <2> QED BY <2>1

-----------------------------------------------------------------------------
\* The rows R, and those of the first i items of a strand.
Passed(P, h, xs, R, i) == R \cup RowsIn(P, h, xs, 1, i)
AddsRows(T, M, U) == T \subseteq KV /\ M \subseteq KV /\ Before(T, M) /\ U = T \cup M

\* The items of a strand one after the other, after the rows R.
LEMMA InTurn ==
    ASSUME NEW P, PageMap(P), NEW h \in Nat, NEW xs, Strand(P, h, xs),
           NEW R, R \subseteq KV, Before(R, RowsOf(P, h, xs)), NEW i \in 1 .. Len(xs)
    PROVE  AddsRows(Passed(P, h, xs, R, i - 1), ItemRows(P, h, xs[i]), Passed(P, h, xs, R, i))
<1>1. xs \in Seq(Kind(h)) /\ Len(xs) \in Nat /\ DOMAIN xs = 1 .. Len(xs)
  BY SeqFacts DEF Strand
<1>2. ASSUME NEW k \in 1 .. Len(xs) PROVE ItemRows(P, h, xs[k]) \subseteq KV
  <2>1. k \in DOMAIN xs /\ xs[k] \in Kind(h) /\ ItemOk(P, h, xs[k])
    BY <1>1, SeqFacts DEF Strand
  <2> QED BY <2>1, ItemFacts
<1>3. ASSUME NEW k \in 1 .. i - 1 PROVE k \in 1 .. Len(xs) /\ k < i
  BY <1>1
<1>4. PICK S : S = RowsIn(P, h, xs, 1, i - 1)
  OBVIOUS
<1>5. PICK M : M = ItemRows(P, h, xs[i])
  OBVIOUS
<1>6. S = UNION {ItemRows(P, h, xs[k]) : k \in 1 .. i - 1}
  BY <1>4 DEF RowsIn
<1>7. S \subseteq KV /\ M \subseteq KV
  BY <1>2, <1>3, <1>5, <1>6
<1>8. Before(S, M)
  <2>1. ASSUME NEW k \in 1 .. i - 1 PROVE Before(ItemRows(P, h, xs[k]), M)
    <3>1. k \in DOMAIN xs /\ i \in DOMAIN xs /\ k < i
      BY <1>1, <1>3
    <3> QED BY <1>5, <3>1 DEF Strand
  <2> QED BY <1>6, <2>1 DEF Before
<1>9. Before(R, M)
  <2>1. M \subseteq RowsOf(P, h, xs)
    BY <1>1, <1>5 DEF RowsOf
  <2> QED BY <2>1 DEF Before
<1>10. RowsIn(P, h, xs, 1, i) = S \cup M
  <2>1. 1 .. i = (1 .. i - 1) \cup {i}
    BY <1>1
  <2>2. RowsIn(P, h, xs, 1, i) = UNION {ItemRows(P, h, xs[k]) : k \in (1 .. i - 1) \cup {i}}
    BY <2>1 DEF RowsIn
  <2> QED BY <1>5, <1>6, <2>2
<1>11. Before(R \cup S, M)
  BY <1>8, <1>9 DEF Before
<1>12. AddsRows(R \cup S, M, R \cup (S \cup M))
  BY <1>7, <1>11 DEF AddsRows
<1> QED BY <1>4, <1>5, <1>10, <1>12 DEF Passed

\* All the items of a strand are its items from the first to the last.
LEMMA InWhole ==
    ASSUME NEW P, NEW h, NEW xs, DOMAIN xs = 1 .. Len(xs)
    PROVE  RowsIn(P, h, xs, 1, Len(xs)) = RowsOf(P, h, xs)
BY DEF RowsIn, RowsOf

\* scan_subtree in a leaf.
LEMMA LeafScan ==
    ASSUME NEW P, PageMap(P), NEW y \in Ref, ItemOk(P, 1, y),
           NEW start \in Nat, NEW end \in Nat, NEW limit \in Nat,
           NEW R, R \subseteq KV, Before(R, ItemRows(P, 1, y)),
           NEW acc, Got(acc, R, start, end, limit), NEW below
    PROVE  Got(ScanAt(P, y.page, acc, start, end, limit, below), R \cup ItemRows(P, 1, y), start, end, limit)
<1>1. PICK cells : cells = P[y.page].cells
  OBVIOUS
<1>2. /\ IsPage(P, y.page, "leaf") /\ Strand(P, 0, cells) /\ RowsOf(P, 0, cells) = ItemRows(P, 1, y)
  BY <1>1, LeafOpen
<1>3. cells \in Seq(Cell) /\ Len(cells) \in Nat /\ DOMAIN cells = 1 .. Len(cells)
  BY <1>2, SeqFacts DEF Strand, Kind
<1>4. PICK rows : rows = Rows(P, cells)
  OBVIOUS
<1>5. PICK n \in Nat : n = Len(cells)
  <2>1. Len(cells) \in Nat
    BY <1>3
  <2> QED BY <2>1
<1>6. Len(rows) = n /\ \A i \in 1 .. n : rows[i] = Row(P, cells[i])
  <2>1. rows = [i \in 1 .. n |-> Row(P, cells[i])]
    BY <1>3, <1>4, <1>5 DEF Rows
  <2> QED BY <2>1
<1>7. PICK seen : LeafRun(seen, acc, rows, start, end, limit)
  BY <1>6, LeafScanSteps
<1> DEFINE T(i) == Passed(P, 0, cells, R, i)
           S == {i \in Nat : i <= n => Got(seen[i], T(i), start, end, limit)}
<1>8. 0 \in S
  <2>1. RowsIn(P, 0, cells, 1, 0) = {}
    BY InNone
  <2>2. T(0) = R /\ seen[0] = acc
    BY <1>7, <2>1 DEF LeafRun, Passed
  <2> QED BY <2>2
<1>9. ASSUME NEW m \in S PROVE m + 1 \in S
  <2>1. m \in Nat /\ m + 1 \in Nat /\ m + 1 - 1 = m /\ (m <= n => Got(seen[m], T(m), start, end, limit))
    BY <1>9
  <2>2. ASSUME m + 1 <= n PROVE Got(seen[m + 1], T(m + 1), start, end, limit)
    <3>1. PICK i \in 1 .. n : i = m + 1
      BY <2>1, <2>2
    <3>2. i - 1 = m /\ m <= n
      BY <2>1, <2>2, <3>1
    <3>3. PICK V : V = T(m)
      OBVIOUS
    <3>4. PICK row : row = Row(P, cells[i])
      OBVIOUS
    <3>5. ItemRows(P, 0, cells[i]) = {row}
      BY <3>4 DEF ItemRows
    <3>6. V \subseteq KV /\ {row} \subseteq KV /\ Before(V, {row}) /\ T(i) = V \cup {row}
      <4>1. i \in 1 .. Len(cells) /\ Before(R, RowsOf(P, 0, cells)) /\ 0 \in Nat
        BY <1>2, <1>5
      <4>2. AddsRows(Passed(P, 0, cells, R, i - 1), ItemRows(P, 0, cells[i]), Passed(P, 0, cells, R, i))
        BY <1>2, <4>1, InTurn
      <4> QED BY <3>2, <3>3, <3>5, <4>2 DEF AddsRows
    <3>7. row \in KV
      BY <3>6
    <3>8. Got(seen[m], V, start, end, limit)
      BY <2>1, <3>2, <3>3
    <3>9. seen[i] = VisitRow(seen[m], row, start, end, limit)
      BY <1>6, <1>7, <3>2, <3>4 DEF LeafRun
    <3>10. Got(VisitRow(seen[m], row, start, end, limit), V \cup {row}, start, end, limit)
      BY <3>6, <3>7, <3>8, VisitRowGood
    <3> QED BY <3>1, <3>6, <3>9, <3>10
  <2> HIDE DEF T
  <2> QED BY <2>1, <2>2
<1>10. S = Nat
  <2> HIDE DEF S
  <2> QED BY <1>8, <1>9, NatSetInduction DEF S
<1>11. Got(seen[n], T(n), start, end, limit)
  <2>1. n \in S
    <3> HIDE DEF S
    <3> QED BY <1>10
  <2> QED BY <2>1
<1>12. T(n) = R \cup ItemRows(P, 1, y)
  BY <1>2, <1>3, <1>5, InWhole DEF Passed
<1>13. ScanAt(P, y.page, acc, start, end, limit, below) = seen[n]
  BY <1>1, <1>2, <1>4, <1>6, <1>7 DEF ScanAt, IsPage, LeafRun
<1> HIDE DEF T
<1> QED BY <1>11, <1>12, <1>13

\* scan_subtree on the items of height h passes their rows.
Scans(P, h, start, end, limit, below) ==
    \A y \in Ref : \A acc, R :
        /\ ItemOk(P, h, y) /\ R \subseteq KV /\ Before(R, ItemRows(P, h, y))
        /\ Got(acc, R, start, end, limit)
        => Got(below[<<y.page, acc>>], R \cup ItemRows(P, h, y), start, end, limit)

\* scan_subtree at a child: to pass it over, to stop, or to go down.
LEMMA VisitChildGood ==
    ASSUME NEW P, PageMap(P), NEW h \in Nat \ {0}, NEW refs, Strand(P, h, refs), NEW i \in 1 .. Len(refs),
           NEW start \in Nat, NEW end \in Nat, NEW limit \in Nat,
           NEW R, R \subseteq KV, Before(R, ItemRows(P, h, refs[i])),
           NEW acc, Got(acc, R, start, end, limit),
           NEW below, Scans(P, h, start, end, limit, below)
    PROVE  Got(VisitChild(acc, refs, i, start, end, below), R \cup ItemRows(P, h, refs[i]), start, end, limit)
<1>1. refs \in Seq(Ref) /\ Len(refs) \in Nat /\ DOMAIN refs = 1 .. Len(refs) /\ i \in Nat
  BY SeqFacts DEF Strand, Kind
<1>2. PICK M : M = ItemRows(P, h, refs[i])
  OBVIOUS
<1>3. ASSUME NEW k \in 1 .. Len(refs)
      PROVE  /\ refs[k] \in Ref /\ ItemOk(P, h, refs[k]) /\ refs[k].min \in Nat
             /\ ItemRows(P, h, refs[k]) \subseteq KV /\ ItemRows(P, h, refs[k]) # {}
             /\ (\E r \in ItemRows(P, h, refs[k]) : r.key = refs[k].min)
             /\ \A r \in ItemRows(P, h, refs[k]) : refs[k].min <= r.key
  <2>1. refs[k] \in Ref /\ ItemOk(P, h, refs[k])
    BY <1>1, SeqFacts DEF Strand
  <2>2. refs[k] \in Kind(h)
    BY <2>1 DEF Kind
  <2>3. refs[k].min \in Nat
    BY <2>1, KeysAreOrdered DEF Ref
  <2> QED BY <2>1, <2>2, <2>3, ItemFacts
<1>4. M \subseteq KV /\ M # {} /\ \A r \in M : refs[i].min <= r.key
  BY <1>2, <1>3
<1>5. CASE acc.stop
  <2>1. VisitChild(acc, refs, i, start, end, below) = acc
    BY <1>5 DEF VisitChild
  <2> QED BY <1>2, <1>4, <1>5, <2>1, StoppedScan
<1>6. CASE SkipChild(refs, i, start)
  <2>1. VisitChild(acc, refs, i, start, end, below) = acc
    BY <1>6 DEF VisitChild
  <2>2. i + 1 \in 1 .. Len(refs) /\ refs[i + 1].min <= start
    BY <1>1, <1>6 DEF SkipChild
  <2>3. PICK r \in ItemRows(P, h, refs[i + 1]) : r.key = refs[i + 1].min
    BY <1>3, <2>2
  <2>4. Before(M, ItemRows(P, h, refs[i + 1]))
    <3>1. i \in DOMAIN refs /\ i + 1 \in DOMAIN refs /\ i < i + 1
      BY <1>1, <2>2
    <3> QED BY <1>2, <3>1 DEF Strand
  <2>5. r \in KV /\ r.key \in Nat /\ r.key <= start
    BY <1>3, <2>2, <2>3, KeysAreNumbers
  <2>6. ASSUME NEW s \in M PROVE s.key < start
    <3>1. s.key < r.key /\ s.key \in Nat
      BY <1>4, <2>3, <2>4, KeysAreNumbers DEF Before
    <3> QED BY <2>5, <3>1
  <2> QED BY <1>2, <1>4, <2>1, <2>6, LowRows
<1>7. CASE ~acc.stop /\ ~SkipChild(refs, i, start) /\ refs[i].min >= end
  <2>1. VisitChild(acc, refs, i, start, end, below) = [acc EXCEPT !.stop = TRUE]
    BY <1>7 DEF VisitChild
  <2>2. \A r \in M : r.key >= end
    <3>1. \A r \in M : r.key \in Nat
      BY <1>4, KeysAreNumbers
    <3>2. refs[i].min \in Nat
      BY <1>3
    <3> QED BY <1>4, <1>7, <3>1, <3>2
  <2> QED BY <1>2, <1>4, <2>1, <2>2, HighRows
<1>8. CASE ~acc.stop /\ ~SkipChild(refs, i, start) /\ ~(refs[i].min >= end)
  <2>1. VisitChild(acc, refs, i, start, end, below) = below[<<refs[i].page, acc>>]
    BY <1>8 DEF VisitChild
  <2>2. refs[i] \in Ref /\ ItemOk(P, h, refs[i])
    BY <1>3
  <2> QED BY <2>1, <2>2 DEF Scans
<1> QED BY <1>5, <1>6, <1>7, <1>8

\* scan_subtree in an internal page.
LEMMA InnerScan ==
    ASSUME NEW P, PageMap(P), NEW h \in Nat \ {0}, NEW y \in Ref, ItemOk(P, h + 1, y),
           NEW start \in Nat, NEW end \in Nat, NEW limit \in Nat,
           NEW R, R \subseteq KV, Before(R, ItemRows(P, h + 1, y)),
           NEW acc, Got(acc, R, start, end, limit),
           NEW below, Scans(P, h, start, end, limit, below)
    PROVE  Got(ScanAt(P, y.page, acc, start, end, limit, below), R \cup ItemRows(P, h + 1, y),
               start, end, limit)
<1>1. PICK refs : refs = Children(P, y.page)
  OBVIOUS
<1>2. /\ IsPage(P, y.page, "internal") /\ Strand(P, h, refs) /\ RowsOf(P, h, refs) = ItemRows(P, h + 1, y)
  BY <1>1, InnerOpen
<1>3. refs \in Seq(Ref) /\ Len(refs) \in Nat /\ DOMAIN refs = 1 .. Len(refs)
  BY <1>2, SeqFacts DEF Strand, Kind
<1>4. PICK n \in Nat : n = Len(refs)
  <2>1. Len(refs) \in Nat
    BY <1>3
  <2> QED BY <2>1
<1>5. PICK seen : ChildrenRun(seen, acc, refs, start, end, below)
  BY <1>3, ChildrenScanSteps
<1> DEFINE T(i) == Passed(P, h, refs, R, i)
           S == {i \in Nat : i <= n => Got(seen[i], T(i), start, end, limit)}
<1>6. 0 \in S
  <2>1. RowsIn(P, h, refs, 1, 0) = {}
    BY InNone
  <2>2. T(0) = R /\ seen[0] = acc
    BY <1>5, <2>1 DEF ChildrenRun, Passed
  <2> QED BY <2>2
<1>7. ASSUME NEW m \in S PROVE m + 1 \in S
  <2>1. m \in Nat /\ m + 1 \in Nat /\ (m <= n => Got(seen[m], T(m), start, end, limit))
    BY <1>7
  <2>2. ASSUME m + 1 <= n PROVE Got(seen[m + 1], T(m + 1), start, end, limit)
    <3>1. PICK i \in 1 .. n : i = m + 1
      BY <2>1, <2>2
    <3>2. i - 1 = m /\ m <= n /\ i \in 1 .. Len(refs)
      BY <1>4, <2>1, <2>2, <3>1
    <3>3. PICK V : V = T(m)
      OBVIOUS
    <3>4. PICK M : M = ItemRows(P, h, refs[i])
      OBVIOUS
    <3>5. V \subseteq KV /\ Before(V, M) /\ T(i) = V \cup M
      <4>1. Before(R, RowsOf(P, h, refs))
        BY <1>2
      <4>2. AddsRows(Passed(P, h, refs, R, i - 1), M, Passed(P, h, refs, R, i))
        BY <1>2, <3>2, <3>4, <4>1, InTurn
      <4> QED BY <3>2, <3>3, <4>2 DEF AddsRows
    <3>6. Got(seen[m], V, start, end, limit)
      BY <2>1, <3>2, <3>3
    <3>7. seen[i] = VisitChild(seen[m], refs, i, start, end, below)
      BY <1>5, <3>2 DEF ChildrenRun
    <3>8. Got(VisitChild(seen[m], refs, i, start, end, below), V \cup M, start, end, limit)
      BY <1>2, <3>2, <3>4, <3>5, <3>6, VisitChildGood
    <3> QED BY <3>1, <3>5, <3>7, <3>8
  <2> HIDE DEF T
  <2> QED BY <2>1, <2>2
<1>8. S = Nat
  <2> HIDE DEF S
  <2> QED BY <1>6, <1>7, NatSetInduction DEF S
<1>9. Got(seen[n], T(n), start, end, limit)
  <2>1. n \in S
    <3> HIDE DEF S
    <3> QED BY <1>8
  <2> QED BY <2>1
<1>10. T(n) = R \cup ItemRows(P, h + 1, y)
  BY <1>2, <1>3, <1>4, InWhole DEF Passed
<1>11. ScanAt(P, y.page, acc, start, end, limit, below) = seen[n]
  BY <1>1, <1>2, <1>4, <1>5 DEF ScanAt, IsPage, ChildrenRun
<1> HIDE DEF T
<1> QED BY <1>9, <1>10, <1>11

-----------------------------------------------------------------------------
\* scan_subtree passes the rows of any valid subtree, whatever the level it
\* is read with.
LEMMA ScanGood ==
    ASSUME NEW P, PageMap(P), NEW start \in Nat, NEW end \in Nat, NEW limit \in Nat,
           NEW run, ScanRun(run, P, start, end, limit), NEW h \in 1 .. MaxTreeHeight
    PROVE  \A d \in h .. MaxTreeHeight : Scans(P, h, start, end, limit, run[d])
<1>1. MaxTreeHeight \in Nat \ {0}
  BY HeightIsPositive
<1>2. ASSUME NEW d \in 1 .. MaxTreeHeight, NEW q \in Nat, NEW acc \in Collected
      PROVE  run[d][<<q, acc>>] = ScanAt(P, q, acc, start, end, limit, run[d - 1])
  <2>1. run[d] = [x \in Nat \X Collected |-> ScanAt(P, x[1], x[2], start, end, limit, run[d - 1])]
    BY DEF ScanRun
  <2>2. PICK x : x = <<q, acc>>
    OBVIOUS
  <2>3. x \in Nat \X Collected /\ x[1] = q /\ x[2] = acc
    BY <2>2
  <2>4. run[d][x] = ScanAt(P, x[1], x[2], start, end, limit, run[d - 1])
    BY <2>1, <2>3
  <2> QED BY <2>2, <2>3, <2>4
<1> DEFINE Good(g) == \A d \in g .. MaxTreeHeight : Scans(P, g, start, end, limit, run[d])
           S == {n \in Nat : n + 1 <= MaxTreeHeight => Good(n + 1)}
<1>3. 0 \in S
  <2>1. ASSUME NEW d \in 1 .. MaxTreeHeight, NEW y \in Ref, NEW acc, NEW R,
               ItemOk(P, 1, y), R \subseteq KV, Before(R, ItemRows(P, 1, y)), Got(acc, R, start, end, limit)
        PROVE  Got(run[d][<<y.page, acc>>], R \cup ItemRows(P, 1, y), start, end, limit)
    <3>1. y.page \in Nat /\ acc \in Collected
      BY <2>1 DEF Ref, Got
    <3>2. run[d][<<y.page, acc>>] = ScanAt(P, y.page, acc, start, end, limit, run[d - 1])
      BY <1>2, <3>1
    <3> QED BY <2>1, <3>2, LeafScan
  <2>2. Good(1)
    BY <2>1 DEF Scans
  <2>3. 0 + 1 = 1
    OBVIOUS
  <2> HIDE DEF Good
  <2> QED BY <2>2, <2>3
<1>4. ASSUME NEW n \in S PROVE n + 1 \in S
  <2>1. n \in Nat /\ n + 1 \in Nat /\ n + 1 \in Nat \ {0} /\ (n + 1 <= MaxTreeHeight => Good(n + 1))
    BY <1>4
  <2>2. ASSUME n + 1 + 1 <= MaxTreeHeight, NEW d \in n + 1 + 1 .. MaxTreeHeight
        PROVE  Scans(P, n + 1 + 1, start, end, limit, run[d])
    <3>1. PICK g \in Nat \ {0} : g = n + 1
      BY <2>1
    <3>2. d \in 1 .. MaxTreeHeight /\ d - 1 \in g .. MaxTreeHeight
      BY <1>1, <2>1, <2>2, <3>1
    <3>3. Good(g)
      <4> HIDE DEF Good
      <4> QED BY <1>1, <2>1, <2>2, <3>1
    <3>4. Scans(P, g, start, end, limit, run[d - 1])
      BY <3>2, <3>3
    <3>5. ASSUME NEW y \in Ref, NEW acc, NEW R,
                 ItemOk(P, g + 1, y), R \subseteq KV, Before(R, ItemRows(P, g + 1, y)),
                 Got(acc, R, start, end, limit)
          PROVE  Got(run[d][<<y.page, acc>>], R \cup ItemRows(P, g + 1, y), start, end, limit)
      <4>1. y.page \in Nat /\ acc \in Collected
        BY <3>5 DEF Ref, Got
      <4>2. run[d][<<y.page, acc>>] = ScanAt(P, y.page, acc, start, end, limit, run[d - 1])
        BY <1>2, <3>2, <4>1
      <4>3. PICK below : below = run[d - 1]
        OBVIOUS
      <4>4. Scans(P, g, start, end, limit, below)
        BY <3>4, <4>3
      <4>5. Got(ScanAt(P, y.page, acc, start, end, limit, below), R \cup ItemRows(P, g + 1, y), start, end, limit)
        BY <3>5, <4>4, InnerScan
      <4> QED BY <4>2, <4>3, <4>5
    <3>6. Scans(P, g + 1, start, end, limit, run[d])
      BY <3>5 DEF Scans
    <3> QED BY <3>1, <3>6
  <2>3. n + 1 + 1 <= MaxTreeHeight => Good(n + 1 + 1)
    BY <2>2
  <2> HIDE DEF Good
  <2> QED BY <2>1, <2>3
<1>5. S = Nat
  <2> HIDE DEF S
  <2> QED BY <1>3, <1>4, NatSetInduction DEF S
<1>6. Good(h)
  <2>1. h - 1 \in Nat /\ h - 1 + 1 = h /\ h <= MaxTreeHeight
    BY <1>1
  <2>2. h - 1 \in S
    <3> HIDE DEF S
    <3> QED BY <1>5, <2>1
  <2> HIDE DEF Good
  <2> QED BY <2>1, <2>2
<1> QED BY <1>6

\* Nothing collected is the first rows of none, and of any for the limit 0.
LEMMA FirstRowsNone ==
    ASSUME NEW W, NEW limit \in Nat, W = {} \/ limit = 0
    PROVE  FirstRows(<< >>, W, limit)
<1>1. << >> \in Seq(KV) /\ Len(<< >>) = 0 /\ DOMAIN << >> = {}
  OBVIOUS
<1> QED BY <1>1 DEF FirstRows

\* range_scan in a valid tree returns the first of its rows within the bounds.
LEMMA RangeScanGood ==
    ASSUME NEW P, PageMap(P), NEW h \in 1 .. MaxTreeHeight, NEW x \in Ref, ItemOk(P, h, x), x.page # RootNone,
           NEW start \in Nat, NEW end \in Nat, start < end, NEW limit \in Nat
    PROVE  FirstRows(RangeScan(P, x.page, start, end, limit), Window(ItemRows(P, h, x), start, end), limit)
<1>1. PICK run : ScanRun(run, P, start, end, limit) /\ ScanBy(run, P, start, end, limit)
  BY ScanSteps
<1>2. CASE limit = 0
  <2>1. RangeScan(P, x.page, start, end, limit) = << >>
    BY <1>2 DEF RangeScan
  <2> QED BY <1>2, <2>1, FirstRowsNone
<1>3. CASE limit # 0
  <2>1. PICK acc : acc = [rows |-> << >>, stop |-> FALSE]
    OBVIOUS
  <2>2. PICK M : M = ItemRows(P, h, x)
    OBVIOUS
  <2>3. acc \in Collected /\ acc.rows = << >> /\ acc.stop = FALSE
    <3>1. << >> \in Seq(KV)
      OBVIOUS
    <3> QED BY <2>1, <3>1 DEF Collected, KV
  <2>4. Got(acc, {}, start, end, limit)
    <3>1. Window({}, start, end) = {}
      BY DEF Window
    <3>2. FirstRows(<< >>, {}, limit)
      BY FirstRowsNone
    <3>3. Len(<< >>) < limit
      BY <1>3
    <3> QED BY <2>3, <3>1, <3>2, <3>3 DEF Got
  <2>5. Scans(P, h, start, end, limit, run[MaxTreeHeight])
    <3>1. MaxTreeHeight \in h .. MaxTreeHeight
      BY HeightIsPositive
    <3> QED BY <1>1, <3>1, ScanGood
  <2>6. Before({}, M) /\ {} \subseteq KV /\ {} \cup M = M
    BY DEF Before
  <2>7. PICK b : b = run[MaxTreeHeight][<<x.page, acc>>]
    OBVIOUS
  <2>8. Got(b, {} \cup M, start, end, limit)
    BY <2>2, <2>4, <2>5, <2>6, <2>7 DEF Scans
  <2>9. Got(b, M, start, end, limit)
    BY <2>6, <2>8
  <2>10. RangeScan(P, x.page, start, end, limit) = b.rows
    <3>1. end # start
      OBVIOUS
    <3> QED BY <1>1, <1>3, <2>1, <2>7, <3>1 DEF ScanBy
  <2> QED BY <2>2, <2>9, <2>10 DEF Got
<1> QED BY <1>2, <1>3

-----------------------------------------------------------------------------
\* The rows of a map.
Holding(map) == {r \in KV : map[r.key] = r.val}

\* Rows of which each key has one are the rows of their map.
LEMMA RowsHeld ==
    ASSUME NEW rows, rows \subseteq KV, OneOfEach(rows)
    PROVE  Holding(RowsMap(rows)) = rows
<1>1. ASSUME NEW r \in rows PROVE r \in Holding(RowsMap(rows))
  <2>1. r \in KV /\ r.key \in Keys
    BY KeysAreNumbers
  <2> QED BY <2>1, MapWith DEF Holding
<1>2. ASSUME NEW r \in Holding(RowsMap(rows)) PROVE r \in rows
  <2>1. r \in KV /\ r.key \in Keys /\ r.val \in Values /\ RowsMap(rows)[r.key] = r.val
    BY KeysAreNumbers DEF Holding
  <2>2. \E s \in rows : s.key = r.key
    <3>1. r.val # Missing
      BY <2>1, MissingIsNoValue
    <3> QED BY <2>1, <3>1, MapWithout
  <2>3. PICK s \in rows : s.key = r.key
    BY <2>2
  <2>4. s \in KV /\ s.val = r.val
    <3>1. s.key \in Keys
      BY <2>1, <2>3
    <3> QED BY <2>1, <2>3, <3>1, MapWith
  <2>5. s = r
    BY <2>1, <2>3, <2>4 DEF KV
  <2> QED BY <2>5
<1> QED BY <1>1, <1>2

\* What the map holds within the bounds, one key at a time.
WantedStep(rows, i, limit) ==
    IF (i - 1) \notin Keys \/ Len(rows) >= limit THEN rows
    ELSE IF store[i - 1] = Missing THEN rows
    ELSE Append(rows, [key |-> i - 1, val |-> store[i - 1]])
WantedRun(run, start, end, limit) ==
    /\ run[start] = << >>
    /\ \A i \in start + 1 .. end : run[i] = WantedStep(run[i - 1], i, limit)
    /\ Wanted(start, end, limit) = run[end]

\* The rows wanted are gathered one key at a time.
LEMMA WantedSteps ==
    ASSUME NEW start \in Nat, NEW end \in Nat, start <= end, NEW limit
    PROVE  \E run : WantedRun(run, start, end, limit)
<1> DEFINE N == end
           Step(x, i) == WantedStep(x, i, limit)
           Base0 == << >>
           Def(g, m) == g = [i \in start .. m |-> IF i = start THEN Base0 ELSE Step(g[i - 1], i)]
           f == CHOOSE g : Def(g, N)
           S == {m \in Nat : \E g : Def(g, start + m)}
<1>0. N \in Int /\ N >= start /\ start \in Int
  OBVIOUS
<1>3. Wanted(start, end, limit) = f[end]
  <2> DEFINE g == CHOOSE rows :
                    rows = [k \in start .. end |->
                                IF k = start THEN << >>
                                ELSE IF (k - 1) \notin Keys \/ Len(rows[k - 1]) >= limit THEN rows[k - 1]
                                ELSE IF store[k - 1] = Missing THEN rows[k - 1]
                                ELSE Append(rows[k - 1], [key |-> k - 1, val |-> store[k - 1]])]
  <2>1. g = f
    BY Zenon DEF WantedStep
  <2>2. Wanted(start, end, limit) = g[end]
    BY DEF Wanted
  <2> HIDE DEF f, g
  <2> QED BY <2>1, <2>2
<1> HIDE DEF N, Step, Base0
<1>1. S = Nat
  <2>1. 0 \in S
    <3>1. Def([i \in start .. start + 0 |-> Base0], start + 0)
      BY <1>0
    <3> QED BY <3>1
  <2>2. ASSUME NEW m \in S PROVE m + 1 \in S
    <3>1. PICK g : Def(g, start + m)
      OBVIOUS
    <3> DEFINE n == start + m
               h == [i \in start .. n + 1 |-> IF i = n + 1 THEN Step(g[n], n + 1) ELSE g[i]]
               v(i) == IF i = start THEN Base0 ELSE Step(h[i - 1], i)
    <3>2. n \in Int /\ n >= start /\ n + 1 = start + (m + 1) /\ m + 1 \in Nat
      BY <1>0
    <3>3. g = [i \in start .. n |-> IF i = start THEN Base0 ELSE Step(g[i - 1], i)]
      BY <3>1
    <3> HIDE DEF n
    <3>4. ASSUME NEW i \in start .. n + 1 PROVE h[i] = v(i)
      <4>1. CASE i = n + 1
        <5>1. i # start /\ n \in start .. n + 1 /\ n # n + 1 /\ i - 1 = n
          BY <1>0, <3>2, <4>1
        <5>2. h[n] = g[n] /\ h[i] = Step(g[n], n + 1)
          BY <4>1, <5>1
        <5> QED BY <4>1, <5>1, <5>2
      <4>2. CASE i # n + 1 /\ i # start
        <5>1. i \in start .. n /\ i - 1 \in start .. n + 1 /\ i - 1 # n + 1
          BY <1>0, <3>2, <4>2
        <5>2. g[i] = Step(g[i - 1], i)
          BY <3>3, <4>2, <5>1
        <5>3. h[i] = g[i] /\ h[i - 1] = g[i - 1]
          BY <4>2, <5>1
        <5> QED BY <4>2, <5>2, <5>3
      <4>3. CASE i = start /\ i # n + 1
        <5>1. i \in start .. n
          BY <1>0, <3>2, <4>3
        <5>2. g[i] = Base0
          BY <3>3, <4>3, <5>1
        <5>3. h[i] = g[i]
          BY <4>3
        <5> QED BY <4>3, <5>2, <5>3
      <4> QED BY <4>1, <4>2, <4>3
    <3>5. h = [i \in start .. n + 1 |-> h[i]]
      OBVIOUS
    <3> HIDE DEF h
    <3>6. h = [i \in start .. n + 1 |-> v(i)]
      BY <3>4, <3>5
    <3>7. Def(h, start + (m + 1))
      BY <3>2, <3>6
    <3> HIDE DEF Def
    <3> QED BY <3>2, <3>7
  <2> HIDE DEF S
  <2> QED BY <2>1, <2>2, NatSetInduction DEF S
<1>2. Def(f, N)
  <2>1. N - start \in Nat /\ N = start + (N - start)
    BY <1>0
  <2>2. N - start \in S
    BY <1>1, <2>1
  <2>3. \E g : Def(g, N)
    BY <2>1, <2>2
  <2> HIDE DEF Def
  <2> QED BY <2>3, Zenon
<1> HIDE DEF f
<1>4. f[start] = Base0 /\ \A i \in start + 1 .. N : f[i] = Step(f[i - 1], i)
  <2> DEFINE v(i) == IF i = start THEN Base0 ELSE Step(f[i - 1], i)
  <2>1. f = [i \in start .. N |-> v(i)]
    BY <1>2
  <2>2. start \in start .. N /\ \A i \in start + 1 .. N : i \in start .. N /\ i # start
    BY <1>0
  <2> HIDE DEF v
  <2>3. f[start] = v(start) /\ \A i \in start + 1 .. N : f[i] = v(i)
    BY <2>1, <2>2
  <2> QED BY <2>2, <2>3 DEF v
<1> QED
  <2>1. WantedRun(f, start, end, limit)
    BY <1>3, <1>4 DEF N, Base0, Step, WantedRun
  <2> HIDE DEF f
  <2> QED BY <2>1

\* One more key of the map.
LEMMA WantedNext ==
    ASSUME store \in Map, NEW start \in Nat, NEW i \in Nat, i > start, NEW limit \in Nat,
           NEW A, FirstRows(A, Window(Holding(store), start, i - 1), limit)
    PROVE  FirstRows(WantedStep(A, i, limit), Window(Holding(store), start, i), limit)
<1>1. PICK k \in Nat : k = i - 1 /\ start <= k
  OBVIOUS
<1>2. PICK V : V = Window(Holding(store), start, k)
  OBVIOUS
<1>3. PICK U : U = {r \in Holding(store) : r.key = k}
  OBVIOUS
<1>4. Holding(store) \subseteq KV
  BY DEF Holding
<1>5. \A r \in Holding(store) : r.key \in Nat /\ (r.key < i <=> r.key < k \/ r.key = k)
  BY <1>1, <1>4, KeysAreNumbers
<1>6. Window(Holding(store), start, i) = V \cup U
  <2>1. \A r \in Holding(store) : r.key = k => start <= r.key
    BY <1>1
  <2> QED BY <1>2, <1>3, <1>5, <2>1 DEF Window
<1>7. V \subseteq KV /\ U \subseteq KV /\ Before(V, U)
  BY <1>2, <1>3, <1>4 DEF Window, Before
<1>8. FirstRows(A, V, limit) /\ A \in Seq(KV) /\ Len(A) \in Nat
  <2>1. FirstRows(A, V, limit)
    BY <1>1, <1>2
  <2> QED BY <2>1, SeqFacts DEF FirstRows
<1>9. CASE Len(A) >= limit
  <2>1. WantedStep(A, i, limit) = A
    BY <1>9 DEF WantedStep
  <2> QED BY <1>6, <1>7, <1>8, <1>9, <2>1, FirstRowsFull
<1>10. CASE k \notin Keys \/ store[k] = Missing
  <2>1. WantedStep(A, i, limit) = A
    BY <1>1, <1>10 DEF WantedStep
  <2>2. U = {}
    <3>1. SUFFICES ASSUME NEW r \in U PROVE FALSE
      OBVIOUS
    <3>2. r \in KV /\ r.key = k /\ store[k] = r.val
      BY <1>3, <1>4 DEF Holding
    <3> QED BY <1>10, <3>2, KeysAreNumbers, MissingIsNoValue
  <2>3. V \cup U = V
    BY <2>2
  <2> QED BY <1>6, <1>8, <2>1, <2>3
<1>11. CASE ~(Len(A) >= limit) /\ k \in Keys /\ store[k] # Missing
  <2>1. PICK row : row = [key |-> k, val |-> store[k]]
    OBVIOUS
  <2>2. WantedStep(A, i, limit) = Append(A, row)
    BY <1>1, <1>11, <2>1 DEF WantedStep
  <2>3. row \in KV /\ row.key = k /\ row.val = store[k]
    <3>1. store[k] \in Values
      BY <1>11 DEF Map, Entry
    <3> QED BY <1>11, <2>1, <3>1 DEF KV
  <2>4. U = {row}
    <3>1. row \in U
      BY <1>3, <2>3 DEF Holding
    <3>2. ASSUME NEW r \in U PROVE r = row
      <4>1. r \in KV /\ r.key = k /\ r.val = store[k]
        BY <1>3 DEF Holding
      <4> QED BY <2>3, <4>1 DEF KV
    <3> QED BY <3>1, <3>2
  <2>5. Len(A) < limit /\ Before(V, {row})
    BY <1>7, <1>8, <1>11, <2>4
  <2>6. FirstRows(Append(A, row), V \cup {row}, limit)
    BY <1>7, <1>8, <2>3, <2>5, FirstRowsNext
  <2> QED BY <1>6, <2>2, <2>4, <2>6
<1> QED BY <1>9, <1>10, <1>11

\* The rows wanted are the first that the map holds within the bounds.
LEMMA WantedGood ==
    ASSUME store \in Map, NEW start \in Nat, NEW end \in Nat, start <= end, NEW limit \in Nat
    PROVE  FirstRows(Wanted(start, end, limit), Window(Holding(store), start, end), limit)
<1>1. PICK run : WantedRun(run, start, end, limit)
  BY WantedSteps
<1> DEFINE Good(k) == FirstRows(run[k], Window(Holding(store), start, k), limit)
           S == {n \in Nat : start + n <= end => Good(start + n)}
<1>2. 0 \in S
  <2>1. Window(Holding(store), start, start) = {}
    <3>1. \A r \in Holding(store) : r.key \in Nat
      BY KeysAreNumbers DEF Holding
    <3> QED BY <3>1 DEF Window
  <2>2. run[start] = << >>
    BY <1>1 DEF WantedRun
  <2>3. Good(start)
    BY <2>1, <2>2, FirstRowsNone
  <2>4. start + 0 = start
    OBVIOUS
  <2> HIDE DEF Good
  <2> QED BY <2>3, <2>4
<1>3. ASSUME NEW n \in S PROVE n + 1 \in S
  <2>1. n \in Nat /\ n + 1 \in Nat /\ (start + n <= end => Good(start + n))
    BY <1>3
  <2>2. ASSUME start + (n + 1) <= end PROVE Good(start + (n + 1))
    <3>1. PICK i \in Nat : i = start + (n + 1)
      BY <2>1
    <3>2. i - 1 = start + n /\ start + n <= end /\ i > start /\ i \in start + 1 .. end
      BY <2>1, <2>2, <3>1
    <3>3. Good(i - 1)
      <4> HIDE DEF Good
      <4> QED BY <2>1, <3>2
    <3>4. run[i] = WantedStep(run[i - 1], i, limit)
      BY <1>1, <3>2 DEF WantedRun
    <3>5. Good(i)
      BY <3>2, <3>3, <3>4, WantedNext
    <3> HIDE DEF Good
    <3> QED BY <3>1, <3>5
  <2> HIDE DEF Good
  <2> QED BY <2>1, <2>2
<1>4. S = Nat
  <2> HIDE DEF S
  <2> QED BY <1>2, <1>3, NatSetInduction DEF S
<1>5. Good(end)
  <2>1. end - start \in Nat /\ start + (end - start) = end
    OBVIOUS
  <2>2. end - start \in S
    <3> HIDE DEF S
    <3> QED BY <1>4, <2>1
  <2> HIDE DEF Good
  <2> QED BY <2>1, <2>2
<1> QED BY <1>1, <1>5 DEF WantedRun

-----------------------------------------------------------------------------
\* A whole tree of few keys answers by its map, and by the first of its
\* rows.
Answers(P, r, map) ==
    /\ \A k \in Keys : Lookup(P, r, k) = map[k]
    /\ \A start, end, limit \in Nat :
          start < end => FirstRows(RangeScan(P, r, start, end, limit), Window(Holding(map), start, end), limit)

\* get and range_scan in the empty tree.
LEMMA EmptyAnswers ==
    ASSUME NEW P, NEW r, r = RootNone
    PROVE  Answers(P, r, RowsMap({}))
<1>1. PICK map : map = RowsMap({})
  OBVIOUS
<1>2. \A k \in Keys : map[k] = Missing
  BY <1>1, MapWithout
<1>3. Holding(map) = {}
  <2>1. \A v \in KV : v.key \in Keys /\ v.val # Missing
    BY KeysAreNumbers, MissingIsNoValue
  <2> QED BY <1>2, <2>1 DEF Holding
<1>4. ASSUME NEW start \in Nat, NEW end \in Nat, NEW limit \in Nat
      PROVE  FirstRows(RangeScan(P, r, start, end, limit), Window(Holding(map), start, end), limit)
  <2>1. RangeScan(P, r, start, end, limit) = << >>
    BY DEF RangeScan
  <2>2. Window(Holding(map), start, end) = {}
    BY <1>3 DEF Window
  <2> QED BY <2>1, <2>2, FirstRowsNone
<1>5. \A k \in Keys : Lookup(P, r, k) = map[k]
  BY <1>2 DEF Lookup
<1> QED BY <1>1, <1>4, <1>5 DEF Answers

\* get and range_scan in a valid subtree.
LEMMA TrunkAnswers ==
    ASSUME NEW P, PageMap(P), NEW h \in 1 .. MaxTreeHeight, NEW x \in Ref, ItemOk(P, h, x), x.page # RootNone,
           NEW rows, ItemRows(P, h, x) = rows, rows \subseteq KV, FewRows(rows)
    PROVE  Answers(P, x.page, RowsMap(rows))
<1>1. OneOfEach(rows)
  <2>1. h \in Nat \ {0}
    BY HeightIsPositive
  <2> QED BY <2>1, EachOfItem
<1>2. Holding(RowsMap(rows)) = rows
  BY <1>1, RowsHeld
<1>3. \A k \in Keys : Lookup(P, x.page, k) = RowsMap(rows)[k]
  BY <1>1, LookupGood
<1>4. \A start, end, limit \in Nat :
          start < end => FirstRows(RangeScan(P, x.page, start, end, limit), Window(rows, start, end), limit)
  BY RangeScanGood
<1> QED BY <1>2, <1>3, <1>4 DEF Answers

\* get and range_scan in the published tree.
LEMMA PublishedAnswers ==
    ASSUME ShInv, FewKept(store)
    PROVE  Answers(pages, root, store)
<1>1. PICK t : t = Tree(pages, count, root)
  OBVIOUS
<1>2. /\ PageMap(pages) /\ count \in Nat /\ count >= FirstPage
      /\ DOMAIN pages \subseteq FirstPage .. count - 1 /\ root \in Nat
      /\ t.ok /\ t.rows \subseteq KV /\ RowsMap(t.rows) = store
  BY <1>1 DEF ShInv, Reads
<1>3. CASE root = RootNone
  <2>1. t.rows = {}
    BY <1>1, <1>3 DEF Tree
  <2> QED BY <1>2, <1>3, <2>1, EmptyAnswers
<1>4. CASE root # RootNone
  <2>1. \A id \in t.refs : id \in DOMAIN pages
    BY <1>1, <1>2, TreeRefs
  <2>2. Base(pages, count, t)
    BY <1>2, <2>1 DEF Base
  <2>3. PICK x, h : Trunk(pages, t, root, x, h)
    BY <1>1, <1>2, <1>4, <2>2, TrunkIs
  <2>4. /\ h \in 1 .. MaxTreeHeight /\ x \in Ref /\ x.page = root /\ ItemOk(pages, h, x)
        /\ ItemRows(pages, h, x) = t.rows
    BY <2>3 DEF Trunk
  <2>5. FewRows(t.rows)
    BY <1>2, KeptKeys
  <2>6. Answers(pages, x.page, RowsMap(t.rows))
    BY <1>2, <1>4, <2>4, <2>5, TrunkAnswers
  <2> QED BY <1>2, <2>4, <2>6
<1> QED BY <1>3, <1>4

\* What a whole tree answers is what the map answers.
LEMMA ShReads ==
    ASSUME ShInv, FewKept(store)
    PROVE  ReadsAgree
<1>1. store \in Map
  BY RowsMapIsMap DEF ShInv, Reads
<1>2. Answers(pages, root, store)
  BY PublishedAnswers
<1>3. Holding(store) \subseteq KV /\ OneOfEach(Holding(store))
  BY DEF Holding, OneOfEach, KV
<1>4. ASSUME NEW start \in Nat, NEW end \in Nat, NEW limit \in Nat, start < end
      PROVE  RangeScan(pages, root, start, end, limit) = Wanted(start, end, limit)
  <2>1. PICK W : W = Window(Holding(store), start, end)
    OBVIOUS
  <2>2. W \subseteq KV /\ OneOfEach(W)
    BY <1>3, <2>1 DEF Window, OneOfEach
  <2>3. FirstRows(RangeScan(pages, root, start, end, limit), W, limit)
    BY <1>2, <1>4, <2>1 DEF Answers
  <2>4. FirstRows(Wanted(start, end, limit), W, limit)
    <3>1. start <= end
      BY <1>4
    <3> QED BY <1>1, <2>1, <3>1, WantedGood
  <2> QED BY <2>2, <2>3, <2>4, FirstRowsAreOne
<1>5. Keys \cup {k + 1 : k \in Keys} \subseteq Nat /\ ScanLimits \subseteq Nat
  <2>1. \A k \in Keys : k \in Nat /\ k + 1 \in Nat
    BY KeysAreOrdered
  <2> QED BY <2>1, LimitsAreNumbers
<1>6. \A k \in Keys : Lookup(pages, root, k) = store[k]
  BY <1>2 DEF Answers
<1>7. \A start \in Keys \cup {k + 1 : k \in Keys}, end \in Keys \cup {k + 1 : k \in Keys}, limit \in ScanLimits :
          start < end => RangeScan(pages, root, start, end, limit) = Wanted(start, end, limit)
  BY <1>4, <1>5
<1> QED BY <1>6, <1>7 DEF ReadsAgree

\* get and range_scan, which route by separators and stop early, answer what
\* the acknowledged map answers, for all keys, bounds and limits, as long as
\* the map holds fewer than 2^MAX_TREE_HEIGHT keys.
THEOREM ReadsAgreeWithTheMap ==
    ASSUME SeparatorsAreShort
    PROVE  Spec /\ [](FewKept(store)) => []ReadsAgree
<1>1. Init => ShInv
  BY ShInit
<1>2. ShInv /\ FewKept(store) /\ FewKept(store') /\ [Next]_vars => ShInv'
  BY ShStep
<1>3. ShInv /\ FewKept(store) => ReadsAgree
  BY ShReads
<1>4. FewKept(store)' <=> FewKept(store')
  BY DEF FewKept, Kept
<1> QED BY <1>1, <1>2, <1>3, <1>4, PTL DEF Spec

=============================================================================
