-------------------------- MODULE TransactionsProofs --------------------------
(***************************************************************************)
(* Proofs about transactions over one log file, for every set of workers,  *)
(* engines, rows and batches and every bound.                              *)
(***************************************************************************)
EXTENDS Transactions, FiniteSetTheorems, WellFoundedInduction, TLAPS

\* Every set of natural numbers with a member has a least one.
LEMMA LeastNatural ==
    ASSUME NEW S \in SUBSET Nat, S # {}
    PROVE  \E m \in S : \A k \in S : m <= k
<1>. DEFINE R == StrictSubsetOrdering(Nat)
            D == FiniteSubsetsOf(Nat)
            T == {0 .. n : n \in S}
<1>1. IsWellFoundedOn(R, D)
  BY FS_StrictSubsetOrderingWellFounded
<1>2. T \subseteq D
  <2>1. \A n \in S : IsFiniteSet(0 .. n)
    BY FS_Interval
  <2>2. \A n \in S : 0 .. n \in D
    <3>. TAKE n \in S
    <3>1. 0 .. n \in SUBSET Nat
      OBVIOUS
    <3>. QED
      BY <2>1, <3>1 DEF FiniteSubsetsOf
  <2>. QED
    BY <2>2
<1>3. T # {}
  OBVIOUS
<1>. HIDE DEF R, D, T
<1>4. PICK x \in T : \A y \in T : ~(<<y, x>> \in R)
  BY <1>1, <1>2, <1>3, WFMin
<1>5. PICK m \in S : x = 0 .. m
  BY DEF T
<1>6. ASSUME NEW k \in S, k < m
      PROVE  FALSE
  <2>1. 0 .. k \in T
    BY DEF T
  <2>2. 0 .. k \subseteq 0 .. m /\ m \in 0 .. m /\ m \notin 0 .. k
    BY <1>6
  <2>3. <<0 .. k, 0 .. m>> \in R
    BY <2>2 DEF R, StrictSubsetOrdering
  <2>. QED
    BY <1>4, <1>5, <2>1, <2>3
<1>. QED
  BY <1>6

\* Induction on the natural numbers.
LEMMA NatSetInduction ==
    ASSUME NEW S \in SUBSET Nat, 0 \in S, \A n \in S : n + 1 \in S
    PROVE  S = Nat
<1>1. ASSUME Nat \ S # {} PROVE FALSE
  <2>1. PICK m \in Nat \ S : \A k \in Nat \ S : m <= k
    BY <1>1, LeastNatural
  <2>2. m - 1 \in Nat /\ m - 1 \in S
    BY <2>1
  <2>. QED
    BY <2>1, <2>2
<1>. QED
  BY <1>1

-----------------------------------------------------------------------------
\* The recursive definitions compute what they say.

\* One operation on a table gives a table, its absence or a refusal.
States == Tables \cup {NoTable, Refused}

\* It stays one of them.
LEMMA ApplyOpState ==
    ASSUME NEW t \in States, NEW o \in Operation
    PROVE  ApplyOp(t, o) \in States
<1>1. EmptyTable \in Tables
  BY DEF EmptyTable, Tables
<1>2. CASE t = Refused
  BY <1>2 DEF ApplyOp, States
<1>3. CASE t # Refused /\ o = Create
  BY <1>1, <1>3 DEF ApplyOp, States, Create
<1>4. CASE t # Refused /\ o # Create /\ t = NoTable
  BY <1>4 DEF ApplyOp, States, Operation, Create, Upsert, Delete
<1>5. CASE t \notin {Refused, NoTable} /\ o # Create
  <2>1. t \in Tables
    BY <1>5 DEF States
  <2>2. CASE \E k \in Keys : o = Delete(k)
    <3>1. PICK k \in Keys : o = Delete(k)
      BY <2>2
    <3>2. o.kind = "delete" /\ o.key = k
      BY <3>1 DEF Delete
    <3>3. ApplyOp(t, o) = [t EXCEPT ![k] = Absent]
      BY <1>5, <3>2 DEF ApplyOp
    <3> QED BY <2>1, <3>3 DEF States, Tables
  <2>3. CASE \E k \in Keys, v \in Vals \cup {Text} : o = Upsert(k, v)
    <3>1. PICK k \in Keys, v \in Vals \cup {Text} : o = Upsert(k, v)
      BY <2>3
    <3>2. o.kind = "upsert" /\ o.key = k /\ o.val = v
      BY <3>1 DEF Upsert
    <3>3. ApplyOp(t, o) = IF v = Text THEN Refused ELSE [t EXCEPT ![k] = v]
      BY <1>5, <3>2 DEF ApplyOp
    <3> QED BY <2>1, <3>1, <3>3 DEF States, Tables
  <2> QED BY <1>5, <2>2, <2>3 DEF Operation
<1> QED BY <1>2, <1>3, <1>4, <1>5

\* A batch, too.
LEMMA ApplyOpsState ==
    ASSUME NEW t \in States, NEW ops \in Seq(Operation)
    PROVE  ApplyOps(t, ops) \in States
<1> DEFINE N == Len(ops)
           Def(g, m) == g = [i \in 0 .. m |-> IF i = 0 THEN t
                                              ELSE ApplyOp(g[i - 1], ops[i])]
           after == CHOOSE g : Def(g, N)
           S == {m \in Nat : m <= N => \E g : Def(g, m)}
<1>0. N \in Nat /\ \A i \in 1 .. N : ops[i] \in Operation
  OBVIOUS
<1> HIDE DEF N
<1>1. S = Nat
  <2>1. 0 \in S
    <3>1. Def([i \in 0 .. 0 |-> t], 0)
      OBVIOUS
    <3> QED BY <3>1
  <2>2. ASSUME NEW m \in S PROVE m + 1 \in S
    <3>1. SUFFICES ASSUME m + 1 <= N PROVE \E g : Def(g, m + 1)
      OBVIOUS
    <3>2. PICK g : Def(g, m)
      BY <1>0, <3>1
    <3> DEFINE h == [i \in 0 .. m + 1 |-> IF i = m + 1 THEN ApplyOp(g[m], ops[m + 1])
                                          ELSE g[i]]
    <3>3. Def(h, m + 1)
      <4>1. ASSUME NEW i \in 0 .. m + 1
            PROVE  h[i] = IF i = 0 THEN t ELSE ApplyOp(h[i - 1], ops[i])
        <5>1. CASE i = 0
          BY <3>2, <5>1
        <5>2. CASE i \in 1 .. m
          BY <3>2, <5>2
        <5>3. CASE i = m + 1
          BY <3>2, <5>3
        <5> QED BY <5>1, <5>2, <5>3
      <4> QED BY <4>1
    <3> QED BY <3>3
  <2> QED BY <2>1, <2>2, NatSetInduction
<1>2. \E g : Def(g, N)
  <2>1. N \in S
    BY <1>0, <1>1
  <2> QED BY <2>1
<1>3. Def(after, N)
  <2> HIDE DEF Def
  <2> QED BY <1>2, Zenon
<1> HIDE DEF after
<1> DEFINE R == {m \in Nat : m <= N => after[m] \in States}
<1>4. R = Nat
  <2>1. 0 \in R
    BY <1>0, <1>3
  <2>2. ASSUME NEW m \in R PROVE m + 1 \in R
    <3>1. SUFFICES ASSUME m + 1 <= N PROVE after[m + 1] \in States
      OBVIOUS
    <3>2. after[m + 1] = ApplyOp(after[m], ops[m + 1])
      BY <1>0, <1>3, <3>1
    <3>3. after[m] \in States /\ ops[m + 1] \in Operation
      BY <1>0, <3>1
    <3> QED BY <3>2, <3>3, ApplyOpState
  <2> QED BY <2>1, <2>2, NatSetInduction
<1>5. after[N] \in States
  BY <1>0, <1>4
<1>6. ApplyOps(t, ops) = after[N]
  BY Zenon DEF ApplyOps, N, after
<1> QED BY <1>5, <1>6

\* The states a sequence of transactions passes through.
IsRun(s, start, txs, n) ==
    s = [i \in 0 .. n |-> IF i = 0 THEN start ELSE ApplyOps(s[i - 1], txs[i].ops)]

\* There is one for every number of transactions.
LEMMA RunExists ==
    ASSUME NEW start, NEW txs, NEW n \in Nat
    PROVE  \E s : IsRun(s, start, txs, n)
<1> DEFINE S == {m \in Nat : \E s : IsRun(s, start, txs, m)}
<1>1. 0 \in S
  <2>1. IsRun([i \in 0 .. 0 |-> start], start, txs, 0)
    BY DEF IsRun
  <2> QED BY <2>1
<1>2. ASSUME NEW m \in S PROVE m + 1 \in S
  <2>1. PICK s : IsRun(s, start, txs, m)
    OBVIOUS
  <2> DEFINE h == [i \in 0 .. m + 1 |->
                      IF i = m + 1 THEN ApplyOps(s[m], txs[m + 1].ops) ELSE s[i]]
  <2>2. ASSUME NEW i \in 0 .. m + 1
        PROVE  h[i] = IF i = 0 THEN start ELSE ApplyOps(h[i - 1], txs[i].ops)
    <3>1. CASE i = 0
      BY <2>1, <3>1 DEF IsRun
    <3>2. CASE i \in 1 .. m
      BY <2>1, <3>2 DEF IsRun
    <3>3. CASE i = m + 1
      BY <2>1, <3>3 DEF IsRun
    <3> QED BY <3>1, <3>2, <3>3
  <2>3. IsRun(h, start, txs, m + 1)
    BY <2>2 DEF IsRun
  <2> QED BY <2>3
<1>3. S = Nat
  BY <1>1, <1>2, NatSetInduction
<1> QED BY <1>3

\* StateAfter is its last state.
LEMMA StateAfterIsRun ==
    ASSUME NEW start, NEW txs, NEW n \in Nat
    PROVE  \E s : IsRun(s, start, txs, n) /\ StateAfter(start, txs, n) = s[n]
<1> DEFINE s == CHOOSE s : IsRun(s, start, txs, n)
<1>1. IsRun(s, start, txs, n)
  BY RunExists, Zenon
<1>2. StateAfter(start, txs, n) = s[n]
  BY Zenon DEF StateAfter, IsRun
<1> QED BY <1>1, <1>2

\* Runs over the same transactions pass through the same states.
LEMMA RunsAgree ==
    ASSUME NEW start, NEW a, NEW b, NEW n \in Nat, NEW m \in Nat, n <= m,
           \A i \in 1 .. n : a[i] = b[i],
           NEW s, IsRun(s, start, a, n), NEW t, IsRun(t, start, b, m)
    PROVE  s[n] = t[n]
<1> DEFINE S == {i \in Nat : i <= n => s[i] = t[i]}
<1>1. 0 \in S
  BY DEF IsRun
<1>2. ASSUME NEW i \in S PROVE i + 1 \in S
  <2>1. SUFFICES ASSUME i + 1 <= n PROVE s[i + 1] = t[i + 1]
    OBVIOUS
  <2>2. i \in Nat /\ i + 1 \in 1 .. n /\ i + 1 \in 0 .. n /\ i + 1 \in 0 .. m
    BY <2>1
  <2>3. s[i + 1] = ApplyOps(s[i], a[i + 1].ops) /\ t[i + 1] = ApplyOps(t[i], b[i + 1].ops)
    BY <2>2 DEF IsRun
  <2>4. s[i] = t[i] /\ a[i + 1] = b[i + 1]
    BY <2>1, <2>2
  <2> QED BY <2>3, <2>4
<1>3. S = Nat
  <2> HIDE DEF S
  <2> QED BY <1>1, <1>2, NatSetInduction DEF S
<1> QED BY <1>3

\* No transaction leaves the state that was there.
LEMMA StateAfterNone ==
    ASSUME NEW start, NEW txs
    PROVE  StateAfter(start, txs, 0) = start
<1>1. PICK s : IsRun(s, start, txs, 0) /\ StateAfter(start, txs, 0) = s[0]
  BY StateAfterIsRun
<1> QED BY <1>1 DEF IsRun

\* The first n transactions decide the state after them.
LEMMA StateAfterSame ==
    ASSUME NEW start, NEW a, NEW b, NEW n \in Nat, \A i \in 1 .. n : a[i] = b[i]
    PROVE  StateAfter(start, a, n) = StateAfter(start, b, n)
<1>1. PICK s : IsRun(s, start, a, n) /\ StateAfter(start, a, n) = s[n]
  BY StateAfterIsRun
<1>2. PICK t : IsRun(t, start, b, n) /\ StateAfter(start, b, n) = t[n]
  BY StateAfterIsRun
<1>3. s[n] = t[n]
  BY <1>1, <1>2, RunsAgree
<1> QED BY <1>1, <1>2, <1>3

\* One more transaction is applied to the state that the ones before it left.
LEMMA StateAfterNext ==
    ASSUME NEW start, NEW txs, NEW n \in Nat
    PROVE  StateAfter(start, txs, n + 1)
              = ApplyOps(StateAfter(start, txs, n), txs[n + 1].ops)
<1>1. PICK s : IsRun(s, start, txs, n) /\ StateAfter(start, txs, n) = s[n]
  BY StateAfterIsRun
<1>2. PICK t : /\ IsRun(t, start, txs, n + 1)
               /\ StateAfter(start, txs, n + 1) = t[n + 1]
  BY StateAfterIsRun
<1>3. s[n] = t[n]
  BY <1>1, <1>2, RunsAgree
<1>4. t[n + 1] = ApplyOps(t[n], txs[n + 1].ops)
  BY <1>2 DEF IsRun
<1> QED BY <1>1, <1>2, <1>3, <1>4
-----------------------------------------------------------------------------
\* The invariant.

\* What a body may have read: some rows, a whole table, or nothing.
RowReadings == UNION {[rows -> Vals \cup {Absent}] : rows \in SUBSET Keys}
Readings == RowReadings \cup {<< >>, NoTable}

TxRecord == [id : Nat, ops : Batches, read : Readings, state : Tables \cup {NoTable}]

\* A log in which every record has the next id, is refused by nobody who
\* replays it and had read what the records before it had left; in a snapshot log each also holds the state it leaves.
GoodLog(k, start, recs) ==
    /\ recs \in Seq(TxRecord)
    /\ Len(recs) <= MaxTx
    /\ \A n \in DOMAIN recs :
          /\ recs[n].id = n
          /\ StateAfter(start, recs, n) \in Tables \cup {NoTable}
          /\ k = "snapshot" => recs[n].state = StateAfter(start, recs, n)
          /\ \A key \in DOMAIN recs[n].read :
                recs[n].read[key] = StateAfter(start, recs, n - 1)[key]

EngineType(e) ==
    e \in [users : SUBSET Workers, tables : Tables \cup {NoTable}, next : Nat,
          seen : Nat, log : {"ok", "poisoned"}, mutex : Workers \cup {Nobody},
          poisoned : BOOLEAN, versions : [Keys -> 0 .. MaxTx],
          indexes : {e.indexes}]

\* An engine that somebody uses stands after the transactions it has seen.
GoodEngine(start, recs, e) ==
    /\ EngineType(e)
    /\ e.next <= MaxTx + 1 /\ e.seen <= MaxTx
    /\ e.users # {} =>
          /\ e.seen <= Len(recs)
          /\ e.next = e.seen + 1
          /\ e.tables = StateAfter(start, recs, e.seen)

WorkType(x) ==
    x \in [at : {"idle", "ready", "body"}, eng : Workers \cup {Nobody},
          read : Readings, vers : {x.vers}]

\* A worker that is not idle uses the engine it is with; outside a body it has
\* read nothing, and a body that holds the mutex has read the current state.
GoodWork(w) ==
    /\ WorkType(work[w])
    /\ work[w].at # "idle" => /\ work[w].eng \in Workers
                              /\ w \in engine[work[w].eng].users
    /\ work[w].at # "body" => work[w].read = << >>
    /\ work[w].at = "body" => kind \in {"optimistic", "readwrite"}
    /\ work[w].at = "body" /\ kind = "readwrite" =>
          /\ engine[work[w].eng].mutex = w
          /\ work[w].read = engine[work[w].eng].tables

\* The mutex of an engine is held from within a body that runs on it.
MutexHeld(e) ==
    engine[e].mutex # Nobody => /\ work[engine[e].mutex].at = "body"
                                /\ work[engine[e].mutex].eng = e

LogInv == /\ file \in [recs : Seq(TxRecord), tail : BOOLEAN]
          /\ GoodLog(kind, StartTable, file.recs)

EngineInv == /\ engine = [e \in Workers |-> engine[e]]
             /\ \A e \in Workers : GoodEngine(StartTable, file.recs, engine[e])

WorkInv == /\ work = [w \in Workers |-> work[w]]
           /\ \A w \in Workers : GoodWork(w) /\ MutexHeld(w)

TxInv == LogInv /\ EngineInv /\ WorkInv /\ faults \in 0 .. MaxFaults
-----------------------------------------------------------------------------
\* The log.

\* The longer log gives the same states after its first transactions.
Extends(start, recs, more) ==
    /\ Len(recs) <= Len(more)
    /\ \A n \in 0 .. Len(recs) : StateAfter(start, more, n) = StateAfter(start, recs, n)

\* Appending the next record to a good log gives a good log.
LEMMA GoodLogAppend ==
    ASSUME NEW k, NEW start, NEW recs, GoodLog(k, start, recs),
           NEW rec \in TxRecord,
           Len(recs) < MaxTx,
           rec.id = Len(recs) + 1,
           ApplyOps(StateAfter(start, recs, Len(recs)), rec.ops) \in Tables \cup {NoTable},
           k = "snapshot" => rec.state = ApplyOps(StateAfter(start, recs, Len(recs)), rec.ops),
           \A key \in DOMAIN rec.read :
              rec.read[key] = StateAfter(start, recs, Len(recs))[key]
    PROVE  /\ GoodLog(k, start, Append(recs, rec))
           /\ Extends(start, recs, Append(recs, rec))
           /\ StateAfter(start, Append(recs, rec), Len(recs) + 1)
                 = ApplyOps(StateAfter(start, recs, Len(recs)), rec.ops)
<1> DEFINE more == Append(recs, rec)
           N == Len(recs)
<1>1. /\ recs \in Seq(TxRecord) /\ N \in Nat /\ DOMAIN recs = 1 .. N
      /\ more \in Seq(TxRecord) /\ Len(more) = N + 1 /\ DOMAIN more = 1 .. N + 1
      /\ more[N + 1] = rec /\ \A i \in 1 .. N : more[i] = recs[i]
  BY DEF GoodLog
<1> HIDE DEF more, N
<1>2. \A n \in 0 .. N : StateAfter(start, more, n) = StateAfter(start, recs, n)
  <2> TAKE n \in 0 .. N
  <2>1. n \in Nat /\ \A i \in 1 .. n : more[i] = recs[i]
    BY <1>1
  <2> QED BY <2>1, StateAfterSame
<1>3. StateAfter(start, more, N + 1) = ApplyOps(StateAfter(start, recs, N), rec.ops)
  <2>1. StateAfter(start, more, N) = StateAfter(start, recs, N)
    BY <1>1, <1>2
  <2> QED BY <1>1, <2>1, StateAfterNext
<1>4. ASSUME NEW n \in DOMAIN more
      PROVE  /\ more[n].id = n
             /\ StateAfter(start, more, n) \in Tables \cup {NoTable}
             /\ k = "snapshot" => more[n].state = StateAfter(start, more, n)
             /\ \A key \in DOMAIN more[n].read :
                   more[n].read[key] = StateAfter(start, more, n - 1)[key]
  <2>1. CASE n = N + 1
    <3>1. more[n] = rec /\ n - 1 = N /\ StateAfter(start, more, n - 1) = StateAfter(start, recs, N)
      BY <1>1, <1>2, <2>1
    <3> QED BY <1>3, <2>1, <3>1 DEF N
  <2>2. CASE n \in 1 .. N
    <3>1. more[n] = recs[n] /\ n \in DOMAIN recs
      BY <1>1, <2>2
    <3>2. n \in 0 .. N /\ n - 1 \in 0 .. N
      BY <1>1, <2>2
    <3>3. /\ StateAfter(start, more, n) = StateAfter(start, recs, n)
          /\ StateAfter(start, more, n - 1) = StateAfter(start, recs, n - 1)
      BY <1>2, <3>2
    <3> QED BY <3>1, <3>3 DEF GoodLog
  <2> QED BY <1>1, <2>1, <2>2
<1>5. N + 1 <= MaxTx
  BY <1>1, BoundsAreNaturals DEF N
<1>6. GoodLog(k, start, more)
  BY <1>1, <1>4, <1>5 DEF GoodLog
<1>7. Extends(start, recs, more)
  BY <1>1, <1>2 DEF Extends, N
<1> QED BY <1>3, <1>6, <1>7 DEF more, N

\* Every log extends itself.
LEMMA ExtendsItself ==
    ASSUME NEW start, NEW recs \in Seq(TxRecord)
    PROVE  Extends(start, recs, recs)
BY DEF Extends

\* An engine that stood after some transactions of a log stands after the
\* same ones of a longer log.
LEMMA GoodEngineExtends ==
    ASSUME NEW start, NEW recs \in Seq(TxRecord), NEW more \in Seq(TxRecord),
           Extends(start, recs, more), NEW e, GoodEngine(start, recs, e)
    PROVE  GoodEngine(start, more, e)
<1>1. Len(recs) \in Nat /\ Len(more) \in Nat /\ e.seen \in Nat
  BY DEF GoodEngine, EngineType
<1>2. CASE e.users = {}
  BY <1>2 DEF GoodEngine
<1>3. CASE e.users # {}
  <2>1. e.seen \in 0 .. Len(recs)
    BY <1>1, <1>3 DEF GoodEngine
  <2> QED BY <1>1, <1>3, <2>1 DEF GoodEngine, Extends
<1> QED BY <1>2, <1>3
-----------------------------------------------------------------------------
\* The engines.

\* Giving back the lock changes nothing else of an engine.
LEMMA UnlockedEngine ==
    ASSUME NEW e, EngineType(e)
    PROVE  /\ EngineType(Unlocked(e))
           /\ Unlocked(e).users = e.users /\ Unlocked(e).tables = e.tables
           /\ Unlocked(e).next = e.next /\ Unlocked(e).seen = e.seen
           /\ Unlocked(e).log = e.log /\ Unlocked(e).poisoned = e.poisoned
           /\ Unlocked(e).versions = e.versions
           /\ Unlocked(e).indexes = e.indexes /\ Unlocked(e).mutex = Nobody
BY DEF Unlocked, EngineType

\* Neither does poisoning its log handle or the engine, beside the mark.
LEMMA PoisonedEngine ==
    ASSUME NEW e, EngineType(e)
    PROVE  LET p == [Unlocked(e) EXCEPT !.log = "poisoned"]
               q == [Unlocked(e) EXCEPT !.poisoned = TRUE]
           IN  /\ EngineType(p)
               /\ p.users = e.users /\ p.tables = e.tables
               /\ p.next = e.next /\ p.seen = e.seen /\ p.mutex = Nobody
               /\ EngineType(q)
               /\ q.users = e.users /\ q.tables = e.tables
               /\ q.next = e.next /\ q.seen = e.seen /\ q.mutex = Nobody
<1> DEFINE u == Unlocked(e)
<1>1. EngineType(u) /\ u.users = e.users /\ u.tables = e.tables /\ u.next = e.next
      /\ u.seen = e.seen /\ u.mutex = Nobody
  BY UnlockedEngine
<1> HIDE DEF u
<1> QED BY <1>1 DEF EngineType, u

\* A good engine stays good while only its lock and its health change.
LEMMA SameStanding ==
    ASSUME NEW start, NEW recs, NEW e, NEW x,
           GoodEngine(start, recs, e), EngineType(x),
           x.users = e.users, x.tables = e.tables, x.next = e.next, x.seen = e.seen
    PROVE  GoodEngine(start, recs, x)
BY DEF GoodEngine

\* validate_batch and apply_mutations: a batch that is not refused leaves a
\* table, and it is the one that applying the batch gives.
LEMMA CandidateApplied ==
    ASSUME NEW t \in Tables \cup {NoTable}, NEW ops \in Batches, Candidate(t, ops) # Refused
    PROVE  /\ Candidate(t, ops) = ApplyOps(t, ops)
           /\ Candidate(t, ops) \in Tables \cup {NoTable}
<1>1. Candidate(t, ops) = ApplyOps(t, ops)
  BY DEF Candidate
<1>2. ApplyOps(t, ops) \in States
  BY ApplyOpsState, BatchesAreOperations DEF States
<1> QED BY <1>1, <1>2 DEF States

\* A worker with an engine, and what is known of that engine.
LEMMA WorkersEngine ==
    ASSUME TxInv, NEW w \in Workers, work[w].at # "idle"
    PROVE  /\ work[w].eng \in Workers
           /\ Eng(w) = engine[work[w].eng]
           /\ EngineType(Eng(w)) /\ w \in Eng(w).users
           /\ Eng(w).seen <= Len(file.recs) /\ Eng(w).next = Eng(w).seen + 1
           /\ Eng(w).tables = StateAfter(StartTable, file.recs, Eng(w).seen)
           /\ file.recs \in Seq(TxRecord)
<1>1. GoodWork(w)
  BY DEF TxInv, WorkInv
<1>2. work[w].eng \in Workers /\ w \in engine[work[w].eng].users
  BY <1>1 DEF GoodWork
<1>3. GoodEngine(StartTable, file.recs, engine[work[w].eng])
  BY <1>2 DEF TxInv, EngineInv
<1>4. file.recs \in Seq(TxRecord)
  BY DEF TxInv, LogInv, GoodLog
<1> QED BY <1>2, <1>3, <1>4 DEF Eng, GoodEngine

\* At its commit a worker has read what its engine holds now: because nothing
\* was read, because the mutex kept everyone else out, or because the rows
\* were validated.
LEMMA ReadIsCurrent ==
    ASSUME TxInv, NEW w \in Workers, work[w].at # "idle", AtCommit(w), Validates(w)
    PROVE  \A key \in DOMAIN work[w].read : work[w].read[key] = Eng(w).tables[key]
<1>1. GoodWork(w)
  BY DEF TxInv, WorkInv
<1>2. CASE kind = "readwrite"
  <2>1. work[w].at = "body"
    BY <1>2 DEF AtCommit
  <2> QED BY <1>1, <1>2, <2>1 DEF GoodWork, Eng
<1>3. CASE kind = "optimistic"
  BY <1>3 DEF Validates
<1>4. CASE kind \notin {"readwrite", "optimistic"}
  <2>1. work[w].at = "ready"
    BY <1>4 DEF AtCommit
  <2>2. work[w].read = << >>
    BY <1>1, <2>1 DEF GoodWork
  <2> QED BY <2>2
<1> QED BY <1>2, <1>3, <1>4

\* A step that appends the record of a commit, or none, keeps the log good.
LEMMA AppendKeepsLog ==
    ASSUME TxInv, NEW w \in Workers, NEW ops \in Batches, work[w].at # "idle",
           Appending(w, ops), kind' = kind,
           file' = [file EXCEPT !.recs = Append(@, Record(w, ops))]
    PROVE  /\ LogInv' /\ StartTable' = StartTable
           /\ file'.recs = Append(file.recs, Record(w, ops))
           /\ Extends(StartTable, file.recs, file'.recs)
           /\ Len(file'.recs) = Eng(w).seen + 1
           /\ NewTables(w, ops) \in Tables \cup {NoTable}
           /\ StateAfter(StartTable, file'.recs, Eng(w).seen + 1) = NewTables(w, ops)
<1> DEFINE rec == Record(w, ops)
           recs == file.recs
<1>1. /\ EngineType(Eng(w)) /\ Eng(w).next = Eng(w).seen + 1
      /\ Eng(w).tables = StateAfter(StartTable, recs, Eng(w).seen)
      /\ recs \in Seq(TxRecord)
  BY WorkersEngine
<1>2. Eng(w).seen = Len(recs) /\ Len(recs) \in Nat /\ Len(recs) < MaxTx
  BY <1>1 DEF Appending, InStep
<1>3. /\ NewTables(w, ops) = ApplyOps(Eng(w).tables, ops)
      /\ NewTables(w, ops) \in Tables \cup {NoTable}
  <2>1. Eng(w).tables \in Tables \cup {NoTable}
    BY <1>1 DEF EngineType
  <2>2. NewTables(w, ops) = Candidate(Eng(w).tables, ops) /\ NewTables(w, ops) # Refused
    BY DEF Appending, Accepts, NewTables
  <2> QED BY <2>1, <2>2, CandidateApplied
<1>4. /\ rec.id = Len(recs) + 1 /\ rec.ops = ops /\ rec.read = work[w].read
      /\ kind = "snapshot" => rec.state = NewTables(w, ops)
  BY <1>1, <1>2 DEF Record
<1>5. rec \in TxRecord
  <2>1. work[w].read \in Readings
    BY DEF TxInv, WorkInv, GoodWork, WorkType
  <2> QED BY <1>1, <1>2, <1>3, <2>1 DEF Record, TxRecord
<1>6. \A key \in DOMAIN rec.read :
         rec.read[key] = StateAfter(StartTable, recs, Len(recs))[key]
  <2>1. AtCommit(w) /\ Validates(w)
    BY DEF Appending, Accepts
  <2> QED BY <1>1, <1>2, <1>4, <2>1, ReadIsCurrent
<1>7. GoodLog(kind, StartTable, recs)
  BY DEF TxInv, LogInv
<1> HIDE DEF rec, recs
<1>8. /\ GoodLog(kind, StartTable, Append(recs, rec))
      /\ Extends(StartTable, recs, Append(recs, rec))
      /\ StateAfter(StartTable, Append(recs, rec), Len(recs) + 1)
            = ApplyOps(StateAfter(StartTable, recs, Len(recs)), rec.ops)
  <2>1. kind = "snapshot" => rec.state = ApplyOps(StateAfter(StartTable, recs, Len(recs)), rec.ops)
    BY <1>1, <1>2, <1>3, <1>4
  <2>2. ApplyOps(StateAfter(StartTable, recs, Len(recs)), rec.ops) \in Tables \cup {NoTable}
    BY <1>1, <1>2, <1>3, <1>4
  <2> QED BY <1>2, <1>4, <1>5, <1>6, <1>7, <2>1, <2>2, GoodLogAppend
<1>9. file'.recs = Append(recs, rec) /\ file' \in [recs : Seq(TxRecord), tail : BOOLEAN]
  <2>1. file \in [recs : Seq(TxRecord), tail : BOOLEAN]
    BY DEF TxInv, LogInv
  <2>2. Append(recs, rec) \in Seq(TxRecord)
    BY <1>1, <1>5
  <2> QED BY <2>1, <2>2 DEF recs, rec
<1>10. StartTable' = StartTable
  BY DEF StartTable, IsRelational
<1>11. LogInv'
  BY <1>8, <1>9, <1>10 DEF LogInv
<1>12. Len(file'.recs) = Eng(w).seen + 1
  BY <1>1, <1>2, <1>5, <1>9
<1> QED BY <1>1, <1>2, <1>3, <1>4, <1>8, <1>9, <1>10, <1>11, <1>12 DEF recs, rec

\* A step that leaves the records alone keeps the log good.
LEMMA SameRecords ==
    ASSUME TxInv, kind' = kind, file'.recs = file.recs,
           file' \in [recs : Seq(TxRecord), tail : BOOLEAN]
    PROVE  /\ LogInv' /\ StartTable' = StartTable
           /\ file'.recs \in Seq(TxRecord)
           /\ Extends(StartTable, file.recs, file'.recs)
<1>1. StartTable' = StartTable
  BY DEF StartTable, IsRelational
<1>2. file.recs \in Seq(TxRecord)
  BY DEF TxInv, LogInv, GoodLog
<1> QED BY <1>1, <1>2, ExtendsItself DEF TxInv, LogInv

\* A put that fails or is cut short: nothing, a partial or a whole record.
LEMMA InterruptedKeepsLog ==
    ASSUME TxInv, NEW w \in Workers, NEW ops \in Batches, work[w].at # "idle",
           Appending(w, ops), kind' = kind, Interrupted(w, ops)
    PROVE  /\ LogInv' /\ StartTable' = StartTable
           /\ file'.recs \in Seq(TxRecord)
           /\ Extends(StartTable, file.recs, file'.recs)
<1>1. file \in [recs : Seq(TxRecord), tail : BOOLEAN]
  BY DEF TxInv, LogInv
<1>2. CASE UNCHANGED file
  BY <1>1, <1>2, SameRecords
<1>3. CASE file' = [file EXCEPT !.tail = TRUE]
  <2>1. file'.recs = file.recs /\ file' \in [recs : Seq(TxRecord), tail : BOOLEAN]
    BY <1>1, <1>3
  <2> QED BY <2>1, SameRecords
<1>4. CASE file' = [file EXCEPT !.recs = Append(@, Record(w, ops))]
  <2>1. LogInv' /\ StartTable' = StartTable /\ Extends(StartTable, file.recs, file'.recs)
    BY <1>4, AppendKeepsLog
  <2>2. file'.recs \in Seq(TxRecord)
    BY <2>1 DEF LogInv, GoodLog
  <2> QED BY <2>1, <2>2
<1> QED BY <1>2, <1>3, <1>4 DEF Interrupted

\* What publishing the candidate makes of the engine.
LEMMA CommittedFields ==
    ASSUME NEW e, EngineType(e), e.next <= MaxTx,
           NEW t \in Tables \cup {NoTable}, NEW ops
    PROVE  /\ EngineType(Committed(e, t, ops))
           /\ Committed(e, t, ops).users = e.users
           /\ Committed(e, t, ops).mutex = Nobody
           /\ Committed(e, t, ops).tables = t
           /\ Committed(e, t, ops).next = e.next + 1
           /\ Committed(e, t, ops).seen = e.seen + 1
<1> DEFINE u == Unlocked(e)
           m == [u EXCEPT !.tables = t, !.next = @ + 1, !.seen = @ + 1]
           vs == [k \in Keys |-> IF k \in Touched(ops) THEN e.next ELSE u.versions[k]]
           ix == Rebuilt(e, t)
           c == [m EXCEPT !.versions = vs, !.indexes = ix]
<1>1. /\ EngineType(u) /\ u.users = e.users /\ u.next = e.next /\ u.seen = e.seen
      /\ u.mutex = Nobody /\ e.next \in Nat /\ e.seen \in Nat
  BY UnlockedEngine DEF EngineType
<1>2. vs \in [Keys -> 0 .. MaxTx]
  BY <1>1, BoundsAreNaturals DEF EngineType
<1>3. Committed(e, t, ops) = c
  BY DEF Committed
<1> HIDE DEF u, vs, ix
<1>4. u.next + 1 \in Nat /\ u.seen + 1 \in Nat
  BY <1>1
<1>5. /\ m.users = u.users /\ m.mutex = u.mutex /\ m.tables = t
      /\ m.next = u.next + 1 /\ m.seen = u.seen + 1
  BY <1>1 DEF EngineType
<1>6. EngineType(m)
  BY <1>1, <1>4 DEF EngineType
<1> HIDE DEF m
<1>7. EngineType(c)
  BY <1>2, <1>6 DEF EngineType
<1>8. /\ c.users = m.users /\ c.mutex = m.mutex /\ c.tables = m.tables
      /\ c.next = m.next /\ c.seen = m.seen
  BY <1>6 DEF EngineType
<1> HIDE DEF c
<1> QED BY <1>1, <1>3, <1>5, <1>7, <1>8

\* The log has one more record than a used engine has seen, and t is the state
\* after it.
Committing(start, more, e, t) ==
    /\ e.users # {}
    /\ Len(more) = e.seen + 1 /\ Len(more) <= MaxTx
    /\ t = StateAfter(start, more, e.seen + 1)

\* Publishing the candidate: the engine has seen the appended record.
LEMMA CommittedEngine ==
    ASSUME NEW start, NEW recs, NEW more \in Seq(TxRecord), NEW e,
           GoodEngine(start, recs, e),
           NEW t \in Tables \cup {NoTable}, NEW ops,
           Committing(start, more, e, t)
    PROVE  GoodEngine(start, more, Committed(e, t, ops))
<1>1. EngineType(e) /\ e.next = e.seen + 1 /\ e.seen \in Nat /\ e.users # {}
  BY DEF GoodEngine, EngineType, Committing
<1>2. EngineType(e) /\ e.next <= MaxTx
  BY <1>1 DEF Committing
<1>3. /\ EngineType(Committed(e, t, ops))
      /\ Committed(e, t, ops).users = e.users
      /\ Committed(e, t, ops).mutex = Nobody
      /\ Committed(e, t, ops).tables = t
      /\ Committed(e, t, ops).next = e.next + 1
      /\ Committed(e, t, ops).seen = e.seen + 1
  BY <1>2, CommittedFields
<1> QED BY <1>1, <1>3, BoundsAreNaturals DEF GoodEngine, Committing
-----------------------------------------------------------------------------
\* The steps.

\* A worker comes back from a commit or from its body: its engine may change,
\* but its users stay, a mutex of another worker stays, and so does the state
\* that such a worker has read.
LEMMA RestStep ==
    ASSUME TxInv, NEW w \in Workers, work[w].at # "idle", NEW x,
           engine' = [engine EXCEPT ![work[w].eng] = x],
           work' = [work EXCEPT ![w] = Resting(w)],
           kind' = kind, faults' \in 0 .. MaxFaults,
           LogInv', StartTable' = StartTable, file'.recs \in Seq(TxRecord),
           Extends(StartTable, file.recs, file'.recs),
           GoodEngine(StartTable, file'.recs, x),
           x.users = Eng(w).users,
           \/ Eng(w).mutex \in {w, Nobody} /\ x.mutex = Nobody
           \/ Eng(w).mutex # w /\ x.mutex = Eng(w).mutex /\ x.tables = Eng(w).tables
    PROVE  TxInv'
<1> DEFINE e == work[w].eng
<1>1. e \in Workers /\ Eng(w) = engine[e] /\ w \in engine[e].users
  BY WorkersEngine
<1>2. /\ engine = [f \in Workers |-> engine[f]] /\ work = [v \in Workers |-> work[v]]
      /\ \A v \in Workers : GoodWork(v) /\ MutexHeld(v)
      /\ \A f \in Workers : GoodEngine(StartTable, file.recs, engine[f])
      /\ file.recs \in Seq(TxRecord)
  BY DEF TxInv, WorkInv, EngineInv, LogInv, GoodLog
<1>3. /\ engine' = [f \in Workers |-> IF f = e THEN x ELSE engine[f]]
      /\ work' = [v \in Workers |-> IF v = w THEN Resting(w) ELSE work[v]]
  BY <1>1, <1>2
<1>4. /\ Resting(w).at = "ready" /\ Resting(w).eng = e /\ Resting(w).read = << >>
      /\ WorkType(Resting(w))
  <2>1. WorkType(work[w])
    BY <1>2 DEF GoodWork
  <2>2. << >> \in Readings
    BY DEF Readings
  <2>3. /\ Resting(w).at = "ready" /\ Resting(w).eng = e /\ Resting(w).read = << >>
    BY <2>1 DEF Resting, WorkType
  <2>4. WorkType(Resting(w))
    BY <2>1, <2>2 DEF Resting, WorkType
  <2> QED BY <2>3, <2>4
<1> HIDE DEF e
<1>5. EngineInv'
  <2>1. ASSUME NEW f \in Workers PROVE GoodEngine(StartTable, file'.recs, engine'[f])
    <3>1. CASE f = e
      BY <1>3, <3>1
    <3>2. CASE f # e
      BY <1>2, <1>3, <3>2, GoodEngineExtends
    <3> QED BY <3>1, <3>2
  <2> QED BY <1>3, <2>1 DEF EngineInv
<1>6. ASSUME NEW v \in Workers PROVE GoodWork(v)'
  <2>1. CASE v = w
    BY <1>1, <1>3, <1>4, <2>1 DEF GoodWork
  <2>2. CASE v # w
    <3>1. work'[v] = work[v] /\ GoodWork(v)
      BY <1>2, <1>3, <2>2
    <3>2. CASE work[v].eng # e
      <4>1. work[v].at # "idle" => engine'[work[v].eng] = engine[work[v].eng]
        BY <1>3, <3>1, <3>2 DEF GoodWork
      <4> QED BY <3>1, <4>1 DEF GoodWork
    <3>3. CASE work[v].eng = e
      <4>1. engine'[e] = x /\ x.users = engine[e].users
        BY <1>1, <1>3
      <4>2. work[v].at = "body" /\ kind = "readwrite" =>
               x.mutex = v /\ work[v].read = x.tables
        BY <1>1, <2>2, <3>1, <3>3, NobodyIsNoWorker DEF GoodWork
      <4> QED BY <3>1, <3>3, <4>1, <4>2 DEF GoodWork
    <3> QED BY <3>2, <3>3
  <2> QED BY <2>1, <2>2
<1>7. ASSUME NEW f \in Workers PROVE MutexHeld(f)'
  <2>1. SUFFICES ASSUME engine'[f].mutex # Nobody
                 PROVE  /\ work'[engine'[f].mutex].at = "body"
                        /\ work'[engine'[f].mutex].eng = f
    BY DEF MutexHeld
  <2>2. engine'[f].mutex = engine[f].mutex
    BY <1>1, <1>3, <2>1
  <2>3. MutexHeld(f) /\ engine[f].mutex \in Workers
    BY <1>2, <2>1, <2>2 DEF GoodEngine, EngineType
  <2>4. engine[f].mutex # w
    <3>1. CASE f = e
      BY <1>1, <1>3, <2>1, <2>2, <3>1
    <3>2. CASE f # e
      BY <2>1, <2>2, <2>3, <3>2 DEF MutexHeld, e
    <3> QED BY <3>1, <3>2
  <2> QED BY <1>3, <2>1, <2>2, <2>3, <2>4 DEF MutexHeld
<1>8. WorkInv'
  BY <1>3, <1>6, <1>7 DEF WorkInv
<1> QED BY <1>5, <1>8 DEF TxInv

\* At its commit no other worker holds the mutex.
LEMMA CommitsAlone ==
    ASSUME TxInv, NEW w \in Workers, work[w].at # "idle", AtCommit(w)
    PROVE  Eng(w).mutex \in {w, Nobody}
BY DEF AtCommit, CanLock

\* A commit that succeeds appends the batch to the log the engine replayed.
LEMMA CommitStep ==
    ASSUME TxInv, NEW w \in Workers, NEW ops \in Batches, work[w].at # "idle",
           Commit(w, ops)
    PROVE  TxInv'
<1> DEFINE e == work[w].eng
<1>1. /\ e \in Workers /\ Eng(w) = engine[e] /\ EngineType(Eng(w)) /\ w \in Eng(w).users
      /\ file.recs \in Seq(TxRecord)
  BY WorkersEngine
<1>2. /\ engine = [f \in Workers |-> engine[f]]
      /\ GoodEngine(StartTable, file.recs, Eng(w))
      /\ file \in [recs : Seq(TxRecord), tail : BOOLEAN]
      /\ faults \in 0 .. MaxFaults
  BY <1>1 DEF TxInv, EngineInv, LogInv
<1>3. /\ AtCommit(w) /\ Len(file.recs) < MaxTx /\ kind' = kind /\ faults' = faults
      /\ work' = [work EXCEPT ![w] = Resting(w)]
  BY DEF Commit, NoFault
<1>4. Eng(w).mutex \in {w, Nobody}
  BY <1>3, CommitsAlone
<1> HIDE DEF e
<1>5. CASE /\ UNCHANGED file
           /\ \/ engine' = [engine EXCEPT ![e] = Unlocked(Eng(w))]
              \/ engine' = [engine EXCEPT ![e] = [Unlocked(Eng(w)) EXCEPT !.log = "poisoned"]]
  <2>1. /\ LogInv' /\ StartTable' = StartTable /\ file'.recs \in Seq(TxRecord)
        /\ Extends(StartTable, file.recs, file'.recs)
    BY <1>2, <1>3, <1>5, SameRecords
  <2>2. \E x : /\ engine' = [engine EXCEPT ![e] = x]
               /\ EngineType(x) /\ x.users = Eng(w).users /\ x.tables = Eng(w).tables
               /\ x.next = Eng(w).next /\ x.seen = Eng(w).seen /\ x.mutex = Nobody
    <3>1. CASE engine' = [engine EXCEPT ![e] = Unlocked(Eng(w))]
      BY <1>1, <3>1, UnlockedEngine
    <3>2. CASE engine' = [engine EXCEPT ![e] = [Unlocked(Eng(w)) EXCEPT !.log = "poisoned"]]
      BY <1>1, <3>2, PoisonedEngine
    <3> QED BY <1>5, <3>1, <3>2
  <2>3. PICK x : /\ engine' = [engine EXCEPT ![e] = x]
                 /\ EngineType(x) /\ x.users = Eng(w).users /\ x.tables = Eng(w).tables
                 /\ x.next = Eng(w).next /\ x.seen = Eng(w).seen /\ x.mutex = Nobody
    BY <2>2
  <2>4. GoodEngine(StartTable, file'.recs, x)
    BY <1>1, <1>2, <2>1, <2>3, SameStanding, GoodEngineExtends
  <2> QED BY <1>2, <1>3, <1>4, <2>1, <2>3, <2>4, RestStep DEF e
<1>6. CASE /\ Accepts(w, ops) /\ Eng(w).log = "ok" /\ InStep(w)
           /\ file' = [file EXCEPT !.recs = Append(@, Record(w, ops))]
           /\ engine' = [engine EXCEPT ![e] = Committed(Eng(w), NewTables(w, ops), ops)]
  <2>1. Appending(w, ops)
    BY <1>3, <1>6 DEF Appending
  <2>2. /\ LogInv' /\ StartTable' = StartTable
        /\ Extends(StartTable, file.recs, file'.recs)
        /\ Len(file'.recs) = Eng(w).seen + 1
        /\ NewTables(w, ops) \in Tables \cup {NoTable}
        /\ StateAfter(StartTable, file'.recs, Eng(w).seen + 1) = NewTables(w, ops)
    BY <1>3, <1>6, <2>1, AppendKeepsLog
  <2>3. file'.recs \in Seq(TxRecord) /\ Len(file'.recs) <= MaxTx
    BY <2>2 DEF LogInv, GoodLog
  <2> DEFINE x == Committed(Eng(w), NewTables(w, ops), ops)
  <2>4. GoodEngine(StartTable, file.recs, Eng(w)) /\ Eng(w).users # {}
    BY <1>1, <1>2
  <2>5. /\ GoodEngine(StartTable, file'.recs, x)
        /\ x.users = Eng(w).users /\ x.mutex = Nobody
    <3>1. GoodEngine(StartTable, file'.recs, Committed(Eng(w), NewTables(w, ops), ops))
      BY <2>2, <2>3, <2>4, CommittedEngine DEF Committing
    <3>2. EngineType(Eng(w)) /\ Eng(w).next <= MaxTx /\ NewTables(w, ops) \in Tables \cup {NoTable}
      BY <2>2, <2>3, <2>4 DEF GoodEngine
    <3>3. /\ Committed(Eng(w), NewTables(w, ops), ops).users = Eng(w).users
          /\ Committed(Eng(w), NewTables(w, ops), ops).mutex = Nobody
      BY <3>2, CommittedFields
    <3> QED BY <3>1, <3>3
  <2>6. engine' = [engine EXCEPT ![e] = x]
    BY <1>6
  <2> HIDE DEF x
  <2> QED BY <1>2, <1>3, <1>4, <2>2, <2>3, <2>5, <2>6, RestStep DEF e
<1>7. \/ /\ UNCHANGED file
         /\ \/ engine' = [engine EXCEPT ![e] = Unlocked(Eng(w))]
            \/ engine' = [engine EXCEPT ![e] = [Unlocked(Eng(w)) EXCEPT !.log = "poisoned"]]
      \/ /\ Accepts(w, ops) /\ Eng(w).log = "ok" /\ InStep(w)
         /\ file' = [file EXCEPT !.recs = Append(@, Record(w, ops))]
         /\ engine' = [engine EXCEPT ![e] = Committed(Eng(w), NewTables(w, ops), ops)]
  BY <1>1 DEF Commit, e
<1> QED BY <1>5, <1>6, <1>7

\* A commit that fails leaves the batch in the log or does not, and poisons
\* the engine.
LEMMA CommitFailsStep ==
    ASSUME TxInv, NEW w \in Workers, NEW ops \in Batches, work[w].at # "idle",
           CommitFails(w, ops)
    PROVE  TxInv'
<1> DEFINE e == work[w].eng
           x == [Unlocked(Eng(w)) EXCEPT !.log = "poisoned"]
<1>1. /\ e \in Workers /\ Eng(w) = engine[e] /\ EngineType(Eng(w))
      /\ file.recs \in Seq(TxRecord)
  BY WorkersEngine
<1>2. GoodEngine(StartTable, file.recs, Eng(w)) /\ faults' \in 0 .. MaxFaults
  BY <1>1, BoundsAreNaturals DEF TxInv, EngineInv, CommitFails, Fault
<1>3. /\ Appending(w, ops) /\ Interrupted(w, ops) /\ kind' = kind
      /\ work' = [work EXCEPT ![w] = Resting(w)]
      /\ engine' = [engine EXCEPT ![e] = x]
  BY <1>1 DEF CommitFails
<1>4. Eng(w).mutex \in {w, Nobody}
  BY <1>3, CommitsAlone DEF Appending
<1>5. /\ EngineType(x) /\ x.users = Eng(w).users /\ x.tables = Eng(w).tables
      /\ x.next = Eng(w).next /\ x.seen = Eng(w).seen /\ x.mutex = Nobody
  BY <1>1, PoisonedEngine
<1>6. /\ LogInv' /\ StartTable' = StartTable /\ file'.recs \in Seq(TxRecord)
      /\ Extends(StartTable, file.recs, file'.recs)
  BY <1>3, InterruptedKeepsLog
<1> HIDE DEF e, x
<1>7. GoodEngine(StartTable, file'.recs, x)
  BY <1>1, <1>2, <1>5, <1>6, SameStanding, GoodEngineExtends
<1> QED BY <1>2, <1>3, <1>4, <1>5, <1>6, <1>7, RestStep DEF e

\* The body returns an error, or panics.
LEMMA BodyEndsStep ==
    ASSUME TxInv, NEW w \in Workers, Abandon(w) \/ Panic(w)
    PROVE  TxInv'
<1> DEFINE e == work[w].eng
<1>1. work[w].at = "body" /\ UNCHANGED <<kind, file>> /\ work' = [work EXCEPT ![w] = Resting(w)]
  BY DEF Abandon, Panic
<1>2. /\ e \in Workers /\ Eng(w) = engine[e] /\ EngineType(Eng(w))
      /\ file.recs \in Seq(TxRecord)
  BY <1>1, WorkersEngine
<1>3. GoodEngine(StartTable, file.recs, Eng(w)) /\ faults' \in 0 .. MaxFaults
  BY <1>2, BoundsAreNaturals DEF TxInv, EngineInv, Abandon, Panic, NoFault, Fault
<1>4. /\ LogInv' /\ StartTable' = StartTable /\ file'.recs \in Seq(TxRecord)
      /\ Extends(StartTable, file.recs, file'.recs)
  BY <1>1, SameRecords DEF TxInv, LogInv
<1>5. \E x : /\ engine' = [engine EXCEPT ![e] = x]
             /\ EngineType(x) /\ x.users = Eng(w).users /\ x.tables = Eng(w).tables
             /\ x.next = Eng(w).next /\ x.seen = Eng(w).seen
             /\ \/ Eng(w).mutex = w /\ x.mutex = Nobody
                \/ Eng(w).mutex # w /\ x.mutex = Eng(w).mutex
  <2>1. CASE Eng(w).mutex # w
    <3>1. engine' = [engine EXCEPT ![e] = Eng(w)]
      BY <1>2, <2>1 DEF Abandon, Panic
    <3> QED BY <1>2, <2>1, <3>1
  <2>2. CASE Eng(w).mutex = w /\ Abandon(w)
    <3>1. engine' = [engine EXCEPT ![e] = Unlocked(Eng(w))]
      BY <1>2, <2>2 DEF Abandon
    <3> QED BY <1>2, <2>2, <3>1, UnlockedEngine
  <2>3. CASE Eng(w).mutex = w /\ Panic(w)
    <3>1. engine' = [engine EXCEPT ![e] = [Unlocked(Eng(w)) EXCEPT !.poisoned = TRUE]]
      BY <1>2, <2>3 DEF Panic
    <3> QED BY <1>2, <2>3, <3>1, PoisonedEngine
  <2> QED BY <2>1, <2>2, <2>3
<1>6. PICK x : /\ engine' = [engine EXCEPT ![e] = x]
               /\ EngineType(x) /\ x.users = Eng(w).users /\ x.tables = Eng(w).tables
               /\ x.next = Eng(w).next /\ x.seen = Eng(w).seen
               /\ \/ Eng(w).mutex = w /\ x.mutex = Nobody
                  \/ Eng(w).mutex # w /\ x.mutex = Eng(w).mutex
  BY <1>5
<1> HIDE DEF e
<1>7. GoodEngine(StartTable, file'.recs, x)
  BY <1>2, <1>3, <1>4, <1>6, SameStanding, GoodEngineExtends
<1> QED BY <1>1, <1>3, <1>4, <1>6, <1>7, RestStep DEF e

\* A worker enters a body: it has read rows of the state its engine holds,
\* with the mutex or without.
LEMMA BodyBeginsStep ==
    ASSUME TxInv, NEW w \in Workers,
           Lock(w) \/ \E rows \in SUBSET Keys : Snapshot(w, rows)
    PROVE  TxInv'
<1> DEFINE e == work[w].eng
<1>1. work[w].at = "ready" /\ UNCHANGED <<kind, file>> /\ faults' = faults /\ CanLock(w)
  BY DEF Lock, Snapshot, NoFault
<1>2. /\ e \in Workers /\ Eng(w) = engine[e] /\ EngineType(engine[e]) /\ w \in engine[e].users
      /\ file.recs \in Seq(TxRecord)
  BY <1>1, WorkersEngine
<1>3. /\ engine = [f \in Workers |-> engine[f]] /\ work = [v \in Workers |-> work[v]]
      /\ \A v \in Workers : GoodWork(v) /\ MutexHeld(v)
      /\ \A f \in Workers : GoodEngine(StartTable, file.recs, engine[f])
      /\ file \in [recs : Seq(TxRecord), tail : BOOLEAN]
  BY DEF TxInv, WorkInv, EngineInv, LogInv
<1>4. LogInv' /\ StartTable' = StartTable
  BY <1>1, <1>3, SameRecords
<1>5. WorkType(work[w])
  BY <1>3 DEF GoodWork
<1> HIDE DEF e
<1>6. CASE Lock(w)
  <2>1. /\ kind = "readwrite" /\ engine[e].mutex = Nobody
        /\ engine' = [engine EXCEPT ![e].mutex = w]
        /\ work' = [work EXCEPT ![w].at = "body", ![w].read = engine[e].tables]
    BY <1>1, <1>2, <1>6 DEF Lock, CanLock, e
  <2> DEFINE x == [engine[e] EXCEPT !.mutex = w]
             y == [[work[w] EXCEPT !.at = "body"] EXCEPT !.read = engine[e].tables]
  <2>2. /\ EngineType(x) /\ x.users = engine[e].users /\ x.tables = engine[e].tables
        /\ x.next = engine[e].next /\ x.seen = engine[e].seen /\ x.mutex = w
    BY <1>2 DEF EngineType
  <2>3. /\ y.at = "body" /\ y.eng = work[w].eng /\ y.read = engine[e].tables
    BY <1>5 DEF WorkType
  <2>4. WorkType(y)
    <3>1. engine[e].tables \in Readings
      <4>1. engine[e].tables \in Tables \/ engine[e].tables = NoTable
        BY <1>2 DEF EngineType
      <4>2. Tables \subseteq RowReadings
        BY DEF Tables, RowReadings
      <4> QED BY <4>1, <4>2 DEF Readings
    <3> QED BY <1>5, <3>1 DEF WorkType
  <2>5. /\ engine' = [f \in Workers |-> IF f = e THEN x ELSE engine[f]]
        /\ work' = [v \in Workers |-> IF v = w THEN y ELSE work[v]]
    BY <1>2, <1>3, <2>1
  <2> HIDE DEF x, y
  <2>6. EngineInv'
    <3>1. ASSUME NEW f \in Workers PROVE GoodEngine(StartTable, file.recs, engine'[f])
      <4>1. CASE f = e
        <5>1. GoodEngine(StartTable, file.recs, x)
          BY <1>2, <1>3, <2>2, SameStanding
        <5> QED BY <2>5, <4>1, <5>1
      <4>2. CASE f # e
        BY <1>3, <2>5, <4>2
      <4> QED BY <4>1, <4>2
    <3> QED BY <1>1, <1>4, <2>5, <3>1 DEF EngineInv
  <2>7. ASSUME NEW v \in Workers PROVE GoodWork(v)'
    <3>1. CASE v = w
      <4>1. work'[v] = y /\ y.eng = e /\ e \in Workers
        BY <1>2, <2>3, <2>5, <3>1 DEF e
      <4>2. engine'[e] = x
        BY <1>2, <2>5
      <4>3. /\ v \in engine'[e].users /\ engine'[e].mutex = v
            /\ y.read = engine'[e].tables
        BY <1>2, <2>2, <2>3, <3>1, <4>2
      <4>4. y.at = "body" /\ kind' = "readwrite" /\ WorkType(y)
        BY <1>1, <2>1, <2>3, <2>4
      <4> QED BY <4>1, <4>3, <4>4 DEF GoodWork
    <3>2. CASE v # w
      <4>1. work'[v] = work[v] /\ GoodWork(v)
        BY <1>3, <2>5, <3>2
      <4>2. ~(work[v].at = "body" /\ work[v].eng = e)
        BY <2>1, <4>1, NobodyIsNoWorker DEF GoodWork
      <4>3. work[v].at # "idle" => engine'[work[v].eng].users = engine[work[v].eng].users
        BY <2>2, <2>5, <4>1 DEF GoodWork
      <4>4. work[v].at = "body" => engine'[work[v].eng] = engine[work[v].eng]
        BY <2>5, <4>1, <4>2 DEF GoodWork
      <4> QED BY <1>1, <4>1, <4>3, <4>4 DEF GoodWork
    <3> QED BY <3>1, <3>2
  <2>8. ASSUME NEW f \in Workers PROVE MutexHeld(f)'
    <3>1. CASE f = e
      BY <2>2, <2>3, <2>5, <3>1 DEF MutexHeld, e
    <3>2. CASE f # e
      <4>1. engine'[f] = engine[f] /\ MutexHeld(f)
        BY <1>3, <2>5, <3>2
      <4>2. engine[f].mutex # Nobody => engine[f].mutex # w /\ engine[f].mutex \in Workers
        BY <1>1, <1>3, <4>1 DEF MutexHeld, GoodEngine, EngineType
      <4> QED BY <2>5, <4>1, <4>2 DEF MutexHeld
    <3> QED BY <3>1, <3>2
  <2>9. WorkInv'
    BY <2>5, <2>7, <2>8 DEF WorkInv
  <2> QED BY <1>1, <1>4, <2>6, <2>9 DEF TxInv
<1>7. ASSUME NEW rows \in SUBSET Keys, Snapshot(w, rows)
      PROVE  TxInv'
  <2> DEFINE rd == [k \in rows |-> engine[e].tables[k]]
             vs == [k \in rows |-> engine[e].versions[k]]
             y == [[[work[w] EXCEPT !.at = "body"] EXCEPT !.read = rd] EXCEPT !.vers = vs]
  <2>1. /\ kind = "optimistic" /\ engine' = engine
        /\ engine[e].tables = NoTable => rows = {}
        /\ work' = [work EXCEPT ![w].at = "body", ![w].read = rd, ![w].vers = vs]
    BY <1>2, <1>7, Zenon DEF Snapshot, e
  <2>2. rd \in Readings
    <3>1. engine[e].tables \in Tables \/ rows = {}
      BY <1>2, <2>1 DEF EngineType
    <3>2. rd \in [rows -> Vals \cup {Absent}]
      BY <3>1 DEF Tables
    <3> QED BY <3>2 DEF Readings, RowReadings
  <2> HIDE DEF rd, vs
  <2>3. y.at = "body" /\ y.eng = work[w].eng /\ WorkType(y)
    BY <1>5, <2>2 DEF WorkType
  <2>4. work' = [v \in Workers |-> IF v = w THEN y ELSE work[v]]
    BY <1>3, <2>1
  <2> HIDE DEF y
  <2>5. EngineInv'
    BY <1>1, <1>3, <1>4, <2>1 DEF EngineInv
  <2>6. ASSUME NEW v \in Workers PROVE GoodWork(v)'
    <3>1. CASE v = w
      BY <1>1, <1>2, <2>1, <2>3, <2>4, <3>1 DEF GoodWork, e
    <3>2. CASE v # w
      BY <1>1, <1>3, <2>1, <2>4, <3>2 DEF GoodWork
    <3> QED BY <3>1, <3>2
  <2>7. ASSUME NEW f \in Workers PROVE MutexHeld(f)'
    <3>1. MutexHeld(f) /\ engine[f].mutex \in Workers \cup {Nobody}
      BY <1>3 DEF GoodEngine, EngineType
    <3>2. engine[f].mutex # w
      BY <1>1, <3>1, NobodyIsNoWorker DEF MutexHeld
    <3> QED BY <2>1, <2>4, <3>1, <3>2 DEF MutexHeld
  <2>8. WorkInv'
    BY <2>4, <2>6, <2>7 DEF WorkInv
  <2> QED BY <1>1, <1>4, <2>5, <2>8, SMTT(30) DEF TxInv
<1> QED BY <1>6, <1>7

\* The log is replayed from a table or from none.
LEMMA StartIsState == StartTable \in Tables \cup {NoTable}
BY DEF StartTable, EmptyTable, Tables

\* The ids of a good log are the positions of its records.
LEMMA LogIds ==
    ASSUME NEW k, NEW start, NEW recs, GoodLog(k, start, recs)
    PROVE  /\ Ids(recs) = 1 .. Len(recs)
           /\ Cardinality(Ids(recs)) = Len(recs)
           /\ \A i \in 1 .. Len(recs) : LastWith(recs, i) = i
<1>1. /\ recs \in Seq(TxRecord) /\ Len(recs) \in Nat /\ DOMAIN recs = 1 .. Len(recs)
      /\ \A n \in DOMAIN recs : recs[n].id = n
  BY DEF GoodLog
<1>2. Ids(recs) = 1 .. Len(recs)
  BY <1>1 DEF Ids
<1>3. Cardinality(1 .. Len(recs)) = Len(recs)
  <2>1. Cardinality(1 .. Len(recs)) = IF 1 > Len(recs) THEN 0 ELSE Len(recs) - 1 + 1
    BY <1>1, FS_Interval
  <2> QED BY <1>1, <2>1
<1>4. ASSUME NEW i \in 1 .. Len(recs) PROVE LastWith(recs, i) = i
  BY <1>1 DEF LastWith
<1> QED BY <1>2, <1>3, <1>4

\* decode and replay on open: every record once and in order.
LEMMA ReplayIsSerial ==
    ASSUME LogInv
    PROVE  /\ Opens(file.recs)
           /\ Cardinality(Ids(file.recs)) = Len(file.recs)
           /\ Replay(file.recs) = StateAfter(StartTable, file.recs, Len(file.recs))
           /\ Replay(file.recs) \in Tables \cup {NoTable}
<1> DEFINE recs == file.recs
           n == Len(recs)
           txs == [i \in 1 .. n |-> recs[LastWith(recs, i)]]
<1>1. GoodLog(kind, StartTable, recs)
  BY DEF LogInv
<1>2. recs \in Seq(TxRecord) /\ n \in Nat /\ DOMAIN recs = 1 .. n
  BY <1>1 DEF GoodLog
<1>3. Ids(recs) = 1 .. n /\ Cardinality(Ids(recs)) = n
  BY <1>1, LogIds
<1>4. \A i \in 1 .. n : txs[i] = recs[i]
  BY <1>1, LogIds
<1>5. StateAfter(StartTable, recs, n) \in Tables \cup {NoTable}
  <2>1. CASE n = 0
    BY <2>1, StateAfterNone, StartIsState
  <2>2. CASE n # 0
    <3>1. n \in DOMAIN recs
      BY <1>2, <2>2
    <3> QED BY <1>1, <3>1 DEF GoodLog
  <2> QED BY <2>1, <2>2
<1>6. CASE kind = "snapshot"
  <2>1. ReplaySnapshot(recs) = StateAfter(StartTable, recs, n)
    <3>1. CASE n = 0
      <4>1. recs = << >> /\ StartTable = EmptyTable
        BY <1>2, <1>6, <3>1 DEF StartTable, IsRelational
      <4>2. StateAfter(StartTable, recs, n) = StartTable
        BY <3>1, StateAfterNone
      <4> QED BY <4>1, <4>2 DEF ReplaySnapshot
    <3>2. CASE n # 0
      <4>1. n \in DOMAIN recs /\ recs # << >> /\ Last(recs) = recs[n]
        BY <1>2, <3>2 DEF Last
      <4>2. recs[n].state = StateAfter(StartTable, recs, n)
        BY <1>1, <1>6, <4>1 DEF GoodLog
      <4> QED BY <4>1, <4>2 DEF ReplaySnapshot
    <3> QED BY <3>1, <3>2
  <2>2. Replay(recs) = ReplaySnapshot(recs)
    BY <1>6 DEF Replay
  <2> QED BY <1>3, <1>5, <1>6, <2>1, <2>2 DEF Opens
<1>7. CASE kind # "snapshot"
  <2>1. Replay(recs) = StateAfter(StartTable, txs, n)
    BY <1>3, <1>7 DEF Replay, ReplayTransactions
  <2> HIDE DEF txs
  <2>2. StateAfter(StartTable, txs, n) = StateAfter(StartTable, recs, n)
    BY <1>2, <1>4, StateAfterSame
  <2> QED BY <1>3, <1>5, <2>1, <2>2 DEF Opens
<1> QED BY <1>6, <1>7

\* An engine that is not open promises nothing.
LEMMA NoEngineIsGood ==
    ASSUME NEW start, NEW recs
    PROVE  /\ GoodEngine(start, recs, NoEngine) /\ EngineType(NoEngine)
           /\ NoEngine.users = {} /\ NoEngine.mutex = Nobody
<1>1. EmptyTable \in [Keys -> 0 .. MaxTx]
  BY BoundsAreNaturals DEF EmptyTable, Absent
<1>2. EngineType(NoEngine)
  BY <1>1 DEF EngineType, NoEngine
<1>3. /\ NoEngine.users = {} /\ NoEngine.mutex = Nobody
      /\ NoEngine.next = 0 /\ NoEngine.seen = 0
  BY DEF NoEngine
<1> QED BY <1>2, <1>3, BoundsAreNaturals DEF GoodEngine

\* A worker without a transaction.
LEMMA NoWorkFields ==
    /\ NoWork.at = "idle" /\ NoWork.eng = Nobody /\ NoWork.read = << >>
    /\ WorkType(NoWork)
    /\ \A e \in Workers : /\ [NoWork EXCEPT !.at = "ready", !.eng = e].at = "ready"
                          /\ [NoWork EXCEPT !.at = "ready", !.eng = e].eng = e
                          /\ [NoWork EXCEPT !.at = "ready", !.eng = e].read = << >>
                          /\ WorkType([NoWork EXCEPT !.at = "ready", !.eng = e])
<1>1. << >> \in Readings
  BY DEF Readings
<1>2. /\ NoWork.at = "idle" /\ NoWork.eng = Nobody /\ NoWork.read = << >>
      /\ WorkType(NoWork)
  BY <1>1 DEF NoWork, WorkType
<1>3. ASSUME NEW e \in Workers
      PROVE  /\ [NoWork EXCEPT !.at = "ready", !.eng = e].at = "ready"
             /\ [NoWork EXCEPT !.at = "ready", !.eng = e].eng = e
             /\ [NoWork EXCEPT !.at = "ready", !.eng = e].read = << >>
             /\ WorkType([NoWork EXCEPT !.at = "ready", !.eng = e])
  BY <1>1 DEF NoWork, WorkType
<1> QED BY <1>2, <1>3

\* A worker comes to an engine, with a mutex that it does not hold, or leaves
\* one: the other users of the engine stay and find it as it was.
LEMMA UsersStep ==
    ASSUME TxInv, NEW w \in Workers, NEW e \in Workers, NEW x, NEW y,
           work[w].at # "body", kind' = kind, faults' = faults,
           engine' = [engine EXCEPT ![e] = x], work' = [work EXCEPT ![w] = y],
           LogInv', StartTable' = StartTable, file'.recs \in Seq(TxRecord),
           Extends(StartTable, file.recs, file'.recs),
           GoodEngine(StartTable, file'.recs, x),
           WorkType(y), y.read = << >>,
           y.at = "idle" \/ (y.at = "ready" /\ y.eng = e /\ w \in x.users),
           \A v \in Workers \ {w} : v \in engine[e].users =>
              v \in x.users /\ x.tables = engine[e].tables /\ x.mutex = engine[e].mutex,
           x.mutex \in {engine[e].mutex, Nobody}
    PROVE  TxInv'
<1>1. /\ engine = [f \in Workers |-> engine[f]] /\ work = [v \in Workers |-> work[v]]
      /\ \A v \in Workers : GoodWork(v) /\ MutexHeld(v)
      /\ \A f \in Workers : GoodEngine(StartTable, file.recs, engine[f])
      /\ file.recs \in Seq(TxRecord)
  BY DEF TxInv, WorkInv, EngineInv, LogInv, GoodLog
<1>2. /\ engine' = [f \in Workers |-> IF f = e THEN x ELSE engine[f]]
      /\ work' = [v \in Workers |-> IF v = w THEN y ELSE work[v]]
  BY <1>1
<1>3. EngineInv'
  <2>1. ASSUME NEW f \in Workers PROVE GoodEngine(StartTable, file'.recs, engine'[f])
    <3>1. CASE f = e
      BY <1>2, <3>1
    <3>2. CASE f # e
      BY <1>1, <1>2, <3>2, GoodEngineExtends
    <3> QED BY <3>1, <3>2
  <2> QED BY <1>2, <2>1 DEF EngineInv
<1>4. ASSUME NEW v \in Workers PROVE GoodWork(v)'
  <2>1. CASE v = w
    <3>1. work'[v] = y /\ y.at # "body"
      BY <1>2, <2>1
    <3>2. y.at # "idle" => y.eng \in Workers /\ v \in engine'[y.eng].users
      BY <1>2, <2>1
    <3> QED BY <3>1, <3>2 DEF GoodWork
  <2>2. CASE v # w
    <3>1. work'[v] = work[v] /\ GoodWork(v)
      BY <1>1, <1>2, <2>2
    <3>2. work[v].at # "idle" =>
             /\ v \in engine'[work[v].eng].users
             /\ engine'[work[v].eng].tables = engine[work[v].eng].tables
             /\ engine'[work[v].eng].mutex = engine[work[v].eng].mutex
      BY <1>2, <2>2, <3>1 DEF GoodWork
    <3> QED BY <3>1, <3>2 DEF GoodWork
  <2> QED BY <2>1, <2>2
<1>5. ASSUME NEW f \in Workers PROVE MutexHeld(f)'
  <2>1. SUFFICES ASSUME engine'[f].mutex # Nobody
                 PROVE  /\ work'[engine'[f].mutex].at = "body"
                        /\ work'[engine'[f].mutex].eng = f
    BY DEF MutexHeld
  <2>2. engine'[f].mutex = engine[f].mutex
    BY <1>2, <2>1
  <2>3. MutexHeld(f) /\ engine[f].mutex \in Workers
    BY <1>1, <2>1, <2>2 DEF GoodEngine, EngineType
  <2>4. engine[f].mutex # w
    BY <2>1, <2>2, <2>3 DEF MutexHeld
  <2> QED BY <1>2, <2>1, <2>2, <2>3, <2>4 DEF MutexHeld
<1>6. WorkInv'
  BY <1>2, <1>4, <1>5 DEF WorkInv
<1> QED BY <1>3, <1>6 DEF TxInv

\* An engine that was just opened, by its first user.
Opened(w, t, n) ==
    [NoEngine EXCEPT !.users = {w}, !.tables = t, !.next = n + 1, !.seen = n]

\* It has the tables the replay found, and the next transaction id.
LEMMA OpenedEngine ==
    ASSUME NEW w \in Workers, NEW t \in Tables \cup {NoTable}, NEW n \in Nat
    PROVE  /\ EngineType(Opened(w, t, n))
           /\ Opened(w, t, n).users = {w} /\ Opened(w, t, n).tables = t
           /\ Opened(w, t, n).next = n + 1 /\ Opened(w, t, n).seen = n
           /\ Opened(w, t, n).mutex = Nobody
<1> DEFINE x == [NoEngine EXCEPT !.users = {w}, !.tables = t, !.next = n + 1, !.seen = n]
<1>1. EmptyTable \in [Keys -> 0 .. MaxTx]
  BY BoundsAreNaturals DEF EmptyTable, Absent
<1>2. n + 1 \in Nat
  OBVIOUS
<1>3. /\ x.users = {w} /\ x.tables = t /\ x.next = n + 1 /\ x.seen = n
      /\ x.mutex = Nobody
  BY DEF NoEngine
<1>4. x \in [users : SUBSET Workers, tables : Tables \cup {NoTable}, next : Nat,
             seen : Nat, log : {"ok", "poisoned"}, mutex : Workers \cup {Nobody},
             poisoned : BOOLEAN, versions : [Keys -> 0 .. MaxTx],
             indexes : {<< >>}]
  BY <1>1, <1>2 DEF NoEngine
<1>5. x.indexes = << >>
  BY DEF NoEngine
<1> HIDE DEF x
<1>6. EngineType(x)
  BY <1>4, <1>5 DEF EngineType
<1> QED BY <1>3, <1>6 DEF x, Opened

\* Open finds a live engine, or replays the log.
LEMMA OpenStep ==
    ASSUME TxInv, NEW w \in Workers, Open(w)
    PROVE  TxInv'
<1>1. /\ work[w].at = "idle" /\ kind' = kind /\ faults' = faults
  BY DEF Open, NoFault
<1>2. /\ engine = [f \in Workers |-> engine[f]]
      /\ \A f \in Workers : GoodEngine(StartTable, file.recs, engine[f])
      /\ file \in [recs : Seq(TxRecord), tail : BOOLEAN] /\ file.recs \in Seq(TxRecord)
      /\ GoodLog(kind, StartTable, file.recs) /\ LogInv
      /\ \A v \in Workers : GoodWork(v) /\ MutexHeld(v)
  BY DEF TxInv, WorkInv, EngineInv, LogInv
<1>3. ASSUME NEW e \in LiveEngines,
             engine' = [engine EXCEPT ![e].users = @ \cup {w}],
             work' = [work EXCEPT ![w] = [NoWork EXCEPT !.at = "ready", !.eng = e]],
             UNCHANGED file
      PROVE  TxInv'
  <2> DEFINE x == [engine[e] EXCEPT !.users = @ \cup {w}]
             y == [NoWork EXCEPT !.at = "ready", !.eng = e]
  <2>1. e \in Workers /\ engine[e].users # {} /\ EngineType(engine[e])
    BY <1>2, <1>3 DEF LiveEngines, GoodEngine
  <2>2. /\ EngineType(x) /\ x.users = engine[e].users \cup {w}
        /\ x.tables = engine[e].tables /\ x.next = engine[e].next
        /\ x.seen = engine[e].seen /\ x.mutex = engine[e].mutex
    BY <2>1 DEF EngineType
  <2>3. engine' = [engine EXCEPT ![e] = x] /\ work' = [work EXCEPT ![w] = y]
    BY <1>3
  <2>4. WorkType(y) /\ y.at = "ready" /\ y.eng = e /\ y.read = << >>
    BY <2>1, NoWorkFields
  <2> HIDE DEF x, y
  <2>5. GoodEngine(StartTable, file.recs, x)
    BY <1>2, <2>1, <2>2 DEF GoodEngine
  <2>6. /\ LogInv' /\ StartTable' = StartTable /\ file'.recs \in Seq(TxRecord)
        /\ Extends(StartTable, file.recs, file'.recs) /\ file'.recs = file.recs
    BY <1>1, <1>2, <1>3, SameRecords
  <2>7. GoodEngine(StartTable, file'.recs, x)
    BY <2>5, <2>6
  <2>8. /\ work[w].at # "body" /\ w \in x.users
        /\ \A v \in Workers \ {w} : v \in engine[e].users =>
              v \in x.users /\ x.tables = engine[e].tables /\ x.mutex = engine[e].mutex
        /\ x.mutex \in {engine[e].mutex, Nobody}
    BY <1>1, <2>2
  <2> QED BY <1>1, <2>1, <2>3, <2>4, <2>6, <2>7, <2>8, UsersStep, ZenonT(60)
<1>4. ASSUME engine[w].users = {},
             engine' = [engine EXCEPT ![w] =
                  [NoEngine EXCEPT !.users = {w},
                                   !.tables = Replay(file.recs),
                                   !.next = Cardinality(Ids(file.recs)) + 1,
                                   !.seen = Len(file.recs)]],
             work' = [work EXCEPT ![w] = [NoWork EXCEPT !.at = "ready", !.eng = w]],
             file' = [file EXCEPT !.tail = FALSE]
      PROVE  TxInv'
  <2> DEFINE n == Len(file.recs)
             t == Replay(file.recs)
             x == Opened(w, t, n)
             y == [NoWork EXCEPT !.at = "ready", !.eng = w]
  <2>1. /\ Cardinality(Ids(file.recs)) = n
        /\ t = StateAfter(StartTable, file.recs, n)
        /\ t \in Tables \cup {NoTable}
    BY <1>2, ReplayIsSerial
  <2>2. n \in Nat /\ n <= MaxTx
    BY <1>2 DEF GoodLog
  <2>3. engine' = [engine EXCEPT ![w] = x]
    BY <1>4, <2>1 DEF Opened
  <2>4. work' = [work EXCEPT ![w] = y]
    BY <1>4
  <2> HIDE DEF n, t
  <2>5. /\ EngineType(x) /\ x.users = {w} /\ x.tables = t /\ x.next = n + 1
        /\ x.seen = n /\ x.mutex = Nobody
    <3>1. t \in Tables \cup {NoTable} /\ n \in Nat
      BY <2>1, <2>2
    <3>2. /\ EngineType(x)
          /\ x.users = {w} /\ x.tables = t /\ x.next = n + 1 /\ x.seen = n
          /\ x.mutex = Nobody
      BY <3>1, OpenedEngine
    <3> QED BY <3>2
  <2>6. WorkType(y) /\ y.at = "ready" /\ y.eng = w /\ y.read = << >>
    BY NoWorkFields
  <2> HIDE DEF x, y
  <2>7. /\ file'.recs = file.recs /\ file' \in [recs : Seq(TxRecord), tail : BOOLEAN]
    BY <1>2, <1>4
  <2>8. /\ LogInv' /\ StartTable' = StartTable /\ file'.recs \in Seq(TxRecord)
        /\ Extends(StartTable, file.recs, file'.recs)
    BY <1>1, <2>7, SameRecords
  <2>9. GoodEngine(StartTable, file.recs, x)
    BY <2>1, <2>2, <2>5, BoundsAreNaturals DEF GoodEngine, n
  <2>10. GoodEngine(StartTable, file'.recs, x)
    BY <2>7, <2>9
  <2>11. /\ work[w].at # "body" /\ w \in x.users /\ x.mutex \in {engine[w].mutex, Nobody}
         /\ \A v \in Workers \ {w} : v \notin engine[w].users
    BY <1>1, <1>4, <2>5
  <2> QED BY <1>1, <2>3, <2>4, <2>6, <2>8, <2>10, <2>11, UsersStep
<1> QED BY <1>3, <1>4 DEF Open

\* Drop: the engine goes with its last user.
LEMMA CloseStep ==
    ASSUME TxInv, NEW w \in Workers, Close(w)
    PROVE  TxInv'
<1> DEFINE e == work[w].eng
           y == NoWork
           x == IF engine[e].users = {w} THEN NoEngine
                ELSE [engine[e] EXCEPT !.users = engine[e].users \ {w}]
<1>1. /\ work[w].at = "ready" /\ UNCHANGED <<kind, file>> /\ faults' = faults
      /\ work' = [work EXCEPT ![w] = NoWork]
  BY DEF Close, NoFault
<1>2. /\ \A f \in Workers : GoodEngine(StartTable, file.recs, engine[f])
      /\ GoodWork(w) /\ engine = [f \in Workers |-> engine[f]]
      /\ file.recs \in Seq(TxRecord) /\ LogInv
  BY DEF TxInv, WorkInv, EngineInv, LogInv
<1>3. e \in Workers
  BY <1>1, <1>2 DEF GoodWork
<1>4. engine' = [engine EXCEPT ![e] = x]
  BY DEF Close
<1>5. EngineType(engine[e])
  BY <1>2, <1>3 DEF GoodEngine
<1>6. GoodEngine(StartTable, file.recs, x)
  <2>1. CASE engine[e].users = {w}
    BY <2>1, NoEngineIsGood
  <2>2. CASE engine[e].users # {w}
    <3> DEFINE z == [engine[e] EXCEPT !.users = engine[e].users \ {w}]
    <3>1. /\ EngineType(z) /\ z.next = engine[e].next /\ z.seen = engine[e].seen
          /\ z.tables = engine[e].tables /\ z.users \subseteq engine[e].users
      BY <1>5 DEF EngineType
    <3> HIDE DEF z
    <3>2. GoodEngine(StartTable, file.recs, z)
      BY <1>2, <1>3, <3>1 DEF GoodEngine
    <3> QED BY <2>2, <3>2 DEF z
  <2> QED BY <2>1, <2>2
<1>7. x.mutex \in {engine[e].mutex, Nobody}
  BY <1>5, NoEngineIsGood DEF EngineType
<1>8. \A v \in Workers \ {w} : v \in engine[e].users =>
         v \in x.users /\ x.tables = engine[e].tables /\ x.mutex = engine[e].mutex
  BY <1>5 DEF EngineType
<1>9. WorkType(y) /\ y.read = << >> /\ y.at = "idle"
  BY NoWorkFields
<1>10. work' = [work EXCEPT ![w] = y]
  BY <1>1
<1> HIDE DEF e, x, y
<1>11. /\ LogInv' /\ StartTable' = StartTable /\ file'.recs \in Seq(TxRecord)
      /\ Extends(StartTable, file.recs, file'.recs) /\ file'.recs = file.recs
  <2>1. /\ file' \in [recs : Seq(TxRecord), tail : BOOLEAN]
        /\ file'.recs = file.recs /\ kind' = kind
    BY <1>1, <1>2 DEF LogInv
  <2> QED BY <2>1, SameRecords
<1>12. GoodEngine(StartTable, file'.recs, x)
  BY <1>6, <1>11
<1>13. kind' = kind /\ faults' = faults /\ work[w].at # "body"
  BY <1>1
<1>14. /\ LogInv' /\ StartTable' = StartTable /\ file'.recs \in Seq(TxRecord)
       /\ Extends(StartTable, file.recs, file'.recs)
  BY <1>11
<1>15. WorkType(y) /\ y.read = << >>
  BY <1>9
<1>16. y.at = "idle" \/ (y.at = "ready" /\ y.eng = e /\ w \in x.users)
  BY <1>9
<1> QED
  BY <1>3, <1>4, <1>7, <1>8, <1>10, <1>12, <1>13, <1>14, <1>15, <1>16, UsersStep

\* register_index touches neither the log nor the tables.
LEMMA RegisterIndexStep ==
    ASSUME TxInv, NEW w \in Workers, NEW c, RegisterIndex(w, c)
    PROVE  TxInv'
<1> DEFINE e == work[w].eng
           ix == [d \in DOMAIN engine[e].indexes \cup {c} |->
                     IF d = c THEN BuildIndex(Eng(w).tables, c)
                     ELSE engine[e].indexes[d]]
           x == [engine[e] EXCEPT !.indexes = ix]
<1>1. /\ kind = "maintained" /\ work[w].at = "ready" /\ UNCHANGED <<kind, file, work>>
      /\ faults' = faults
  BY DEF RegisterIndex, NoFault
<1>2. /\ \A f \in Workers : GoodEngine(StartTable, file.recs, engine[f])
      /\ \A v \in Workers : GoodWork(v) /\ MutexHeld(v)
      /\ engine = [f \in Workers |-> engine[f]] /\ work = [v \in Workers |-> work[v]]
      /\ file.recs \in Seq(TxRecord) /\ LogInv
  BY DEF TxInv, WorkInv, EngineInv, LogInv
<1>3. e \in Workers
  BY <1>1, <1>2 DEF GoodWork
<1>4. engine' = [engine EXCEPT ![e] = x]
  BY <1>2, <1>3 DEF RegisterIndex
<1> HIDE DEF ix, e
<1>5. EngineType(engine[e])
  BY <1>2, <1>3 DEF GoodEngine
<1>6. /\ EngineType(x) /\ x.next = engine[e].next /\ x.seen = engine[e].seen
      /\ x.tables = engine[e].tables /\ x.users = engine[e].users
      /\ x.mutex = engine[e].mutex
  BY <1>5 DEF EngineType
<1> HIDE DEF x
<1>7. GoodEngine(StartTable, file.recs, x)
  BY <1>2, <1>3, <1>6 DEF GoodEngine
<1>8. engine' = [f \in Workers |-> IF f = e THEN x ELSE engine[f]]
  <2>1. engine = [f \in Workers |-> engine[f]]
    BY <1>2
  <2> QED BY <1>4, <2>1
<1>9. /\ LogInv' /\ StartTable' = StartTable
  <2>1. /\ file' \in [recs : Seq(TxRecord), tail : BOOLEAN]
        /\ file'.recs = file.recs /\ kind' = kind
    BY <1>1, <1>2 DEF LogInv
  <2> QED BY <2>1, SameRecords
<1>10. EngineInv'
  BY <1>1, <1>2, <1>7, <1>8, <1>9 DEF EngineInv
<1>11. \A f \in Workers : /\ engine'[f].mutex = engine[f].mutex
                          /\ engine'[f].users = engine[f].users
                          /\ engine'[f].tables = engine[f].tables
  BY <1>6, <1>8
<1>12. work' = work /\ kind' = kind /\ \A v \in Workers : work[v].at # "body"
  BY <1>1, <1>2 DEF GoodWork
<1>13. ASSUME NEW v \in Workers PROVE GoodWork(v)'
  <2>1. GoodWork(v)
    BY <1>2
  <2> QED BY <1>11, <1>12, <2>1 DEF GoodWork
<1>14. ASSUME NEW f \in Workers PROVE MutexHeld(f)'
  <2>1. MutexHeld(f)
    BY <1>2
  <2> QED BY <1>11, <1>12, <2>1 DEF MutexHeld
<1>15. WorkInv'
  BY <1>2, <1>12, <1>13, <1>14 DEF WorkInv
<1> QED BY <1>1, <1>9, <1>10, <1>15 DEF TxInv

\* Every process dies, one of them perhaps inside a put.
LEMMA CrashStep ==
    ASSUME TxInv, Crash
    PROVE  TxInv'
<1>1. /\ kind' = kind /\ faults' \in 0 .. MaxFaults
      /\ engine' = [w \in Workers |-> NoEngine] /\ work' = [w \in Workers |-> NoWork]
  BY BoundsAreNaturals DEF Crash, Fault, TxInv
<1>2. LogInv' /\ StartTable' = StartTable
  <2>1. CASE UNCHANGED file
    BY <1>1, <2>1, SameRecords DEF TxInv, LogInv
  <2>2. CASE \E w \in Workers, ops \in Batches :
                work[w].at # "idle" /\ Appending(w, ops) /\ Interrupted(w, ops)
    BY <1>1, <2>2, InterruptedKeepsLog
  <2> QED BY <2>1, <2>2 DEF Crash
<1>3. EngineInv' /\ WorkInv'
  <2>1. /\ \A e \in Workers : GoodEngine(StartTable', file'.recs, engine'[e])
        /\ WorkInv'
    BY <1>1, NoEngineIsGood, NoWorkFields DEF WorkInv, GoodWork, MutexHeld
  <2>2. engine' = [e \in Workers |-> engine'[e]]
    BY <1>1
  <2> QED BY <2>1, <2>2 DEF EngineInv
<1> QED BY <1>1, <1>2, <1>3 DEF TxInv

\* An empty file and nobody at work.
LEMMA StartIsGood ==
    ASSUME Init
    PROVE  TxInv
<1>1. /\ file = [recs |-> << >>, tail |-> FALSE] /\ faults = 0
      /\ engine = [w \in Workers |-> NoEngine] /\ work = [w \in Workers |-> NoWork]
  BY DEF Init
<1>2. LogInv
  BY <1>1, BoundsAreNaturals DEF LogInv, GoodLog
<1>3. EngineInv
  BY <1>1, NoEngineIsGood DEF EngineInv
<1>4. WorkInv
  BY <1>1, NoEngineIsGood, NoWorkFields DEF WorkInv, GoodWork, MutexHeld
<1> QED BY <1>1, <1>2, <1>3, <1>4, BoundsAreNaturals DEF TxInv

\* Every step keeps the invariant.
LEMMA StepKeepsTxInv ==
    ASSUME TxInv, [Next]_vars
    PROVE  TxInv'
<1>1. CASE UNCHANGED vars
  <2>1. /\ kind' = kind /\ file' = file /\ engine' = engine /\ work' = work
        /\ faults' = faults
    BY <1>1 DEF vars
  <2>2. StartTable' = StartTable
    BY <2>1 DEF StartTable, IsRelational
  <2>3. LogInv' /\ EngineInv'
    BY <2>1, <2>2 DEF TxInv, LogInv, EngineInv
  <2>4. \A w \in Workers : GoodWork(w)' /\ MutexHeld(w)'
    BY <2>1 DEF TxInv, WorkInv, GoodWork, MutexHeld
  <2> QED BY <2>1, <2>3, <2>4 DEF TxInv, WorkInv
<1>2. CASE Crash
  BY <1>2, CrashStep
<1>3. ASSUME NEW w \in Workers,
             \/ Open(w) \/ Close(w) \/ Lock(w) \/ Abandon(w) \/ Panic(w)
             \/ \E rows \in SUBSET Keys : Snapshot(w, rows)
             \/ \E c \in Columns : RegisterIndex(w, c)
             \/ \E ops \in Batches :
                   work[w].at # "idle" /\ (Commit(w, ops) \/ CommitFails(w, ops))
      PROVE  TxInv'
  <2>1. CASE Open(w)
    BY <2>1, OpenStep
  <2>2. CASE Close(w)
    BY <2>2, CloseStep
  <2>3. CASE Lock(w) \/ \E rows \in SUBSET Keys : Snapshot(w, rows)
    BY <2>3, BodyBeginsStep
  <2>4. CASE Abandon(w) \/ Panic(w)
    BY <2>4, BodyEndsStep
  <2>5. CASE \E c \in Columns : RegisterIndex(w, c)
    BY <2>5, RegisterIndexStep
  <2>6. ASSUME NEW ops \in Batches, work[w].at # "idle",
               Commit(w, ops) \/ CommitFails(w, ops)
        PROVE  TxInv'
    BY <2>6, CommitStep, CommitFailsStep
  <2> QED BY <1>3, <2>1, <2>2, <2>3, <2>4, <2>5, <2>6
<1> QED BY <1>1, <1>2, <1>3 DEF Next
-----------------------------------------------------------------------------
\* In every reachable state the log, the engines and the workers' readings
\* fit each other, whatever fails, panics or crashes.
THEOREM TransactionInvariance == Spec => []TxInv
<1>1. Init => TxInv
  BY StartIsGood
<1>2. TxInv /\ [Next]_vars => TxInv'
  BY StepKeepsTxInv
<1> QED BY <1>1, <1>2, PTL DEF Spec

\* The invariant contains the types a run checks.
LEMMA InvTypes == ASSUME TxInv PROVE TypeOK
<1>1. ASSUME NEW e \in Workers
      PROVE  /\ engine[e].users \subseteq Workers
             /\ engine[e].tables \in Tables \cup {NoTable}
             /\ engine[e].next \in 0 .. MaxTx + 1
             /\ engine[e].seen \in 0 .. MaxTx
             /\ engine[e].log \in {"ok", "poisoned"}
             /\ engine[e].versions \in [Keys -> 0 .. MaxTx]
             /\ \/ engine[e].mutex = Nobody
                \/ work[engine[e].mutex].at = "body"
  <2>1. GoodEngine(StartTable, file.recs, engine[e])
    BY DEF TxInv, EngineInv
  <2>2. /\ engine[e].users \in SUBSET Workers
        /\ engine[e].tables \in Tables \cup {NoTable}
        /\ engine[e].next \in Nat /\ engine[e].next <= MaxTx + 1
        /\ engine[e].seen \in Nat /\ engine[e].seen <= MaxTx
        /\ engine[e].log \in {"ok", "poisoned"}
        /\ engine[e].versions \in [Keys -> 0 .. MaxTx]
    BY <2>1 DEF GoodEngine, EngineType
  <2>3. engine[e].mutex = Nobody \/ work[engine[e].mutex].at = "body"
    BY DEF TxInv, WorkInv, MutexHeld
  <2> QED BY <2>2, <2>3, BoundsAreNaturals
<1>2. ASSUME NEW w \in Workers PROVE work[w].at \in {"idle", "ready", "body"}
  BY DEF TxInv, WorkInv, GoodWork, WorkType
<1> QED BY <1>1, <1>2 DEF TypeOK, TxInv

\* Tables hold typed cells, ids and row versions fit the log, and only a
\* worker that runs a body holds a mutex.
THEOREM TransactionTypes == Spec => []TypeOK
BY TransactionInvariance, InvTypes, PTL

\* validate_snapshot and the mutex suffice: a committed transaction has read
\* what the transactions before it left, in the order of their ids.
THEOREM Serializability == Spec => []Serializable
<1>1. ASSUME TxInv PROVE Serializable
  BY <1>1 DEF TxInv, LogInv, GoodLog, Serializable, SerialState
<1> QED BY <1>1, TransactionInvariance, PTL

\* open succeeds on every log that the engines write, and replays all of it.
THEOREM ReopenIsComplete == Spec => []ReopenReplaysAll
<1>1. ASSUME TxInv PROVE ReopenReplaysAll
  BY <1>1, ReplayIsSerial DEF TxInv, ReopenReplaysAll, SerialState
<1> QED BY <1>1, TransactionInvariance, PTL

\* A failed append, a refused batch or a panic leaves no trace in the state
\* an engine answers from.
THEOREM EnginesAreSerial == Spec => []EngineIsSerialState
<1>1. ASSUME TxInv PROVE EngineIsSerialState
  <2>1. ASSUME NEW e \in LiveEngines
        PROVE  engine[e].tables = SerialState(engine[e].seen)
    <3>1. e \in Workers /\ engine[e].users # {}
      BY <2>1 DEF LiveEngines
    <3>2. GoodEngine(StartTable, file.recs, engine[e])
      BY <1>1, <3>1 DEF TxInv, EngineInv
    <3> QED BY <3>1, <3>2 DEF GoodEngine, SerialState
  <2> QED BY <2>1 DEF EngineIsSerialState
<1> QED BY <1>1, TransactionInvariance, PTL
-----------------------------------------------------------------------------
\* Rows by key.

\* A finite set of rows that no key has two of.
KeyedRows(set) ==
    /\ IsFiniteSet(set)
    /\ \A r \in set : r[1] \in Nat
    /\ \A r, q \in set : r[1] = q[1] => r = q

\* The sequence lists the set by ascending key.
Lists(s, set) ==
    /\ s \in Seq(set)
    /\ \A i, j \in 1 .. Len(s) : i < j => s[i][1] < s[j][1]
    /\ \A r \in set : \E i \in 1 .. Len(s) : s[i] = r

\* Its elements are the set's.
LEMMA ListElements ==
    ASSUME NEW set, NEW s, Lists(s, set)
    PROVE  s \in Seq(set) /\ Len(s) \in Nat /\ \A i \in 1 .. Len(s) : s[i] \in set
BY DEF Lists

\* Of two lists of one set, neither leaves the other first: whoever goes on
\* after a common beginning goes on with the smaller key.
LEMMA ListsShare ==
    ASSUME NEW set, KeyedRows(set), NEW s, NEW t, Lists(s, set), Lists(t, set),
           NEW n \in Nat, n < Len(s), \A i \in 1 .. n : i <= Len(t) /\ s[i] = t[i]
    PROVE  n < Len(t) /\ t[n + 1][1] <= s[n + 1][1]
<1>1. /\ s \in Seq(set) /\ t \in Seq(set) /\ Len(s) \in Nat /\ Len(t) \in Nat
      /\ \A i \in 1 .. Len(s) : s[i] \in set
      /\ \A i \in 1 .. Len(t) : t[i] \in set
  BY ListElements
<1>2. n + 1 \in 1 .. Len(s) /\ s[n + 1] \in set
  BY <1>1
<1>3. PICK j \in 1 .. Len(t) : t[j] = s[n + 1]
  BY <1>2 DEF Lists
<1>4. j > n
  <2>1. SUFFICES ASSUME j <= n PROVE FALSE
    BY <1>1
  <2>2. j \in 1 .. n /\ j \in 1 .. Len(s) /\ j < n + 1
    BY <2>1, <1>1
  <2>3. s[j] = s[n + 1]
    BY <1>3, <2>2
  <2>4. s[j][1] < s[n + 1][1] /\ s[n + 1][1] \in Nat
    BY <1>2, <2>2 DEF Lists, KeyedRows
  <2> QED BY <2>3, <2>4
<1>5. n + 1 \in 1 .. Len(t) /\ n + 1 <= j
  BY <1>1, <1>4
<1>6. CASE j = n + 1
  BY <1>1, <1>2, <1>3, <1>5, <1>6 DEF KeyedRows
<1>7. CASE n + 1 < j
  <2>1. t[n + 1][1] < t[j][1] /\ t[n + 1][1] \in Nat /\ t[j][1] \in Nat
    BY <1>1, <1>5, <1>7 DEF Lists, KeyedRows
  <2> QED BY <1>3, <1>5, <2>1
<1> QED BY <1>5, <1>6, <1>7

\* There is one list of a set.
LEMMA ListsAreOne ==
    ASSUME NEW set, KeyedRows(set), NEW s, NEW t, Lists(s, set), Lists(t, set)
    PROVE  s = t
<1>1. /\ s \in Seq(set) /\ t \in Seq(set) /\ Len(s) \in Nat /\ Len(t) \in Nat
      /\ \A i \in 1 .. Len(s) : s[i] \in set
      /\ \A i \in 1 .. Len(t) : t[i] \in set
  BY DEF Lists
<1> DEFINE D == {n \in Nat : n <= Len(s) => \A i \in 1 .. n : i <= Len(t) /\ s[i] = t[i]}
           E == {n \in Nat : n <= Len(t) => \A i \in 1 .. n : i <= Len(s) /\ s[i] = t[i]}
<1>2. D = Nat
  <2>1. 0 \in D
    OBVIOUS
  <2>2. ASSUME NEW n \in D PROVE n + 1 \in D
    <3>1. SUFFICES ASSUME n + 1 <= Len(s)
                   PROVE  n + 1 <= Len(t) /\ s[n + 1] = t[n + 1]
      <4>1. ASSUME NEW i \in 1 .. n + 1, i # n + 1 PROVE i \in 1 .. n
        BY <4>1
      <4>2. n \in Nat /\ (n + 1 <= Len(s) => n <= Len(s))
        BY <1>1
      <4> QED BY <4>1, <4>2
    <3>2. n \in Nat /\ n < Len(s) /\ \A i \in 1 .. n : i <= Len(t) /\ s[i] = t[i]
      BY <1>1, <3>1
    <3>3. n < Len(t) /\ t[n + 1][1] <= s[n + 1][1]
      BY <3>2, ListsShare
    <3>4. \A i \in 1 .. n : i <= Len(s) /\ t[i] = s[i]
      BY <1>1, <3>2
    <3>5. s[n + 1][1] <= t[n + 1][1]
      BY <3>2, <3>3, <3>4, ListsShare
    <3>6. s[n + 1] \in set /\ t[n + 1] \in set
      BY <1>1, <3>2, <3>3
    <3>7. s[n + 1][1] \in Nat /\ t[n + 1][1] \in Nat
      BY <3>6 DEF KeyedRows
    <3>8. s[n + 1] = t[n + 1]
      BY <3>3, <3>5, <3>6, <3>7 DEF KeyedRows
    <3> QED BY <1>1, <3>2, <3>3, <3>8
  <2> HIDE DEF D
  <2> QED BY <2>1, <2>2, NatSetInduction DEF D
<1>3. \A i \in 1 .. Len(s) : i <= Len(t) /\ s[i] = t[i]
  BY <1>1, <1>2
<1>4. Len(s) = Len(t)
  <2>1. SUFFICES ASSUME Len(s) < Len(t) PROVE FALSE
    <3>1. Len(s) > 0 => Len(s) <= Len(t)
      BY <1>1, <1>3
    <3> QED BY <1>1, <2>1, <3>1
  <2>2. \A i \in 1 .. Len(s) : i <= Len(s) /\ t[i] = s[i]
    BY <1>1, <1>3
  <2> QED BY <1>1, <2>1, <2>2, ListsShare
<1> QED BY <1>1, <1>3, <1>4

\* A list of a set is as long as the set is large, and there is one.
LEMMA ListExists ==
    ASSUME NEW set, KeyedRows(set)
    PROVE  \E s : Lists(s, set) /\ Len(s) = Cardinality(set)
<1> DEFINE Is(n) == \A q \in SUBSET set : Cardinality(q) = n =>
                       \E s : Lists(s, q) /\ Len(s) = n
           D == {n \in Nat : Is(n)}
<1>0. IsFiniteSet(set) /\ Cardinality(set) \in Nat
  BY FS_CardinalityType DEF KeyedRows
<1>1. ASSUME NEW q \in SUBSET set
      PROVE  IsFiniteSet(q) /\ Cardinality(q) \in Nat /\ KeyedRows(q)
  BY <1>0, FS_Subset, FS_CardinalityType DEF KeyedRows
<1>2. 0 \in D
  <2>1. ASSUME NEW q \in SUBSET set, Cardinality(q) = 0
        PROVE  \E s : Lists(s, q) /\ Len(s) = 0
    <3>1. q = {}
      BY <1>1, <2>1, FS_EmptySet
    <3>2. Lists(<< >>, q)
      BY <3>1 DEF Lists
    <3> QED BY <3>2
  <2> QED BY <2>1
<1>3. ASSUME NEW n \in D PROVE n + 1 \in D
  <2>1. ASSUME NEW q \in SUBSET set, Cardinality(q) = n + 1
        PROVE  \E s : Lists(s, q) /\ Len(s) = n + 1
    <3>1. IsFiniteSet(q) /\ KeyedRows(q) /\ n \in Nat
      BY <1>1
    <3>2. q # {}
      BY <2>1, <3>1, FS_EmptySet
    <3> DEFINE K == {r[1] : r \in q}
    <3>3. K \in SUBSET Nat /\ K # {}
      BY <3>1, <3>2 DEF KeyedRows
    <3>4. PICK k \in K : \A j \in K : k <= j
      BY <3>3, LeastNatural
    <3>5. PICK r \in q : r[1] = k
      OBVIOUS
    <3>6. Cardinality(q \ {r}) = n
      <4>1. IsFiniteSet(q \ {r}) /\ Cardinality(q \ {r}) = Cardinality(q) - 1
        BY <3>1, FS_RemoveElement
      <4> QED BY <2>1, <3>1, <4>1
    <3>7. PICK t : Lists(t, q \ {r}) /\ Len(t) = n
      BY <3>6
    <3> DEFINE s == [i \in 1 .. n + 1 |-> IF i = 1 THEN r ELSE t[i - 1]]
    <3>8. t \in Seq(q \ {r}) /\ \A i \in 1 .. n : t[i] \in q \ {r}
      BY <3>1, <3>7 DEF Lists
    <3>9. s \in Seq(q) /\ Len(s) = n + 1
      <4>1. \A i \in 1 .. n + 1 : s[i] \in q
        BY <3>1, <3>8
      <4>2. s \in [1 .. n + 1 -> q]
        BY <4>1
      <4> QED BY <3>1, <4>2
    <3>10. ASSUME NEW i \in 1 .. n + 1, NEW j \in 1 .. n + 1, i < j
           PROVE  s[i][1] < s[j][1]
      <4>1. j - 1 \in 1 .. n /\ s[j] = t[j - 1] /\ t[j - 1] \in q \ {r}
        BY <3>1, <3>8, <3>10
      <4>2. CASE i = 1
        <5>1. k <= t[j - 1][1] /\ t[j - 1][1] \in Nat /\ k \in Nat
          BY <3>1, <3>3, <3>4, <4>1 DEF KeyedRows
        <5>2. t[j - 1][1] # k
          BY <3>1, <3>5, <4>1 DEF KeyedRows
        <5> QED BY <3>5, <4>1, <4>2, <5>1, <5>2
      <4>3. CASE i # 1
        <5>1. i - 1 \in 1 .. n /\ s[i] = t[i - 1] /\ i - 1 < j - 1
          BY <3>1, <3>10, <4>3
        <5> QED BY <3>7, <4>1, <5>1 DEF Lists
      <4> QED BY <4>2, <4>3
    <3>11. ASSUME NEW x \in q PROVE \E i \in 1 .. n + 1 : s[i] = x
      <4>1. CASE x = r
        BY <3>1, <4>1
      <4>2. CASE x # r
        <5>1. PICK i \in 1 .. n : t[i] = x
          BY <3>7, <4>2 DEF Lists
        <5>2. i + 1 \in 1 .. n + 1 /\ s[i + 1] = x
          BY <3>1, <5>1
        <5> QED BY <5>2
      <4> QED BY <4>1, <4>2
    <3> HIDE DEF s
    <3>12. Lists(s, q)
      BY <3>9, <3>10, <3>11 DEF Lists
    <3> QED BY <3>9, <3>12
  <2> QED BY <2>1
<1>4. D = Nat
  <2> HIDE DEF Is
  <2> QED BY <1>2, <1>3, NatSetInduction
<1> QED BY <1>0, <1>4

\* InKeyOrder is that list.
LEMMA InKeyOrderLists ==
    ASSUME NEW set, KeyedRows(set)
    PROVE  Lists(InKeyOrder(set), set)
<1> DEFINE N == Cardinality(set)
           Ok(s) == /\ \A i, j \in DOMAIN s : i < j => s[i][1] <= s[j][1]
                    /\ \A r \in set : \E i \in DOMAIN s : s[i] = r
<1>1. IsFiniteSet(set) /\ N \in Nat
  BY FS_CardinalityType DEF KeyedRows
<1>2. \E s \in [1 .. N -> set] : Ok(s)
  <2>1. PICK s : Lists(s, set) /\ Len(s) = N
    BY ListExists
  <2>2. s \in [1 .. N -> set] /\ DOMAIN s = 1 .. N /\ \A i \in 1 .. N : s[i] \in set
    BY <1>1, <2>1 DEF Lists
  <2>3. \A i, j \in 1 .. N : i < j => s[i][1] <= s[j][1]
    BY <2>1, <2>2 DEF Lists, KeyedRows
  <2>4. \A r \in set : \E i \in 1 .. N : s[i] = r
    BY <2>1, <2>2 DEF Lists
  <2>5. Ok(s)
    BY <2>2, <2>3, <2>4
  <2> QED BY <2>2, <2>5
<1> DEFINE o == InKeyOrder(set)
<1>3. o \in [1 .. N -> set] /\ Ok(o)
  <2> HIDE DEF N, o
  <2>1. o = CHOOSE s \in [1 .. N -> set] : Ok(s)
    BY DEF InKeyOrder, o, N
  <2> HIDE DEF Ok
  <2> QED BY <1>2, <2>1, Zenon
<1> HIDE DEF o
<1>4. o \in Seq(set) /\ Len(o) = N /\ DOMAIN o = 1 .. N /\ \A i \in 1 .. N : o[i] \in set
  BY <1>1, <1>3
<1>5. \A i, j \in 1 .. N : i # j => o[i] # o[j]
  <2>1. IsFiniteSet(1 .. N) /\ Cardinality(1 .. N) = Cardinality(set)
    BY <1>1, FS_Interval
  <2>2. o \in Surjection(1 .. N, set)
    BY <1>3 DEF Surjection
  <2>3. o \in Injection(1 .. N, set)
    BY <2>1, <2>2, FS_SurjSameCardinalityImpliesInj
  <2> QED BY <2>3 DEF Injection, IsInjective
<1>6. ASSUME NEW i \in 1 .. N, NEW j \in 1 .. N, i < j PROVE o[i][1] < o[j][1]
  <2>1. o[i] # o[j] /\ o[i] \in set /\ o[j] \in set /\ o[i][1] <= o[j][1]
    BY <1>3, <1>4, <1>5, <1>6
  <2> QED BY <2>1 DEF KeyedRows
<1>7. \A r \in set : \E i \in 1 .. N : o[i] = r
  BY <1>3, <1>4
<1>8. Lists(o, set)
  BY <1>4, <1>6, <1>7 DEF Lists
<1> QED BY <1>8 DEF o

\* A sequence of rows lists no other set than its own.
LEMMA ListedSet ==
    ASSUME NEW s, NEW set, Lists(s, set)
    PROVE  ToSet(s) = set
BY DEF Lists, ToSet

\* The rows kept of a list of a set list the wanted ones.
LEMMA FilteredLists ==
    ASSUME NEW set, KeyedRows(set), NEW s, Lists(s, set), NEW wanted
    PROVE  Lists(Filtered(s, wanted), set \cap wanted)
<1> DEFINE N == Len(s)
           Step(g, i) == IF s[i] \in wanted THEN Append(g[i - 1], s[i]) ELSE g[i - 1]
           Def(g, m) == g = [i \in 0 .. m |-> IF i = 0 THEN << >> ELSE Step(g, i)]
           kept == CHOOSE g : Def(g, N)
           S == {m \in Nat : \E g : Def(g, m)}
<1>0. N \in Nat /\ s \in Seq(set) /\ \A i \in 1 .. N : s[i] \in set
  BY DEF Lists
<1> HIDE DEF N
<1>1. S = Nat
  <2>1. 0 \in S
    <3>1. Def([i \in 0 .. 0 |-> << >>], 0)
      OBVIOUS
    <3> QED BY <3>1
  <2>2. ASSUME NEW m \in S PROVE m + 1 \in S
    <3>2. PICK g : Def(g, m)
      OBVIOUS
    <3> DEFINE h == [i \in 0 .. m + 1 |-> IF i = m + 1 THEN Step(g, i) ELSE g[i]]
    <3>3. Def(h, m + 1)
      <4>1. ASSUME NEW i \in 0 .. m + 1
            PROVE  h[i] = (IF i = 0 THEN << >> ELSE Step(h, i))
        <5>1. CASE i = 0
          BY <3>2, <5>1
        <5>2. CASE i \in 1 .. m
          <6>1. i \in 0 .. m /\ i - 1 \in 0 .. m /\ i # m + 1 /\ i - 1 # m + 1 /\ i # 0
            BY <5>2
          <6>2. g[i] = Step(g, i)
            BY <3>2, <6>1
          <6>3. h[i] = g[i] /\ h[i - 1] = g[i - 1]
            BY <6>1
          <6> QED BY <6>1, <6>2, <6>3
        <5>3. CASE i = m + 1
          <6>1. i - 1 \in 0 .. m + 1 /\ i - 1 # m + 1 /\ i # 0
            BY <5>3
          <6>2. h[i - 1] = g[i - 1] /\ h[i] = Step(g, i)
            BY <5>3, <6>1
          <6> QED BY <6>1, <6>2
        <5> QED BY <5>1, <5>2, <5>3
      <4> DEFINE v(i) == IF i = 0 THEN << >> ELSE Step(h, i)
      <4>2. h = [i \in 0 .. m + 1 |-> h[i]]
        OBVIOUS
      <4>3. \A i \in 0 .. m + 1 : h[i] = v(i)
        BY <4>1
      <4> HIDE DEF h, v
      <4>4. h = [i \in 0 .. m + 1 |-> v(i)]
        BY <4>2, <4>3
      <4> QED BY <4>4 DEF v
    <3> HIDE DEF h
    <3> QED BY <3>3
  <2> HIDE DEF S
  <2> QED BY <2>1, <2>2, NatSetInduction DEF S
<1>2. Def(kept, N)
  <2>1. \E g : Def(g, N)
    <3>1. N \in S
      BY <1>0, <1>1
    <3> QED BY <3>1
  <2> HIDE DEF Def
  <2> QED BY <2>1, Zenon
<1>3. Filtered(s, wanted) = kept[N]
  BY Zenon DEF Filtered, N
<1> HIDE DEF kept
<1>4. kept[0] = << >> /\ \A i \in 1 .. N : kept[i] = Step(kept, i)
  <2> DEFINE v(i) == IF i = 0 THEN << >> ELSE Step(kept, i)
  <2>1. kept = [i \in 0 .. N |-> v(i)]
    BY <1>2
  <2> HIDE DEF v
  <2>2. 0 \in 0 .. N /\ \A i \in 1 .. N : i \in 0 .. N /\ i # 0
    BY <1>0
  <2>3. kept[0] = v(0) /\ \A i \in 1 .. N : kept[i] = v(i)
    BY <2>1, <2>2
  <2> QED BY <2>2, <2>3 DEF v
\* The rows kept of the first m are in order and none is above the last read.
<1> DEFINE Part(m) == {s[i] : i \in 1 .. m} \cap wanted
           R == {m \in Nat : m <= N => Lists(kept[m], Part(m))}
<1>5. R = Nat
  <2>1. 0 \in R
    <3>1. Lists(<< >>, {})
      BY DEF Lists
    <3>2. Part(0) = {}
      OBVIOUS
    <3> HIDE DEF Part
    <3> QED BY <1>4, <3>1, <3>2
  <2>2. ASSUME NEW m \in R PROVE m + 1 \in R
    <3>1. SUFFICES ASSUME m + 1 <= N PROVE Lists(kept[m + 1], Part(m + 1))
      OBVIOUS
    <3>2. m \in Nat /\ m + 1 \in 1 .. N /\ Lists(kept[m], Part(m))
      BY <1>0, <3>1
    <3>3. kept[m + 1] = IF s[m + 1] \in wanted THEN Append(kept[m], s[m + 1]) ELSE kept[m]
      BY <1>4, <3>2
    <3>4. {s[i] : i \in 1 .. m + 1} = {s[i] : i \in 1 .. m} \cup {s[m + 1]}
      <4>1. \A i \in 1 .. m + 1 : i \in 1 .. m \/ i = m + 1
        BY <3>2
      <4>2. \A i \in 1 .. m : i \in 1 .. m + 1
        BY <3>2
      <4>3. m + 1 \in 1 .. m + 1
        BY <3>2
      <4> QED BY <4>1, <4>2, <4>3
    <3>5. CASE s[m + 1] \notin wanted
      <4>1. Part(m + 1) = Part(m)
        BY <3>4, <3>5
      <4> HIDE DEF Part
      <4> QED BY <3>2, <3>3, <3>5, <4>1
    <3>6. CASE s[m + 1] \in wanted
      <4> DEFINE k == kept[m]
                 n == Len(k)
                 a == Append(k, s[m + 1])
      <4>1. Part(m + 1) = Part(m) \cup {s[m + 1]}
        BY <3>4, <3>6
      <4>2. \A r \in Part(m) : r[1] < s[m + 1][1]
        <5>1. ASSUME NEW i \in 1 .. m PROVE s[i][1] < s[m + 1][1]
          <6>1. i \in 1 .. N /\ i < m + 1
            BY <1>0, <3>2
          <6> QED BY <3>2, <6>1 DEF Lists, N
        <5> QED BY <5>1
      <4> HIDE DEF Part
      <4>3. k \in Seq(Part(m)) /\ n \in Nat /\ \A i \in 1 .. n : k[i] \in Part(m)
        BY <3>2 DEF Lists
      <4>4. k \in Seq(Part(m + 1))
        BY <4>1, <4>3
      <4>5. /\ a \in Seq(Part(m + 1)) /\ Len(a) = n + 1
            /\ a[n + 1] = s[m + 1] /\ \A i \in 1 .. n : a[i] = k[i]
        BY <4>1, <4>3, <4>4
      <4> HIDE DEF a, n
      <4>6. ASSUME NEW i \in 1 .. n + 1, NEW j \in 1 .. n + 1, i < j
            PROVE  a[i][1] < a[j][1]
        <5>1. i \in 1 .. n
          BY <4>3, <4>6
        <5>2. CASE j = n + 1
          BY <4>2, <4>3, <4>5, <5>1, <5>2
        <5>3. CASE j # n + 1
          <6>1. j \in 1 .. n
            BY <4>3, <5>3
          <6>2. k[i][1] < k[j][1]
            BY <3>2, <4>6, <5>1, <6>1 DEF Lists, n
          <6> QED BY <4>5, <5>1, <6>1, <6>2
        <5> QED BY <5>2, <5>3
      <4>7. ASSUME NEW r \in Part(m + 1) PROVE \E i \in 1 .. n + 1 : a[i] = r
        <5>1. CASE r = s[m + 1]
          BY <4>3, <4>5, <5>1
        <5>2. CASE r \in Part(m)
          <6>1. PICK i \in 1 .. n : k[i] = r
            BY <3>2, <5>2 DEF Lists, n
          <6>2. i \in 1 .. n + 1
            BY <4>3
          <6> QED BY <4>5, <6>1, <6>2
        <5> QED BY <4>1, <5>1, <5>2
      <4>8. Lists(a, Part(m + 1))
        BY <4>5, <4>6, <4>7 DEF Lists
      <4> QED BY <3>3, <3>6, <4>8 DEF a
    <3> QED BY <3>5, <3>6
  <2> HIDE DEF R
  <2> QED BY <2>1, <2>2, NatSetInduction DEF R
<1>6. Part(N) = set \cap wanted
  <2>1. {s[i] : i \in 1 .. N} = set
    BY <1>0 DEF Lists, N
  <2> QED BY <2>1
<1> HIDE DEF Part
<1>7. Lists(kept[N], Part(N))
  BY <1>0, <1>5
<1> QED BY <1>3, <1>6, <1>7

\* The rows of a table, by key.
LEMMA LiveRowsKeyed ==
    ASSUME NEW t \in Tables
    PROVE  KeyedRows(LiveRows(t))
<1> DEFINE live == {k \in Keys : t[k] # Absent}
           f == [k \in live |-> <<k, t[k]>>]
<1>1. IsFiniteSet(live)
  BY KeysAreFinite, FS_Subset
<1>2. LiveRows(t) = {f[k] : k \in live}
  BY DEF LiveRows
<1>3. IsFiniteSet({f[k] : k \in live})
  <2>1. f \in Surjection(live, {f[k] : k \in live})
    BY DEF Surjection
  <2> HIDE DEF live, f
  <2> QED BY <1>1, <2>1, FS_Surjection
<1>4. \A r \in LiveRows(t) : r[1] \in Nat /\ r = <<r[1], t[r[1]]>>
  BY CellsAreNumbers DEF LiveRows
<1>5. \A r, q \in LiveRows(t) : r[1] = q[1] => r = q
  BY <1>4
<1> QED BY <1>2, <1>3, <1>4, <1>5 DEF KeyedRows

\* Some of them, too.
LEMMA SomeRowsKeyed ==
    ASSUME NEW t \in Tables, NEW set \in SUBSET LiveRows(t)
    PROVE  KeyedRows(set)
BY LiveRowsKeyed, FS_Subset DEF KeyedRows

\* A scan for some rows and a lookup of them give the same sequence.
LEMMA ScanIsLookup ==
    ASSUME NEW t \in Tables, NEW set \in SUBSET LiveRows(t)
    PROVE  /\ Filtered(RowsOf(t), set) = InKeyOrder(set)
           /\ ToSet(Filtered(RowsOf(t), set)) = set
<1>1. KeyedRows(LiveRows(t)) /\ KeyedRows(set)
  BY LiveRowsKeyed, SomeRowsKeyed
<1>2. Lists(RowsOf(t), LiveRows(t)) /\ Lists(InKeyOrder(set), set)
  BY <1>1, InKeyOrderLists DEF RowsOf
<1>3. Lists(Filtered(RowsOf(t), set), LiveRows(t) \cap set)
  BY <1>1, <1>2, FilteredLists
<1>4. LiveRows(t) \cap set = set
  OBVIOUS
<1>5. Lists(Filtered(RowsOf(t), set), set)
  BY <1>3, <1>4
<1> QED BY <1>1, <1>2, <1>5, ListsAreOne, ListedSet

\* The rows of a table that meet a condition.
Meeting(t, p) == {r \in LiveRows(t) : Matches(r[p.column], p)}

\* What matching_rows finds in the index of the table.
LEMMA IndexFinds ==
    ASSUME NEW t \in Tables, NEW p
    PROVE  MatchingRows(BuildIndex(t, p.column), p) = InKeyOrder(Meeting(t, p))
<1> DEFINE c == p.column
           ix == BuildIndex(t, c)
           With(v) == {r \in LiveRows(t) : r[c] = v}
           vs == {v \in DOMAIN ix : Matches(v, p)}
<1>1. DOMAIN ix = {r[c] : r \in LiveRows(t)}
  BY DEF BuildIndex
<1>2. ASSUME NEW v \in DOMAIN ix PROVE ToSet(ix[v]) = With(v)
  <2>1. ix[v] = Filtered(RowsOf(t), With(v))
    BY <1>2 DEF BuildIndex
  <2>2. With(v) \in SUBSET LiveRows(t)
    OBVIOUS
  <2> HIDE DEF With
  <2> QED BY <2>1, <2>2, ScanIsLookup
<1>3. {ToSet(ix[v]) : v \in vs} = {With(v) : v \in vs}
  <2>1. \A v \in vs : ToSet(ix[v]) = With(v)
    BY <1>2
  <2> HIDE DEF With, ix, vs
  <2> QED BY <2>1
<1>4. UNION {With(v) : v \in vs} = Meeting(t, p)
  <2>1. ASSUME NEW r \in Meeting(t, p) PROVE \E v \in vs : r \in With(v)
    <3>1. r \in LiveRows(t) /\ Matches(r[c], p)
      BY DEF Meeting
    <3>2. r[c] \in vs /\ r \in With(r[c])
      BY <1>1, <3>1
    <3> QED BY <3>2
  <2>2. ASSUME NEW v \in vs, NEW r \in With(v) PROVE r \in Meeting(t, p)
    BY DEF Meeting
  <2> HIDE DEF With, vs
  <2> QED BY <2>1, <2>2
<1>5. MatchingRows(ix, p) = InKeyOrder(UNION {ToSet(ix[v]) : v \in vs})
  BY DEF MatchingRows
<1> HIDE DEF With, ix, vs
<1>6. MatchingRows(ix, p) = InKeyOrder(Meeting(t, p))
  BY <1>3, <1>4, <1>5
<1> QED BY <1>6 DEF ix, c

\* Every index a registration or a commit leaves is the index of the table.
Indexed(t, indexes) ==
    /\ DOMAIN indexes \subseteq Columns
    /\ \A c \in DOMAIN indexes : indexes[c] = BuildIndex(t, c)

\* The rows that meet every condition of a query, or any of them.
AllMeeting(t, ps) == {r \in LiveRows(t) : MeetsAll(r, ps)}
AnyMeeting(t, ps) == {r \in LiveRows(t) : MeetsAny(r, ps)}

\* One predicate: through the index, or by the scan if there is none.
LEMMA ExecuteIsScan ==
    ASSUME NEW t \in Tables, NEW indexes, Indexed(t, indexes), NEW p, NEW proj
    PROVE  Execute(t, indexes, p, proj) = Scan(t, p, proj)
<1>1. CASE p.column \notin DOMAIN indexes
  BY <1>1 DEF Execute
<1>2. CASE p.column \in DOMAIN indexes
  <2>1. p.column \in Columns /\ indexes[p.column] = BuildIndex(t, p.column)
    BY <1>2 DEF Indexed
  <2>2. Execute(t, indexes, p, proj) = ExecuteCompare(BuildIndex(t, p.column), p, proj)
    BY <1>2, <2>1 DEF Execute
  <2>3. Prepares(<<p>>, proj) <=> (ResolveProjection(proj) # Refused /\ p.value # Text)
    <3>1. <<p>> # << >> /\ DOMAIN <<p>> = {1} /\ <<p>>[1] = p
      OBVIOUS
    <3> QED BY <2>1, <3>1 DEF Prepares, Resolves
  <2>4. AllMeeting(t, <<p>>) = Meeting(t, p)
    <3>1. DOMAIN <<p>> = {1} /\ <<p>>[1] = p
      OBVIOUS
    <3>2. \A r : MeetsAll(r, <<p>>) <=> Matches(r[p.column], p)
      BY <3>1 DEF MeetsAll
    <3> QED BY <3>2 DEF AllMeeting, Meeting
  <2>5. Meeting(t, p) \in SUBSET LiveRows(t)
    BY DEF Meeting
  <2>6. MatchingRows(BuildIndex(t, p.column), p) = Filtered(RowsOf(t), AllMeeting(t, <<p>>))
    BY <2>4, <2>5, IndexFinds, ScanIsLookup
  <2>7. ExecuteCompare(BuildIndex(t, p.column), p, proj)
           = IF ~Prepares(<<p>>, proj) THEN Refused
             ELSE Projected(MatchingRows(BuildIndex(t, p.column), p),
                            ResolveProjection(proj))
    BY <2>3 DEF ExecuteCompare
  <2>8. Scan(t, p, proj) = IF ~Prepares(<<p>>, proj) THEN Refused
                           ELSE Projected(Filtered(RowsOf(t), AllMeeting(t, <<p>>)),
                                          ResolveProjection(proj))
    BY DEF Scan, ScanAll, AllMeeting
  <2> QED BY <2>2, <2>6, <2>7, <2>8
<1> QED BY <1>1, <1>2

\* A conjunction: the driver finds a superset, the filter the rest.
LEMMA ConjunctiveIsScan ==
    ASSUME NEW t \in Tables, NEW indexes, Indexed(t, indexes),
           NEW ps \in Seq(Condition), NEW proj
    PROVE  ExecuteConjunctive(t, indexes, ps, proj) = ScanAll(t, ps, proj)
<1> DEFINE drivers == Drivers(indexes, ps)
           driver == CHOOSE i \in drivers : \A j \in drivers : i <= j
           p == ps[driver]
           found == Driven(indexes, p)
<1>1. CASE ~Prepares(ps, proj)
  BY <1>1 DEF ExecuteConjunctive, ScanAll
<1>2. CASE Prepares(ps, proj) /\ drivers = {}
  BY <1>2 DEF ExecuteConjunctive
<1>3. CASE Prepares(ps, proj) /\ drivers # {}
  <2>1. drivers \in SUBSET Nat /\ drivers \subseteq DOMAIN ps
    BY DEF Drivers
  <2>2. \E i \in drivers : \A j \in drivers : i <= j
    <3> HIDE DEF drivers
    <3> QED BY <1>3, <2>1, LeastNatural
  <2>3. driver \in drivers
    <3> HIDE DEF drivers
    <3> QED BY <2>2, Zenon
  <2>4. driver \in DOMAIN ps /\ p.column \in DOMAIN indexes
    <3> HIDE DEF driver
    <3> QED BY <2>3 DEF Drivers
  <2>5. ExecuteConjunctive(t, indexes, ps, proj)
           = Projected(Filtered(found, {r \in ToSet(found) : MeetsAll(r, ps)}),
                       ResolveProjection(proj))
    BY <1>3 DEF ExecuteConjunctive
  <2> HIDE DEF drivers, driver, p, found
  <2>6. found = InKeyOrder(Meeting(t, p))
    BY <2>4, IndexFinds DEF found, Driven, Indexed
  <2>7. KeyedRows(Meeting(t, p)) /\ Meeting(t, p) \in SUBSET LiveRows(t)
    BY SomeRowsKeyed DEF Meeting
  <2>8. Lists(found, Meeting(t, p)) /\ ToSet(found) = Meeting(t, p)
    BY <2>6, <2>7, InKeyOrderLists, ListedSet
  <2> DEFINE wanted == {r \in ToSet(found) : MeetsAll(r, ps)}
  <2>9. Meeting(t, p) \cap wanted = AllMeeting(t, ps)
    <3>1. ASSUME NEW r \in AllMeeting(t, ps) PROVE r \in Meeting(t, p)
      BY <2>4 DEF AllMeeting, Meeting, MeetsAll, p
    <3>2. ASSUME NEW r \in Meeting(t, p), MeetsAll(r, ps) PROVE r \in AllMeeting(t, ps)
      BY <3>2 DEF AllMeeting, Meeting
    <3>3. \A r \in AllMeeting(t, ps) : MeetsAll(r, ps)
      BY DEF AllMeeting
    <3> QED BY <2>8, <3>1, <3>2, <3>3
  <2> HIDE DEF wanted
  <2>10. Lists(Filtered(found, wanted), AllMeeting(t, ps))
    BY <2>7, <2>8, <2>9, FilteredLists
  <2>11. AllMeeting(t, ps) \in SUBSET LiveRows(t)
    BY DEF AllMeeting
  <2>12. Lists(InKeyOrder(AllMeeting(t, ps)), AllMeeting(t, ps))
    BY <2>11, SomeRowsKeyed, InKeyOrderLists
  <2>13. Filtered(found, wanted) = InKeyOrder(AllMeeting(t, ps))
    BY <2>10, <2>11, <2>12, SomeRowsKeyed, ListsAreOne
  <2>14. Filtered(found, wanted) = Filtered(RowsOf(t), AllMeeting(t, ps))
    BY <2>11, <2>13, ScanIsLookup
  <2>15. ScanAll(t, ps, proj) = Projected(Filtered(RowsOf(t), AllMeeting(t, ps)),
                                         ResolveProjection(proj))
    BY <1>3 DEF ScanAll, AllMeeting
  <2> QED BY <2>5, <2>14, <2>15 DEF wanted
<1> QED BY <1>1, <1>2, <1>3

\* A projection of all columns is the row itself.
LEMMA AllColumns ==
    ASSUME NEW t \in Tables, NEW set \in SUBSET LiveRows(t)
    PROVE  ToSet(Projected(InKeyOrder(set), ResolveProjection(All))) = set
<1>1. Lists(InKeyOrder(set), set)
  BY SomeRowsKeyed, InKeyOrderLists
<1> DEFINE s == InKeyOrder(set)
<1>2. s \in Seq(set) /\ ToSet(s) = set /\ \A i \in DOMAIN s : s[i] \in set
  BY <1>1, ListedSet, ListElements
<1>3. ResolveProjection(All) = <<1, 2>>
  BY DEF ResolveProjection
<1>4. ASSUME NEW r \in set PROVE ProjectRow(r, <<1, 2>>) = r
  <2>1. PICK k : r = <<k, t[k]>>
    BY DEF LiveRows
  <2>2. DOMAIN <<1, 2>> = {1, 2} /\ <<1, 2>>[1] = 1 /\ <<1, 2>>[2] = 2
    OBVIOUS
  <2>3. ProjectRow(r, <<1, 2>>) = [i \in {1, 2} |-> r[i]]
    BY <2>2 DEF ProjectRow
  <2>4. r = [i \in {1, 2} |-> r[i]]
    BY <2>1
  <2> QED BY <2>3, <2>4
<1> HIDE DEF s
<1>5. Projected(s, <<1, 2>>) = s
  <2>1. Projected(s, <<1, 2>>) = [i \in DOMAIN s |-> s[i]]
    BY <1>2, <1>4 DEF Projected
  <2> QED BY <1>2, <2>1
<1> QED BY <1>2, <1>3, <1>5 DEF s

\* A disjunction: the union of what its predicates find one by one.
LEMMA DisjunctiveIsScan ==
    ASSUME NEW t \in Tables, NEW indexes, Indexed(t, indexes),
           NEW ps \in Seq(Condition), NEW proj
    PROVE  ExecuteDisjunctive(t, indexes, ps, proj) = ScanAny(t, ps, proj)
<1>1. CASE ~Prepares(ps, proj)
  BY <1>1 DEF ExecuteDisjunctive, ScanAny
<1>2. CASE Prepares(ps, proj)
  <2> DEFINE Found(i) == ToSet(Execute(t, indexes, ps[i], All))
  <2>1. ASSUME NEW i \in DOMAIN ps PROVE Found(i) = Meeting(t, ps[i])
    <3>1. Execute(t, indexes, ps[i], All) = ScanAll(t, <<ps[i]>>, All)
      BY ExecuteIsScan DEF Scan
    <3>2. DOMAIN <<ps[i]>> = {1} /\ <<ps[i]>>[1] = ps[i] /\ <<ps[i]>> # << >>
      OBVIOUS
    <3>3. ResolveProjection(All) # Refused
      BY RefusedIsNoProjection DEF ResolveProjection
    <3>4. Prepares(<<ps[i]>>, All)
      BY <1>2, <3>2, <3>3 DEF Prepares
    <3>5. {r \in LiveRows(t) : MeetsAll(r, <<ps[i]>>)} = Meeting(t, ps[i])
      BY <3>2 DEF MeetsAll, Meeting
    <3>6. Execute(t, indexes, ps[i], All)
             = Projected(Filtered(RowsOf(t), Meeting(t, ps[i])), ResolveProjection(All))
      BY <3>1, <3>4, <3>5 DEF ScanAll
    <3>7. Meeting(t, ps[i]) \in SUBSET LiveRows(t)
      BY DEF Meeting
    <3> QED BY <3>6, <3>7, ScanIsLookup, AllColumns
  <2>2. UNION {Found(i) : i \in DOMAIN ps} = AnyMeeting(t, ps)
    <3>1. {Found(i) : i \in DOMAIN ps} = {Meeting(t, ps[i]) : i \in DOMAIN ps}
      <4> HIDE DEF Found
      <4> QED BY <2>1
    <3>2. UNION {Meeting(t, ps[i]) : i \in DOMAIN ps} = AnyMeeting(t, ps)
      BY DEF Meeting, AnyMeeting, MeetsAny
    <3> QED BY <3>1, <3>2
  <2>3. ExecuteDisjunctive(t, indexes, ps, proj)
           = Projected(InKeyOrder(UNION {Found(i) : i \in DOMAIN ps}),
                       ResolveProjection(proj))
    BY <1>2 DEF ExecuteDisjunctive
  <2>4. AnyMeeting(t, ps) \in SUBSET LiveRows(t)
    BY DEF AnyMeeting
  <2>5. Filtered(RowsOf(t), AnyMeeting(t, ps)) = InKeyOrder(AnyMeeting(t, ps))
    BY <2>4, ScanIsLookup
  <2>6. ScanAny(t, ps, proj) = Projected(Filtered(RowsOf(t), AnyMeeting(t, ps)),
                                         ResolveProjection(proj))
    BY <1>2 DEF ScanAny, AnyMeeting
  <2> HIDE DEF Found
  <2> QED BY <2>2, <2>3, <2>5, <2>6
<1> QED BY <1>1, <1>2
-----------------------------------------------------------------------------
\* Indexes in the engines.

IndexInv == \A e \in Workers : Indexed(engine[e].tables, engine[e].indexes)

\* One engine changes, and what it becomes is indexed.
LEMMA OneEngineIndexed ==
    ASSUME IndexInv, NEW e \in Workers, NEW x, Indexed(x.tables, x.indexes),
           engine = [f \in Workers |-> engine[f]],
           engine' = [engine EXCEPT ![e] = x]
    PROVE  IndexInv'
<1>1. \A f \in Workers : engine'[f] = IF f = e THEN x ELSE engine[f]
  OBVIOUS
<1> QED BY <1>1 DEF IndexInv

\* An engine without indexes is indexed.
LEMMA NoneIndexed == ASSUME NEW t PROVE Indexed(t, << >>)
BY DEF Indexed

\* The indexes of a committed engine are rebuilt from the new table.
LEMMA CommittedIndexed ==
    ASSUME NEW e, EngineType(e), e.next <= MaxTx, NEW t \in Tables \cup {NoTable}, NEW ops,
           DOMAIN e.indexes \subseteq Columns
    PROVE  Indexed(Committed(e, t, ops).tables, Committed(e, t, ops).indexes)
<1> DEFINE u == Unlocked(e)
           m == [u EXCEPT !.tables = t, !.next = @ + 1, !.seen = @ + 1]
           vs == [k \in Keys |-> IF k \in Touched(ops) THEN e.next ELSE u.versions[k]]
           ix == Rebuilt(e, t)
           c == [m EXCEPT !.versions = vs, !.indexes = ix]
<1>1. EngineType(u)
  BY UnlockedEngine
<1>2. Committed(e, t, ops) = c
  BY DEF Committed
<1> HIDE DEF u, vs, ix
<1>3. c.indexes = ix /\ c.tables = t
  BY <1>1 DEF EngineType
<1>4. Indexed(t, ix)
  BY DEF Indexed, ix, Rebuilt
<1> QED BY <1>2, <1>3, <1>4

\* Every step leaves every engine's indexes those of its table.
LEMMA StepKeepsIndexes ==
    ASSUME TxInv, IndexInv, [Next]_vars
    PROVE  IndexInv'
<1>1. /\ engine = [f \in Workers |-> engine[f]]
      /\ \A f \in Workers : EngineType(engine[f]) /\ Indexed(engine[f].tables, engine[f].indexes)
  BY DEF TxInv, EngineInv, GoodEngine, IndexInv
<1>2. CASE UNCHANGED engine
  BY <1>2 DEF IndexInv
<1>3. CASE Crash
  <2>1. NoEngine.indexes = << >>
    BY DEF NoEngine
  <2>2. \A f \in Workers : engine'[f] = NoEngine
    BY <1>3 DEF Crash
  <2> QED BY <2>1, <2>2, NoneIndexed DEF IndexInv
<1>4. ASSUME NEW w \in Workers, Open(w) PROVE IndexInv'
  <2>1. ASSUME NEW e \in LiveEngines, engine' = [engine EXCEPT ![e].users = @ \cup {w}]
        PROVE  IndexInv'
    <3> DEFINE x == [engine[e] EXCEPT !.users = @ \cup {w}]
    <3>1. e \in Workers
      BY DEF LiveEngines
    <3>2. x.tables = engine[e].tables /\ x.indexes = engine[e].indexes
      BY <1>1, <3>1 DEF EngineType
    <3>3. engine' = [engine EXCEPT ![e] = x]
      BY <2>1
    <3> HIDE DEF x
    <3> QED BY <1>1, <3>1, <3>2, <3>3, OneEngineIndexed
  <2>2. ASSUME engine' = [engine EXCEPT ![w] =
                  [NoEngine EXCEPT !.users = {w},
                                   !.tables = Replay(file.recs),
                                   !.next = Cardinality(Ids(file.recs)) + 1,
                                   !.seen = Len(file.recs)]]
        PROVE  IndexInv'
    <3> DEFINE x == [NoEngine EXCEPT !.users = {w},
                                   !.tables = Replay(file.recs),
                                   !.next = Cardinality(Ids(file.recs)) + 1,
                                   !.seen = Len(file.recs)]
    <3>1. x.indexes = << >>
      BY DEF NoEngine
    <3> HIDE DEF x
    <3>2. Indexed(x.tables, x.indexes)
      BY <3>1, NoneIndexed
    <3>3. engine' = [engine EXCEPT ![w] = x]
      BY <2>2 DEF x
    <3> QED BY <1>1, <3>2, <3>3, OneEngineIndexed
  <2> QED BY <1>4, <2>1, <2>2 DEF Open
<1>5. ASSUME NEW w \in Workers, work[w].at # "idle"
      PROVE  /\ work[w].eng \in Workers /\ Eng(w) = engine[work[w].eng]
             /\ EngineType(Eng(w)) /\ Indexed(Eng(w).tables, Eng(w).indexes)
  BY <1>1, <1>5, WorkersEngine
<1>6. ASSUME NEW w \in Workers, work[w].at # "idle", NEW x,
             x.tables = Eng(w).tables, x.indexes = Eng(w).indexes,
             engine' = [engine EXCEPT ![work[w].eng] = x]
      PROVE  IndexInv'
  BY <1>1, <1>5, <1>6, OneEngineIndexed
<1>7. ASSUME NEW w \in Workers, Close(w) PROVE IndexInv'
  <2> DEFINE x == [Eng(w) EXCEPT !.users = Eng(w).users \ {w}]
  <2>1. work[w].at # "idle"
    BY <1>7 DEF Close
  <2>2. NoEngine.indexes = << >>
    BY DEF NoEngine
  <2>3. x.tables = Eng(w).tables /\ x.indexes = Eng(w).indexes
    BY <1>5, <2>1 DEF EngineType
  <2>4. \/ engine' = [engine EXCEPT ![work[w].eng] = NoEngine]
        \/ engine' = [engine EXCEPT ![work[w].eng] = x]
    BY <1>5, <1>7, <2>1 DEF Close
  <2> HIDE DEF x
  <2>5. CASE engine' = [engine EXCEPT ![work[w].eng] = NoEngine]
    BY <1>1, <1>5, <2>1, <2>2, <2>5, NoneIndexed, OneEngineIndexed
  <2> QED BY <1>6, <2>1, <2>3, <2>4, <2>5
<1>8. ASSUME NEW w \in Workers, Lock(w) PROVE IndexInv'
  <2> DEFINE x == [Eng(w) EXCEPT !.mutex = w]
  <2>1. work[w].at # "idle"
    BY <1>8 DEF Lock
  <2>2. x.tables = Eng(w).tables /\ x.indexes = Eng(w).indexes
    BY <1>5, <2>1 DEF EngineType
  <2>3. engine' = [engine EXCEPT ![work[w].eng] = x]
    BY <1>5, <1>8, <2>1 DEF Lock
  <2> HIDE DEF x
  <2> QED BY <1>6, <2>1, <2>2, <2>3
<1> DEFINE u(w) == Unlocked(Eng(w))
           q(w) == [Unlocked(Eng(w)) EXCEPT !.poisoned = TRUE]
           l(w) == [Unlocked(Eng(w)) EXCEPT !.log = "poisoned"]
<1>9. ASSUME NEW w \in Workers, work[w].at # "idle"
      PROVE  /\ u(w).tables = Eng(w).tables /\ u(w).indexes = Eng(w).indexes
             /\ q(w).tables = Eng(w).tables /\ q(w).indexes = Eng(w).indexes
             /\ l(w).tables = Eng(w).tables /\ l(w).indexes = Eng(w).indexes
  <2>1. /\ EngineType(u(w)) /\ u(w).tables = Eng(w).tables
        /\ u(w).indexes = Eng(w).indexes
    BY <1>5, <1>9, UnlockedEngine
  <2> DEFINE v == u(w)
             v1 == [v EXCEPT !.poisoned = TRUE]
             v2 == [v EXCEPT !.log = "poisoned"]
  <2>2. /\ v1.tables = v.tables /\ v1.indexes = v.indexes
        /\ v2.tables = v.tables /\ v2.indexes = v.indexes
    <3> HIDE DEF v
    <3>1. EngineType(v)
      BY <2>1 DEF v
    <3> QED BY <3>1 DEF EngineType
  <2> QED BY <2>1, <2>2
<1>10. ASSUME NEW w \in Workers, work[w].at # "idle",
              \/ engine' = [engine EXCEPT ![work[w].eng] = u(w)]
              \/ engine' = [engine EXCEPT ![work[w].eng] = q(w)]
              \/ engine' = [engine EXCEPT ![work[w].eng] = l(w)]
       PROVE  IndexInv'
  <2> HIDE DEF u, q, l
  <2> QED BY <1>6, <1>9, <1>10
<1>11. ASSUME NEW w \in Workers, Abandon(w) \/ Panic(w) PROVE IndexInv'
  <2>1. work[w].at # "idle"
    BY <1>11 DEF Abandon, Panic
  <2>2. \/ engine' = [engine EXCEPT ![work[w].eng] = u(w)]
        \/ engine' = [engine EXCEPT ![work[w].eng] = q(w)]
        \/ engine' = [engine EXCEPT ![work[w].eng] = Eng(w)]
    BY <1>1, <1>5, <1>11, <2>1 DEF Abandon, Panic
  <2> HIDE DEF u, q, l
  <2> QED BY <1>6, <1>10, <2>1, <2>2
<1>12. ASSUME NEW w \in Workers, NEW ops \in Batches, work[w].at # "idle",
              Commit(w, ops)
       PROVE  IndexInv'
  <2> DEFINE c == Committed(Eng(w), NewTables(w, ops), ops)
  <2>1. /\ work[w].eng \in Workers /\ Eng(w) = engine[work[w].eng]
        /\ EngineType(Eng(w)) /\ Eng(w).next = Eng(w).seen + 1
    BY <1>12, WorkersEngine
  <2>2. \/ engine' = [engine EXCEPT ![work[w].eng] = u(w)]
        \/ engine' = [engine EXCEPT ![work[w].eng] = l(w)]
        \/ Accepts(w, ops) /\ InStep(w) /\ engine' = [engine EXCEPT ![work[w].eng] = c]
    BY <1>12, <2>1 DEF Commit
  <2>3. CASE Accepts(w, ops) /\ InStep(w) /\ engine' = [engine EXCEPT ![work[w].eng] = c]
    <3>1. NewTables(w, ops) \in Tables \cup {NoTable}
      <4>1. Eng(w).tables \in Tables \cup {NoTable}
        BY <2>1 DEF EngineType
      <4> QED BY <2>3, <4>1, CandidateApplied DEF Accepts, NewTables
    <3>2. Eng(w).next <= MaxTx
      <4>1. Len(file.recs) < MaxTx /\ Eng(w).seen = Len(file.recs)
        BY <1>12, <2>3 DEF Commit, InStep
      <4> QED BY <2>1, <4>1, BoundsAreNaturals DEF EngineType
    <3>3. DOMAIN Eng(w).indexes \subseteq Columns
      BY <1>5, <1>12 DEF Indexed
    <3>4. Indexed(c.tables, c.indexes)
      BY <2>1, <3>1, <3>2, <3>3, CommittedIndexed
    <3> HIDE DEF c
    <3> QED BY <1>1, <2>1, <2>3, <3>4, OneEngineIndexed
  <2> HIDE DEF u, q, l, c
  <2> QED BY <1>10, <1>12, <2>2, <2>3
<1>13. ASSUME NEW w \in Workers, NEW ops \in Batches, work[w].at # "idle",
              CommitFails(w, ops)
       PROVE  IndexInv'
  <2>1. engine' = [engine EXCEPT ![work[w].eng] = l(w)]
    BY <1>5, <1>13 DEF CommitFails
  <2> HIDE DEF u, q, l
  <2> QED BY <1>10, <1>13, <2>1
<1>14. ASSUME NEW w \in Workers, NEW c \in Columns, RegisterIndex(w, c)
       PROVE  IndexInv'
  <2> DEFINE ix == [d \in DOMAIN Eng(w).indexes \cup {c} |->
                       IF d = c THEN BuildIndex(Eng(w).tables, c) ELSE Eng(w).indexes[d]]
             x == [Eng(w) EXCEPT !.indexes = ix]
  <2>1. work[w].at # "idle"
    BY <1>14 DEF RegisterIndex
  <2>2. Indexed(Eng(w).tables, ix)
    BY <1>5, <2>1 DEF Indexed
  <2>3. engine' = [engine EXCEPT ![work[w].eng] = x]
    BY <1>5, <1>14, <2>1 DEF RegisterIndex
  <2> HIDE DEF ix
  <2>4. x.tables = Eng(w).tables /\ x.indexes = ix
    BY <1>5, <2>1 DEF EngineType
  <2> HIDE DEF x
  <2>5. Indexed(x.tables, x.indexes)
    BY <2>2, <2>4
  <2> QED BY <1>1, <1>5, <2>1, <2>3, <2>5, OneEngineIndexed
<1>15. ASSUME NEW w \in Workers, NEW rows, Snapshot(w, rows) PROVE IndexInv'
  BY <1>2, <1>15 DEF Snapshot
<1> QED BY <1>2, <1>3, <1>4, <1>7, <1>8, <1>11, <1>12, <1>13, <1>14, <1>15 DEF Next, vars

\* In every reachable state each registered index holds what building it
\* again from the engine's table would give (rebuild_indexes, register_index).
THEOREM IndexesAreCurrent == Spec => []IndexInv
<1>1. Init => IndexInv
  <2>1. ASSUME Init PROVE IndexInv
    <3>1. NoEngine.indexes = << >> /\ \A f \in Workers : engine[f] = NoEngine
      BY <2>1 DEF Init, NoEngine
    <3> QED BY <3>1, NoneIndexed DEF IndexInv
  <2> QED BY <2>1
<1>2. TxInv /\ IndexInv /\ [Next]_vars => IndexInv'
  BY StepKeepsIndexes
<1> QED BY <1>1, <1>2, TransactionInvariance, PTL DEF Spec

\* A query answered through indexes is the query answered by a scan, rows,
\* order and refusals, whatever was committed or failed since.
THEOREM IndexedAnswersAreScans == Spec => []IndexesAgree
<1>1. ASSUME TxInv, IndexInv PROVE IndexesAgree
  <2>1. ASSUME NEW e \in LiveEngines, engine[e].tables # NoTable, NEW q \in Queries
        PROVE  LET t == engine[e].tables
                   ix == engine[e].indexes
               IN  /\ Execute(t, ix, q.ps[1], q.proj) = Scan(t, q.ps[1], q.proj)
                   /\ ExecuteConjunctive(t, ix, q.ps, q.proj) = ScanAll(t, q.ps, q.proj)
                   /\ ExecuteDisjunctive(t, ix, q.ps, q.proj) = ScanAny(t, q.ps, q.proj)
    <3> DEFINE t == engine[e].tables
               ix == engine[e].indexes
    <3>1. e \in Workers
      BY DEF LiveEngines
    <3>2. EngineType(engine[e]) /\ Indexed(t, ix)
      BY <1>1, <3>1 DEF TxInv, EngineInv, GoodEngine, IndexInv
    <3>3. t \in Tables
      BY <2>1, <3>2 DEF EngineType
    <3>4. q.ps \in Seq(Condition)
      BY QueriesHaveConditions
    <3> HIDE DEF t, ix
    <3>5. /\ Execute(t, ix, q.ps[1], q.proj) = Scan(t, q.ps[1], q.proj)
          /\ ExecuteConjunctive(t, ix, q.ps, q.proj) = ScanAll(t, q.ps, q.proj)
          /\ ExecuteDisjunctive(t, ix, q.ps, q.proj) = ScanAny(t, q.ps, q.proj)
      BY <3>2, <3>3, <3>4, ExecuteIsScan, ConjunctiveIsScan, DisjunctiveIsScan
    <3> QED BY <3>5 DEF t, ix
  <2> QED BY <2>1 DEF IndexesAgree
<1> QED BY <1>1, TransactionInvariance, IndexesAreCurrent, PTL
=============================================================================
