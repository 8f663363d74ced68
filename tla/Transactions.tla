---------------------------- MODULE Transactions ----------------------------
(***************************************************************************)
(* Transactions over one append-log file: the five engines built on it     *)
(* differ in what a record holds and in what the mutex covers.             *)
(*   snapshot     every commit rewrites the whole state under one key      *)
(*   incremental  a record of mutations under the next transaction id      *)
(*   serialized   the same, threads share the engine behind a mutex        *)
(*   readwrite    the mutex is held while the transaction body runs        *)
(*   optimistic   the body runs outside the mutex; the rows it read are    *)
(*                validated by value and version when it commits           *)
(*   maintained   the relational engine with secondary indexes             *)
(* Workers are threads where the engine is shared (optimistic wrappers     *)
(* find the live engine of their path in a registry) and processes with an *)
(* engine of their own where it is not.                                    *)
(*                                                                         *)
(* A put into the log is one step: AppendLog has its steps.  What a body   *)
(* reads is the state its transaction starts from; its batch is chosen     *)
(* freely.  A record carries, as a ghost, what its transaction had read.   *)
(***************************************************************************)
EXTENDS Relational

CONSTANTS Workers,
          Engines,     \* the transaction engines under test
          Batches,     \* the operations a body may ask for
          Queries,     \* [ps, proj]: one or two conditions and a projection
          MaxLive,     \* rows that fit one record (MAX_VALUE_BYTES)
          MaxTx,       \* bound on the records in the file
          MaxFaults,   \* bound on failing appends, panics and crashes
          Nobody       \* the mutex is free

ASSUME NobodyIsNoWorker == Nobody \notin Workers
ASSUME BatchesAreOperations == Batches \subseteq Seq(Operation)
ASSUME QueriesHaveConditions == \A q \in Queries : q.ps \in Seq(Condition) \ {<< >>}
ASSUME BoundsAreNaturals == MaxTx \in Nat /\ MaxFaults \in Nat

VARIABLES
    kind,    \* the engine under test
    file,    \* the append-log file: whole records and a partial one?
    engine,  \* engine[w]: the engine worker w has opened, and its users
    work,    \* what each worker is doing, with which engine
    faults

vars == <<kind, file, engine, work, faults>>

IsRelational == kind \in {"optimistic", "maintained"}
Shares == kind \in {"serialized", "readwrite", "optimistic"}

NoEngine == [users |-> {}, tables |-> NoTable, next |-> 0, seen |-> 0,
             log |-> "ok", mutex |-> Nobody, poisoned |-> FALSE,
             versions |-> EmptyTable, indexes |-> << >>]
NoWork == [at |-> "idle", eng |-> Nobody, read |-> << >>, vers |-> << >>]

StartTable == IF IsRelational THEN NoTable ELSE EmptyTable

Init ==
    /\ kind \in Engines
    /\ file = [recs |-> << >>, tail |-> FALSE]
    /\ engine = [w \in Workers |-> NoEngine]
    /\ work = [w \in Workers |-> NoWork]
    /\ faults = 0

NoFault == UNCHANGED faults
Fault == faults < MaxFaults /\ faults' = faults + 1
-----------------------------------------------------------------------------
\* The state that n transactions, applied one after another, make of a table.
StateAfter(start, txs, n) ==
    LET state[i \in 0 .. n] ==
            IF i = 0 THEN start ELSE ApplyOps(state[i - 1], txs[i].ops)
    IN  state[n]

\* What replaying a file gives: the last snapshot, or every live transaction
\* in id order.  A later record replaces an earlier one with its id.
LastWith(recs, id) ==
    CHOOSE i \in DOMAIN recs :
        recs[i].id = id /\ \A j \in DOMAIN recs : recs[j].id = id => j <= i
Ids(recs) == {recs[i].id : i \in DOMAIN recs}
ReplaySnapshot(recs) == IF recs = << >> THEN EmptyTable ELSE Last(recs).state
ReplayTransactions(recs) ==
    LET n == Cardinality(Ids(recs))
    IN  StateAfter(StartTable, [i \in 1 .. n |-> recs[LastWith(recs, i)]], n)
Replay(recs) ==
    IF kind = "snapshot" THEN ReplaySnapshot(recs) ELSE ReplayTransactions(recs)

\* open: no id is missing.
Opens(recs) == kind = "snapshot" \/ Ids(recs) = 1 .. Cardinality(Ids(recs))

\* OPEN_STATES, and the Arc that threads of one process share.
LiveEngines == {e \in Workers : engine[e].users # {}}

\* Find the engine that is open, or open the log (which cuts a partial
\* record), replay it and start with every row at version zero.
Open(w) ==
    /\ work[w].at = "idle"
    /\ IF Shares /\ LiveEngines # {}
       THEN \E e \in LiveEngines :
               /\ engine' = [engine EXCEPT ![e].users = @ \cup {w}]
               /\ work' = [work EXCEPT ![w] = [NoWork EXCEPT !.at = "ready",
                                                             !.eng = e]]
               /\ UNCHANGED file
       ELSE /\ Opens(file.recs)
            /\ engine[w].users = {}
            /\ engine' = [engine EXCEPT ![w] =
                  [NoEngine EXCEPT !.users = {w},
                                   !.tables = Replay(file.recs),
                                   !.next = Cardinality(Ids(file.recs)) + 1,
                                   !.seen = Len(file.recs)]]
            /\ work' = [work EXCEPT ![w] = [NoWork EXCEPT !.at = "ready",
                                                          !.eng = w]]
            /\ file' = [file EXCEPT !.tail = FALSE]
    /\ NoFault
    /\ UNCHANGED kind

\* The worker drops its handle; with the last one the engine goes, and the
\* row versions with it.
Close(w) ==
    /\ work[w].at = "ready"
    /\ LET e == work[w].eng IN
          engine' = [engine EXCEPT ![e] =
                        IF @.users = {w} THEN NoEngine
                        ELSE [@ EXCEPT !.users = engine[e].users \ {w}]]
    /\ work' = [work EXCEPT ![w] = NoWork]
    /\ NoFault
    /\ UNCHANGED <<kind, file>>
-----------------------------------------------------------------------------
Eng(w) == engine[work[w].eng]

\* lock: nobody holds the mutex and no holder has panicked.
CanLock(w) == Eng(w).mutex = Nobody /\ ~Eng(w).poisoned

Resting(w) == [work[w] EXCEPT !.at = "ready", !.read = << >>, !.vers = << >>]

\* snapshot: the declared rows as they are under the mutex.  Of a table that
\* does not exist no row can be declared.
Snapshot(w, rows) ==
    /\ kind = "optimistic"
    /\ work[w].at = "ready"
    /\ CanLock(w)
    /\ Eng(w).tables = NoTable => rows = {}
    /\ work' = [work EXCEPT
          ![w].at = "body",
          ![w].read = [k \in rows |-> Eng(w).tables[k]],
          ![w].vers = [k \in rows |-> Eng(w).versions[k]]]
    /\ NoFault
    /\ UNCHANGED <<kind, file, engine>>

\* SerializableReadWriteEngine::transaction: the mutex is taken and the body
\* reads what it likes of the state behind it.
Lock(w) ==
    /\ kind = "readwrite"
    /\ work[w].at = "ready"
    /\ CanLock(w)
    /\ engine' = [engine EXCEPT ![work[w].eng].mutex = w]
    /\ work' = [work EXCEPT ![w].at = "body",
                            ![w].read = Eng(w).tables]
    /\ NoFault
    /\ UNCHANGED <<kind, file>>

\* The worker is where it may commit: under the mutex.
AtCommit(w) ==
    CASE kind = "readwrite" -> work[w].at = "body" /\ Eng(w).mutex = w
      [] kind = "optimistic" -> work[w].at = "body" /\ CanLock(w)
      [] OTHER -> work[w].at = "ready" /\ CanLock(w)

MutValidatesNothing(w) == TRUE

\* validate_snapshot: no observed row has another value or version.
Validates(w) ==
    kind = "optimistic" =>
        \A k \in DOMAIN work[w].read :
            /\ Eng(w).tables[k] = work[w].read[k]
            /\ Eng(w).versions[k] = work[w].vers[k]

\* The record must fit one value: a snapshot has an entry for every row, a
\* transaction for every row its batch writes.
EncodesSnapshot(t) == Cardinality({k \in Keys : t[k] # Absent}) <= MaxLive
EncodesTransaction(ops) ==
    Cardinality({i \in DOMAIN ops : ops[i].kind = "upsert"}) <= MaxLive
Encodes(t, ops) ==
    IF kind = "snapshot" THEN EncodesSnapshot(t) ELSE EncodesTransaction(ops)

MutLengthUnchecked(w) == TRUE

\* The log handle refuses a file that is not as long as it left it.
InStep(w) == Eng(w).seen = Len(file.recs) /\ ~file.tail

NewTables(w, ops) == Candidate(Eng(w).tables, ops)
Accepts(w, ops) ==
    Validates(w) /\ NewTables(w, ops) # Refused /\ Encodes(NewTables(w, ops), ops)

Record(w, ops) ==
    [id |-> Eng(w).next, ops |-> ops, read |-> work[w].read,
     state |-> IF kind = "snapshot" THEN NewTables(w, ops) ELSE NoTable]

Unlocked(e) == [e EXCEPT !.mutex = Nobody]

MutIndexesKept(e, t) == e.indexes

\* rebuild_indexes: every registered index from the committed state.
Rebuilt(e, t) == [c \in DOMAIN e.indexes |-> BuildIndex(t, c)]

\* The engine after a successful put of its next transaction.
Committed(e, t, ops) ==
    [Unlocked(e) EXCEPT
        !.tables = t, !.next = @ + 1, !.seen = @ + 1,
        !.versions = [k \in Keys |-> IF k \in Touched(ops) THEN e.next
                                     ELSE @[k]],
        !.indexes = Rebuilt(e, t)]

\* Validate, apply to a candidate, append one record, publish the candidate.
\* A transaction that only read, is refused or finds the log broken or moved
\* on leaves the state as it was.
Commit(w, ops) ==
    /\ AtCommit(w)
    /\ Len(file.recs) < MaxTx
    /\ LET e == work[w].eng IN
       IF ~Accepts(w, ops)
       THEN engine' = [engine EXCEPT ![e] = Unlocked(@)] /\ UNCHANGED file
       ELSE IF Eng(w).log = "ok" /\ InStep(w)
       THEN /\ file' = [file EXCEPT !.recs = Append(@, Record(w, ops))]
            /\ engine' = [engine EXCEPT ![e] =
                             Committed(@, NewTables(w, ops), ops)]
       ELSE /\ engine' = [engine EXCEPT ![e] =
                             [Unlocked(@) EXCEPT !.log = "poisoned"]]
            /\ UNCHANGED file
    /\ work' = [work EXCEPT ![w] = Resting(w)]
    /\ NoFault
    /\ UNCHANGED kind

\* What an interrupted put leaves: nothing, a partial or a whole record.
Interrupted(w, ops) ==
    \/ UNCHANGED file
    \/ file' = [file EXCEPT !.tail = TRUE]
    \/ file' = [file EXCEPT !.recs = Append(@, Record(w, ops))]

Appending(w, ops) ==
    /\ AtCommit(w)
    /\ Len(file.recs) < MaxTx
    /\ Accepts(w, ops) /\ Eng(w).log = "ok" /\ InStep(w)

MutPublishFirst(w, ops) ==
    /\ Appending(w, ops)
    /\ Fault
    /\ Interrupted(w, ops)
    /\ engine' = [engine EXCEPT ![work[w].eng] =
                     [Unlocked(@) EXCEPT !.log = "poisoned",
                                         !.tables = NewTables(w, ops)]]
    /\ work' = [work EXCEPT ![w] = Resting(w)]
    /\ UNCHANGED kind

\* The put fails: the log handle is poisoned, the engine's state is kept.
CommitFails(w, ops) ==
    /\ Appending(w, ops)
    /\ Fault
    /\ Interrupted(w, ops)
    /\ engine' = [engine EXCEPT ![work[w].eng] =
                     [Unlocked(@) EXCEPT !.log = "poisoned"]]
    /\ work' = [work EXCEPT ![w] = Resting(w)]
    /\ UNCHANGED kind

\* The body returns an error.
Abandon(w) ==
    /\ work[w].at = "body"
    /\ engine' = [engine EXCEPT ![work[w].eng] =
                     IF @.mutex = w THEN Unlocked(@) ELSE @]
    /\ work' = [work EXCEPT ![w] = Resting(w)]
    /\ NoFault
    /\ UNCHANGED <<kind, file>>

\* The body panics; a mutex it holds is poisoned.
Panic(w) ==
    /\ work[w].at = "body"
    /\ Fault
    /\ engine' = [engine EXCEPT ![work[w].eng] =
                     IF @.mutex = w
                     THEN [Unlocked(@) EXCEPT !.poisoned = TRUE] ELSE @]
    /\ work' = [work EXCEPT ![w] = Resting(w)]
    /\ UNCHANGED <<kind, file>>

\* register_index, of a column that has none, on a table that exists.
RegisterIndex(w, c) ==
    /\ kind = "maintained"
    /\ work[w].at = "ready"
    /\ Eng(w).tables # NoTable
    /\ c \notin DOMAIN Eng(w).indexes
    /\ engine' = [engine EXCEPT ![work[w].eng].indexes =
          [d \in DOMAIN @ \cup {c} |-> IF d = c THEN BuildIndex(Eng(w).tables, c)
                                       ELSE @[d]]]
    /\ NoFault
    /\ UNCHANGED <<kind, file, work>>

\* Every process dies, one of them perhaps inside a put.
Crash ==
    /\ Fault
    /\ \/ UNCHANGED file
       \/ \E w \in Workers, ops \in Batches :
             work[w].at # "idle" /\ Appending(w, ops) /\ Interrupted(w, ops)
    /\ engine' = [w \in Workers |-> NoEngine]
    /\ work' = [w \in Workers |-> NoWork]
    /\ UNCHANGED kind

Next ==
    \/ \E w \in Workers :
          \/ Open(w) \/ Close(w) \/ Lock(w) \/ Abandon(w) \/ Panic(w)
          \/ \E rows \in SUBSET Keys : Snapshot(w, rows)
          \/ \E c \in Columns : RegisterIndex(w, c)
          \/ \E ops \in Batches :
                work[w].at # "idle" /\ (Commit(w, ops) \/ CommitFails(w, ops))
    \/ Crash

Spec == Init /\ [][Next]_vars
-----------------------------------------------------------------------------
\* The state after the first n transactions, one after another.
SerialState(n) == StateAfter(StartTable, file.recs, n)

\* Transactions are serializable in the order of their ids: what a committed
\* transaction had read is what the transactions before it had left, however
\* bodies, commits, failures and other engines were interleaved.
Serializable ==
    \A n \in DOMAIN file.recs :
        \A k \in DOMAIN file.recs[n].read :
            file.recs[n].read[k] = SerialState(n - 1)[k]

\* Reopening replays every transaction in the file, once and in commit order,
\* and refuses none: no record takes the id of another, and no snapshot is
\* written over a state its writer had not seen.
ReopenReplaysAll ==
    /\ Opens(file.recs)
    /\ Replay(file.recs) = SerialState(Len(file.recs))

\* An engine's state is exactly the transactions it has replayed or
\* committed, never half of one and never one whose append failed.
EngineIsSerialState ==
    \A e \in LiveEngines : engine[e].tables = SerialState(engine[e].seen)

\* Whatever was committed since an index was registered, a query answered
\* through the indexes gives the rows, the order and the refusals of a scan:
\* one predicate, two of which both must hold, two of which one must.
IndexesAgree ==
    kind = "maintained" =>
        \A e \in LiveEngines : engine[e].tables # NoTable =>
            LET t == engine[e].tables
                ix == engine[e].indexes
            IN  \A q \in Queries :
                   /\ Execute(t, ix, q.ps[1], q.proj) = Scan(t, q.ps[1], q.proj)
                   /\ ExecuteConjunctive(t, ix, q.ps, q.proj)
                         = ScanAll(t, q.ps, q.proj)
                   /\ ExecuteDisjunctive(t, ix, q.ps, q.proj)
                         = ScanAny(t, q.ps, q.proj)

\* Every cell of a table has its column's type, ids and versions fit the
\* number of records, and the mutex is held by a worker that runs a body.
TypeOK ==
    /\ \A e \in Workers :
          /\ engine[e].users \subseteq Workers
          /\ engine[e].tables \in Tables \cup {NoTable}
          /\ engine[e].next \in 0 .. MaxTx + 1
          /\ engine[e].seen \in 0 .. MaxTx
          /\ engine[e].log \in {"ok", "poisoned"}
          /\ engine[e].versions \in [Keys -> 0 .. MaxTx]
          /\ \/ engine[e].mutex = Nobody
             \/ work[engine[e].mutex].at = "body"
    /\ \A w \in Workers : work[w].at \in {"idle", "ready", "body"}
    /\ faults \in 0 .. MaxFaults
=============================================================================
