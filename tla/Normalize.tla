------------------------------ MODULE Normalize ------------------------------
(***************************************************************************)
(* Normalisation of ingest.raw_records into jv.* (store/src/normalize.rs)  *)
(* and the commands normalize and reparse that drive it.                   *)
(*                                                                         *)
(* A raw record is its id, the position in the log.  What parsing yields   *)
(* is kept with its payload: the entity key, upsert or delete, the rows,   *)
(* and for each version of the parser whether it succeeds.  An entity of   *)
(* races, entries, horses, jockeys, trainers or schedule_days has one row; *)
(* a race's payouts have one per combination.  A row remembers the raw id  *)
(* it was applied from (applied_raw_id) and the parser that decoded it;    *)
(* its columns are left out.  So are rows with applied_raw_id null, which  *)
(* are older than migration 0005.                                          *)
(*                                                                         *)
(* The advisory lock admits one process (main.rs:114-121): records arrive  *)
(* only while no normalisation runs.                                       *)
(***************************************************************************)
EXTENDS Integers, Sequences, FiniteSets

CONSTANTS
    Keys,       \* entities: <<table, key>> pairs as model values
    NoKey,      \* what entity_key gives for a schedule without a date
    Combos,     \* row identities within an entity
    Payloads,   \* the raw payloads that may arrive
    RunIds,     \* ids of ingest.runs
    Batch,      \* records per transaction (BATCH)
    MaxParser,  \* bound: versions of the parser
    MaxRaw,     \* bound: length of the log
    Faults      \* which of "sql", "db", "kill" can happen

Parsers == 1 .. MaxParser
ParseResults == {"ok", "fail", "unsupported"}
PayloadType == [key : Keys \union {NoKey}, op : {"upsert", "delete"},
                rows : SUBSET Combos, parse : [Parsers -> ParseResults]]

ASSUME NormalizeConstants ==
    /\ NoKey \notin Keys
    /\ Payloads \subseteq PayloadType
    /\ \A p \in Payloads : p.op = "delete" => p.rows = {}
    /\ Batch \in Nat \ {0}
    /\ MaxParser \in Nat \ {0}
    /\ MaxRaw \in Nat
    /\ Faults \subseteq {"sql", "db", "kill"}

VARIABLES
    log,        \* ingest.raw_records: id -> [payload, run]
    parser,     \* version of the installed jvdata
    db,         \* the committed tables
    work,       \* the tables as the open transaction sees them, if one is open
    todo,       \* ids of the batch still to be processed
    pc,         \* "idle", "select" or "batch"
    cmd         \* "none", "normalize", "reparse" or "reparse --all"

vars == <<log, parser, db, work, todo, pc, cmd>>

Ids == 1 .. Len(log)

\* state: parse_state of each raw record; table: the jv.* rows of an entity;
\* tomb: jv.entity_tombstones, 0 for none; errors: raw ids in parse_errors;
\* counts: runs.parse_errors.
EmptyDb ==
    [state |-> <<>>, table |-> [k \in Keys |-> {}], tomb |-> [k \in Keys |-> 0],
     errors |-> {}, counts |-> [r \in RunIds |-> 0]]

Init ==
    /\ log = <<>>
    /\ parser = 1
    /\ db = EmptyDb /\ work = EmptyDb
    /\ todo = {}
    /\ pc = "idle" /\ cmd = "none"

(***************************************************************************)
(* Applying one record inside the transaction.                             *)
(***************************************************************************)
\* Mutant: applied_raw_id is not bound.
NewRowsUnversioned(i, rows) == {[row |-> c, raw |-> 0, parser |-> parser] : c \in rows}

NewRows(i, rows) == {[row |-> c, raw |-> i, parser |-> parser] : c \in rows}

\* Mutant: the newer row does not win.
UpsertOverwrites(t, i, rows) == NewRows(i, rows)

\* Mutant: row by row, so combinations the correction dropped remain.
UpsertKeepsOtherRows(t, i, rows) ==
    IF \E x \in t : x.raw >= i THEN t
    ELSE {x \in t : x.row \notin rows} \union NewRows(i, rows)

\* Rows applied from a newer record stay; otherwise they are all replaced.
Upsert(t, i, rows) ==
    IF \E x \in t : x.raw >= i THEN t ELSE NewRows(i, rows)

\* Mutant: the tombstone is not looked at.
ApplyIgnoresTomb(d, i) ==
    LET p == log[i].payload IN
    IF p.key = NoKey THEN d
    ELSE IF p.op = "upsert"
         THEN [d EXCEPT !.table[p.key] = Upsert(@, i, p.rows)]
         ELSE [d EXCEPT !.table[p.key] = {x \in @ : x.raw >= i}, !.tomb[p.key] = i]

\* A deletion is remembered even if there was no row to delete.
Apply(d, i) ==
    LET p == log[i].payload IN
    IF p.key = NoKey \/ d.tomb[p.key] >= i THEN d
    ELSE IF p.op = "upsert"
         THEN [d EXCEPT !.table[p.key] = Upsert(@, i, p.rows)]
         ELSE [d EXCEPT !.table[p.key] = {x \in @ : x.raw >= i}, !.tomb[p.key] = i]

SetState(d, i, s) == [d EXCEPT !.state[i] = s]

ErrorsOf(r, E) == {j \in E : log[j].run = r}

\* Mutant: the counter is incremented, so a reparse inflates it.
RecordFailureIncrements(d, i) ==
    [SetState(d, i, 2) EXCEPT !.errors = @ \union {i}, !.counts[log[i].run] = @ + 1]

\* Mutant: the record stays pending.
RecordFailureKeepsPending(d, i) ==
    LET errors == d.errors \union {i}
        r == log[i].run
    IN  [d EXCEPT !.errors = errors, !.counts[r] = Cardinality(ErrorsOf(r, errors))]

\* parse_errors holds one row per raw record; the run's counter is recounted.
RecordFailure(d, i) ==
    LET errors == d.errors \union {i}
        r == log[i].run
    IN  [SetState(d, i, 2) EXCEPT
            !.errors = errors, !.counts[r] = Cardinality(ErrorsOf(r, errors))]

(***************************************************************************)
(* The environment: fetches store raw records, jvdata is upgraded.         *)
(***************************************************************************)
Arrive(p, r) ==
    /\ pc = "idle"
    /\ Len(log) < MaxRaw
    /\ log' = Append(log, [payload |-> p, run |-> r])
    /\ db' = [db EXCEPT !.state = Append(@, 0)]
    /\ UNCHANGED <<parser, work, todo, pc, cmd>>

Upgrade ==
    /\ pc = "idle"
    /\ parser < MaxParser
    /\ parser' = parser + 1
    /\ UNCHANGED <<log, db, work, todo, pc, cmd>>

(***************************************************************************)
(* Commands and the batch loop.                                            *)
(***************************************************************************)
Outcomes == IF "db" \in Faults THEN {"ok", "err", "lost"} ELSE {"ok"}

\* The process returns; an open transaction is rolled back.
Exit ==
    /\ pc' = "idle" /\ cmd' = "none"
    /\ work' = EmptyDb /\ todo' = {}

StartNormalize ==
    /\ pc = "idle"
    /\ pc' = "select" /\ cmd' = "normalize"
    /\ UNCHANGED <<log, parser, db, work, todo>>

\* Which parse states the command puts back to pending.
ResetStates(c) == IF c = "reparse --all" THEN {0, 1, 2, 3} ELSE {2, 3}

Reparse(c, out) ==
    /\ pc = "idle"
    /\ db' = IF out = "err" THEN db
             ELSE [db EXCEPT !.state =
                      [i \in Ids |-> IF @[i] \in ResetStates(c) THEN 0 ELSE @[i]]]
    /\ IF out = "ok" THEN pc' = "select" /\ cmd' = c /\ UNCHANGED <<work, todo>>
                     ELSE Exit
    /\ UNCHANGED <<log, parser>>

Unparsed == {i \in Ids : db.state[i] = 0}

\* The first Batch pending records in id order; none: normalize_pending returns.
SelectBatch(out) ==
    /\ pc = "select"
    /\ IF out # "ok" \/ Unparsed = {}
       THEN Exit
       ELSE /\ todo' = {i \in Unparsed : Cardinality({j \in Unparsed : j < i}) < Batch}
            /\ work' = db
            /\ pc' = "batch"
            /\ UNCHANGED cmd
    /\ UNCHANGED <<log, parser, db>>

NextInBatch(i) == i \in todo /\ \A j \in todo : i <= j

\* The savepoint is released (Ok) or rolled back and the failure recorded.
Processed(i, d) ==
    /\ pc = "batch" /\ NextInBatch(i)
    /\ work' = d
    /\ todo' = todo \ {i}
    /\ UNCHANGED <<log, parser, db, pc, cmd>>

Parse(i) == log[i].payload.parse[parser]

ApplyRecord(i) == Parse(i) = "ok" /\ Processed(i, SetState(Apply(work, i), i, 1))
SkipRecord(i) == Parse(i) = "unsupported" /\ Processed(i, SetState(work, i, 3))
ParseError(i) == Parse(i) = "fail" /\ Processed(i, RecordFailure(work, i))

\* Mutant: no savepoint, so the payouts deleted before the error stay deleted.
ApplyErrorKeepsPartial(i) ==
    /\ "sql" \in Faults
    /\ Parse(i) = "ok" /\ log[i].payload.key # NoKey
    /\ Processed(i, RecordFailure([work EXCEPT !.table[log[i].payload.key] = {}], i))

\* Mutant: one bad record ends the whole batch.
ApplyErrorEndsBatch(i) ==
    /\ "sql" \in Faults
    /\ Parse(i) = "ok" /\ pc = "batch" /\ NextInBatch(i)
    /\ Exit
    /\ UNCHANGED <<log, parser, db>>

\* A statement fails: whatever it left is rolled back to the savepoint.
ApplyError(i) ==
    /\ "sql" \in Faults
    /\ Parse(i) = "ok"
    /\ Processed(i, RecordFailure(work, i))

\* The connection is lost in the middle of the batch.
BatchError ==
    /\ "db" \in Faults
    /\ pc = "batch"
    /\ Exit
    /\ UNCHANGED <<log, parser, db>>

Commit(out) ==
    /\ pc = "batch" /\ todo = {}
    /\ db' = IF out = "err" THEN db ELSE work
    /\ IF out = "ok" THEN pc' = "select" /\ work' = EmptyDb /\ UNCHANGED <<todo, cmd>>
                     ELSE Exit
    /\ UNCHANGED <<log, parser>>

Kill ==
    /\ "kill" \in Faults
    /\ pc # "idle"
    /\ Exit
    /\ UNCHANGED <<log, parser, db>>

ProcessStep ==
    \/ \E out \in Outcomes : SelectBatch(out) \/ Commit(out)
    \/ \E i \in todo : ApplyRecord(i) \/ SkipRecord(i) \/ ParseError(i) \/ ApplyError(i)
    \/ BatchError

Next ==
    \/ \E p \in Payloads, r \in RunIds : Arrive(p, r)
    \/ Upgrade
    \/ StartNormalize
    \/ \E c \in {"reparse", "reparse --all"}, out \in Outcomes : Reparse(c, out)
    \/ ProcessStep
    \/ Kill

Spec == Init /\ [][Next]_vars

\* Every statement of the loop returns.
FairSpec == Spec /\ WF_vars(ProcessStep)
=============================================================================
