----------------------------- MODULE IngestStore -----------------------------
(***************************************************************************)
(* The ingest.* tables and the transactions of store/src/ingest.rs.        *)
(*                                                                         *)
(* Each operator below is the effect of one COMMITTED transaction; the     *)
(* importer decides whether it commits, fails, or commits while the client *)
(* sees an error (Importer.tla).                                           *)
(*                                                                         *)
(* Abstractions.                                                           *)
(*  - A file of a dataspec is the time at which JRA-VAN provides it (a     *)
(*    positive number): fromtime, windowEnd and last_file_timestamp are    *)
(*    compared with provision times only.  Rank gives the order of the     *)
(*    file NAMES, which the store compares for last_file.                  *)
(*  - A file has the records 1 .. RecCount; a raw_records row is           *)
(*    <<dataspec, file, file_seq + 1>> (a file read again has the same     *)
(*    bytes, so the payload hash adds nothing to the idempotence key).     *)
(*  - Of the runs table we keep what decides or witnesses control: mode,   *)
(*    window, status and records_stored.  JVOpen's counts, error texts and *)
(*    dates are left out.                                                  *)
(***************************************************************************)
EXTENDS CheckpointRow, FiniteSets

CONSTANTS
    Specs,          \* dataspecs in use (RACE, DIFF, ...)
    EndTimeSpecs,   \* those whose fromtime may carry an end time
    NormalSpecs,    \* those JVOpen accepts with option=1
    Windows,        \* checkpoint keys <<dataspec, window_start>>
    FileTimes,      \* dataspec -> provision times of its files
    Rank,           \* dataspec -> file -> position of its name in name order
    RecCount,       \* records per file
    MaxRuns         \* bound: ids of ingest.runs

SpecOf(w) == w[1]
StartOf(w) == w[2]
RunIds == 1 .. MaxRuns

ASSUME StoreConstants ==
    /\ Specs # {}
    /\ EndTimeSpecs \subseteq Specs
    /\ NormalSpecs \subseteq Specs
    /\ Windows \subseteq Specs \X Nat
    /\ FileTimes \in [Specs -> SUBSET (Nat \ {0})]
    /\ \A d \in Specs : Rank[d] \in [FileTimes[d] -> Nat]
    /\ \A d \in Specs : \A f, g \in FileTimes[d] : Rank[d][f] = Rank[d][g] => f = g
    /\ RecCount \in Nat \ {0}
    /\ MaxRuns \in Nat

VARIABLES
    checkpoints,    \* ingest.checkpoints: window -> row
    runs,           \* ingest.runs: run id -> row
    nextRun,        \* ids handed out so far
    cursors,        \* ingest.cursors: dataspec -> last_file_timestamp
    raw             \* keys of ingest.raw_records

storeVars == <<checkpoints, runs, nextRun, cursors, raw>>

(***************************************************************************)
(* Rows.                                                                   *)
(***************************************************************************)
RunStatuses == {"absent", "running", "done", "failed"}

AbsentRun ==
    [status |-> "absent", mode |-> "normal", spec |-> CHOOSE d \in Specs : TRUE,
     start |-> 0, stored |-> 0]

StoreInit ==
    /\ checkpoints = [w \in Windows |-> AbsentCheckpoint]
    /\ runs = [r \in RunIds |-> AbsentRun]
    /\ nextRun = 0
    /\ cursors = [d \in Specs |-> Null]
    /\ raw = {}

Stored(d, f) == \A i \in 1 .. RecCount : <<d, f, i>> \in raw

(***************************************************************************)
(* Window transactions.                                                    *)
(***************************************************************************)
SeedWindow(w, e) ==
    /\ checkpoints' = [checkpoints EXCEPT ![w] = SeededRow(checkpoints[w], e)]
    /\ UNCHANGED <<runs, nextRun, cursors, raw>>

\* What pending_windows selects, as the importer copies it: the window and the
\* end and last_file of its row at the time of the query.
PendingWindows ==
    {[win |-> w, end |-> checkpoints[w].end, skip |-> checkpoints[w].last_file] :
        w \in {v \in Windows : checkpoints[v].state \in Pending}}

\* Mutant: the run of a dead process is not folded.
BeginWindowKeepsDeadRun(w) ==
    /\ nextRun + 1 \in RunIds
    /\ nextRun' = nextRun + 1
    /\ runs' = [runs EXCEPT ![nextRun + 1] =
          [status |-> "running", mode |-> "setup",
           spec |-> SpecOf(w), start |-> StartOf(w), stored |-> 0]]
    /\ checkpoints' = [checkpoints EXCEPT ![w].state = "running", ![w].last_run = nextRun + 1]
    /\ UNCHANGED <<cursors, raw>>

\* A run of the window left 'running' belongs to a dead process: fold it.
BeginWindow(w) ==
    LET new == nextRun + 1
        old == checkpoints[w].last_run
    IN  /\ new \in RunIds
        /\ nextRun' = new
        /\ runs' = [r \in RunIds |->
              IF r = new THEN [status |-> "running", mode |-> "setup",
                               spec |-> SpecOf(w), start |-> StartOf(w), stored |-> 0]
              ELSE IF r = old /\ runs[r].status = "running"
                   THEN [runs[r] EXCEPT !.status = "failed"]
                   ELSE runs[r]]
        /\ checkpoints' = [checkpoints EXCEPT ![w].state = "running", ![w].last_run = new]
        /\ UNCHANGED <<cursors, raw>>

\* insert ... on conflict do nothing: the keys that are new.
Inserted(d, f, n) == {<<d, f, i>> : i \in 1 .. n} \ raw

\* Mutant: records read are counted, not records inserted.
InsertRawCountsReads(r, d, f, n) ==
    /\ raw' = raw \union Inserted(d, f, n)
    /\ runs' = [runs EXCEPT ![r].stored = @ + n]

InsertRaw(r, d, f, n) ==
    /\ raw' = raw \union Inserted(d, f, n)
    /\ runs' = [runs EXCEPT ![r].stored = @ + Cardinality(Inserted(d, f, n))]

LaterName(d, f, last) ==
    IF last = Null \/ Rank[d][f] > Rank[d][last] THEN f ELSE last

\* Mutant: the file read again on resume is counted again.
CommittedRowRecounts(c, d, f, n) ==
    [c EXCEPT !.files_done = @ + 1, !.last_file = LaterName(d, f, @),
              !.stored = @ + Cardinality(Inserted(d, f, n))]

\* The resume file is read and committed again: it does not count twice, and
\* last_file never goes back in name order.
CommittedRow(c, d, f, n) ==
    [c EXCEPT !.files_done = IF c.last_file = f THEN @ ELSE @ + 1,
              !.last_file = LaterName(d, f, @),
              !.stored = @ + Cardinality(Inserted(d, f, n))]

CommitFile(r, w, f, n) ==
    /\ InsertRaw(r, SpecOf(w), f, n)
    /\ checkpoints' = [checkpoints EXCEPT ![w] = CommittedRow(@, SpecOf(w), f, n)]
    /\ UNCHANGED <<nextRun, cursors>>

\* Mutant: the comparison with the stored time is dropped.
LatestTimeGiven(old, ts) == IF ts # Null THEN ts ELSE old

LaterTime(old, ts) == IF ts # Null /\ ts > old THEN ts ELSE old

FinishedRow(c, ts) == [c EXCEPT !.state = "done", !.last_ts = LaterTime(@, ts)]

\* checkpoint, run and (for the open-ended window) cursor in one transaction.
FinishWindow(r, w, ts, cursorTs) ==
    /\ checkpoints' = [checkpoints EXCEPT ![w] = FinishedRow(@, ts)]
    /\ runs' = [runs EXCEPT ![r].status = "done"]
    /\ cursors' = [cursors EXCEPT ![SpecOf(w)] = LaterTime(@, cursorTs)]
    /\ UNCHANGED <<nextRun, raw>>

\* Mutant: the run row is left running.
FailWindowForgetsRun(r, w) ==
    /\ checkpoints' = [checkpoints EXCEPT ![w].state = "failed"]
    /\ UNCHANGED <<runs, nextRun, cursors, raw>>

FailWindow(r, w) ==
    /\ checkpoints' = [checkpoints EXCEPT ![w].state = "failed"]
    /\ runs' = [runs EXCEPT ![r].status = "failed"]
    /\ UNCHANGED <<nextRun, cursors, raw>>

\* The row is left alone when it is missing, done or abandoned already.
AbandonWindow(w) ==
    /\ checkpoints' = [checkpoints EXCEPT
          ![w].state = IF @ \in Pending THEN "abandoned" ELSE @]
    /\ UNCHANGED <<runs, nextRun, cursors, raw>>

(***************************************************************************)
(* Differential runs.                                                      *)
(***************************************************************************)
\* Mutant: a dataspec without a cursor is listed too, with no time to start from.
AllCursorsOuter == {[spec |-> d, from |-> cursors[d]] : d \in Specs}

AllCursors == {[spec |-> d, from |-> cursors[d]] : d \in {c \in Specs : cursors[c] # Null}}

\* Mutant: the dead run is not folded.
BeginDiffRunKeepsDeadRun(d, from) ==
    /\ nextRun + 1 \in RunIds
    /\ nextRun' = nextRun + 1
    /\ runs' = [runs EXCEPT ![nextRun + 1] =
          [status |-> "running", mode |-> "normal", spec |-> d, start |-> from, stored |-> 0]]
    /\ UNCHANGED <<checkpoints, cursors, raw>>

\* Differential runs of a dataspec are serial: any other one is dead.
BeginDiffRun(d, from) ==
    LET new == nextRun + 1
    IN  /\ new \in RunIds
        /\ nextRun' = new
        /\ runs' = [r \in RunIds |->
              IF r = new THEN [status |-> "running", mode |-> "normal",
                               spec |-> d, start |-> from, stored |-> 0]
              ELSE IF /\ runs[r].spec = d
                      /\ runs[r].mode = "normal"
                      /\ runs[r].status = "running"
                   THEN [runs[r] EXCEPT !.status = "failed"]
                   ELSE runs[r]]
        /\ UNCHANGED <<checkpoints, cursors, raw>>

CommitDiffFile(r, d, f, n) ==
    /\ InsertRaw(r, d, f, n)
    /\ UNCHANGED <<checkpoints, nextRun, cursors>>

AdvanceCursor(d, ts) ==
    /\ cursors' = [cursors EXCEPT ![d] = LaterTime(@, ts)]
    /\ UNCHANGED <<checkpoints, runs, nextRun, raw>>

FinishDiffRun(r, status) ==
    /\ runs' = [runs EXCEPT ![r].status = status]
    /\ UNCHANGED <<checkpoints, nextRun, cursors, raw>>
=============================================================================
