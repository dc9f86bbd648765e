---------------------------- MODULE ImporterProps ----------------------------
(***************************************************************************)
(* What the importer promises about the ingest.* tables.                   *)
(***************************************************************************)
EXTENDS Importer, Descent

Times == Nat \union {Null}

CheckpointRows ==
    [state : WindowStates, end : Nat \union {NoEnd}, files_done : Nat, last_file : Times,
     stored : Nat, last_ts : Times, last_run : RunIds \union {Null}]

RunRows ==
    [status : RunStatuses, mode : {"setup", "normal"}, spec : Specs, start : Nat,
     stored : Nat]

Jobs ==
    [mode : {"setup", "normal"}, spec : Specs, lo : Nat, end : Nat \union {NoEnd},
     skip : Times, run : RunIds \union {Null}]

Streams ==
    [opened : BOOLEAN, hi : Nat, pos : Int, cur : Times, buf : 0 .. RecCount, ts : Times]

PcValues ==
    {"idle", "seed", "list", "windows", "fetch", "leftover", "advance",
     "finish", "fail", "abort", "cursors", "diffs", "normalize"}

\* The values the tables and the process's variables range over.
TypeOK ==
    /\ checkpoints \in [Windows -> CheckpointRows]
    /\ runs \in [RunIds -> RunRows]
    /\ nextRun \in 0 .. MaxRuns
    /\ cursors \in [Specs -> Times]
    /\ raw \subseteq Specs \X Times \X (1 .. RecCount)
    /\ now \in 0 .. MaxTime
    /\ pc \in PcValues
    /\ cmd \in {"backfill", "resume", "none"}
    /\ plan \subseteq Windows
    /\ queue \subseteq [win : Windows, end : Nat \union {NoEnd}, skip : Times]
    /\ todo \subseteq [spec : Specs, from : Nat]
    /\ job \in Jobs
    /\ stream \in Streams

InJob == pc \in {"fetch", "leftover", "advance", "finish", "fail", "abort"}
InSetup == InJob /\ job.mode = "setup"

FilesBetween(d, lo, hi) == {f \in FileTimes[d] : lo < f /\ f <= hi}
AllStored(d, S) == \A f \in S : Stored(d, f)

(***************************************************************************)
(* Completeness of what was fetched.                                       *)
(***************************************************************************)
\* The resume point is never ahead of the data: every file of a window up to
\* the file JVSkip will start from is committed, whatever crashes, broken
\* streams and lost acknowledgements came before (ingest.rs:1-2).
ResumePointStored ==
    \A w \in Windows :
        checkpoints[w].last_file # Null =>
            AllStored(SpecOf(w), FilesBetween(SpecOf(w), StartOf(w), checkpoints[w].last_file))

\* A window is 'done' only when every file of its range is in raw_records; for
\* the open-ended window, every file up to the timestamp JVOpen reported.
DoneIsComplete ==
    \A w \in Windows :
        checkpoints[w].state = "done" =>
            AllStored(SpecOf(w), FilesBetween(SpecOf(w), StartOf(w),
                IF checkpoints[w].end = NoEnd THEN checkpoints[w].last_ts
                                              ELSE checkpoints[w].end))

\* The next differential fetch starts after the cursor, so nothing between the
\* start of the window it grew from and the cursor may be missing.
CursorIsCovered ==
    \A d \in Specs :
        cursors[d] # Null =>
            \E w \in Windows :
                /\ SpecOf(w) = d
                /\ StartOf(w) <= cursors[d]
                /\ AllStored(d, FilesBetween(d, StartOf(w), cursors[d]))

\* A file is in raw_records with all its records or not at all.
FilesAreWhole ==
    \A k \in raw : Stored(k[1], k[2])

(***************************************************************************)
(* Agreement of checkpoints and runs.                                      *)
(***************************************************************************)
\* A setup run shown as running is the last run of its window, so at most one
\* run of a window is running: what begin_window folds is all there is.
RunningRunIsLast ==
    \A r \in RunIds :
        runs[r].status = "running" /\ runs[r].mode = "setup" =>
            /\ <<runs[r].spec, runs[r].start>> \in Windows
            /\ checkpoints[<<runs[r].spec, runs[r].start>>].last_run = r

\* At most one differential run of a dataspec is running.
DiffRunsAreSerial ==
    \A r, s \in RunIds :
        /\ runs[r].status = "running" /\ runs[r].mode = "normal"
        /\ runs[s].status = "running" /\ runs[s].mode = "normal"
        /\ runs[r].spec = runs[s].spec
        => r = s

\* A window and its last run never disagree about how the run ended.
StateMatchesRun ==
    \A w \in Windows :
        checkpoints[w].state \in {"running", "done", "failed"} =>
            /\ checkpoints[w].last_run # Null
            /\ runs[checkpoints[w].last_run].status = checkpoints[w].state

\* Range and resume file are read once for the whole list and used later: they
\* are still those of the row when the window's turn comes and while it runs.
SnapshotIsFresh ==
    /\ \A q \in queue :
          /\ checkpoints[q.win].state \in Pending
          /\ checkpoints[q.win].end = q.end
          /\ checkpoints[q.win].last_file = q.skip
    /\ InSetup => checkpoints[JobWindow].end = job.end

(***************************************************************************)
(* Accounting.                                                             *)
(***************************************************************************)
\* The records the runs up to r say they have stored.
StoredByRuns[r \in 0 .. MaxRuns] == IF r = 0 THEN 0 ELSE StoredByRuns[r - 1] + runs[r].stored

\* records_stored counts every raw record exactly once over all runs: a re-read
\* after a crash or a lost acknowledgement adds nothing (ingest.rs:217-245).
EachRecordCountedOnce == StoredByRuns[MaxRuns] = Cardinality(raw)

\* files_done is the number of different files of the window committed so far,
\* however often the resume file was read again (ingest.rs:247-250).
FilesDoneCountsFiles ==
    \A w \in Windows :
        checkpoints[w].files_done =
            IF checkpoints[w].last_file = Null THEN 0
            ELSE Cardinality(FilesBetween(SpecOf(w), StartOf(w), checkpoints[w].last_file))

(***************************************************************************)
(* The inductive invariant behind the properties above: what holds of the  *)
(* run in progress, of the two lists and of the stream.                    *)
(***************************************************************************)
\* Run ids are handed out in order, and a window's last run is a run of it.
RunsInv ==
    /\ \A r \in RunIds : r > nextRun => runs[r].status = "absent"
    /\ \A w \in Windows :
          checkpoints[w].last_run # Null =>
              /\ checkpoints[w].last_run \in 1 .. nextRun
              /\ runs[checkpoints[w].last_run].mode = "setup"
              /\ runs[checkpoints[w].last_run].spec = SpecOf(w)
              /\ runs[checkpoints[w].last_run].start = StartOf(w)
    /\ RunningRunIsLast
    /\ DiffRunsAreSerial
    /\ StateMatchesRun

\* What the process knows of its run whatever is done to the tables meanwhile: the
\* resume file is stored, and a differential run starts at or before the cursor.
JobKnows ==
    InJob =>
        /\ job.run \in 1 .. nextRun
        /\ job.mode = "setup" =>
              /\ JobWindow \in Windows
              /\ AllStored(job.spec, FilesBetween(job.spec, job.lo, job.skip))
        /\ job.mode = "normal" =>
              /\ job.end = NoEnd
              /\ job.skip = Null
              /\ job.lo <= cursors[job.spec]

\* What it knows only where no other process works on the tables: a setup job is
\* the last run of its window.
JobOwns ==
    InJob =>
        /\ job.mode = "setup" => checkpoints[JobWindow].last_run = job.run
        /\ job.mode = "normal" => runs[job.run].mode = "normal"

JobInv == JobKnows /\ JobOwns

\* What it knows of the two lists, likewise: the files up to a resume file listed
\* are stored, and a start time listed is at or before the cursor.
ListsKnow ==
    /\ \A q \in queue :
          AllStored(SpecOf(q.win), FilesBetween(SpecOf(q.win), StartOf(q.win), q.skip))
    /\ \A c \in todo : c.from <= cursors[c.spec]

\* The lists are in use only where run_pending and the diff loop are.
ListsInv ==
    /\ queue # {} => pc = "windows" \/ InSetup
    /\ InSetup => \A q \in queue : q.win # JobWindow
    /\ SnapshotIsFresh
    /\ \A c \in todo : c.from <= cursors[c.spec]

\* The files of the opened range up to pos are stored, but for the one being
\* read; when the stream is done, all files of the range are.
StreamInv ==
    /\ stream.opened \/ stream = NoStream
    /\ stream.cur = Null => stream.buf = 0
    /\ stream.cur # Null =>
          /\ stream.cur \in RangeFiles(stream.hi)
          /\ stream.cur = stream.pos
          /\ ~SkipMissing
    /\ stream.ts # Null => stream.ts \in RangeFiles(stream.hi)
    /\ InJob /\ stream.opened /\ job.end # NoEnd => stream.hi = job.end
    /\ pc \in {"fetch", "leftover"} /\ stream.opened /\ ~SkipMissing =>
          \A f \in RangeFiles(stream.hi) :
              f <= stream.pos /\ f # stream.cur => Stored(job.spec, f)
    /\ pc = "leftover" =>
          /\ stream.cur # Null
          /\ stream.buf = RecCount
          /\ \A f \in RangeFiles(stream.hi) : f <= stream.pos
    /\ pc = "advance" => job.mode = "normal" /\ stream.ts # Null
    /\ pc \in {"finish", "advance"} =>
          /\ AllStored(job.spec, FilesBetween(job.spec, job.lo, stream.ts))
          /\ job.end # NoEnd => AllStored(job.spec, FilesBetween(job.spec, job.lo, job.end))

\* The tables are ahead of nothing, whoever writes them: last_file_timestamp of a
\* window is covered in every state, not only 'done'.
TableData ==
    /\ ResumePointStored
    /\ \A w \in Windows :
          AllStored(SpecOf(w), FilesBetween(SpecOf(w), StartOf(w), checkpoints[w].last_ts))
    /\ CursorIsCovered
    /\ FilesAreWhole

DataInv == TableData /\ DoneIsComplete

IInv == TypeOK /\ RunsInv /\ JobInv /\ ListsInv /\ StreamInv /\ DataInv

\* Behind the accounting: a run starts with nothing stored, and the resume point
\* of the window a run works on is the last file the run has passed.
CountsInv ==
    /\ \A r \in RunIds : r > nextRun => runs[r].stored = 0
    /\ IsFiniteSet(raw)
    /\ EachRecordCountedOnce

ResumePointFollows ==
    InSetup /\ pc \in {"fetch", "leftover"} =>
        LET last == checkpoints[JobWindow].last_file
        IN  /\ ~stream.opened => last = job.skip
            /\ stream.opened /\ ~SkipMissing =>
                  /\ last # Null =>
                        /\ last \in RangeFiles(stream.hi)
                        /\ last <= stream.pos \/ (stream.cur = Null /\ last = stream.pos + 1)
                  /\ \A f \in RangeFiles(stream.hi) :
                        f <= stream.pos /\ f # stream.cur => f <= last

FilesInv == FilesDoneCountsFiles /\ ResumePointFollows

\* The part of IInv that another process on the same tables cannot break.
SharedInv == TypeOK /\ JobKnows /\ ListsKnow /\ StreamInv /\ TableData

(***************************************************************************)
(* Steps.                                                                  *)
(***************************************************************************)
\* The cursor is the next fromtime: no step of any command moves it back, not
\* even a late setup window that finished with an older timestamp.
CursorNeverMovesBack ==
    [][\A d \in Specs : cursors'[d] >= cursors[d]]_vars

\* Seen from outside, the commands do nothing but store whole files, one at a
\* time, and move the start of the next differential fetch over stored files,
\* whatever fails or is killed in between (store/src/ingest.rs:1-2, main.rs:347-354).
StoredFiles == [d \in Specs |-> {f \in FileTimes[d] : Stored(d, f)}]
WindowStarts == [d \in Specs |-> {StartOf(w) : w \in {v \in Windows : SpecOf(v) = d}}]

Promise == INSTANCE IngestPromise WITH
              Files <- FileTimes, Starts <- WindowStarts,
              stored <- StoredFiles, frontier <- cursors
KeepsPromise == Promise!Spec

\* How far a command is from its end: the stages to come, the entries of its list,
\* the steps of the run in progress, the files ahead, the records of the file.
StagesLeft ==
    CASE pc = "seed" -> 6
      [] pc = "list" -> 5
      [] pc = "windows" \/ InSetup -> 4
      [] pc = "cursors" -> 3
      [] pc = "diffs" \/ (InJob /\ ~InSetup) -> 2
      [] pc = "normalize" -> 1
      [] OTHER -> 0

EntriesLeft == Cardinality(plan) + Cardinality(queue) + Cardinality(todo)

RunLeft ==
    CASE pc = "fetch" -> IF stream.opened THEN 5 ELSE 6
      [] pc = "leftover" -> 4
      [] pc = "advance" -> 3
      [] pc = "finish" -> 2
      [] pc \in {"fail", "abort"} -> 1
      [] OTHER -> 0

FilesLeft == Cardinality({f \in RangeFiles(stream.hi) : f > stream.pos})
RecordsLeft == IF stream.cur = Null THEN 0 ELSE RecCount + 1 - stream.buf

Distance == <<StagesLeft, EntriesLeft, RunLeft, FilesLeft, RecordsLeft>>

\* No command goes round in circles: whatever fails, each of its steps brings it
\* nearer to its end, and nothing done by others takes it back (main.rs:286-291).
CommandsApproachTheirEnd ==
    [][pc # "idle" => Nearer(Distance', Distance) \/ UNCHANGED procVars]_vars

(***************************************************************************)
(* Progress.                                                               *)
(***************************************************************************)
\* A command that is not killed returns, however many windows keep failing:
\* the list of windows is read once, so a failed one is not taken up again.
CommandReturns == (pc # "idle") ~> (pc = "idle")

\* While only streams fail, each listed window gets its run: one that fails for
\* good does not keep the others from progressing (main.rs:286-291).
ListedWindowIsRun ==
    \A w \in Windows :
        (pc = "windows" /\ \E q \in queue : q.win = w)
            ~> (pc = "fetch" /\ job.mode = "setup" /\ JobWindow = w)
=============================================================================
