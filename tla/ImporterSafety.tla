---------------------------- MODULE ImporterSafety ----------------------------
(***************************************************************************)
(* The importer loses no data: TableData is preserved, whoever else works  *)
(* on the tables, and so is what only one process at a time may rely on;   *)
(* that makes SharedInv and IInv inductive, and the safety properties      *)
(* follow from IInv.  And its counters add up: records_stored summed over  *)
(* the runs is the number of raw records, files_done of a window the       *)
(* number of its files up to the resume point.                             *)
(***************************************************************************)
EXTENDS ImporterFetch

(***************************************************************************)
(* TableData.                                                              *)
(***************************************************************************)
\* What TableData says of one row and of one cursor.
RowCovered(w, c) ==
    /\ c.last_file # Null =>
          AllStored(SpecOf(w), FilesBetween(SpecOf(w), StartOf(w), c.last_file))
    /\ AllStored(SpecOf(w), FilesBetween(SpecOf(w), StartOf(w), c.last_ts))

CursorCovered(d, ts) ==
    ts # Null => \E w \in Windows :
                    /\ SpecOf(w) = d
                    /\ StartOf(w) <= ts
                    /\ AllStored(d, FilesBetween(d, StartOf(w), ts))

LEMMA DataByRows ==
    TableData <=> /\ \A w \in Windows : RowCovered(w, checkpoints[w])
                  /\ \A d \in Specs : CursorCovered(d, cursors[d])
                  /\ FilesAreWhole
  BY DEF TableData, RowCovered, CursorCovered, ResumePointStored, CursorIsCovered

LEMMA DataByRowsNext ==
    ASSUME (\A w \in Windows : RowCovered(w, checkpoints[w]))',
           (\A d \in Specs : CursorCovered(d, cursors[d]))',
           FilesAreWhole'
    PROVE  TableData'
  BY DEF TableData, RowCovered, CursorCovered, ResumePointStored, CursorIsCovered

LEMMA CoverGrows ==
    ASSUME raw \subseteq raw'
    PROVE  /\ \A w, c : RowCovered(w, c) => RowCovered(w, c)'
           /\ \A d, ts : CursorCovered(d, ts) => CursorCovered(d, ts)'
<1>1. \A d, S : AllStored(d, S) => AllStored(d, S)'
  BY DEF AllStored, Stored
<1> QED BY <1>1 DEF RowCovered, CursorCovered, FilesBetween

\* A step that adds no record and changes rows at most to others covered.
LEMMA DataFrame ==
    ASSUME TableData, raw' = raw, cursors' = cursors,
           \A w \in Windows : RowCovered(w, checkpoints[w]) => RowCovered(w, checkpoints'[w])
    PROVE  TableData'
<1>1. \A w, c : RowCovered(w, c) => RowCovered(w, c)'
  BY CoverGrows
<1>2. (\A w \in Windows : RowCovered(w, checkpoints[w]))'
  <2>1. \A w, c : RowCovered(w, c)' /\ c = checkpoints'[w] => RowCovered(w, checkpoints[w])'
    BY DEF RowCovered, AllStored, Stored, FilesBetween
  <2> QED BY <1>1, <2>1, DataByRows
<1>3. (\A d \in Specs : CursorCovered(d, cursors[d]))'
  BY DataByRows DEF CursorCovered, AllStored, Stored, FilesBetween
<1>4. FilesAreWhole'
  BY DEF TableData, FilesAreWhole, Stored
<1> QED BY <1>2, <1>3, <1>4, DataByRowsNext

LEMMA SeedWindowData ==
    ASSUME TypeOK, TableData, NEW w \in Windows, NEW e, SeedWindow(w, e)
    PROVE  TableData'
<1> DEFINE c == checkpoints[w]
<1>1. c \in CheckpointRows
  BY DEF TypeOK
<1>2. RowCovered(w, c) => RowCovered(w, SeededRow(c, e))
  <2> SUFFICES ASSUME NEW s, s = SeededRow(c, e), RowCovered(w, c)
               PROVE  RowCovered(w, s)
    OBVIOUS
  <2>1. /\ s.last_ts = c.last_ts
        /\ s.last_file = c.last_file \/ s.last_file = Null
    BY <1>1 DEF SeededRow, CheckpointRows, Settled
  <2> QED BY <2>1 DEF RowCovered
<1>3. checkpoints' = [checkpoints EXCEPT ![w] = SeededRow(c, e)] /\ raw' = raw
      /\ cursors' = cursors
  BY DEF SeedWindow
<1> QED BY <1>2, <1>3, DataFrame DEF TypeOK

\* A step that leaves the resume points and last timestamps alone.
LEMMA StateData ==
    ASSUME TypeOK, TableData, raw' = raw, cursors' = cursors,
           \A w \in Windows : /\ checkpoints'[w].last_file = checkpoints[w].last_file
                              /\ checkpoints'[w].last_ts = checkpoints[w].last_ts
    PROVE  TableData'
<1>1. \A w \in Windows : RowCovered(w, checkpoints[w]) => RowCovered(w, checkpoints'[w])
  BY DEF RowCovered
<1> QED BY <1>1, DataFrame

LEMMA CommitData ==
    ASSUME TypeOK, StreamInv, TableData, pc \in {"fetch", "leftover"},
           stream.cur # Null, stream.buf = RecCount, Commit(stream.cur, stream.buf)
    PROVE  TableData'
<1>a. /\ StoreTypeOK /\ raw \subseteq raw' /\ cursors' = cursors
      /\ \A d, f : d = job.spec /\ f = stream.cur => Stored(d, f)'
      /\ \A k \in raw' : k \in raw \/ (k[1] = job.spec /\ k[2] = stream.cur)
      /\ job.mode \in {"setup", "normal"}
  BY TypeSplit, CommitStores, CommitRows DEF TypeOK, Jobs
<1>1. ASSUME NEW f \in FilesBetween(job.spec, job.lo, stream.cur)
      PROVE  \A d : d = job.spec => Stored(d, f)'
  <2>0. /\ stream.opened /\ ~SkipMissing /\ stream.cur = stream.pos
        /\ stream.cur \in RangeFiles(stream.hi) /\ stream.hi \in Nat /\ job.spec \in Specs
    BY DEF StreamInv, NoStream, TypeOK, Streams, Jobs
  <2>1. f \in RangeFiles(stream.hi) /\ f <= stream.pos
    BY <2>0, FilesArePositive DEF FilesBetween, RangeFiles
  <2>2. CASE f = stream.cur
    BY <1>a, <2>2
  <2>3. CASE f # stream.cur
    BY <1>a, <2>0, <2>1, <2>3, StoredGrows DEF StreamInv
  <2> QED BY <2>2, <2>3
<1>2. ASSUME NEW w \in Windows
      PROVE  RowCovered(w, checkpoints[w])'
  <2>1. \A c : c = checkpoints[w] => RowCovered(w, c)'
    BY <1>a, CoverGrows, DataByRows
  <2>2. CASE checkpoints'[w] = checkpoints[w]
    BY <2>1, <2>2 DEF RowCovered, AllStored, Stored, FilesBetween
  <2>3. CASE checkpoints'[w] # checkpoints[w]
    <3>1. job.mode = "setup" /\ w = JobWindow /\ SpecOf(w) = job.spec /\ StartOf(w) = job.lo
      BY <1>a, <2>3, CommitRows, LocalsType DEF Commit, CommitDiffFile
    <3>2. /\ checkpoints'[w].last_ts = checkpoints[w].last_ts
      BY <1>a, CommitRows
    <3>3. checkpoints'[w].last_file \in {stream.cur, checkpoints[w].last_file}
      BY <1>a, <3>1 DEF Commit, CommitFile, CommittedRow, LaterName, StoreTypeOK, CheckpointRows
    <3>4. \A f \in FilesBetween(SpecOf(w), StartOf(w), checkpoints'[w].last_file) :
             checkpoints'[w].last_file # Null => \A d : d = SpecOf(w) => Stored(d, f)'
      <4>1. CASE checkpoints'[w].last_file = stream.cur
        BY <1>1, <3>1, <4>1
      <4>2. CASE checkpoints'[w].last_file = checkpoints[w].last_file
        BY <2>1, <4>2 DEF RowCovered, AllStored, FilesBetween, Stored
      <4> QED BY <3>3, <4>1, <4>2
    <3>5. (checkpoints[w].last_file # Null =>
             AllStored(SpecOf(w), FilesBetween(SpecOf(w), StartOf(w), checkpoints[w].last_file)))'
      BY <3>4 DEF AllStored, Stored, FilesBetween
    <3> QED BY <2>1, <3>2, <3>5 DEF RowCovered, AllStored, Stored, FilesBetween
  <2> QED BY <2>2, <2>3
<1>3. (\A d \in Specs : CursorCovered(d, cursors[d]))'
  <2>1. \A d \in Specs : \A ts : ts = cursors[d] => CursorCovered(d, ts)'
    BY <1>a, CoverGrows, DataByRows
  <2> QED BY <1>a, <2>1 DEF CursorCovered, AllStored, Stored, FilesBetween
<1>4. FilesAreWhole'
  BY <1>a, StoredGrows DEF TableData, FilesAreWhole, Stored
<1> QED BY <1>2, <1>3, <1>4, DataByRowsNext

\* What is known where the stream has ended: the run's range is stored.
LEMMA FinishFacts ==
    ASSUME TypeOK, StreamInv, pc \in {"finish", "advance"}
    PROVE  /\ stream.ts \in Times /\ job.spec \in Specs /\ job.lo \in Nat
           /\ AllStored(job.spec, FilesBetween(job.spec, job.lo, stream.ts))
           /\ job.end # NoEnd => AllStored(job.spec, FilesBetween(job.spec, job.lo, job.end))
           /\ stream.ts # Null => job.lo < stream.ts /\ stream.ts \in Nat
<1>1. stream.ts \in Times /\ job.spec \in Specs /\ job.lo \in Nat
  BY DEF TypeOK, Streams, Jobs
<1>2. stream.ts # Null => job.lo < stream.ts /\ stream.ts \in Nat
  BY <1>1, FilesArePositive DEF StreamInv, RangeFiles, Times
<1> QED BY <1>1, <1>2 DEF StreamInv

\* The later of two covered times is covered.
LEMMA LaterCovered ==
    ASSUME NEW d, NEW lo, NEW old, NEW ts,
           AllStored(d, FilesBetween(d, lo, old)), AllStored(d, FilesBetween(d, lo, ts))
    PROVE  AllStored(d, FilesBetween(d, lo, LaterTime(old, ts)))
  BY DEF LaterTime

LEMMA FinishWindowData ==
    ASSUME TypeOK, JobKnows, StreamInv, TableData, pc = "finish", job.mode = "setup",
           FinishWindow(job.run, JobWindow, stream.ts, CursorTs)
    PROVE  TableData'
<1>a. /\ InJob /\ JobWindow \in Windows /\ raw' = raw
      /\ SpecOf(JobWindow) = job.spec /\ StartOf(JobWindow) = job.lo
  BY LocalsType DEF InJob, JobKnows, FinishWindow
<1> DEFINE c == checkpoints[JobWindow]
<1>1. c \in CheckpointRows
  BY <1>a DEF TypeOK
<1>2. RowCovered(JobWindow, FinishedRow(c, stream.ts))
  <2> SUFFICES ASSUME NEW s, s = FinishedRow(c, stream.ts)
               PROVE  RowCovered(JobWindow, s)
    OBVIOUS
  <2>1. RowCovered(JobWindow, c)
    BY <1>a, DataByRows
  <2>2. s.last_file = c.last_file /\ s.last_ts = LaterTime(c.last_ts, stream.ts)
    BY <1>a, <1>1 DEF FinishedRow, CheckpointRows
  <2>3. AllStored(job.spec, FilesBetween(job.spec, job.lo, s.last_ts))
    BY <1>a, <2>1, <2>2, FinishFacts, LaterCovered DEF RowCovered
  <2> QED BY <1>a, <2>1, <2>2, <2>3 DEF RowCovered
<1>3. \A w \in Windows : RowCovered(w, checkpoints'[w])
  BY <1>2, DataByRows DEF FinishWindow, TypeOK
<1>4. CursorCovered(job.spec, LaterTime(cursors[job.spec], CursorTs))
  <2>1. CursorCovered(job.spec, cursors[job.spec])
    BY FinishFacts, DataByRows
  <2>2. CASE CursorTs = Null
    BY <2>1, <2>2 DEF LaterTime
  <2>3. CASE CursorTs # Null
    <3>1. CursorTs = IF stream.ts = Null THEN job.lo ELSE stream.ts
      BY <2>3 DEF CursorTs
    <3>2. /\ job.lo <= CursorTs
          /\ AllStored(job.spec, FilesBetween(job.spec, job.lo, CursorTs))
      <4>1. FilesBetween(job.spec, job.lo, job.lo) = {}
        BY FinishFacts, FilesArePositive DEF FilesBetween
      <4> QED BY <3>1, <4>1, FinishFacts DEF AllStored
    <3>3. CursorCovered(job.spec, CursorTs)
      BY <1>a, <3>2 DEF CursorCovered
    <3> QED BY <2>1, <3>3 DEF LaterTime
  <2> QED BY <2>2, <2>3
<1>5. \A d \in Specs : CursorCovered(d, cursors'[d])
  BY <1>a, <1>4, DataByRows DEF FinishWindow, TypeOK
<1>6. (\A w \in Windows : RowCovered(w, checkpoints[w]))'
  BY <1>a, <1>3 DEF RowCovered, AllStored, Stored, FilesBetween
<1>7. (\A d \in Specs : CursorCovered(d, cursors[d]))'
  BY <1>a, <1>5 DEF CursorCovered, AllStored, Stored, FilesBetween
<1>8. FilesAreWhole'
  BY <1>a DEF TableData, FilesAreWhole, Stored
<1> QED BY <1>6, <1>7, <1>8, DataByRowsNext

LEMMA AdvanceData ==
    ASSUME TypeOK, JobKnows, StreamInv, TableData, pc = "advance",
           AdvanceCursor(job.spec, stream.ts)
    PROVE  TableData'
<1>a. /\ checkpoints' = checkpoints /\ raw' = raw
      /\ job.lo <= cursors[job.spec] /\ stream.ts \in Nat /\ stream.ts # Null
      /\ cursors[job.spec] \in Nat /\ cursors[job.spec] # Null
  BY FinishFacts DEF JobKnows, InJob, StreamInv, AdvanceCursor, TypeOK, Times, Null
<1>1. CursorCovered(job.spec, LaterTime(cursors[job.spec], stream.ts))
  <2>1. PICK w \in Windows :
           /\ SpecOf(w) = job.spec /\ StartOf(w) <= cursors[job.spec] /\ StartOf(w) \in Nat
           /\ AllStored(job.spec, FilesBetween(job.spec, StartOf(w), cursors[job.spec]))
    BY <1>a, FinishFacts, DataByRows, WindowParts DEF CursorCovered
  <2>2. CASE ~(stream.ts > cursors[job.spec])
    BY <1>a, <2>1, <2>2 DEF LaterTime, CursorCovered
  <2>3. CASE stream.ts > cursors[job.spec]
    <3>1. LaterTime(cursors[job.spec], stream.ts) = stream.ts /\ StartOf(w) <= stream.ts
      BY <1>a, <2>1, <2>3 DEF LaterTime
    <3>2. ASSUME NEW f \in FilesBetween(job.spec, StartOf(w), stream.ts)
          PROVE  Stored(job.spec, f)
      <4>1. f \in Nat /\ f \in FileTimes[job.spec] /\ StartOf(w) < f /\ f <= stream.ts
        BY FinishFacts, FilesArePositive DEF FilesBetween
      <4>2. CASE f <= cursors[job.spec]
        BY <2>1, <4>1, <4>2 DEF AllStored, FilesBetween
      <4>3. CASE ~(f <= cursors[job.spec])
        <5>1. job.lo < f
          BY <1>a, <4>1, <4>3, FinishFacts
        <5> QED BY <4>1, <5>1, FinishFacts DEF AllStored, FilesBetween
      <4> QED BY <4>2, <4>3
    <3> QED BY <2>1, <3>1, <3>2 DEF CursorCovered, AllStored
  <2> QED BY <2>2, <2>3
<1>2. \A d \in Specs : CursorCovered(d, cursors'[d])
  BY <1>1, DataByRows, FinishFacts DEF AdvanceCursor, TypeOK
<1>3. (\A w \in Windows : RowCovered(w, checkpoints[w]))'
  BY <1>a, DataByRows DEF RowCovered, AllStored, Stored, FilesBetween
<1>4. (\A d \in Specs : CursorCovered(d, cursors[d]))'
  BY <1>a, <1>2 DEF CursorCovered, AllStored, Stored, FilesBetween
<1>5. FilesAreWhole'
  BY <1>a DEF TableData, FilesAreWhole, Stored
<1> QED BY <1>3, <1>4, <1>5, DataByRowsNext

LEMMA TableDataNext ==
    ASSUME TypeOK, TypeOK', JobKnows, StreamInv, TableData, [Next]_vars
    PROVE  TableData'
<1>a. StoreTypeOK /\ ProcTypeOK /\ raw \subseteq raw'
  BY TypeSplit, RawGrows
<1>b. ASSUME UNCHANGED <<checkpoints, cursors, raw>> PROVE TableData'
  BY <1>b, DataFrame
<1>c. ASSUME UNCHANGED storeVars PROVE TableData'
  BY <1>b, <1>c DEF storeVars
<1>1. ASSUME NEW w \in Windows, NEW out, NEW e, Seed(w, e, out)
      PROVE  TableData'
  BY <1>1, <1>c, SeedWindowData DEF Seed, Attempt
<1>2. ASSUME NEW out, NEW q \in queue, RunWindow(q, out)
      PROVE  TableData'
  <2>1. ASSUME BeginWindow(q.win) PROVE TableData'
    <3>1. /\ raw' = raw /\ cursors' = cursors
          /\ \A w \in Windows :
                /\ checkpoints'[w].last_file = checkpoints[w].last_file
                /\ checkpoints'[w].last_ts = checkpoints[w].last_ts
      BY <1>a, <2>1 DEF BeginWindow, StoreTypeOK, CheckpointRows
    <3> QED BY <3>1, StateData
  <2> QED BY <1>2, <1>c, <2>1 DEF RunWindow, Attempt
<1>3. ASSUME NEW out, FileEnd(out) \/ DoneLeftover(out) \/ \E f : FileBeginLeftover(f, out)
      PROVE  TableData'
  <2>1. /\ Attempt(Commit(stream.cur, stream.buf), out) /\ InJob
        /\ pc \in {"fetch", "leftover"} /\ stream.cur # Null /\ stream.buf = RecCount
    BY <1>3 DEF FileEnd, DoneLeftover, FileBeginLeftover, InJob, StreamInv
  <2> QED BY <1>c, <2>1, CommitData DEF Attempt
<1>4. ASSUME NEW out, FinishSetup(out)
      PROVE  TableData'
  BY <1>4, <1>c, FinishWindowData DEF FinishSetup, Attempt
<1>5. ASSUME NEW out, Advance(out)
      PROVE  TableData'
  BY <1>5, <1>c, AdvanceData DEF Advance, Attempt
<1>6. ASSUME NEW out, FinishDiff(out) \/ \E c : RunDiff(c, out)
      PROVE  TableData'
  BY <1>6, <1>b, <1>c DEF FinishDiff, RunDiff, Attempt, FinishDiffRun, BeginDiffRun
<1>7. ASSUME NEW out, RecordFailure(out)
      PROVE  TableData'
  <2>1. ASSUME FailWindow(job.run, JobWindow) PROVE TableData'
    <3>1. /\ raw' = raw /\ cursors' = cursors
          /\ \A w \in Windows :
                /\ checkpoints'[w].last_file = checkpoints[w].last_file
                /\ checkpoints'[w].last_ts = checkpoints[w].last_ts
      BY <1>a, <2>1 DEF FailWindow, StoreTypeOK, CheckpointRows
    <3> QED BY <3>1, StateData
  <2>2. ASSUME FinishDiffRun(job.run, "failed") PROVE TableData'
    BY <1>b, <2>2 DEF FinishDiffRun
  <2> QED BY <1>7, <1>c, <2>1, <2>2 DEF RecordFailure, Attempt
<1>8. ASSUME NEW w \in Windows, Abandon(w)
      PROVE  TableData'
  <2>1. /\ raw' = raw /\ cursors' = cursors
        /\ \A v \in Windows :
              /\ checkpoints'[v].last_file = checkpoints[v].last_file
              /\ checkpoints'[v].last_ts = checkpoints[v].last_ts
    BY <1>8, <1>a DEF Abandon, AbandonWindow, StoreTypeOK, CheckpointRows
  <2> QED BY <2>1, StateData
<1>9. ASSUME NEW out, ListPending(out) \/ ListCursors(out) \/ \E ts : OpenOk(ts, out)
      PROVE  TableData'
  BY <1>9, <1>c DEF ListPending, ListCursors, OpenOk
<1>10. ASSUME \/ SeedDone \/ WindowsDone \/ NoData \/ Record \/ Done \/ StreamError
              \/ SpawnError \/ DiffsDone \/ Normalize \/ Kill \/ Provide
              \/ \E f : FileBegin(f) \/ \E c, P : StartCommand(c, P)
       PROVE  TableData'
  BY <1>10, <1>c DEF SeedDone, WindowsDone, NoData, Record, Done, StreamError, SpawnError,
                     DiffsDone, Normalize, Kill, Provide, FileBegin, StartCommand
<1>11. CASE UNCHANGED vars
  BY <1>11, <1>c DEF vars
<1> QED
  BY <1>1, <1>2, <1>3, <1>4, <1>5, <1>6, <1>7, <1>8, <1>9, <1>10, <1>11
  DEF Next, ProcessStep

(***************************************************************************)
(* DoneIsComplete: alone, a window is done only with its whole range.      *)
(***************************************************************************)
\* A step that marks no window done.
LEMMA DoneFrame ==
    ASSUME DoneIsComplete, raw \subseteq raw',
           \A w \in Windows : checkpoints'[w].state = "done" =>
                                  /\ checkpoints[w].state = "done"
                                  /\ checkpoints'[w].end = checkpoints[w].end
                                  /\ checkpoints'[w].last_ts = checkpoints[w].last_ts
    PROVE  DoneIsComplete'
<1> SUFFICES ASSUME NEW w \in Windows, checkpoints'[w].state = "done"
             PROVE  AllStored(SpecOf(w), FilesBetween(SpecOf(w), StartOf(w),
                        IF checkpoints[w].end = NoEnd THEN checkpoints[w].last_ts
                                                      ELSE checkpoints[w].end))'
  BY DEF DoneIsComplete
<1>1. \A f \in FilesBetween(SpecOf(w), StartOf(w),
                 IF checkpoints'[w].end = NoEnd THEN checkpoints'[w].last_ts
                                                ELSE checkpoints'[w].end) :
          Stored(SpecOf(w), f)'
  BY StoredGrows DEF DoneIsComplete
<1> QED BY <1>1 DEF AllStored, FilesBetween, Stored

LEMMA SeedWindowDone ==
    ASSUME TypeOK, DoneIsComplete, NEW w \in Windows, NEW e, SeedWindow(w, e)
    PROVE  DoneIsComplete'
<1>1. ASSUME NEW s, s = SeededRow(checkpoints[w], e), s.state = "done"
      PROVE  s = checkpoints[w]
  BY <1>1 DEF SeededRow, TypeOK, CheckpointRows, Settled
<1>2. \A v \in Windows : checkpoints'[v].state = "done" => checkpoints'[v] = checkpoints[v]
  BY <1>1 DEF SeedWindow, TypeOK
<1> QED BY <1>2, DoneFrame DEF SeedWindow

LEMMA FinishWindowDone ==
    ASSUME TypeOK, JobInv, ListsInv, StreamInv, DataInv, pc = "finish", job.mode = "setup",
           FinishWindow(job.run, JobWindow, stream.ts, CursorTs)
    PROVE  DoneIsComplete'
<1>a. /\ JobWindow \in Windows /\ raw' = raw
      /\ checkpoints[JobWindow].end = job.end
      /\ SpecOf(JobWindow) = job.spec /\ StartOf(JobWindow) = job.lo
  BY LocalsType DEF InJob, InSetup, JobInv, JobKnows, ListsInv, SnapshotIsFresh, FinishWindow
<1> DEFINE c == checkpoints[JobWindow]
<1>1. /\ checkpoints'[JobWindow].end = job.end
      /\ checkpoints'[JobWindow].last_ts = LaterTime(c.last_ts, stream.ts)
      /\ \A w \in Windows \ {JobWindow} : checkpoints'[w] = checkpoints[w]
  BY <1>a DEF FinishWindow, FinishedRow, TypeOK, CheckpointRows
<1>2. AllStored(job.spec, FilesBetween(job.spec, job.lo,
          IF job.end = NoEnd THEN LaterTime(c.last_ts, stream.ts) ELSE job.end))
  <2>1. AllStored(job.spec, FilesBetween(job.spec, job.lo, c.last_ts))
    BY <1>a DEF DataInv, TableData
  <2> QED BY <2>1, FinishFacts, LaterCovered
<1> SUFFICES ASSUME NEW w \in Windows, checkpoints'[w].state = "done"
             PROVE  AllStored(SpecOf(w), FilesBetween(SpecOf(w), StartOf(w),
                        IF checkpoints[w].end = NoEnd THEN checkpoints[w].last_ts
                                                      ELSE checkpoints[w].end))'
  BY DEF DoneIsComplete
<1>3. CASE w = JobWindow
  BY <1>a, <1>1, <1>2, <1>3 DEF AllStored, FilesBetween, Stored
<1>4. CASE w # JobWindow
  BY <1>a, <1>1, <1>4 DEF DataInv, DoneIsComplete, AllStored, FilesBetween, Stored
<1> QED BY <1>3, <1>4

LEMMA DoneNext ==
    ASSUME TypeOK, JobInv, ListsInv, StreamInv, DataInv, [Next]_vars
    PROVE  DoneIsComplete'
<1>a. StoreTypeOK /\ ProcTypeOK /\ raw \subseteq raw' /\ DoneIsComplete
  BY TypeSplit, RawGrows DEF DataInv
<1>b. ASSUME checkpoints' = checkpoints PROVE DoneIsComplete'
  BY <1>a, <1>b, DoneFrame
<1>c. ASSUME UNCHANGED storeVars PROVE DoneIsComplete'
  BY <1>b, <1>c DEF storeVars
<1>1. ASSUME NEW w \in Windows, NEW out, NEW e, Seed(w, e, out)
      PROVE  DoneIsComplete'
  BY <1>1, <1>a, <1>c, SeedWindowDone DEF Seed, Attempt
<1>2. ASSUME NEW out, NEW q \in queue, RunWindow(q, out)
      PROVE  DoneIsComplete'
  <2>1. ASSUME BeginWindow(q.win) PROVE DoneIsComplete'
    BY <1>a, <2>1, DoneFrame DEF BeginWindow, StoreTypeOK, CheckpointRows
  <2> QED BY <1>2, <1>c, <2>1 DEF RunWindow, Attempt
<1>3. ASSUME NEW out, FileEnd(out) \/ DoneLeftover(out) \/ \E f : FileBeginLeftover(f, out)
      PROVE  DoneIsComplete'
  <2>1. ASSUME Commit(stream.cur, stream.buf) PROVE DoneIsComplete'
    BY <1>a, <2>1, CommitRows, DoneFrame
  <2> QED BY <1>3, <1>c, <2>1 DEF FileEnd, DoneLeftover, FileBeginLeftover, Attempt
<1>4. ASSUME NEW out, FinishSetup(out)
      PROVE  DoneIsComplete'
  BY <1>4, <1>c, FinishWindowDone DEF FinishSetup, Attempt
<1>5. ASSUME NEW out, Advance(out) \/ FinishDiff(out) \/ \E c : RunDiff(c, out)
      PROVE  DoneIsComplete'
  BY <1>5, <1>b, <1>c DEF Advance, FinishDiff, RunDiff, Attempt, AdvanceCursor, FinishDiffRun,
                          BeginDiffRun
<1>6. ASSUME NEW out, RecordFailure(out)
      PROVE  DoneIsComplete'
  <2>1. ASSUME FailWindow(job.run, JobWindow) PROVE DoneIsComplete'
    BY <1>a, <2>1, DoneFrame DEF FailWindow, StoreTypeOK, CheckpointRows
  <2>2. ASSUME FinishDiffRun(job.run, "failed") PROVE DoneIsComplete'
    BY <1>b, <2>2 DEF FinishDiffRun
  <2> QED BY <1>6, <1>c, <2>1, <2>2 DEF RecordFailure, Attempt
<1>7. ASSUME NEW w \in Windows, Abandon(w)
      PROVE  DoneIsComplete'
  BY <1>7, <1>a, DoneFrame DEF Abandon, AbandonWindow, StoreTypeOK, CheckpointRows
<1>8. ASSUME NEW out, ListPending(out) \/ ListCursors(out) \/ \E ts : OpenOk(ts, out)
      PROVE  DoneIsComplete'
  BY <1>8, <1>c DEF ListPending, ListCursors, OpenOk
<1>9. ASSUME \/ SeedDone \/ WindowsDone \/ NoData \/ Record \/ Done \/ StreamError
             \/ SpawnError \/ DiffsDone \/ Normalize \/ Kill \/ Provide
             \/ \E f : FileBegin(f) \/ \E c, P : StartCommand(c, P)
      PROVE  DoneIsComplete'
  BY <1>9, <1>c DEF SeedDone, WindowsDone, NoData, Record, Done, StreamError, SpawnError,
                    DiffsDone, Normalize, Kill, Provide, FileBegin, StartCommand
<1>10. CASE UNCHANGED vars
  BY <1>10, <1>c DEF vars
<1> QED
  BY <1>1, <1>2, <1>3, <1>4, <1>5, <1>6, <1>7, <1>8, <1>9, <1>10 DEF Next, ProcessStep

(***************************************************************************)
(* SharedInv: the part of the invariant that needs no lock.                *)
(***************************************************************************)
\* A process alone has all of it.
LEMMA AloneIsShared == IInv => SharedInv
<1> SUFFICES ASSUME IInv PROVE ListsKnow
  BY DEF IInv, SharedInv, JobInv, DataInv
<1>1. ASSUME NEW q \in queue
      PROVE  AllStored(SpecOf(q.win), FilesBetween(SpecOf(q.win), StartOf(q.win), q.skip))
  <2>1. q.win \in Windows /\ SpecOf(q.win) \in Specs /\ StartOf(q.win) \in Nat
    BY WindowParts DEF IInv, TypeOK
  <2>2. CASE q.skip = Null
    BY <2>1, <2>2, FilesArePositive DEF AllStored, FilesBetween, Null
  <2>3. CASE q.skip # Null
    BY <2>1, <2>3 DEF IInv, ListsInv, SnapshotIsFresh, DataInv, TableData, ResumePointStored
  <2> QED BY <2>2, <2>3
<1> QED BY <1>1 DEF IInv, ListsInv, ListsKnow

\* A step of the process itself keeps it ...
LEMMA SharedNext == SharedInv /\ [Next]_vars => SharedInv'
<1> SUFFICES ASSUME SharedInv, [Next]_vars PROVE SharedInv'
  OBVIOUS
<1>1. TypeOK'
  BY TypeNext DEF SharedInv
<1>2. JobKnows' /\ ListsKnow' /\ StreamInv' /\ TableData'
  BY <1>1, JobKnowsNext, ListsKnowNext, StreamNext, TableDataNext DEF SharedInv
<1> QED BY <1>1, <1>2 DEF SharedInv

\* ... and so does any step of another that adds records, moves cursors forward
\* and leaves the tables covered ...
LEMMA SharedFrame ==
    ASSUME SharedInv, UNCHANGED procVars, TypeOK', TableData',
           raw \subseteq raw', nextRun' >= nextRun, \A d \in Specs : cursors'[d] >= cursors[d]
    PROVE  SharedInv'
<1>1. UNCHANGED <<pc, job, stream>> /\ queue' \subseteq queue /\ todo' \subseteq todo
  BY DEF procVars
<1>2. JobKnows'
  BY <1>1, JobFrame DEF SharedInv, InJob
<1>3. ListsKnow'
  BY <1>1, ListsFrame DEF SharedInv
<1>4. StreamInv'
  BY <1>1, StreamFrame DEF SharedInv, InJob
<1> QED BY <1>2, <1>3, <1>4 DEF SharedInv

\* ... which is what every step of a process does.
LEMMA SharedSteps ==
    ASSUME SharedInv, [Next]_vars
    PROVE  /\ raw \subseteq raw' /\ nextRun' >= nextRun
           /\ \A d \in Specs : cursors'[d] >= cursors[d]
  BY RawGrows, RunIdsGrow, CursorsGrow DEF SharedInv

\* While one process works, one that is idle keeps the whole invariant.
LEMMA IdleFrame ==
    ASSUME IInv, pc = "idle", UNCHANGED procVars, TypeOK', RunsInv', DataInv',
           raw \subseteq raw', nextRun' >= nextRun, \A d \in Specs : cursors'[d] >= cursors[d]
    PROVE  IInv'
<1>1. SharedInv'
  BY AloneIsShared, SharedFrame DEF DataInv
<1>2. ~InJob' /\ ~InSetup' /\ queue' = {}
  BY DEF procVars, IInv, ListsInv, InJob, InSetup
<1>3. JobInv' /\ ListsInv'
  BY <1>1, <1>2 DEF SharedInv, JobInv, JobOwns, ListsInv, ListsKnow, SnapshotIsFresh
<1> QED BY <1>1, <1>3 DEF IInv, SharedInv

\* Only a process that is at work takes a step of its own.
LEMMA WorkIsNotIdle == ProcessStep \/ Kill => pc # "idle"
  BY DEF ProcessStep, Kill, Seed, SeedDone, ListPending, RunWindow, OpenOk, FileBeginLeftover,
         FileEnd, DoneLeftover, FinishSetup, Advance, FinishDiff, RecordFailure, ListCursors,
         RunDiff, WindowsDone, NoData, FileBegin, Record, Done, StreamError, SpawnError,
         DiffsDone, Normalize

(***************************************************************************)
(* The theorems.                                                           *)
(***************************************************************************)
LEMMA IInvInit == Init => IInv
<1> SUFFICES ASSUME Init PROVE IInv
  OBVIOUS
<1>1. TypeOK
  BY TypeInit
<1>2. ~InJob /\ ~InSetup /\ queue = {} /\ todo = {} /\ stream = NoStream /\ pc = "idle"
  BY DEF Init, InJob, InSetup
<1>3. /\ nextRun = 0 /\ raw = {}
      /\ \A w \in Windows : checkpoints[w] = AbsentCheckpoint
      /\ \A r \in RunIds : runs[r].status = "absent"
      /\ \A d \in Specs : cursors[d] = Null
  BY DEF Init, StoreInit, AbsentRun
<1>4. RunsInv
  BY <1>3 DEF RunsInv, RunningRunIsLast, DiffRunsAreSerial, StateMatchesRun, AbsentCheckpoint
<1>5. JobInv /\ ListsInv /\ StreamInv
  BY <1>2 DEF JobInv, JobKnows, JobOwns, ListsInv, StreamInv, SnapshotIsFresh, NoStream
<1>6. DataInv
  <2>1. ASSUME NEW w \in Windows PROVE RowCovered(w, checkpoints[w])
    <3>1. SpecOf(w) \in Specs /\ StartOf(w) \in Nat
      BY WindowParts
    <3>2. FilesBetween(SpecOf(w), StartOf(w), Null) = {}
      BY <3>1, FilesArePositive DEF FilesBetween, Null
    <3> QED BY <1>3, <3>2 DEF RowCovered, AbsentCheckpoint, AllStored
  <2>2. DoneIsComplete
    BY <1>3 DEF DoneIsComplete, AbsentCheckpoint
  <2> QED BY <1>3, <2>1, <2>2, DataByRows DEF DataInv, CursorCovered, FilesAreWhole
<1> QED BY <1>1, <1>4, <1>5, <1>6 DEF IInv

LEMMA IInvNext == IInv /\ [Next]_vars => IInv'
<1> SUFFICES ASSUME IInv, [Next]_vars PROVE IInv'
  OBVIOUS
<1>1. TypeOK'
  BY TypeNext DEF IInv
<1>2. RunsInv'
  BY RunsNext DEF IInv
<1>3. ListsInv'
  BY <1>1, ListsNext DEF IInv
<1>4. SharedInv'
  BY AloneIsShared, SharedNext
<1>5. JobInv'
  BY <1>1, <1>4, JobOwnsNext, AloneIsShared DEF IInv, SharedInv, JobInv
<1>6. DataInv'
  BY <1>4, DoneNext DEF IInv, SharedInv, DataInv
<1> QED BY <1>1, <1>2, <1>3, <1>4, <1>5, <1>6 DEF IInv, SharedInv

\* The inductive invariant holds in every reachable state, for every set of
\* dataspecs, windows and files and every combination of faults.
THEOREM Safety == Spec => []IInv
  BY IInvInit, IInvNext, PTL DEF Spec

\* Every file up to a window's resume point is stored, so JVSkip never skips a
\* file that commit_file has not committed (ingest.rs:185-274).
THEOREM ResumePoints == Spec => []ResumePointStored
<1>1. IInv => ResumePointStored
  BY DEF IInv, DataInv, TableData
<1> QED BY <1>1, Safety, PTL

\* A window that finish_window marked done has all its files, whatever crashes,
\* broken streams and lost acknowledgements came before (ingest.rs:276-339).
THEOREM DoneWindows == Spec => []DoneIsComplete
<1>1. IInv => DoneIsComplete
  BY DEF IInv, DataInv, TableData
<1> QED BY <1>1, Safety, PTL

\* No file between the window a cursor grew from and the cursor is missing, so
\* resume may fetch from the cursor on (ingest.rs:308-327, 419-450).
THEOREM Cursors == Spec => []CursorIsCovered
<1>1. IInv => CursorIsCovered
  BY DEF IInv, DataInv, TableData
<1> QED BY <1>1, Safety, PTL

\* commit_file stores files whole or not at all: what was buffered when a
\* stream broke is not in raw_records (ingest.rs:195-231).
THEOREM WholeFiles == Spec => []FilesAreWhole
<1>1. IInv => FilesAreWhole
  BY DEF IInv, DataInv, TableData
<1> QED BY <1>1, Safety, PTL

\* A setup run that still shows as running is the last one of its window, so
\* begin_window folds all dead runs of a window (ingest.rs:110-161).
THEOREM SetupRunsAreSerial == Spec => []RunningRunIsLast
<1>1. IInv => RunningRunIsLast
  BY DEF IInv, RunsInv
<1> QED BY <1>1, Safety, PTL

\* At most one differential run of a dataspec shows as running
\* (begin_diff_run, ingest.rs:453-478).
THEOREM DiffRuns == Spec => []DiffRunsAreSerial
<1>1. IInv => DiffRunsAreSerial
  BY DEF IInv, RunsInv
<1> QED BY <1>1, Safety, PTL

\* The state of a window is the status of its last run, after every failure
\* and restart (ingest.rs:110-161, 276-339, 380-408).
THEOREM StatesMatchRuns == Spec => []StateMatchesRun
<1>1. IInv => StateMatchesRun
  BY DEF IInv, RunsInv
<1> QED BY <1>1, Safety, PTL

\* The range and resume file that run_pending read of a window are still those
\* of its row when the window's turn comes (main.rs:292-331).
THEOREM Snapshots == Spec => []SnapshotIsFresh
<1>1. IInv => SnapshotIsFresh
  BY DEF IInv, ListsInv
<1> QED BY <1>1, Safety, PTL

(***************************************************************************)
(* The importer implements IngestPromise.                                  *)
(***************************************************************************)
\* Committing a file adds that file to those stored, and no other.
LEMMA CommitKeepsPromise ==
    ASSUME TypeOK, StreamInv, TableData, pc \in {"fetch", "leftover"},
           stream.cur # Null, stream.buf = RecCount, Commit(stream.cur, stream.buf)
    PROVE  [Promise!Next]_(Promise!vars)
<1>0. job.spec \in Specs /\ stream.cur \in FileTimes[job.spec]
  BY DEF StreamInv, RangeFiles, TypeOK, Jobs
<1>a. PICK d \in Specs : d = job.spec
  BY <1>0
<1>b. PICK f \in FileTimes[d] : f = stream.cur
  BY <1>0, <1>a
<1>1. d \in Specs /\ f \in FileTimes[d] /\ d = job.spec /\ f = stream.cur
  BY <1>a, <1>b
<1>2. /\ Stored(d, f)' /\ raw \subseteq raw'
      /\ \A k \in raw' : k \in raw \/ (k[1] = d /\ k[2] = f)
  BY <1>1, CommitStores
<1>3. cursors' = cursors
  BY DEF Commit, CommitFile, CommitDiffFile, InsertRaw
<1>4. ASSUME NEW e, NEW g, Stored(e, g)'
      PROVE  Stored(e, g) \/ (e = d /\ g = f)
  <2>1. <<e, g, 1>> \in raw'
    <3>1. 1 \in 1 .. RecCount
      BY StoreConstants
    <3> QED  BY <1>4, <3>1 DEF Stored
  <2>2. CASE <<e, g, 1>> \in raw
    BY <2>2 DEF TableData, FilesAreWhole
  <2>3. CASE <<e, g, 1>> \notin raw
    BY <1>2, <2>1, <2>3
  <2> QED  BY <2>2, <2>3
<1>5. \A e, g : Stored(e, g) => Stored(e, g)'
  BY <1>2, StoredGrows
<1>6. ASSUME NEW e \in Specs
      PROVE  StoredFiles'[e] = IF e = d THEN StoredFiles[e] \union {f} ELSE StoredFiles[e]
  <2>1. StoredFiles'[e] = {g \in FileTimes[e] : Stored(e, g)'}
    BY DEF StoredFiles, Stored
  <2>2. StoredFiles[e] = {g \in FileTimes[e] : Stored(e, g)}
    BY DEF StoredFiles
  <2>3. ASSUME NEW g \in FileTimes[e]
        PROVE  Stored(e, g)' <=> Stored(e, g) \/ (e = d /\ g = f)
    BY <1>2, <1>4, <1>5
  <2> QED  BY <1>1, <2>1, <2>2, <2>3
<1>7. CASE Stored(d, f)
  <2>1. \A e \in Specs : StoredFiles'[e] = StoredFiles[e]
    BY <1>1, <1>6, <1>7 DEF StoredFiles
  <2>2. StoredFiles' = StoredFiles
    BY <2>1 DEF StoredFiles
  <2> QED  BY <1>3, <2>2 DEF Promise!vars
<1>8. CASE ~Stored(d, f)
  <2>1. f \in FileTimes[d] \ StoredFiles[d]
    BY <1>1, <1>8 DEF StoredFiles
  <2>2. StoredFiles' = [StoredFiles EXCEPT ![d] = @ \union {f}]
    BY <1>1, <1>6 DEF StoredFiles
  <2>3. Promise!StoreFile(d, f)
    BY <1>3, <2>1, <2>2 DEF Promise!StoreFile
  <2> QED  BY <1>1, <2>3 DEF Promise!Next
<1> QED  BY <1>7, <1>8

\* Moving a cursor forward over stored files is a step of the promise, leaving
\* it where it is a stutter.
LEMMA CursorKeepsPromise ==
    ASSUME TypeOK, NEW d \in Specs, NEW ts \in Times, NEW base,
           ts # Null => /\ base \in WindowStarts[d] \union {cursors[d]}
                        /\ base <= ts
                        /\ AllStored(d, FilesBetween(d, base, ts)),
           raw' = raw, cursors' = [cursors EXCEPT ![d] = LaterTime(@, ts)]
    PROVE  [Promise!Next]_(Promise!vars)
<1>1. StoredFiles' = StoredFiles /\ cursors \in [Specs -> Times]
  BY DEF StoredFiles, Stored, TypeOK
<1>2. CASE ts # Null /\ ts > cursors[d]
  <2>1. cursors' = [cursors EXCEPT ![d] = ts] /\ cursors'[d] = ts
    BY <1>1, <1>2 DEF LaterTime
  <2>2. cursors[d] < ts
    BY <1>1, <1>2 DEF Times, Null
  <2>3. \A f \in FileTimes[d] : base < f /\ f <= ts => f \in StoredFiles[d]
    BY <1>2 DEF AllStored, FilesBetween, StoredFiles
  <2>4. Promise!MoveOn(d, base)
    BY <1>1, <1>2, <2>1, <2>2, <2>3 DEF Promise!MoveOn
  <2> QED  BY <1>2, <2>4 DEF Promise!Next
<1>3. CASE ~(ts # Null /\ ts > cursors[d])
  <2>1. cursors' = cursors
    BY <1>1, <1>3 DEF LaterTime
  <2> QED  BY <1>1, <2>1 DEF Promise!vars
<1> QED  BY <1>2, <1>3

LEMMA FinishKeepsPromise ==
    ASSUME TypeOK, JobKnows, StreamInv, pc = "finish", job.mode = "setup",
           FinishWindow(job.run, JobWindow, stream.ts, CursorTs)
    PROVE  [Promise!Next]_(Promise!vars)
<1>1. /\ JobWindow \in Windows /\ SpecOf(JobWindow) = job.spec /\ StartOf(JobWindow) = job.lo
      /\ raw' = raw /\ cursors' = [cursors EXCEPT ![job.spec] = LaterTime(@, CursorTs)]
  BY LocalsType DEF InJob, JobKnows, FinishWindow
<1>2. /\ stream.ts \in Times /\ job.spec \in Specs /\ job.lo \in Nat
      /\ AllStored(job.spec, FilesBetween(job.spec, job.lo, stream.ts))
      /\ stream.ts # Null => job.lo < stream.ts /\ stream.ts \in Nat
  BY FinishFacts
<1>3. job.lo \in WindowStarts[job.spec]
  BY <1>1, <1>2 DEF WindowStarts
<1>4. CursorTs \in Times
  BY <1>2 DEF CursorTs, Times
<1>5. CursorTs # Null => job.lo <= CursorTs
                         /\ AllStored(job.spec, FilesBetween(job.spec, job.lo, CursorTs))
  <2>1. FilesBetween(job.spec, job.lo, job.lo) = {}
    BY <1>2, FilesArePositive DEF FilesBetween
  <2> QED  BY <1>2, <2>1 DEF CursorTs, AllStored
<1> QED  BY <1>1, <1>2, <1>3, <1>4, <1>5, CursorKeepsPromise

LEMMA AdvanceKeepsPromise ==
    ASSUME TypeOK, JobKnows, StreamInv, pc = "advance", AdvanceCursor(job.spec, stream.ts)
    PROVE  [Promise!Next]_(Promise!vars)
<1>1. /\ raw' = raw /\ cursors' = [cursors EXCEPT ![job.spec] = LaterTime(@, stream.ts)]
      /\ job.lo <= cursors[job.spec] /\ stream.ts # Null
  BY DEF JobKnows, InJob, StreamInv, AdvanceCursor
<1>2. /\ stream.ts \in Nat /\ stream.ts \in Times /\ job.spec \in Specs /\ job.lo \in Nat
      /\ AllStored(job.spec, FilesBetween(job.spec, job.lo, stream.ts))
      /\ cursors[job.spec] \in Nat
  BY <1>1, FinishFacts DEF TypeOK, Times, Null
<1>3. CASE cursors[job.spec] <= stream.ts
  <2>1. \A f \in FilesBetween(job.spec, cursors[job.spec], stream.ts) :
            f \in FilesBetween(job.spec, job.lo, stream.ts)
    BY <1>1, <1>2, FilesArePositive DEF FilesBetween
  <2>2. AllStored(job.spec, FilesBetween(job.spec, cursors[job.spec], stream.ts))
    BY <1>2, <2>1 DEF AllStored
  <2> QED  BY <1>1, <1>2, <1>3, <2>2, CursorKeepsPromise
<1>4. CASE ~(cursors[job.spec] <= stream.ts)
  <2>1. cursors' = cursors
    BY <1>1, <1>2, <1>4 DEF LaterTime, TypeOK
  <2>2. StoredFiles' = StoredFiles
    BY <1>1 DEF StoredFiles, Stored
  <2> QED  BY <2>1, <2>2 DEF Promise!vars
<1> QED  BY <1>3, <1>4

\* It needs only what another process cannot break.
LEMMA PromiseNext == SharedInv /\ [Next]_vars => [Promise!Next]_(Promise!vars)
<1> SUFFICES ASSUME SharedInv, [Next]_vars  PROVE [Promise!Next]_(Promise!vars)
  OBVIOUS
<1>a. TypeOK /\ JobKnows /\ StreamInv /\ TableData
  BY DEF SharedInv
<1>b. ASSUME raw' = raw, cursors' = cursors  PROVE [Promise!Next]_(Promise!vars)
  BY <1>b DEF Promise!vars, StoredFiles, Stored
<1>c. ASSUME UNCHANGED storeVars  PROVE raw' = raw /\ cursors' = cursors
  BY <1>c DEF storeVars
<1>1. ASSUME NEW out, FileEnd(out) \/ DoneLeftover(out) \/ \E f : FileBeginLeftover(f, out)
      PROVE  [Promise!Next]_(Promise!vars)
  <2>1. /\ Attempt(Commit(stream.cur, stream.buf), out)
        /\ pc \in {"fetch", "leftover"} /\ stream.cur # Null /\ stream.buf = RecCount
    BY <1>1, <1>a DEF FileEnd, DoneLeftover, FileBeginLeftover, StreamInv
  <2> QED  BY <1>a, <1>b, <1>c, <2>1, CommitKeepsPromise DEF Attempt
<1>2. ASSUME NEW out, FinishSetup(out)
      PROVE  [Promise!Next]_(Promise!vars)
  BY <1>2, <1>a, <1>b, <1>c, FinishKeepsPromise DEF FinishSetup, Attempt
<1>3. ASSUME NEW out, Advance(out)
      PROVE  [Promise!Next]_(Promise!vars)
  BY <1>3, <1>a, <1>b, <1>c, AdvanceKeepsPromise DEF Advance, Attempt
<1>4. ASSUME NEW out, \/ FinishDiff(out) \/ RecordFailure(out) \/ \E q : RunWindow(q, out)
                      \/ \E c : RunDiff(c, out) \/ \E w, e : Seed(w, e, out)
      PROVE  raw' = raw /\ cursors' = cursors
  BY <1>4, <1>c DEF FinishDiff, RecordFailure, RunWindow, RunDiff, Seed, Attempt,
                    FinishDiffRun, FailWindow, BeginWindow, BeginDiffRun, SeedWindow
<1>5. ASSUME NEW out, ListPending(out) \/ ListCursors(out) \/ \E ts : OpenOk(ts, out)
      PROVE  raw' = raw /\ cursors' = cursors
  BY <1>5, <1>c DEF ListPending, ListCursors, OpenOk
<1>6. ASSUME \/ SeedDone \/ WindowsDone \/ NoData \/ Record \/ Done \/ StreamError
             \/ SpawnError \/ DiffsDone \/ Normalize \/ Kill \/ Provide
             \/ \E f : FileBegin(f) \/ \E c, P : StartCommand(c, P)
      PROVE  raw' = raw /\ cursors' = cursors
  BY <1>6, <1>c DEF SeedDone, WindowsDone, NoData, Record, Done, StreamError, SpawnError,
                    DiffsDone, Normalize, Kill, Provide, FileBegin, StartCommand
<1>7. ASSUME NEW w, Abandon(w)  PROVE raw' = raw /\ cursors' = cursors
  BY <1>7 DEF Abandon, AbandonWindow
<1>8. CASE UNCHANGED vars
  BY <1>8, <1>b, <1>c DEF vars
<1> QED  BY <1>b, <1>1, <1>2, <1>3, <1>4, <1>5, <1>6, <1>7, <1>8 DEF Next, ProcessStep

LEMMA PromiseInit == Init => Promise!Init
<1> SUFFICES ASSUME Init  PROVE Promise!Init
  OBVIOUS
<1>1. raw = {} /\ cursors = [d \in Specs |-> Null]
  BY DEF Init, StoreInit
<1>2. \A d, f : ~Stored(d, f)
  <2>1. 1 \in 1 .. RecCount
    BY StoreConstants
  <2> QED  BY <1>1, <2>1 DEF Stored
<1>3. StoredFiles = [d \in Specs |-> {}]
  BY <1>2 DEF StoredFiles
<1> QED  BY <1>1, <1>3 DEF Promise!Init, Null

\* The importer implements IngestPromise, for every set of dataspecs, windows and
\* files and every combination of faults: files are stored whole and one by one,
\* and a cursor moves forward over stored files only (ingest.rs:1-2, 429-431).
THEOREM ImplementsPromise == Spec => KeepsPromise
<1>1. Init => Promise!Init
  BY PromiseInit
<1>2. IInv => SharedInv
  BY AloneIsShared
<1> QED  BY <1>1, <1>2, Safety, PromiseNext, PTL DEF Spec, KeepsPromise, Promise!Spec

(***************************************************************************)
(* Sums.  The sum is a recursive function; what it computes is proved with *)
(* least elements.                                                         *)
(***************************************************************************)
\* t holds the running totals of s up to n.
Totals(t, s, n) ==
    /\ t \in [0 .. n -> Nat]
    /\ t[0] = 0
    /\ \A r \in 1 .. n : t[r] = t[r - 1] + s[r]

LEMMA TotalsExist ==
    ASSUME NEW n \in Nat, NEW s \in [1 .. n -> Nat]
    PROVE  \E t : Totals(t, s, n)
<1> DEFINE S == {m \in 0 .. n : ~ \E t : Totals(t, s, m)}
<1>0. n \in 0 .. n
  OBVIOUS
<1> SUFFICES ASSUME S # {} PROVE FALSE
  BY <1>0
<1>1. S \in SUBSET Nat
  OBVIOUS
<1>2. PICK m \in S : \A k \in S : m <= k
  <2> HIDE DEF S
  <2> QED BY <1>1, LeastNumber
<1>3. CASE m = 0
  <2>1. Totals([r \in 0 .. 0 |-> 0], s, 0)
    BY DEF Totals
  <2> QED BY <1>3, <2>1
<1>4. CASE m # 0
  <2>1. m \in 1 .. n /\ m - 1 \in 0 .. n /\ m - 1 \notin S
    BY <1>2, <1>4
  <2>2. PICK t : Totals(t, s, m - 1)
    BY <2>1
  <2>3. Totals([r \in 0 .. m |-> IF r = m THEN t[m - 1] + s[m] ELSE t[r]], s, m)
    BY <2>1, <2>2 DEF Totals
  <2> QED BY <2>3
<1> QED BY <1>3, <1>4

\* q is s with k more at e.
Raises(q, s, n, e, k) == \A r \in 1 .. n : q[r] = IF r = e THEN s[r] + k ELSE s[r]

\* The same entries have the same totals.
LEMMA TotalsAgree ==
    ASSUME NEW n, NEW s, NEW t, NEW u,
           n \in Nat, s \in [1 .. n -> Nat], Totals(t, s, n), Totals(u, s, n)
    PROVE  u[n] = t[n]
<1> DEFINE S == {m \in 0 .. n : u[m] # t[m]}
<1>0. n \in 0 .. n
  OBVIOUS
<1> SUFFICES ASSUME S # {} PROVE FALSE
  BY <1>0
<1>1. S \in SUBSET Nat
  OBVIOUS
<1>2. PICK m \in S : \A j \in S : m <= j
  <2> HIDE DEF S
  <2> QED BY <1>1, LeastNumber
<1>3. m # 0
  BY <1>2 DEF Totals
<1>4. m \in 1 .. n /\ m - 1 \in 0 .. n /\ m - 1 \notin S
  BY <1>2, <1>3
<1>5. u[m - 1] = t[m - 1] /\ t[m] = t[m - 1] + s[m] /\ u[m] = u[m - 1] + s[m]
  BY <1>4 DEF Totals
<1> QED BY <1>2, <1>5

\* The total is k more too, from that entry on.
LEMMA TotalsRise ==
    ASSUME NEW n, NEW s, NEW q, NEW t, NEW u, NEW e, NEW k,
           n \in Nat, s \in [1 .. n -> Nat], q \in [1 .. n -> Nat],
           Totals(t, s, n), Totals(u, q, n),
           e \in 1 .. n, k \in Nat, Raises(q, s, n, e, k)
    PROVE  u[n] = t[n] + k
<1> DEFINE S == {m \in 0 .. n : u[m] # IF m < e THEN t[m] ELSE t[m] + k}
<1>0. n \in 0 .. n /\ ~(n < e)
  OBVIOUS
<1> SUFFICES ASSUME S # {} PROVE FALSE
  BY <1>0
<1>1. S \in SUBSET Nat
  OBVIOUS
<1>2. PICK m \in S : \A j \in S : m <= j
  <2> HIDE DEF S
  <2> QED BY <1>1, LeastNumber
<1>3. m # 0
  BY <1>2 DEF Totals
<1>4. m \in 1 .. n /\ m - 1 \in 0 .. n /\ m - 1 \notin S
  BY <1>2, <1>3
<1>5. PICK x, y \in Nat : /\ t[m - 1] = x /\ s[m] = y
                         /\ t[m] = x + y /\ u[m] = u[m - 1] + q[m]
  BY <1>4 DEF Totals
<1>6. /\ u[m - 1] = IF m - 1 < e THEN x ELSE x + k
      /\ q[m] = IF m = e THEN y + k ELSE y
  BY <1>4, <1>5 DEF Raises
<1>7. u[m] = IF m < e THEN x + y ELSE (x + y) + k
  <2>1. m < e => m - 1 < e /\ m # e
    BY <1>4
  <2>2. m = e => m - 1 < e /\ ~(m < e)
    BY <1>4
  <2>3. m > e => ~(m - 1 < e) /\ m # e
    BY <1>4
  <2>4. m < e \/ m = e \/ m > e
    BY <1>4
  <2>5. x + (y + k) = (x + y) + k /\ (x + k) + y = (x + y) + k
    OBVIOUS
  <2> QED BY <1>5, <1>6, <2>1, <2>2, <2>3, <2>4, <2>5
<1> QED BY <1>2, <1>5, <1>7

(***************************************************************************)
(* records_stored.                                                         *)
(***************************************************************************)
\* records_stored of each run.
StoredOf == [r \in 1 .. MaxRuns |-> runs[r].stored]

\* What the recursive definition says of t.
IsSum(t, s, n) == t = [r \in 0 .. n |-> IF r = 0 THEN 0 ELSE t[r - 1] + s[r]]

LEMMA SumsAreTotals ==
    ASSUME NEW n \in Nat, NEW s \in [1 .. n -> Nat], NEW t
    PROVE  IsSum(t, s, n) <=> Totals(t, s, n)
<1>1. ASSUME Totals(t, s, n) PROVE IsSum(t, s, n)
  BY <1>1 DEF Totals, IsSum
<1>2. ASSUME IsSum(t, s, n) PROVE Totals(t, s, n)
  <2> DEFINE S == {m \in 0 .. n : t[m] \notin Nat}
  <2>1. S = {}
    <3> SUFFICES ASSUME S # {} PROVE FALSE
      OBVIOUS
    <3>1. S \in SUBSET Nat
      OBVIOUS
    <3>2. PICK m \in S : \A j \in S : m <= j
      <4> HIDE DEF S
      <4> QED BY <3>1, LeastNumber
    <3>3. m # 0
      BY <1>2, <3>2 DEF IsSum
    <3>4. m \in 1 .. n /\ m - 1 \in 0 .. n /\ m - 1 \notin S
      BY <3>2, <3>3
    <3>5. t[m] = t[m - 1] + s[m]
      BY <1>2, <3>3, <3>4 DEF IsSum
    <3> QED BY <3>2, <3>4, <3>5
  <2>2. \A m \in 0 .. n : t[m] \in Nat
    BY <2>1
  <2> QED BY <1>2, <2>2 DEF IsSum, Totals
<1> QED BY <1>1, <1>2

LEMMA SumsExist ==
    ASSUME NEW n \in Nat, NEW s \in [1 .. n -> Nat]
    PROVE  \E t : IsSum(t, s, n)
  BY TotalsExist, SumsAreTotals

LEMMA SumOfRows ==
    ASSUME NEW rows, NEW s, s = [r \in 1 .. MaxRuns |-> rows[r].stored], NEW t
    PROVE  IsSum(t, s, MaxRuns) <=>
             t = [r \in 0 .. MaxRuns |-> IF r = 0 THEN 0 ELSE t[r - 1] + rows[r].stored]
<1>1. \A r \in 0 .. MaxRuns : r # 0 => r \in 1 .. MaxRuns
  BY StoreConstants
<1>2. \A r \in 0 .. MaxRuns : (IF r = 0 THEN 0 ELSE t[r - 1] + s[r])
                             = (IF r = 0 THEN 0 ELSE t[r - 1] + rows[r].stored)
  BY <1>1
<1>3. [r \in 0 .. MaxRuns |-> IF r = 0 THEN 0 ELSE t[r - 1] + s[r]]
      = [r \in 0 .. MaxRuns |-> IF r = 0 THEN 0 ELSE t[r - 1] + rows[r].stored]
  BY <1>2
<1> QED BY <1>3 DEF IsSum

LEMMA RunTotals ==
    /\ StoredOf \in [1 .. MaxRuns -> Nat] => Totals(StoredByRuns, StoredOf, MaxRuns)
    /\ StoredOf' \in [1 .. MaxRuns -> Nat] => Totals(StoredByRuns', StoredOf', MaxRuns)
<1>1. ASSUME StoredOf \in [1 .. MaxRuns -> Nat]
      PROVE  IsSum(StoredByRuns, StoredOf, MaxRuns)
  <2>1. PICK t : IsSum(t, StoredOf, MaxRuns)
    BY <1>1, SumsExist, StoreConstants
  <2>2. t = [r \in 0 .. MaxRuns |-> IF r = 0 THEN 0 ELSE t[r - 1] + runs[r].stored]
    BY <2>1, SumOfRows DEF StoredOf
  <2>3. StoredByRuns
          = [r \in 0 .. MaxRuns |-> IF r = 0 THEN 0 ELSE StoredByRuns[r - 1] + runs[r].stored]
    BY <2>2 DEF StoredByRuns
  <2> QED BY <2>3, SumOfRows DEF StoredOf
<1>2. ASSUME StoredOf' \in [1 .. MaxRuns -> Nat]
      PROVE  IsSum(StoredByRuns', StoredOf', MaxRuns)
  <2>1. PICK t : IsSum(t, StoredOf', MaxRuns)
    BY <1>2, SumsExist, StoreConstants
  <2>2. t = [r \in 0 .. MaxRuns |-> IF r = 0 THEN 0 ELSE t[r - 1] + runs'[r].stored]
    BY <2>1, SumOfRows DEF StoredOf
  <2>3. StoredByRuns'
          = [r \in 0 .. MaxRuns |-> IF r = 0 THEN 0 ELSE StoredByRuns'[r - 1] + runs'[r].stored]
    BY <2>2 DEF StoredByRuns
  <2> QED BY <2>3, SumOfRows DEF StoredOf
<1> QED BY <1>1, <1>2, SumsAreTotals, StoreConstants

LEMMA StoredOfType ==
    /\ StoreTypeOK => StoredOf \in [1 .. MaxRuns -> Nat]
    /\ StoreTypeOK' => StoredOf' \in [1 .. MaxRuns -> Nat]
  BY DEF StoreTypeOK, StoredOf, RunRows, RunIds

\* A run e that stored k more adds k to the sum.
LEMMA SumRises ==
    ASSUME StoreTypeOK, StoreTypeOK', NEW e \in RunIds, NEW k \in Nat,
           \A r \in RunIds : runs'[r].stored = IF r = e THEN runs[r].stored + k ELSE runs[r].stored
    PROVE  StoredByRuns'[MaxRuns] = StoredByRuns[MaxRuns] + k
<1>1. /\ StoredOf \in [1 .. MaxRuns -> Nat] /\ StoredOf' \in [1 .. MaxRuns -> Nat]
      /\ Totals(StoredByRuns, StoredOf, MaxRuns) /\ Totals(StoredByRuns', StoredOf', MaxRuns)
  BY StoredOfType, RunTotals
<1>2. Raises(StoredOf', StoredOf, MaxRuns, e, k)
  BY DEF StoredOf, RunIds, Raises
<1>3. MaxRuns \in Nat /\ e \in 1 .. MaxRuns
  BY StoreConstants DEF RunIds
<1>4. ASSUME NEW s \in [1 .. MaxRuns -> Nat], NEW q \in [1 .. MaxRuns -> Nat], NEW t, NEW u,
             Totals(t, s, MaxRuns), Totals(u, q, MaxRuns), Raises(q, s, MaxRuns, e, k)
      PROVE  u[MaxRuns] = t[MaxRuns] + k
  BY <1>3, <1>4, TotalsRise
<1> QED BY <1>1, <1>2, <1>4, Zenon

\* A step that adds no record and begins at most runs with nothing stored.
LEMMA CountsFrame ==
    ASSUME StoreTypeOK, StoreTypeOK', CountsInv, raw' = raw, nextRun' >= nextRun,
           \A r \in RunIds : \/ runs'[r].stored = runs[r].stored
                             \/ r > nextRun /\ runs'[r].stored = 0
    PROVE  CountsInv'
<1>1. \A r \in RunIds : runs'[r].stored = runs[r].stored
  BY DEF CountsInv
<1>2. StoredOf' = StoredOf
  BY <1>1 DEF StoredOf, RunIds
<1>3. StoredOf \in [1 .. MaxRuns -> Nat] /\ MaxRuns \in Nat
      /\ Totals(StoredByRuns, StoredOf, MaxRuns) /\ Totals(StoredByRuns', StoredOf, MaxRuns)
  BY <1>2, StoredOfType, RunTotals, StoreConstants
<1>4. StoredByRuns'[MaxRuns] = StoredByRuns[MaxRuns]
  BY <1>3, TotalsAgree
<1>5. \A r \in RunIds : r > nextRun' => r > nextRun
  BY StoreConstants DEF StoreTypeOK, RunIds
<1> QED BY <1>1, <1>4, <1>5 DEF CountsInv, EachRecordCountedOnce

\* A commit counts what it inserts for its own run.
LEMMA CommitCounts ==
    ASSUME StoreTypeOK, StoreTypeOK', CountsInv, job.run \in 1 .. nextRun,
           stream.buf \in 0 .. RecCount, Commit(stream.cur, stream.buf)
    PROVE  CountsInv'
<1> DEFINE new == Inserted(job.spec, stream.cur, stream.buf)
<1>1. /\ raw' = raw \union new
      /\ runs' = [runs EXCEPT ![job.run].stored = @ + Cardinality(new)]
      /\ nextRun' = nextRun
  BY LocalsType DEF Commit, CommitFile, CommitDiffFile, InsertRaw
<1>2. IsFiniteSet(new) /\ Cardinality(new) \in Nat /\ raw \intersect new = {}
  BY InsertedCount DEF Inserted
<1> HIDE DEF new
<1>3. IsFiniteSet(raw') /\ Cardinality(raw') = Cardinality(raw) + Cardinality(new)
  <2>1. Cardinality(raw) \in Nat
    BY FS_CardinalityType DEF CountsInv
  <2> QED BY <1>1, <1>2, <2>1, FS_Union, FS_EmptySet DEF CountsInv
<1>4. job.run \in RunIds /\ job.run \in Nat \ {0}
  BY StoreConstants DEF StoreTypeOK, RunIds
<1>5. \A r \in RunIds : runs'[r].stored = IF r = job.run THEN runs[r].stored + Cardinality(new)
                                                          ELSE runs[r].stored
  BY <1>1, <1>4 DEF StoreTypeOK, RunRows
<1>7. StoredByRuns'[MaxRuns] = StoredByRuns[MaxRuns] + Cardinality(new)
  BY <1>2, <1>4, <1>5, SumRises
<1>8. \A r \in RunIds : r > nextRun' => runs'[r].stored = 0
  <2>1. \A r \in RunIds : r > nextRun => r # job.run
    BY StoreConstants DEF StoreTypeOK, RunIds
  <2> QED BY <1>1, <1>5, <2>1 DEF CountsInv
<1> QED BY <1>3, <1>7, <1>8 DEF CountsInv, EachRecordCountedOnce

\* It needs only what another process cannot break.
LEMMA CountsNext ==
    ASSUME TypeOK, TypeOK', JobKnows, StreamInv, CountsInv, [Next]_vars
    PROVE  CountsInv'
<1>0. StoreTypeOK /\ StoreTypeOK' /\ nextRun \in Nat /\ nextRun' \in Nat /\ nextRun' >= nextRun
  BY TypeSplit, RunIdsGrow, StoreConstants DEF TypeOK, StoreTypeOK
<1>a. ASSUME raw' = raw,
             \A r \in RunIds : \/ runs'[r].stored = runs[r].stored
                               \/ r > nextRun /\ runs'[r].stored = 0
      PROVE  CountsInv'
  BY <1>0, <1>a, CountsFrame
<1>b. ASSUME raw' = raw, runs' = runs PROVE CountsInv'
  BY <1>a, <1>b
<1>c. ASSUME UNCHANGED storeVars PROVE CountsInv'
  BY <1>b, <1>c DEF storeVars
<1>d. ASSUME NEW r \in RunIds, NEW st, raw' = raw, runs' = [runs EXCEPT ![r].status = st]
      PROVE  CountsInv'
  <2>1. \A x \in RunIds : runs'[x].stored = runs[x].stored
    BY <1>0, <1>d DEF StoreTypeOK, RunRows
  <2> QED BY <1>a, <1>d, <2>1
<1>e. InJob => job.run \in 1 .. nextRun /\ job.run \in RunIds
  BY StoreConstants DEF JobKnows, TypeOK, RunIds
<1>1. ASSUME NEW out, FileEnd(out) \/ DoneLeftover(out) \/ \E f : FileBeginLeftover(f, out)
      PROVE  CountsInv'
  <2>1. Attempt(Commit(stream.cur, stream.buf), out) /\ InJob /\ stream.buf \in 0 .. RecCount
    BY <1>1 DEF FileEnd, DoneLeftover, FileBeginLeftover, InJob, TypeOK, Streams
  <2> QED BY <1>0, <1>c, <1>e, <2>1, CommitCounts DEF Attempt
<1>2. ASSUME NEW out, NEW q, RunWindow(q, out)
      PROVE  CountsInv'
  <2>1. ASSUME BeginWindow(q.win) PROVE CountsInv'
    <3>1. raw' = raw /\ nextRun + 1 > nextRun
      BY <1>0, <2>1 DEF BeginWindow
    <3>2. \A r \in RunIds : \/ runs'[r].stored = runs[r].stored
                            \/ r = nextRun + 1 /\ runs'[r].stored = 0
      BY <1>0, <2>1 DEF BeginWindow, StoreTypeOK, RunRows
    <3> QED BY <1>a, <3>1, <3>2
  <2> QED BY <1>2, <1>c, <2>1 DEF RunWindow, Attempt
<1>3. ASSUME NEW out, NEW c, RunDiff(c, out)
      PROVE  CountsInv'
  <2>1. ASSUME BeginDiffRun(c.spec, c.from) PROVE CountsInv'
    <3>1. raw' = raw /\ nextRun + 1 > nextRun
      BY <1>0, <2>1 DEF BeginDiffRun
    <3>2. \A r \in RunIds : \/ runs'[r].stored = runs[r].stored
                            \/ r = nextRun + 1 /\ runs'[r].stored = 0
      BY <1>0, <2>1 DEF BeginDiffRun, StoreTypeOK, RunRows
    <3> QED BY <1>a, <3>1, <3>2
  <2> QED BY <1>3, <1>c, <2>1 DEF RunDiff, Attempt
<1>4. ASSUME NEW out, FinishSetup(out) \/ FinishDiff(out) \/ RecordFailure(out)
      PROVE  CountsInv'
  <2>1. InJob
    BY <1>4 DEF FinishSetup, FinishDiff, RecordFailure, InJob
  <2> QED BY <1>4, <1>c, <1>d, <1>e, <2>1
          DEF FinishSetup, FinishDiff, RecordFailure, Attempt, FinishWindow, FinishDiffRun,
              FailWindow
<1>5. ASSUME NEW out, Advance(out) \/ \E w, e : Seed(w, e, out)
      PROVE  CountsInv'
  BY <1>5, <1>b, <1>c DEF Advance, Seed, Attempt, AdvanceCursor, SeedWindow
<1>6. ASSUME NEW out, ListPending(out) \/ ListCursors(out) \/ \E ts : OpenOk(ts, out)
      PROVE  CountsInv'
  BY <1>6, <1>c DEF ListPending, ListCursors, OpenOk
<1>7. ASSUME \/ SeedDone \/ WindowsDone \/ NoData \/ Record \/ Done \/ StreamError
             \/ SpawnError \/ DiffsDone \/ Normalize \/ Kill \/ Provide
             \/ \E f : FileBegin(f) \/ \E c, P : StartCommand(c, P)
      PROVE  CountsInv'
  BY <1>7, <1>c DEF SeedDone, WindowsDone, NoData, Record, Done, StreamError, SpawnError,
                    DiffsDone, Normalize, Kill, Provide, FileBegin, StartCommand
<1>8. ASSUME (\E w : Abandon(w)) \/ UNCHANGED vars
      PROVE  CountsInv'
  BY <1>8, <1>b DEF Abandon, AbandonWindow, vars, storeVars
<1> QED BY <1>1, <1>2, <1>3, <1>4, <1>5, <1>6, <1>7, <1>8 DEF Next, ProcessStep

LEMMA CountsInit == Init => CountsInv
<1> SUFFICES ASSUME Init PROVE CountsInv
  OBVIOUS
<1>1. raw = {} /\ \A r \in RunIds : runs[r].stored = 0
  BY DEF Init, StoreInit, AbsentRun
<1>2. StoreTypeOK
  BY TypeInit, TypeSplit
<1>3. StoredByRuns[MaxRuns] = 0
  <2>a. StoredOf \in [1 .. MaxRuns -> Nat] /\ Totals(StoredByRuns, StoredOf, MaxRuns)
    BY <1>2, StoredOfType, RunTotals
  <2> DEFINE zero == [r \in 0 .. MaxRuns |-> 0]
  <2>1. Totals(zero, StoredOf, MaxRuns)
    BY <1>1, StoreConstants DEF Totals, StoredOf, RunIds
  <2>2. MaxRuns \in Nat /\ zero[MaxRuns] = 0
    BY StoreConstants
  <2> HIDE DEF zero
  <2> QED BY <2>a, <2>1, <2>2, TotalsAgree
<1> QED BY <1>1, <1>3, FS_EmptySet DEF CountsInv, EachRecordCountedOnce

\* Every raw record is counted by exactly one run, however often files are read
\* again after crashes, broken streams and lost acknowledgements: the upsert
\* leaves out what is stored, and rows and counter commit together
\* (ingest.rs:217-245).
THEOREM RecordsAreCountedOnce == Spec => []EachRecordCountedOnce
<1>1. Init => IInv /\ CountsInv
  BY IInvInit, CountsInit
<1>2. IInv /\ CountsInv /\ [Next]_vars => IInv' /\ CountsInv'
  BY IInvNext, CountsNext, AloneIsShared DEF IInv, SharedInv
<1>3. CountsInv => EachRecordCountedOnce
  BY DEF CountsInv
<1> QED BY <1>1, <1>2, <1>3, PTL DEF Spec

(***************************************************************************)
(* files_done.                                                             *)
(***************************************************************************)
\* File names sort in the order JRA-VAN provides the files (ingest.rs:247-250).
NamesInOrder ==
    \A d \in Specs : \A f, g \in FileTimes[d] : f < g => Rank[d][f] < Rank[d][g]

\* What FilesDoneCountsFiles says of one row.
RowCounts(w, c) ==
    c.files_done = IF c.last_file = Null THEN 0
                   ELSE Cardinality(FilesBetween(SpecOf(w), StartOf(w), c.last_file))

LEMMA CountsByRows ==
    /\ FilesDoneCountsFiles <=> \A w \in Windows : RowCounts(w, checkpoints[w])
    /\ FilesDoneCountsFiles' <=> \A w \in Windows : RowCounts(w, checkpoints'[w])
  BY DEF FilesDoneCountsFiles, RowCounts, FilesBetween

\* One file further: one file more.
LEMMA NextFileCounts ==
    ASSUME NEW d \in Specs, NEW lo \in Nat, NEW last \in Times, NEW f \in FileTimes[d],
           lo < f, last < f,
           \A g \in FilesBetween(d, lo, f) : g # f => g <= last
    PROVE  Cardinality(FilesBetween(d, lo, f)) =
               IF last = Null THEN 1 ELSE Cardinality(FilesBetween(d, lo, last)) + 1
<1>0. f \in Nat /\ \A g \in FileTimes[d] : g \in Nat
  BY FilesArePositive
<1>1. FilesBetween(d, lo, f) = FilesBetween(d, lo, last) \union {f}
  BY <1>0 DEF FilesBetween, Times, Null
<1>2. f \notin FilesBetween(d, lo, last)
  BY <1>0 DEF FilesBetween, Times, Null
<1>3. IsFiniteSet(FilesBetween(d, lo, last))
  <2>1. FilesBetween(d, lo, last) \in SUBSET Nat
        /\ \A g \in FilesBetween(d, lo, last) : g <= f
    BY <1>0 DEF FilesBetween, Times, Null
  <2> QED BY <1>0, <2>1, FS_BoundedSetOfNaturals
<1>4. Cardinality(FilesBetween(d, lo, f)) = Cardinality(FilesBetween(d, lo, last)) + 1
  BY <1>1, <1>2, <1>3, FS_AddElement
<1>5. ASSUME last = Null PROVE FilesBetween(d, lo, last) = {}
  BY <1>0, <1>5 DEF FilesBetween, Null
<1> QED BY <1>4, <1>5, FS_EmptySet

\* The steps that commit nothing leave a row's progress alone or start it over.
LEMMA FilesFrame ==
    ASSUME FilesDoneCountsFiles,
           \A w \in Windows :
               \/ /\ checkpoints'[w].files_done = checkpoints[w].files_done
                  /\ checkpoints'[w].last_file = checkpoints[w].last_file
               \/ checkpoints'[w].files_done = 0 /\ checkpoints'[w].last_file = Null
    PROVE  FilesDoneCountsFiles'
<1>1. ASSUME NEW w \in Windows PROVE RowCounts(w, checkpoints'[w])
  BY CountsByRows DEF RowCounts
<1> QED BY <1>1, CountsByRows

\* A commit counts the file unless it is the resume file read again, and the
\* resume point is then that file.
LEMMA CommitFiles ==
    ASSUME NamesInOrder, TypeOK, JobKnows, StreamInv, FilesInv,
           pc \in {"fetch", "leftover"}, stream.cur # Null, Commit(stream.cur, stream.buf)
    PROVE  /\ FilesDoneCountsFiles'
           /\ job.mode = "setup" => checkpoints'[JobWindow].last_file = stream.cur
<1>1. CASE job.mode # "setup"
  <2>1. checkpoints' = checkpoints
    BY <1>1 DEF Commit, CommitDiffFile
  <2> QED BY <1>1, <2>1, FilesFrame DEF FilesInv
<1>2. CASE job.mode = "setup"
  <2> DEFINE c == checkpoints[JobWindow]
             f == stream.cur
             last == c.last_file
             row == CommittedRow(c, job.spec, f, stream.buf)
  <2>a. InSetup /\ InJob /\ stream.opened /\ ~SkipMissing
    BY <1>2 DEF InSetup, InJob, StreamInv, NoStream
  <2>b. /\ JobWindow \in Windows /\ SpecOf(JobWindow) = job.spec /\ StartOf(JobWindow) = job.lo
        /\ job.spec \in Specs /\ job.lo \in Nat /\ stream.hi \in Nat
    BY <1>2, <2>a, LocalsType DEF JobKnows, TypeOK, Jobs, Streams
  <2>c. c \in CheckpointRows /\ last \in Times /\ c.files_done \in Nat
    BY <2>b DEF TypeOK, CheckpointRows
  <2>d. f \in FileTimes[job.spec] /\ f \in Nat /\ job.lo < f /\ f <= stream.hi
        /\ f = stream.pos /\ f # Null
    BY <2>b, FilesArePositive DEF StreamInv, RangeFiles
  <2>e. /\ last # Null => last \in FileTimes[job.spec] /\ last <= f
        /\ \A g \in RangeFiles(stream.hi) : g <= f /\ g # f => g <= last
    BY <2>a, <2>d DEF FilesInv, ResumePointFollows, RangeFiles
  <2>1. checkpoints' = [checkpoints EXCEPT ![JobWindow] = row]
    BY <1>2, <2>b DEF Commit, CommitFile
  <2>2. row.files_done = (IF last = f THEN c.files_done ELSE c.files_done + 1)
        /\ row.last_file = LaterName(job.spec, f, last)
    BY <2>c DEF CommittedRow, CheckpointRows
  <2>3. last # Null /\ last # f => last < f /\ Rank[job.spec][last] < Rank[job.spec][f]
    BY <2>b, <2>c, <2>d, <2>e DEF NamesInOrder, Times
  <2>4. row.last_file = f
    <3>1. Rank[job.spec] \in [FileTimes[job.spec] -> Nat]
      BY <2>b, StoreConstants
    <3>2. CASE last = Null \/ last = f
      BY <2>2, <3>2 DEF LaterName
    <3>3. CASE last # Null /\ last # f
      <4>1. Rank[job.spec][f] > Rank[job.spec][last]
        BY <2>3, <2>d, <2>e, <3>1, <3>3
      <4> QED BY <2>2, <4>1 DEF LaterName
    <3> QED BY <3>2, <3>3
  <2>5. RowCounts(JobWindow, c)
    BY <2>b, CountsByRows DEF FilesInv
  <2>6. RowCounts(JobWindow, row)
    <3>1. CASE last = f
      BY <2>2, <2>4, <2>5, <3>1 DEF RowCounts
    <3>2. CASE last # f
      <4>1. last < f
        BY <2>3, <2>c, <2>d, <3>2 DEF Times, Null
      <4>2. \A g \in FilesBetween(job.spec, job.lo, f) : g # f => g <= last
        BY <2>b, <2>d, <2>e, FilesArePositive DEF FilesBetween, RangeFiles
      <4>3. Cardinality(FilesBetween(job.spec, job.lo, f)) =
               IF last = Null THEN 1 ELSE Cardinality(FilesBetween(job.spec, job.lo, last)) + 1
        BY <2>b, <2>c, <2>d, <4>1, <4>2, NextFileCounts
      <4> HIDE DEF row, c, f, last
      <4> QED BY <2>2, <2>4, <2>5, <2>b, <2>d, <3>2, <4>3 DEF RowCounts, last
    <3> QED BY <3>1, <3>2
  <2>7. \A w \in Windows : RowCounts(w, checkpoints'[w])
    BY <2>1, <2>6, CountsByRows DEF FilesInv, TypeOK
  <2>8. checkpoints'[JobWindow].last_file = f
    BY <2>1, <2>4, <2>b DEF TypeOK
  <2> QED BY <2>7, <2>8, CountsByRows
<1> QED BY <1>1, <1>2

LEMMA FilesDoneNext ==
    ASSUME NamesInOrder, TypeOK, JobKnows, StreamInv, FilesInv, [Next]_vars
    PROVE  FilesDoneCountsFiles'
<1>0. FilesDoneCountsFiles /\ \A w \in Windows : checkpoints[w] \in CheckpointRows
  BY DEF FilesInv, TypeOK
<1>a. ASSUME checkpoints' = checkpoints PROVE FilesDoneCountsFiles'
  BY <1>0, <1>a, FilesFrame
<1>b. ASSUME NEW w, NEW row, checkpoints' = [checkpoints EXCEPT ![w] = row],
             w \in Windows =>
                 \/ /\ row.files_done = checkpoints[w].files_done
                    /\ row.last_file = checkpoints[w].last_file
                 \/ row.files_done = 0 /\ row.last_file = Null
      PROVE  FilesDoneCountsFiles'
  <2>1. \A v \in Windows : checkpoints'[v] = IF v = w THEN row ELSE checkpoints[v]
    BY <1>b DEF TypeOK
  <2> QED BY <1>0, <1>b, <2>1, FilesFrame
<1>1. ASSUME NEW out, FileEnd(out) \/ DoneLeftover(out) \/ \E f : FileBeginLeftover(f, out)
      PROVE  FilesDoneCountsFiles'
  <2>1. /\ Attempt(Commit(stream.cur, stream.buf), out)
        /\ pc \in {"fetch", "leftover"} /\ stream.cur # Null
    BY <1>1 DEF FileEnd, DoneLeftover, FileBeginLeftover, StreamInv
  <2> QED BY <1>a, <2>1, CommitFiles DEF Attempt, storeVars
<1>2. ASSUME NEW out, NEW w, NEW e, Seed(w, e, out)
      PROVE  FilesDoneCountsFiles'
  <2>1. CASE SeedWindow(w, e)
    <3>1. checkpoints' = [checkpoints EXCEPT ![w] = SeededRow(checkpoints[w], e)]
      BY <2>1 DEF SeedWindow
    <3>2. w \in Windows => LET row == SeededRow(checkpoints[w], e)
                           IN  \/ /\ row.files_done = checkpoints[w].files_done
                                  /\ row.last_file = checkpoints[w].last_file
                               \/ row.files_done = 0 /\ row.last_file = Null
      BY <1>0 DEF SeededRow, CheckpointRows
    <3> QED BY <1>b, <3>1, <3>2
  <2> QED BY <1>2, <1>a, <2>1 DEF Seed, Attempt, storeVars
<1>3. ASSUME NEW out, NEW q \in queue, RunWindow(q, out)
      PROVE  FilesDoneCountsFiles'
  <2>1. CASE BeginWindow(q.win)
    <3>1. \A v \in Windows : /\ checkpoints'[v].files_done = checkpoints[v].files_done
                             /\ checkpoints'[v].last_file = checkpoints[v].last_file
      BY <1>0, <2>1 DEF BeginWindow, TypeOK, CheckpointRows
    <3> QED BY <1>0, <3>1, FilesFrame
  <2> QED BY <1>3, <1>a, <2>1 DEF RunWindow, Attempt, storeVars
<1>4. ASSUME NEW out, FinishSetup(out) \/ RecordFailure(out)
      PROVE  FilesDoneCountsFiles'
  <2>1. ASSUME \/ FinishWindow(job.run, JobWindow, stream.ts, CursorTs)
               \/ FailWindow(job.run, JobWindow)
        PROVE  FilesDoneCountsFiles'
    <3>1. CASE FinishWindow(job.run, JobWindow, stream.ts, CursorTs)
      <4>1. JobWindow \in Windows =>
                LET row == FinishedRow(checkpoints[JobWindow], stream.ts)
                IN  /\ row.files_done = checkpoints[JobWindow].files_done
                    /\ row.last_file = checkpoints[JobWindow].last_file
        BY <1>0 DEF FinishedRow, CheckpointRows
      <4> QED BY <1>b, <3>1, <4>1 DEF FinishWindow
    <3>2. CASE FailWindow(job.run, JobWindow)
      <4>1. \A v \in Windows : /\ checkpoints'[v].files_done = checkpoints[v].files_done
                               /\ checkpoints'[v].last_file = checkpoints[v].last_file
        BY <1>0, <3>2 DEF FailWindow, TypeOK, CheckpointRows
      <4> QED BY <1>0, <4>1, FilesFrame
    <3> QED BY <2>1, <3>1, <3>2
  <2> QED BY <1>4, <1>a, <2>1 DEF FinishSetup, RecordFailure, Attempt, storeVars, FinishDiffRun
<1>5. ASSUME NEW w, Abandon(w)
      PROVE  FilesDoneCountsFiles'
  <2>1. \A v \in Windows : /\ checkpoints'[v].files_done = checkpoints[v].files_done
                           /\ checkpoints'[v].last_file = checkpoints[v].last_file
    BY <1>0, <1>5 DEF Abandon, AbandonWindow, TypeOK, CheckpointRows
  <2> QED BY <1>0, <2>1, FilesFrame
<1>6. ASSUME NEW out, \/ Advance(out) \/ FinishDiff(out) \/ ListPending(out) \/ ListCursors(out)
                      \/ (\E ts : OpenOk(ts, out)) \/ \E c : RunDiff(c, out)
      PROVE  FilesDoneCountsFiles'
  BY <1>6, <1>a DEF Advance, FinishDiff, ListPending, ListCursors, OpenOk, RunDiff, Attempt,
                    AdvanceCursor, FinishDiffRun, BeginDiffRun, storeVars
<1>7. ASSUME \/ SeedDone \/ WindowsDone \/ NoData \/ Record \/ Done \/ StreamError
             \/ SpawnError \/ DiffsDone \/ Normalize \/ Kill \/ Provide
             \/ (\E f : FileBegin(f)) \/ (\E c, P : StartCommand(c, P)) \/ UNCHANGED vars
      PROVE  FilesDoneCountsFiles'
  BY <1>7, <1>a DEF SeedDone, WindowsDone, NoData, Record, Done, StreamError, SpawnError,
                    DiffsDone, Normalize, Kill, Provide, FileBegin, StartCommand, vars, storeVars
<1> QED BY <1>1, <1>2, <1>3, <1>4, <1>5, <1>6, <1>7 DEF Next, ProcessStep

(***************************************************************************)
(* ResumePointFollows.                                                     *)
(***************************************************************************)
\* A step that leaves the run, its stream and the tables alone.
LEMMA ResumeFrame ==
    ASSUME ResumePointFollows, UNCHANGED <<checkpoints, job>>,
           pc' \in {"fetch", "leftover"} => pc \in {"fetch", "leftover"},
           stream'.opened = stream.opened, stream'.hi = stream.hi,
           stream'.pos = stream.pos, stream'.cur = stream.cur
    PROVE  ResumePointFollows'
<1>1. /\ JobWindow' = JobWindow /\ SkipMissing' = SkipMissing
      /\ \A hi : RangeFiles(hi)' = RangeFiles(hi)
  BY DEF JobWindow, SkipMissing, RangeFiles
<1> QED BY <1>1 DEF ResumePointFollows, InSetup, InJob, RangeFiles

LEMMA RunWindowResume ==
    ASSUME TypeOK, ListsKnow, SnapshotIsFresh, raw \subseteq raw',
           NEW q \in queue, RunWindow(q, "ok")
    PROVE  ResumePointFollows'
<1>1. /\ JobWindow' = q.win /\ job'.skip = q.skip /\ stream' = NoStream /\ q.win \in Windows
  BY RunBegins DEF RunWindow, TypeOK
<1>2. checkpoints'[q.win].last_file = checkpoints[q.win].last_file
  BY <1>1 DEF RunWindow, Attempt, BeginWindow, TypeOK, CheckpointRows
<1> QED BY <1>1, <1>2 DEF ResumePointFollows, SnapshotIsFresh, NoStream

\* The stream opens at the resume file, or at the start of the window.
LEMMA OpenOkResume ==
    ASSUME TypeOK, JobKnows, StreamInv, ResumePointFollows, NEW ts, NEW out, OpenOk(ts, out)
    PROVE  ResumePointFollows'
<1> SUFFICES ASSUME InSetup', pc' \in {"fetch", "leftover"}, ~SkipMissing'
             PROVE  LET last == checkpoints'[JobWindow'].last_file
                    IN  /\ last # Null =>
                              /\ last \in RangeFiles(stream.hi)'
                              /\ last <= stream'.pos \/ (stream'.cur = Null /\ last = stream'.pos + 1)
                        /\ \A f \in RangeFiles(stream.hi)' :
                              f <= stream'.pos /\ f # stream'.cur => f <= last
  <2>1. stream'.opened
    BY DEF OpenOk, TypeOK, Streams
  <2> QED BY <2>1 DEF ResumePointFollows
<1>1. /\ UNCHANGED <<checkpoints, job>> /\ pc = "fetch" /\ stream = NoStream
  BY DEF OpenOk, storeVars, StreamInv
<1>2. /\ JobWindow' = JobWindow /\ InSetup /\ JobWindow \in Windows
      /\ checkpoints[JobWindow].last_file = job.skip
      /\ job.lo \in Nat /\ job.skip \in Times /\ job.spec \in Specs
  BY <1>1 DEF JobWindow, InSetup, InJob, ResumePointFollows, NoStream, JobKnows, TypeOK, Jobs
<1>3. /\ stream'.cur = Null
      /\ stream'.pos = IF job.skip = Null THEN job.lo ELSE job.skip - 1
  BY <1>1 DEF OpenOk, NoStream
<1>4. \A f \in RangeFiles(stream.hi)' : f \in FileTimes[job.spec] /\ f \in Nat /\ job.lo < f
  BY <1>1, <1>2, FilesArePositive DEF RangeFiles
<1>5. job.skip # Null => job.skip \in RangeFiles(stream.hi)'
  BY <1>1 DEF SkipMissing
<1>6. \A f \in RangeFiles(stream.hi)' : f <= stream'.pos => f <= job.skip
  BY <1>2, <1>3, <1>4 DEF Times, Null
<1>7. job.skip # Null => job.skip = stream'.pos + 1
  BY <1>2, <1>3 DEF Times, Null
<1> QED BY <1>1, <1>2, <1>3, <1>5, <1>6, <1>7

\* A file begins: the files passed are those before it.
LEMMA FileBeginResume ==
    ASSUME TypeOK, JobKnows, StreamInv, ResumePointFollows,
           pc = "fetch", stream.opened, ~SkipMissing, job' = job,
           NEW f, NextFile(f), stream'.opened, stream'.hi = stream.hi,
           stream'.pos = f, stream'.cur = f,
           job.mode = "setup" =>
               LET last == checkpoints'[JobWindow].last_file
               IN  IF stream.cur = Null THEN last = checkpoints[JobWindow].last_file
                                        ELSE last = stream.cur
    PROVE  ResumePointFollows'
<1> SUFFICES ASSUME InSetup', pc' \in {"fetch", "leftover"}
             PROVE  ResumePointFollows'
  BY DEF ResumePointFollows
<1> DEFINE old == checkpoints[JobWindow].last_file
           last == checkpoints'[JobWindow].last_file
<1>1. /\ JobWindow' = JobWindow /\ InSetup /\ JobWindow \in Windows /\ job.mode = "setup"
      /\ stream.hi \in Nat /\ stream.pos \in Int /\ job.spec \in Specs
      /\ stream.cur \in Times /\ old \in Times
  BY DEF JobWindow, InSetup, InJob, JobKnows, TypeOK, Jobs, Streams, CheckpointRows
<1>2. RangeFiles(stream.hi)' = RangeFiles(stream.hi)
  BY DEF RangeFiles
<1>3. /\ f \in RangeFiles(stream.hi) /\ f > stream.pos
      /\ \A g \in RangeFiles(stream.hi) : g > stream.pos => f <= g
      /\ \A g \in RangeFiles(stream.hi) : g \in Nat
  BY <1>1, FilesArePositive DEF NextFile, RangeFiles
<1>4. /\ old # Null =>
             /\ old \in RangeFiles(stream.hi)
             /\ old <= stream.pos \/ (stream.cur = Null /\ old = stream.pos + 1)
      /\ \A g \in RangeFiles(stream.hi) : g <= stream.pos /\ g # stream.cur => g <= old
  BY <1>1 DEF ResumePointFollows
<1>5. stream.cur # Null => stream.cur \in RangeFiles(stream.hi) /\ stream.cur = stream.pos
  BY DEF StreamInv
<1>6. last # Null => last \in RangeFiles(stream.hi) /\ last <= f
  <2>1. CASE stream.cur # Null
    BY <1>1, <1>3, <1>5, <2>1
  <2>2. CASE stream.cur = Null
    BY <1>1, <1>3, <1>4, <2>2
  <2> QED BY <2>1, <2>2
<1>7. ASSUME NEW g \in RangeFiles(stream.hi), g <= f, g # f PROVE g <= last
  <2>1. g <= stream.pos
    BY <1>1, <1>3, <1>7
  <2>2. CASE stream.cur # Null
    BY <1>1, <1>3, <1>5, <2>1, <2>2
  <2>3. CASE stream.cur = Null
    BY <1>1, <1>3, <1>4, <2>1, <2>3 DEF Null
  <2> QED BY <2>2, <2>3
<1> HIDE DEF last, old
<1>8. last = checkpoints'[JobWindow'].last_file
  BY <1>1 DEF last
<1> QED BY <1>2, <1>6, <1>7, <1>8 DEF ResumePointFollows

\* A file ends with its commit.
LEMMA FileEndResume ==
    ASSUME TypeOK, JobKnows, StreamInv, ResumePointFollows,
           pc \in {"fetch", "leftover"}, job' = job, stream.cur # Null,
           stream'.opened = stream.opened, stream'.hi = stream.hi,
           stream'.pos = stream.pos, stream'.cur = Null,
           job.mode = "setup" => checkpoints'[JobWindow].last_file = stream.cur
    PROVE  ResumePointFollows'
<1> SUFFICES ASSUME InSetup', pc' \in {"fetch", "leftover"}
             PROVE  ResumePointFollows'
  BY DEF ResumePointFollows
<1>1. /\ JobWindow' = JobWindow /\ job.mode = "setup" /\ stream.pos \in Int
      /\ stream.cur \in RangeFiles(stream.hi) /\ stream.cur = stream.pos /\ stream.opened
  BY DEF JobWindow, InSetup, StreamInv, TypeOK, Streams, NoStream
<1>2. RangeFiles(stream.hi)' = RangeFiles(stream.hi)
  BY DEF RangeFiles
<1>3. checkpoints'[JobWindow'].last_file = stream.pos
  BY <1>1
<1>4. stream.pos <= stream.pos
  BY <1>1
<1> QED BY <1>1, <1>2, <1>3, <1>4 DEF ResumePointFollows

LEMMA ResumePointNext ==
    ASSUME NamesInOrder, IInv, FilesInv, [Next]_vars
    PROVE  ResumePointFollows'
<1>a. /\ TypeOK /\ JobKnows /\ StreamInv /\ ResumePointFollows /\ ListsKnow /\ SnapshotIsFresh
      /\ raw \subseteq raw' /\ stream \in Streams
      /\ stream.cur # Null => stream.opened /\ ~SkipMissing
  BY RawGrows, AloneIsShared DEF IInv, SharedInv, ListsInv, FilesInv, StreamInv, NoStream, TypeOK
<1>b. ASSUME pc' \notin {"fetch", "leftover"} PROVE ResumePointFollows'
  BY <1>b DEF ResumePointFollows
<1>c. ASSUME UNCHANGED <<checkpoints, job, stream>>,
             pc' \in {"fetch", "leftover"} => pc \in {"fetch", "leftover"}
      PROVE  ResumePointFollows'
  BY <1>a, <1>c, ResumeFrame
<1>d. ASSUME NEW out, Attempt(Commit(stream.cur, stream.buf), out), out = "ok",
             pc \in {"fetch", "leftover"}, stream.cur # Null, job.mode = "setup"
      PROVE  checkpoints'[JobWindow].last_file = stream.cur
  BY <1>a, <1>d, CommitFiles DEF Attempt
<1>1. ASSUME NEW out, NEW f, FileBeginLeftover(f, out)
      PROVE  ResumePointFollows'
  <2>1. CASE out # "ok"
    BY <1>1, <1>b, <2>1 DEF FileBeginLeftover
  <2>2. CASE out = "ok"
    <3>1. /\ pc = "fetch" /\ NextFile(f) /\ job' = job /\ stream.cur # Null
          /\ stream.opened /\ ~SkipMissing
          /\ stream'.opened /\ stream'.hi = stream.hi /\ stream'.pos = f /\ stream'.cur = f
      BY <1>1, <1>a DEF FileBeginLeftover, Streams
    <3>2. job.mode = "setup" => checkpoints'[JobWindow].last_file = stream.cur
      BY <1>1, <1>d, <2>2, <3>1 DEF FileBeginLeftover
    <3> QED BY <1>a, <3>1, <3>2, FileBeginResume
  <2> QED BY <2>1, <2>2
<1>2. ASSUME NEW f, FileBegin(f)
      PROVE  ResumePointFollows'
  <2>1. /\ pc = "fetch" /\ NextFile(f) /\ job' = job /\ stream.cur = Null
        /\ stream.opened /\ ~SkipMissing /\ checkpoints' = checkpoints
        /\ stream'.opened /\ stream'.hi = stream.hi /\ stream'.pos = f /\ stream'.cur = f
    BY <1>2, <1>a DEF FileBegin, Streams, storeVars
  <2> QED BY <1>a, <2>1, FileBeginResume
<1>3. ASSUME NEW out, FileEnd(out) \/ DoneLeftover(out)
      PROVE  ResumePointFollows'
  <2>1. CASE out # "ok"
    BY <1>3, <1>b, <2>1 DEF FileEnd, DoneLeftover
  <2>2. CASE out = "ok"
    <3>1. /\ pc \in {"fetch", "leftover"} /\ job' = job /\ stream.cur # Null
          /\ Attempt(Commit(stream.cur, stream.buf), out)
          /\ stream' = [stream EXCEPT !.cur = Null, !.buf = 0]
      BY <1>3, <1>a DEF FileEnd, DoneLeftover, StreamInv
    <3>2. /\ stream'.opened = stream.opened /\ stream'.hi = stream.hi
          /\ stream'.pos = stream.pos /\ stream'.cur = Null
      BY <1>a, <3>1 DEF Streams
    <3>3. job.mode = "setup" => checkpoints'[JobWindow].last_file = stream.cur
      BY <1>d, <2>2, <3>1
    <3> QED BY <1>a, <3>1, <3>2, <3>3, FileEndResume
  <2> QED BY <2>1, <2>2
<1>4. CASE Record
  <2>1. /\ UNCHANGED <<checkpoints, job>> /\ pc' = pc
        /\ stream'.opened = stream.opened /\ stream'.hi = stream.hi
        /\ stream'.pos = stream.pos /\ stream'.cur = stream.cur
    BY <1>4, <1>a DEF Record, Streams, storeVars
  <2> QED BY <1>a, <2>1, ResumeFrame
<1>5. ASSUME NEW out, \E ts : OpenOk(ts, out)
      PROVE  ResumePointFollows'
  BY <1>5, <1>a, OpenOkResume
<1>6. CASE Done
  BY <1>6, <1>c DEF Done, storeVars
<1>7. ASSUME NEW out, NEW q \in queue, RunWindow(q, out)
      PROVE  ResumePointFollows'
  <2>1. CASE out = "ok"
    BY <1>7, <1>a, <2>1, RunWindowResume
  <2>2. CASE out # "ok"
    BY <1>7, <1>b, <2>2 DEF RunWindow, AfterWindows
  <2> QED BY <2>1, <2>2
<1>8. ASSUME NEW out, NEW c, RunDiff(c, out)
      PROVE  ResumePointFollows'
  <2>1. CASE out = "ok"
    BY <1>8, <2>1 DEF RunDiff, ResumePointFollows, InSetup
  <2>2. CASE out # "ok"
    BY <1>8, <1>b, <2>2 DEF RunDiff
  <2> QED BY <2>1, <2>2
<1>9. ASSUME NEW out, \/ FinishSetup(out) \/ FinishDiff(out) \/ RecordFailure(out)
                      \/ Advance(out) \/ ListPending(out) \/ ListCursors(out)
                      \/ \E w, e : Seed(w, e, out)
      PROVE  ResumePointFollows'
  BY <1>9, <1>b DEF FinishSetup, FinishDiff, RecordFailure, Advance, ListPending, ListCursors,
                    Seed, Exit, EndJob, Abort, AfterWindows
<1>10. ASSUME \/ SeedDone \/ WindowsDone \/ NoData \/ StreamError \/ SpawnError \/ DiffsDone
              \/ Normalize \/ Kill \/ (\E w : Abandon(w)) \/ \E c, P : StartCommand(c, P)
       PROVE  ResumePointFollows'
  <2>1. pc' \notin {"fetch", "leftover"}
    BY <1>10 DEF SeedDone, WindowsDone, NoData, StreamError, SpawnError, DiffsDone, Normalize,
                 Kill, StartCommand, Abandon, procVars, Exit, AfterWindows
  <2> QED BY <1>b, <2>1
<1>11. ASSUME Provide \/ UNCHANGED vars
       PROVE  ResumePointFollows'
  BY <1>11, <1>c DEF Provide, vars, procVars, storeVars
<1> QED BY <1>1, <1>2, <1>3, <1>4, <1>5, <1>6, <1>7, <1>8, <1>9, <1>10, <1>11
        DEF Next, ProcessStep

LEMMA FilesInit == Init => FilesInv
<1> SUFFICES ASSUME Init PROVE FilesInv
  OBVIOUS
<1>1. FilesDoneCountsFiles
  BY DEF Init, StoreInit, AbsentCheckpoint, FilesDoneCountsFiles
<1>2. ResumePointFollows
  BY DEF Init, ResumePointFollows
<1> QED BY <1>1, <1>2 DEF FilesInv

\* files_done is the number of different files of the window up to its resume
\* point: a file read again after a broken stream is not counted twice, one
\* skipped is not counted at all (ingest.rs:247-250).
THEOREM FilesAreCountedOnce ==
    ASSUME NamesInOrder PROVE Spec => []FilesDoneCountsFiles
<1>1. Init => IInv /\ FilesInv
  BY IInvInit, FilesInit
<1>2. IInv /\ FilesInv /\ [Next]_vars => IInv' /\ FilesInv'
  <2> SUFFICES ASSUME IInv, FilesInv, [Next]_vars PROVE IInv' /\ FilesInv'
    OBVIOUS
  <2>1. IInv'
    BY IInvNext
  <2>2. FilesDoneCountsFiles'
    BY FilesDoneNext DEF IInv, JobInv
  <2>3. ResumePointFollows'
    BY ResumePointNext
  <2> QED BY <2>1, <2>2, <2>3 DEF FilesInv
<1>3. FilesInv => FilesDoneCountsFiles
  BY DEF FilesInv
<1> QED BY <1>1, <1>2, <1>3, PTL DEF Spec
=============================================================================
