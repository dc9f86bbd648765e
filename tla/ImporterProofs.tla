---------------------------- MODULE ImporterProofs ----------------------------
(***************************************************************************)
(* Proofs about the importer, for every choice of the constants: types,    *)
(* and the agreement of checkpoints and runs.                              *)
(***************************************************************************)
EXTENDS ImporterProps, FiniteSetTheorems, TLAPS

StoreTypeOK ==
    /\ checkpoints \in [Windows -> CheckpointRows]
    /\ runs \in [RunIds -> RunRows]
    /\ nextRun \in 0 .. MaxRuns
    /\ cursors \in [Specs -> Times]
    /\ raw \subseteq Specs \X Times \X (1 .. RecCount)

ProcTypeOK ==
    /\ now \in 0 .. MaxTime
    /\ pc \in PcValues
    /\ cmd \in {"backfill", "resume", "none"}
    /\ plan \subseteq Windows
    /\ queue \subseteq [win : Windows, end : Nat \union {NoEnd}, skip : Times]
    /\ todo \subseteq [spec : Specs, from : Nat]
    /\ job \in Jobs
    /\ stream \in Streams

LEMMA TypeSplit == TypeOK <=> StoreTypeOK /\ ProcTypeOK
  BY DEF TypeOK, StoreTypeOK, ProcTypeOK

LEMMA WindowParts ==
    ASSUME NEW w \in Windows
    PROVE  SpecOf(w) \in Specs /\ StartOf(w) \in Nat /\ w = <<SpecOf(w), StartOf(w)>>
  BY StoreConstants DEF SpecOf, StartOf

LEMMA InsertedCount ==
    ASSUME NEW d, NEW f, NEW n \in 0 .. RecCount
    PROVE  IsFiniteSet(Inserted(d, f, n)) /\ Cardinality(Inserted(d, f, n)) \in Nat
<1> DEFINE S == {<<d, f, i>> : i \in 1 .. n}
<1>1. IsFiniteSet(1 .. n)
  BY FS_Interval, StoreConstants
<1>2. IsFiniteSet(S)
  <2> DEFINE g == [i \in 1 .. n |-> <<d, f, i>>]
  <2>1. g \in Surjection(1 .. n, S)
    BY DEF Surjection
  <2> QED BY <1>1, <2>1, FS_Surjection
<1>3. Inserted(d, f, n) \in SUBSET S
  BY DEF Inserted
<1>4. IsFiniteSet(Inserted(d, f, n))
  BY <1>2, <1>3, FS_Subset
<1> QED BY <1>4, FS_CardinalityType

(***************************************************************************)
(* Each transaction keeps the types of the tables.                         *)
(***************************************************************************)
LEMMA SeedWindowType ==
    ASSUME StoreTypeOK, NEW w \in Windows, NEW e \in Nat \union {NoEnd}, SeedWindow(w, e)
    PROVE  StoreTypeOK'
<1>1. SeededRow(checkpoints[w], e) \in CheckpointRows
  <2>1. checkpoints[w] \in CheckpointRows
    BY DEF StoreTypeOK
  <2> QED
    BY <2>1 DEF SeededRow, CheckpointRows, WindowStates, Times, Null, NoEnd,
                Settled
<1> QED BY <1>1 DEF StoreTypeOK, SeedWindow

LEMMA AbandonWindowType ==
    ASSUME StoreTypeOK, NEW w \in Windows, AbandonWindow(w)
    PROVE  StoreTypeOK'
  BY DEF StoreTypeOK, AbandonWindow, CheckpointRows, WindowStates

LEMMA BeginWindowType ==
    ASSUME StoreTypeOK, NEW w \in Windows, BeginWindow(w)
    PROVE  StoreTypeOK' /\ nextRun' \in RunIds
<1>1. runs' \in [RunIds -> RunRows]
  BY WindowParts DEF StoreTypeOK, BeginWindow, RunRows, RunStatuses
<1>2. nextRun + 1 \in RunIds /\ nextRun + 1 \in 0 .. MaxRuns
  BY DEF BeginWindow, RunIds
<1>3. checkpoints' \in [Windows -> CheckpointRows]
  <2>1. \A c \in CheckpointRows :
            [c EXCEPT !.state = "running", !.last_run = nextRun + 1] \in CheckpointRows
    BY <1>2 DEF CheckpointRows, WindowStates
  <2>2. checkpoints' = [checkpoints EXCEPT
            ![w] = [checkpoints[w] EXCEPT !.state = "running", !.last_run = nextRun + 1]]
    BY DEF StoreTypeOK, BeginWindow, CheckpointRows
  <2> QED BY <2>1, <2>2 DEF StoreTypeOK
<1>4. nextRun' \in RunIds /\ nextRun' \in 0 .. MaxRuns
  BY <1>2 DEF BeginWindow
<1> QED BY <1>1, <1>3, <1>4 DEF StoreTypeOK, BeginWindow

LEMMA InsertRawType ==
    ASSUME StoreTypeOK, NEW r, NEW d \in Specs, NEW f \in Times, NEW n \in 0 .. RecCount,
           InsertRaw(r, d, f, n)
    PROVE  /\ runs' \in [RunIds -> RunRows]
           /\ raw' \subseteq Specs \X Times \X (1 .. RecCount)
<1>1. Cardinality(Inserted(d, f, n)) \in Nat
  BY InsertedCount
<1>2. runs' \in [RunIds -> RunRows]
  <2>1. CASE r \in RunIds
    <3>1. runs[r] \in RunRows
      BY <2>1 DEF StoreTypeOK
    <3>2. [runs[r] EXCEPT !.stored = @ + Cardinality(Inserted(d, f, n))] \in RunRows
      BY <1>1, <3>1 DEF RunRows
    <3> QED BY <3>2 DEF StoreTypeOK, InsertRaw
  <2>2. CASE r \notin RunIds
    BY <2>2 DEF StoreTypeOK, InsertRaw
  <2> QED BY <2>1, <2>2
<1>3. Inserted(d, f, n) \subseteq Specs \X Times \X (1 .. RecCount)
  BY StoreConstants DEF Inserted
<1> QED BY <1>2, <1>3 DEF StoreTypeOK, InsertRaw

LEMMA CommitFileType ==
    ASSUME StoreTypeOK, NEW r, NEW w, SpecOf(w) \in Specs, NEW f \in Times,
           NEW n \in 0 .. RecCount, CommitFile(r, w, f, n)
    PROVE  StoreTypeOK'
<1>1. Cardinality(Inserted(SpecOf(w), f, n)) \in Nat
  BY InsertedCount
<1>2. ASSUME w \in Windows
      PROVE  CommittedRow(checkpoints[w], SpecOf(w), f, n) \in CheckpointRows
  <2>1. checkpoints[w] \in CheckpointRows
    BY <1>2 DEF StoreTypeOK
  <2>2. LaterName(SpecOf(w), f, checkpoints[w].last_file) \in Times
    BY <2>1 DEF CheckpointRows, LaterName
  <2>3. checkpoints[w].files_done \in Nat /\ checkpoints[w].stored \in Nat
    BY <2>1 DEF CheckpointRows
  <2> DEFINE c == checkpoints[w]
             fd == IF c.last_file = f THEN c.files_done ELSE c.files_done + 1
             lf == LaterName(SpecOf(w), f, c.last_file)
             st == c.stored + Cardinality(Inserted(SpecOf(w), f, n))
  <2>4. CommittedRow(c, SpecOf(w), f, n)
          = [c EXCEPT !.files_done = fd, !.last_file = lf, !.stored = st]
    BY DEF CommittedRow
  <2>5. fd \in Nat /\ lf \in Times /\ st \in Nat
    BY <1>1, <2>2, <2>3
  <2> HIDE DEF fd, lf, st
  <2> QED BY <2>1, <2>4, <2>5 DEF CheckpointRows
<1>3. checkpoints' \in [Windows -> CheckpointRows]
  BY <1>2 DEF StoreTypeOK, CommitFile
<1> QED BY <1>3, InsertRawType DEF StoreTypeOK, CommitFile

LEMMA CommitDiffFileType ==
    ASSUME StoreTypeOK, NEW r, NEW d \in Specs, NEW f \in Times,
           NEW n \in 0 .. RecCount, CommitDiffFile(r, d, f, n)
    PROVE  StoreTypeOK'
  BY InsertRawType DEF StoreTypeOK, CommitDiffFile

LEMMA FinishWindowType ==
    ASSUME StoreTypeOK, NEW r, NEW w, NEW ts \in Times, NEW cursorTs \in Times,
           FinishWindow(r, w, ts, cursorTs)
    PROVE  StoreTypeOK'
<1>1. checkpoints' \in [Windows -> CheckpointRows]
  <2>1. ASSUME w \in Windows PROVE FinishedRow(checkpoints[w], ts) \in CheckpointRows
    <3>1. checkpoints[w] \in CheckpointRows
      BY <2>1 DEF StoreTypeOK
    <3>2. LaterTime(checkpoints[w].last_ts, ts) \in Times
      BY <3>1 DEF CheckpointRows, LaterTime
    <3> QED BY <3>1, <3>2 DEF CheckpointRows, FinishedRow, WindowStates
  <2> QED BY <2>1 DEF StoreTypeOK, FinishWindow
<1>2. runs' \in [RunIds -> RunRows]
  BY DEF StoreTypeOK, FinishWindow, RunRows, RunStatuses
<1>3. cursors' \in [Specs -> Times]
  <2>1. ASSUME NEW d \in Specs PROVE LaterTime(cursors[d], cursorTs) \in Times
    BY DEF StoreTypeOK, LaterTime
  <2> QED BY <2>1 DEF StoreTypeOK, FinishWindow
<1> QED BY <1>1, <1>2, <1>3 DEF StoreTypeOK, FinishWindow

LEMMA FailWindowType ==
    ASSUME StoreTypeOK, NEW r, NEW w, FailWindow(r, w)
    PROVE  StoreTypeOK'
<1>1. checkpoints' \in [Windows -> CheckpointRows]
  BY DEF StoreTypeOK, FailWindow, CheckpointRows, WindowStates
<1>2. runs' \in [RunIds -> RunRows]
  BY DEF StoreTypeOK, FailWindow, RunRows, RunStatuses
<1> QED BY <1>1, <1>2 DEF StoreTypeOK, FailWindow

LEMMA BeginDiffRunType ==
    ASSUME StoreTypeOK, NEW d \in Specs, NEW from \in Nat, BeginDiffRun(d, from)
    PROVE  StoreTypeOK' /\ nextRun' \in RunIds
<1>1. runs' \in [RunIds -> RunRows]
  BY DEF StoreTypeOK, BeginDiffRun, RunRows, RunStatuses
<1>2. nextRun' \in RunIds /\ nextRun' \in 0 .. MaxRuns
  BY DEF BeginDiffRun, RunIds
<1> QED BY <1>1, <1>2 DEF StoreTypeOK, BeginDiffRun

LEMMA AdvanceCursorType ==
    ASSUME StoreTypeOK, NEW d \in Specs, NEW ts \in Times, AdvanceCursor(d, ts)
    PROVE  StoreTypeOK'
  BY DEF StoreTypeOK, AdvanceCursor, LaterTime

LEMMA FinishDiffRunType ==
    ASSUME StoreTypeOK, NEW r, NEW status \in RunStatuses, FinishDiffRun(r, status)
    PROVE  StoreTypeOK'
  BY DEF StoreTypeOK, FinishDiffRun, RunRows

(***************************************************************************)
(* Type correctness of the whole importer.                                 *)
(***************************************************************************)
LEMMA LocalsType ==
    /\ NoJob \in Jobs
    /\ NoStream \in Streams
    /\ SpecOf(JobWindow) = job.spec
    /\ StartOf(JobWindow) = job.lo
  BY StoreConstants DEF NoJob, Jobs, NoStream, Streams, Times, NoEnd, Null, JobWindow,
                        SpecOf, StartOf

LEMMA FilesArePositive ==
    ASSUME NEW d \in Specs, NEW f \in FileTimes[d]
    PROVE  f \in Nat /\ f > 0 /\ f \in Times /\ f # Null
  BY StoreConstants DEF Times, Null

LEMMA StreamUpdate ==
    ASSUME NEW s \in Streams, NEW c \in Times
    PROVE  /\ \A b \in 0 .. RecCount : [s EXCEPT !.cur = c, !.buf = b] \in Streams
           /\ \A p \in Int : [s EXCEPT !.pos = p, !.cur = c] \in Streams
           /\ \A p \in Int, b \in 0 .. RecCount :
                  [s EXCEPT !.pos = p, !.cur = c, !.buf = b] \in Streams
  BY DEF Streams

LEMMA ExitType ==
    ASSUME Exit, now' \in 0 .. MaxTime
    PROVE  ProcTypeOK'
  BY LocalsType DEF Exit, ProcTypeOK, PcValues

LEMMA CommitType ==
    ASSUME StoreTypeOK, ProcTypeOK, Commit(stream.cur, stream.buf)
    PROVE  StoreTypeOK'
<1>1. job.spec \in Specs /\ stream.cur \in Times /\ stream.buf \in 0 .. RecCount
  BY DEF ProcTypeOK, Jobs, Streams
<1>2. CASE job.mode = "setup"
  BY <1>1, <1>2, CommitFileType, LocalsType DEF Commit
<1>3. CASE job.mode # "setup"
  BY <1>1, <1>3, CommitDiffFileType DEF Commit
<1> QED BY <1>2, <1>3

LEMMA AttemptCommitType ==
    ASSUME StoreTypeOK, ProcTypeOK, NEW out, Attempt(Commit(stream.cur, stream.buf), out)
    PROVE  StoreTypeOK'
  BY CommitType DEF Attempt, StoreTypeOK, storeVars

LEMMA TypeNext == TypeOK /\ [Next]_vars => TypeOK'
<1> SUFFICES ASSUME StoreTypeOK, ProcTypeOK, [Next]_vars
             PROVE  StoreTypeOK' /\ ProcTypeOK'
  BY TypeSplit DEF TypeOK, StoreTypeOK, ProcTypeOK
<1>a. ASSUME UNCHANGED storeVars PROVE StoreTypeOK'
  BY <1>a DEF storeVars, StoreTypeOK
<1>b. stream \in Streams /\ job \in Jobs /\ job.spec \in Specs /\ job.lo \in Nat
  BY DEF ProcTypeOK, Jobs
<1>1. ASSUME NEW w \in Windows, NEW out \in Outcomes, NEW e \in EndChoices(w), Seed(w, e, out)
      PROVE  StoreTypeOK' /\ ProcTypeOK'
  <2>1. e \in Nat \union {NoEnd}
    BY DEF EndChoices, ProcTypeOK
  <2>2. StoreTypeOK'
    BY <1>1, <1>a, <2>1, SeedWindowType DEF Seed, Attempt
  <2>3. ProcTypeOK'
    <3>1. CASE out = "ok"
      BY <1>1, <3>1 DEF Seed, ProcTypeOK
    <3>2. CASE out # "ok"
      BY <1>1, <3>2, ExitType DEF Seed, ProcTypeOK
    <3> QED BY <3>1, <3>2
  <2> QED BY <2>2, <2>3
<1>2. CASE SeedDone
  BY <1>2, <1>a DEF SeedDone, ProcTypeOK, PcValues
<1>3. ASSUME NEW out \in Outcomes, ListPending(out)
      PROVE  StoreTypeOK' /\ ProcTypeOK'
  <2>1. PendingWindows \subseteq [win : Windows, end : Nat \union {NoEnd}, skip : Times]
    BY DEF PendingWindows, StoreTypeOK, CheckpointRows
  <2> QED BY <1>3, <1>a, <2>1 DEF ListPending, ProcTypeOK, PcValues, AfterWindows
<1>4. ASSUME NEW out \in Outcomes, NEW q \in queue, RunWindow(q, out)
      PROVE  StoreTypeOK' /\ ProcTypeOK'
  <2>1. /\ q.win \in Windows /\ q.end \in Nat \union {NoEnd} /\ q.skip \in Times
        /\ SpecOf(q.win) \in Specs /\ StartOf(q.win) \in Nat
    BY WindowParts DEF ProcTypeOK
  <2>2. StoreTypeOK' /\ (out = "ok" => nextRun' \in RunIds)
    BY <1>4, <1>a, <2>1, BeginWindowType DEF RunWindow, Attempt
  <2>3. job' \in Jobs /\ stream' \in Streams
    BY <1>4, <2>1, <2>2, LocalsType DEF RunWindow, Jobs
  <2> QED BY <1>4, <2>2, <2>3 DEF RunWindow, ProcTypeOK, PcValues, AfterWindows
<1>5. ASSUME NEW out \in Outcomes, NEW ts \in FileTimes[job.spec] \union {Null}, OpenOk(ts, out)
      PROVE  StoreTypeOK' /\ ProcTypeOK'
  <2>1. ts \in Times
    BY <1>b, FilesArePositive DEF Times
  <2>2. RangeEnd \in Nat
    BY <1>b DEF RangeEnd, Jobs, ProcTypeOK
  <2>3. (IF job.skip = Null THEN job.lo ELSE job.skip - 1) \in Int
    BY <1>b DEF Jobs, Times, Null
  <2>4. stream' \in Streams
    BY <1>5, <1>b, <2>1, <2>2, <2>3 DEF OpenOk, Streams
  <2> QED BY <1>5, <1>a, <2>4 DEF OpenOk, ProcTypeOK, PcValues
<1>6. ASSUME NEW out \in Outcomes, NEW f \in FileTimes[job.spec], FileBeginLeftover(f, out)
      PROVE  StoreTypeOK' /\ ProcTypeOK'
  <2>1. StoreTypeOK'
    BY <1>6, AttemptCommitType DEF FileBeginLeftover
  <2>2. stream' \in Streams
    <3>1. f \in Times /\ f \in Int /\ 0 \in 0 .. RecCount
      BY <1>b, FilesArePositive, StoreConstants
    <3> QED BY <1>6, <1>b, <3>1, StreamUpdate DEF FileBeginLeftover
  <2> QED BY <1>6, <2>1, <2>2 DEF FileBeginLeftover, ProcTypeOK, PcValues
<1>7. ASSUME NEW out \in Outcomes, FileEnd(out)
      PROVE  StoreTypeOK' /\ ProcTypeOK'
  <2>1. StoreTypeOK'
    BY <1>7, AttemptCommitType DEF FileEnd
  <2>2. stream' \in Streams
    <3>1. Null \in Times /\ 0 \in 0 .. RecCount
      BY StoreConstants DEF Times
    <3> QED BY <1>7, <1>b, <3>1, StreamUpdate DEF FileEnd
  <2> QED BY <1>7, <2>1, <2>2 DEF FileEnd, ProcTypeOK, PcValues
<1>8. ASSUME NEW out \in Outcomes, DoneLeftover(out)
      PROVE  StoreTypeOK' /\ ProcTypeOK'
  <2>1. StoreTypeOK'
    BY <1>8, AttemptCommitType DEF DoneLeftover
  <2>2. stream' \in Streams
    <3>1. Null \in Times /\ 0 \in 0 .. RecCount
      BY StoreConstants DEF Times
    <3> QED BY <1>8, <1>b, <3>1, StreamUpdate DEF DoneLeftover
  <2> QED BY <1>8, <2>1, <2>2 DEF DoneLeftover, ProcTypeOK, PcValues, AfterStream
<1>9. ASSUME NEW out \in Outcomes, FinishSetup(out)
      PROVE  StoreTypeOK' /\ ProcTypeOK'
  <2>1. stream.ts \in Times /\ CursorTs \in Times
    BY <1>b DEF Streams, CursorTs, Times
  <2>2. StoreTypeOK'
    BY <1>9, <1>a, <2>1, FinishWindowType DEF FinishSetup, Attempt
  <2> QED BY <1>9, <2>2, LocalsType DEF FinishSetup, EndJob, Abort, ProcTypeOK, PcValues
<1>10. ASSUME NEW out \in Outcomes, Advance(out)
       PROVE  StoreTypeOK' /\ ProcTypeOK'
  <2>1. stream.ts \in Times
    BY <1>b DEF Streams
  <2>2. StoreTypeOK'
    BY <1>10, <1>a, <1>b, <2>1, AdvanceCursorType DEF Advance, Attempt
  <2> QED BY <1>10, <2>2 DEF Advance, ProcTypeOK, PcValues
<1>11. ASSUME NEW out \in Outcomes, FinishDiff(out)
       PROVE  StoreTypeOK' /\ ProcTypeOK'
  <2>1. StoreTypeOK'
    BY <1>11, <1>a, FinishDiffRunType DEF FinishDiff, Attempt, RunStatuses
  <2> QED BY <1>11, <2>1, LocalsType DEF FinishDiff, EndJob, Abort, ProcTypeOK, PcValues
<1>12. ASSUME NEW out \in Outcomes, RecordFailure(out)
       PROVE  StoreTypeOK' /\ ProcTypeOK'
  <2>1. StoreTypeOK'
    <3>1. CASE job.mode = "setup"
      BY <1>12, <1>a, <3>1, FailWindowType DEF RecordFailure, Attempt
    <3>2. CASE job.mode # "setup"
      BY <1>12, <1>a, <3>2, FinishDiffRunType DEF RecordFailure, Attempt, RunStatuses
    <3> QED BY <3>1, <3>2
  <2> QED BY <1>12, <2>1, LocalsType DEF RecordFailure, EndJob, AfterWindows, ProcTypeOK, PcValues
<1>13. ASSUME NEW out \in Outcomes, ListCursors(out)
       PROVE  StoreTypeOK' /\ ProcTypeOK'
  <2>1. AllCursors \subseteq [spec : Specs, from : Nat]
    BY DEF AllCursors, StoreTypeOK, Times
  <2>2. CASE out = "ok"
    BY <1>13, <1>a, <2>1, <2>2 DEF ListCursors, ProcTypeOK, PcValues
  <2>3. CASE out # "ok"
    BY <1>13, <1>a, <2>3, ExitType DEF ListCursors, ProcTypeOK
  <2> QED BY <2>2, <2>3
<1>14. ASSUME NEW out \in Outcomes, NEW c \in todo, RunDiff(c, out)
       PROVE  StoreTypeOK' /\ ProcTypeOK'
  <2>1. c.spec \in Specs /\ c.from \in Nat
    BY DEF ProcTypeOK
  <2>2. StoreTypeOK' /\ (out = "ok" => nextRun' \in RunIds)
    BY <1>14, <1>a, <2>1, BeginDiffRunType DEF RunDiff, Attempt
  <2>3. job' \in Jobs /\ stream' \in Streams
    BY <1>14, <2>1, <2>2, LocalsType DEF RunDiff, Jobs, Times
  <2> QED BY <1>14, <2>2, <2>3 DEF RunDiff, ProcTypeOK, PcValues
<1>15. CASE WindowsDone
  BY <1>15, <1>a DEF WindowsDone, AfterWindows, ProcTypeOK, PcValues
<1>16. CASE NoData
  BY <1>16, <1>a DEF NoData, ProcTypeOK, PcValues
<1>17. ASSUME NEW f \in FileTimes[job.spec], FileBegin(f)
       PROVE  StoreTypeOK' /\ ProcTypeOK'
  <2>1. stream' \in Streams
    <3>1. f \in Times /\ f \in Int
      BY <1>b, FilesArePositive
    <3> QED BY <1>17, <1>b, <3>1, StreamUpdate DEF FileBegin
  <2> QED BY <1>17, <1>a, <2>1 DEF FileBegin, ProcTypeOK
<1>18. CASE Record
  <2>1. stream' \in Streams
    BY <1>18, <1>b, StoreConstants DEF Record, Streams
  <2> QED BY <1>18, <1>a, <2>1 DEF Record, ProcTypeOK
<1>19. CASE Done
  BY <1>19, <1>a DEF Done, AfterStream, ProcTypeOK, PcValues
<1>20. CASE StreamError
  BY <1>20, <1>a, LocalsType DEF StreamError, ProcTypeOK, PcValues
<1>21. CASE SpawnError
  BY <1>21, <1>a DEF SpawnError, ProcTypeOK, PcValues
<1>22. CASE DiffsDone
  BY <1>22, <1>a DEF DiffsDone, ProcTypeOK, PcValues
<1>23. CASE Normalize \/ Kill
  BY <1>23, <1>a, ExitType DEF Normalize, Kill, ProcTypeOK
<1>24. ASSUME NEW c \in {"backfill", "resume"}, NEW P \in SUBSET Windows, StartCommand(c, P)
       PROVE  StoreTypeOK' /\ ProcTypeOK'
  BY <1>24, <1>a DEF StartCommand, ProcTypeOK, PcValues
<1>25. ASSUME NEW w \in Windows, Abandon(w)
       PROVE  StoreTypeOK' /\ ProcTypeOK'
  BY <1>25, AbandonWindowType DEF Abandon, ProcTypeOK, procVars
<1>26. CASE Provide
  BY <1>26, <1>a, ImporterConstants DEF Provide, ProcTypeOK, procVars
<1>27. CASE UNCHANGED vars
  BY <1>27, <1>a DEF vars, procVars, ProcTypeOK
<1> QED
  BY <1>1, <1>2, <1>3, <1>4, <1>5, <1>6, <1>7, <1>8, <1>9, <1>10, <1>11, <1>12, <1>13, <1>14,
     <1>15, <1>16, <1>17, <1>18, <1>19, <1>20, <1>21, <1>22, <1>23, <1>24, <1>25, <1>26, <1>27
  DEF Next, ProcessStep

LEMMA TypeInit == Init => TypeOK
<1> SUFFICES ASSUME Init PROVE StoreTypeOK /\ ProcTypeOK
  BY TypeSplit
<1>1. AbsentCheckpoint \in CheckpointRows
  BY DEF AbsentCheckpoint, CheckpointRows, WindowStates, Times
<1>2. AbsentRun \in RunRows
  BY StoreConstants DEF AbsentRun, RunRows, RunStatuses
<1>3. StoreTypeOK
  BY <1>1, <1>2, StoreConstants DEF Init, StoreInit, StoreTypeOK, Times
<1>4. ProcTypeOK
  BY LocalsType, ImporterConstants DEF Init, ProcTypeOK, PcValues
<1> QED BY <1>3, <1>4

\* Every reachable state of tables and process is well typed, for any set of
\* dataspecs, windows and files and any combination of faults.
THEOREM TypeCorrect == Spec => []TypeOK
  BY TypeInit, TypeNext, PTL DEF Spec

(***************************************************************************)
(* RunsInv: checkpoints and runs agree.  Every transaction of the store    *)
(* preserves it; the importer reaches them only as JobInv allows.          *)
(***************************************************************************)
\* A step that changes no status and no last run, and moves windows at most to
\* a state that says nothing about a run.
LEMMA RunsFrame ==
    ASSUME RunsInv, StoreTypeOK, StoreTypeOK', nextRun' = nextRun,
           \A r \in RunIds :
              /\ runs'[r].status = runs[r].status
              /\ runs'[r].mode = runs[r].mode
              /\ runs'[r].spec = runs[r].spec
              /\ runs'[r].start = runs[r].start,
           \A w \in Windows :
              /\ checkpoints'[w].last_run = checkpoints[w].last_run
              /\ \/ checkpoints'[w].state = checkpoints[w].state
                 \/ checkpoints'[w].state \notin {"running", "done", "failed"}
    PROVE  RunsInv'
<1>0. \A w \in Windows : checkpoints[w].last_run \in RunIds \union {Null}
  BY DEF StoreTypeOK, CheckpointRows
<1>1. (\A r \in RunIds : r > nextRun => runs[r].status = "absent")'
  BY DEF RunsInv, RunIds
<1>2. (\A w \in Windows :
          checkpoints[w].last_run # Null =>
              /\ checkpoints[w].last_run \in 1 .. nextRun
              /\ runs[checkpoints[w].last_run].mode = "setup"
              /\ runs[checkpoints[w].last_run].spec = SpecOf(w)
              /\ runs[checkpoints[w].last_run].start = StartOf(w))'
  BY <1>0 DEF RunsInv
<1>3. RunningRunIsLast'
  BY DEF RunsInv, RunningRunIsLast
<1>4. DiffRunsAreSerial'
  BY DEF RunsInv, DiffRunsAreSerial
<1>5. StateMatchesRun'
  BY <1>0 DEF RunsInv, StateMatchesRun
<1> QED BY <1>1, <1>2, <1>3, <1>4, <1>5 DEF RunsInv

LEMMA SeedWindowRuns ==
    ASSUME RunsInv, StoreTypeOK, StoreTypeOK', NEW w \in Windows, NEW e, SeedWindow(w, e)
    PROVE  RunsInv'
<1> DEFINE c == checkpoints[w]
<1>1. c \in CheckpointRows
  BY DEF StoreTypeOK
<1>2. /\ SeededRow(c, e).last_run = c.last_run
      /\ SeededRow(c, e).state \in {c.state, "pending"}
  BY <1>1 DEF SeededRow, CheckpointRows
<1> QED BY <1>2, RunsFrame DEF SeedWindow, StoreTypeOK

LEMMA AbandonWindowRuns ==
    ASSUME RunsInv, StoreTypeOK, StoreTypeOK', NEW w \in Windows, AbandonWindow(w)
    PROVE  RunsInv'
<1> DEFINE c == checkpoints[w]
<1>1. c \in CheckpointRows
  BY DEF StoreTypeOK
<1> QED BY <1>1, RunsFrame DEF AbandonWindow, StoreTypeOK, CheckpointRows

LEMMA CommitRows ==
    ASSUME StoreTypeOK, Commit(stream.cur, stream.buf)
    PROVE  /\ \A r \in RunIds : /\ runs'[r].status = runs[r].status
                                /\ runs'[r].mode = runs[r].mode
                                /\ runs'[r].spec = runs[r].spec
                                /\ runs'[r].start = runs[r].start
           /\ \A w \in Windows : /\ checkpoints'[w].last_run = checkpoints[w].last_run
                                 /\ checkpoints'[w].state = checkpoints[w].state
                                 /\ checkpoints'[w].end = checkpoints[w].end
                                 /\ checkpoints'[w].last_ts = checkpoints[w].last_ts
                                 /\ w # JobWindow => checkpoints'[w] = checkpoints[w]
           /\ nextRun' = nextRun /\ cursors' = cursors
<1>1. \A r \in RunIds : /\ runs'[r].status = runs[r].status
                        /\ runs'[r].mode = runs[r].mode
                        /\ runs'[r].spec = runs[r].spec
                        /\ runs'[r].start = runs[r].start
  <2>1. PICK n : runs' = [runs EXCEPT ![job.run].stored = n]
    BY DEF Commit, CommitFile, CommitDiffFile, InsertRaw
  <2>2. \A r \in RunIds : runs[r] \in RunRows
    BY DEF StoreTypeOK
  <2> QED BY <2>1, <2>2 DEF StoreTypeOK, RunRows
<1>2. \A w \in Windows : /\ checkpoints'[w].last_run = checkpoints[w].last_run
                         /\ checkpoints'[w].state = checkpoints[w].state
                         /\ checkpoints'[w].end = checkpoints[w].end
                         /\ checkpoints'[w].last_ts = checkpoints[w].last_ts
                         /\ w # JobWindow => checkpoints'[w] = checkpoints[w]
  <2>1. \A w \in Windows : checkpoints[w] \in CheckpointRows
    BY DEF StoreTypeOK
  <2>2. CASE job.mode = "setup"
    <3> DEFINE row(c) == CommittedRow(c, SpecOf(JobWindow), stream.cur, stream.buf)
    <3>1. checkpoints' = [checkpoints EXCEPT ![JobWindow] = row(checkpoints[JobWindow])]
      BY <2>2 DEF Commit, CommitFile
    <3>2. \A c \in CheckpointRows : /\ row(c).last_run = c.last_run
                                   /\ row(c).state = c.state
                                   /\ row(c).end = c.end
                                   /\ row(c).last_ts = c.last_ts
      BY DEF CommittedRow, CheckpointRows
    <3> HIDE DEF row
    <3> QED BY <2>1, <3>1, <3>2 DEF StoreTypeOK
  <2>3. CASE job.mode # "setup"
    BY <2>3 DEF Commit, CommitDiffFile
  <2> QED BY <2>2, <2>3
<1>3. nextRun' = nextRun /\ cursors' = cursors
  BY DEF Commit, CommitFile, CommitDiffFile
<1> QED BY <1>1, <1>2, <1>3

LEMMA CommitRuns ==
    ASSUME RunsInv, StoreTypeOK, StoreTypeOK', Commit(stream.cur, stream.buf)
    PROVE  RunsInv'
<1>1. \A r \in RunIds : /\ runs'[r].status = runs[r].status
                        /\ runs'[r].mode = runs[r].mode
                        /\ runs'[r].spec = runs[r].spec
                        /\ runs'[r].start = runs[r].start
  BY CommitRows
<1>2. /\ \A w \in Windows : /\ checkpoints'[w].last_run = checkpoints[w].last_run
                            /\ checkpoints'[w].state = checkpoints[w].state
      /\ nextRun' = nextRun
  BY CommitRows
<1> QED BY <1>1, <1>2, RunsFrame

LEMMA BeginWindowRuns ==
    ASSUME RunsInv, StoreTypeOK, StoreTypeOK', NEW w \in Windows, BeginWindow(w)
    PROVE  RunsInv'
<1> DEFINE new == nextRun + 1
           old == checkpoints[w].last_run
<1>0. /\ new \in RunIds /\ nextRun \in Nat /\ MaxRuns \in Nat
      /\ \A v \in Windows : checkpoints[v].last_run \in RunIds \union {Null}
      /\ \A v \in Windows : checkpoints[v].last_run # new
      /\ nextRun' = new
  BY StoreConstants DEF BeginWindow, StoreTypeOK, CheckpointRows, RunsInv, Null, RunIds
<1>1. \A r \in RunIds \ {new} :
         /\ runs'[r].mode = runs[r].mode
         /\ runs'[r].spec = runs[r].spec
         /\ runs'[r].start = runs[r].start
         /\ runs'[r].status = IF r = old /\ runs[r].status = "running" THEN "failed"
                              ELSE runs[r].status
  <2>1. \A r \in RunIds : runs[r] \in RunRows
    BY DEF StoreTypeOK
  <2> QED BY <2>1 DEF BeginWindow, RunRows
<1>2. /\ runs'[new].mode = "setup"
      /\ runs'[new].spec = SpecOf(w)
      /\ runs'[new].start = StartOf(w)
      /\ runs'[new].status = "running"
  BY <1>0 DEF BeginWindow
<1>3. /\ checkpoints'[w].last_run = new
      /\ checkpoints'[w].state = "running"
      /\ \A v \in Windows \ {w} : checkpoints'[v] = checkpoints[v]
  BY DEF BeginWindow, StoreTypeOK, CheckpointRows
<1>4. \A v \in Windows : checkpoints[v].last_run = old /\ old # Null => v = w
  BY <1>0, WindowParts DEF RunsInv
<1>5. (\A r \in RunIds : r > nextRun => runs[r].status = "absent")'
  BY <1>0, <1>1 DEF RunsInv, RunIds
<1>6. (\A v \in Windows :
          checkpoints[v].last_run # Null =>
              /\ checkpoints[v].last_run \in 1 .. nextRun
              /\ runs[checkpoints[v].last_run].mode = "setup"
              /\ runs[checkpoints[v].last_run].spec = SpecOf(v)
              /\ runs[checkpoints[v].last_run].start = StartOf(v))'
  <2>1. SUFFICES ASSUME NEW v \in Windows, checkpoints'[v].last_run # Null
                 PROVE  /\ checkpoints'[v].last_run \in 1 .. new
                        /\ runs'[checkpoints'[v].last_run].mode = "setup"
                        /\ runs'[checkpoints'[v].last_run].spec = SpecOf(v)
                        /\ runs'[checkpoints'[v].last_run].start = StartOf(v)
    BY <1>0
  <2>2. CASE v = w
    BY <2>2, <1>0, <1>2, <1>3
  <2>3. CASE v # w
    BY <2>1, <2>3, <1>0, <1>1, <1>3 DEF RunsInv, RunIds
  <2> QED BY <2>2, <2>3
<1>7. RunningRunIsLast'
  <2> SUFFICES ASSUME NEW r \in RunIds, runs'[r].status = "running", runs'[r].mode = "setup"
               PROVE  /\ <<runs'[r].spec, runs'[r].start>> \in Windows
                      /\ checkpoints'[<<runs'[r].spec, runs'[r].start>>].last_run = r
    BY DEF RunningRunIsLast
  <2>1. CASE r = new
    BY <2>1, <1>2, <1>3, WindowParts
  <2>2. CASE r # new
    BY <2>2, <1>1, <1>3 DEF RunsInv, RunningRunIsLast
  <2> QED BY <2>1, <2>2
<1>8. DiffRunsAreSerial'
  BY <1>1, <1>2 DEF RunsInv, DiffRunsAreSerial
<1>9. StateMatchesRun'
  <2> SUFFICES ASSUME NEW v \in Windows,
                      checkpoints'[v].state \in {"running", "done", "failed"}
               PROVE  /\ checkpoints'[v].last_run # Null
                      /\ runs'[checkpoints'[v].last_run].status = checkpoints'[v].state
    BY DEF StateMatchesRun
  <2>1. CASE v = w
    BY <2>1, <1>0, <1>2, <1>3 DEF RunIds, Null
  <2>2. CASE v # w
    BY <2>2, <1>0, <1>1, <1>3, <1>4 DEF RunsInv, StateMatchesRun
  <2> QED BY <2>1, <2>2
<1> QED BY <1>5, <1>6, <1>7, <1>8, <1>9 DEF RunsInv

\* The end of a window's last run, recorded in both rows.
LEMMA EndRunRuns ==
    ASSUME RunsInv, StoreTypeOK, StoreTypeOK', NEW w \in Windows, NEW st \in {"done", "failed"},
           checkpoints[w].last_run # Null,
           runs' = [runs EXCEPT ![checkpoints[w].last_run].status = st],
           checkpoints'[w].last_run = checkpoints[w].last_run,
           checkpoints'[w].state = st,
           \A v \in Windows \ {w} : checkpoints'[v] = checkpoints[v],
           nextRun' = nextRun
    PROVE  RunsInv'
<1> DEFINE last == checkpoints[w].last_run
<1>0. /\ last \in RunIds
      /\ \A v \in Windows : checkpoints[v].last_run \in RunIds \union {Null}
  BY DEF StoreTypeOK, CheckpointRows
<1>1. \A r \in RunIds : /\ runs'[r].mode = runs[r].mode
                        /\ runs'[r].spec = runs[r].spec
                        /\ runs'[r].start = runs[r].start
                        /\ runs'[r].status = IF r = last THEN st ELSE runs[r].status
  <2>1. \A r \in RunIds : runs[r] \in RunRows
    BY DEF StoreTypeOK
  <2> QED BY <2>1 DEF StoreTypeOK, RunRows
<1>2. \A v \in Windows : checkpoints[v].last_run = last => v = w
  BY WindowParts DEF RunsInv
<1>3. (\A r \in RunIds : r > nextRun => runs[r].status = "absent")'
  BY <1>0, <1>1 DEF RunsInv, RunIds, StoreTypeOK
<1>4. (\A v \in Windows :
          checkpoints[v].last_run # Null =>
              /\ checkpoints[v].last_run \in 1 .. nextRun
              /\ runs[checkpoints[v].last_run].mode = "setup"
              /\ runs[checkpoints[v].last_run].spec = SpecOf(v)
              /\ runs[checkpoints[v].last_run].start = StartOf(v))'
  BY <1>0, <1>1 DEF RunsInv
<1>5. RunningRunIsLast'
  BY <1>1 DEF RunsInv, RunningRunIsLast
<1>6. DiffRunsAreSerial'
  BY <1>1 DEF RunsInv, DiffRunsAreSerial
<1>7. StateMatchesRun'
  BY <1>0, <1>1, <1>2 DEF RunsInv, StateMatchesRun
<1> QED BY <1>3, <1>4, <1>5, <1>6, <1>7 DEF RunsInv

LEMMA FinishWindowRuns ==
    ASSUME RunsInv, StoreTypeOK, StoreTypeOK', NEW w \in Windows, NEW ts, NEW cursorTs,
           NEW r, r = checkpoints[w].last_run, r # Null, FinishWindow(r, w, ts, cursorTs)
    PROVE  RunsInv'
<1>1. /\ checkpoints'[w].last_run = checkpoints[w].last_run
      /\ checkpoints'[w].state = "done"
      /\ \A v \in Windows \ {w} : checkpoints'[v] = checkpoints[v]
  BY DEF FinishWindow, FinishedRow, StoreTypeOK, CheckpointRows
<1> QED BY <1>1, EndRunRuns DEF FinishWindow

LEMMA FailWindowRuns ==
    ASSUME RunsInv, StoreTypeOK, StoreTypeOK', NEW w \in Windows,
           NEW r, r = checkpoints[w].last_run, r # Null, FailWindow(r, w)
    PROVE  RunsInv'
<1>1. /\ checkpoints'[w].last_run = checkpoints[w].last_run
      /\ checkpoints'[w].state = "failed"
      /\ \A v \in Windows \ {w} : checkpoints'[v] = checkpoints[v]
  BY DEF FailWindow, StoreTypeOK, CheckpointRows
<1> QED BY <1>1, EndRunRuns DEF FailWindow

\* Steps on differential runs leave the checkpoints and the setup runs alone.
LEMMA DiffRunsFrame ==
    ASSUME RunsInv, StoreTypeOK, StoreTypeOK', checkpoints' = checkpoints,
           nextRun' \in Nat, nextRun' >= nextRun,
           \A r \in RunIds : r > nextRun' => runs'[r].status = "absent",
           \A r \in RunIds : r <= nextRun /\ runs[r].mode = "setup" => runs'[r] = runs[r],
           \A r \in RunIds : runs'[r].mode = "setup" /\ runs'[r].status = "running" =>
                             runs'[r] = runs[r],
           DiffRunsAreSerial'
    PROVE  RunsInv'
<1>1. /\ nextRun \in Nat
      /\ \A v \in Windows : checkpoints[v].last_run \in RunIds \union {Null}
  BY StoreConstants DEF StoreTypeOK, CheckpointRows
<1>2. (\A v \in Windows :
          checkpoints[v].last_run # Null =>
              /\ checkpoints[v].last_run \in 1 .. nextRun
              /\ runs[checkpoints[v].last_run].mode = "setup"
              /\ runs[checkpoints[v].last_run].spec = SpecOf(v)
              /\ runs[checkpoints[v].last_run].start = StartOf(v))'
  BY <1>1 DEF RunsInv
<1>3. RunningRunIsLast'
  BY DEF RunsInv, RunningRunIsLast
<1>4. StateMatchesRun'
  BY <1>1 DEF RunsInv, StateMatchesRun
<1> QED BY <1>2, <1>3, <1>4 DEF RunsInv

LEMMA BeginDiffRunRuns ==
    ASSUME RunsInv, StoreTypeOK, StoreTypeOK', NEW d \in Specs, NEW from, BeginDiffRun(d, from)
    PROVE  RunsInv'
<1> DEFINE new == nextRun + 1
<1>0. new \in RunIds /\ nextRun \in Nat /\ MaxRuns \in Nat /\ nextRun' = new
  BY StoreConstants DEF BeginDiffRun, StoreTypeOK
<1>1. \A r \in RunIds \ {new} :
         runs'[r] = IF /\ runs[r].spec = d /\ runs[r].mode = "normal"
                       /\ runs[r].status = "running"
                    THEN [runs[r] EXCEPT !.status = "failed"] ELSE runs[r]
  BY DEF BeginDiffRun
<1>2. runs'[new].mode = "normal" /\ runs'[new].spec = d
  BY <1>0 DEF BeginDiffRun
<1>3. \A r \in RunIds : runs[r] \in RunRows
  BY DEF StoreTypeOK
<1>4. \A r \in RunIds \ {new} :
         /\ runs'[r].mode = runs[r].mode
         /\ runs'[r].spec = runs[r].spec
         /\ runs'[r].status = "running" => runs'[r] = runs[r]
         /\ runs'[r].status = "running" /\ runs'[r].mode = "normal" => runs'[r].spec # d
  BY <1>1, <1>3 DEF RunRows
<1>5. DiffRunsAreSerial'
  BY <1>2, <1>4 DEF RunsInv, DiffRunsAreSerial
<1>6. \A r \in RunIds : r > nextRun' => runs'[r].status = "absent"
  <2> SUFFICES ASSUME NEW r \in RunIds, r > nextRun' PROVE runs'[r].status = "absent"
    OBVIOUS
  <2>1. r # new /\ r > nextRun
    BY <1>0 DEF RunIds
  <2> QED BY <1>1, <2>1 DEF RunsInv
<1>7. \A r \in RunIds : r <= nextRun /\ runs[r].mode = "setup" => runs'[r] = runs[r]
  <2> SUFFICES ASSUME NEW r \in RunIds, r <= nextRun, runs[r].mode = "setup"
               PROVE  runs'[r] = runs[r]
    OBVIOUS
  <2>1. r # new
    BY <1>0 DEF RunIds
  <2> QED BY <1>1, <2>1
<1>8. \A r \in RunIds : runs'[r].mode = "setup" /\ runs'[r].status = "running" =>
                        runs'[r] = runs[r]
  BY <1>2, <1>4
<1> QED BY <1>0, <1>5, <1>6, <1>7, <1>8, DiffRunsFrame DEF BeginDiffRun

LEMMA FinishDiffRunRuns ==
    ASSUME RunsInv, StoreTypeOK, StoreTypeOK', NEW r \in 1 .. nextRun, NEW status \in {"done", "failed"},
           runs[r].mode = "normal", FinishDiffRun(r, status)
    PROVE  RunsInv'
<1>0. nextRun \in Nat /\ r \in RunIds /\ nextRun' = nextRun
  BY StoreConstants DEF FinishDiffRun, StoreTypeOK, RunIds
<1>1. \A s \in RunIds : /\ runs'[s].mode = runs[s].mode
                        /\ runs'[s].spec = runs[s].spec
                        /\ runs'[s].status = IF s = r THEN status ELSE runs[s].status
                        /\ s # r => runs'[s] = runs[s]
  <2>1. \A s \in RunIds : runs[s] \in RunRows
    BY DEF StoreTypeOK
  <2> QED BY <2>1 DEF FinishDiffRun, StoreTypeOK, RunRows
<1>2. DiffRunsAreSerial'
  BY <1>1 DEF RunsInv, DiffRunsAreSerial
<1>3. \A s \in RunIds : s > nextRun' => runs'[s].status = "absent"
  <2> SUFFICES ASSUME NEW s \in RunIds, s > nextRun' PROVE runs'[s].status = "absent"
    OBVIOUS
  <2>1. s # r /\ s > nextRun
    BY <1>0 DEF RunIds
  <2> QED BY <1>1, <2>1 DEF RunsInv
<1>4. \A s \in RunIds : s <= nextRun /\ runs[s].mode = "setup" => runs'[s] = runs[s]
  BY <1>1
<1>5. \A s \in RunIds : runs'[s].mode = "setup" /\ runs'[s].status = "running" =>
                        runs'[s] = runs[s]
  BY <1>1
<1> QED BY <1>0, <1>2, <1>3, <1>4, <1>5, DiffRunsFrame DEF FinishDiffRun

\* Every step of the importer keeps RunsInv, given what the process knows of
\* the run in progress.
LEMMA RunsNext ==
    ASSUME TypeOK, RunsInv, JobInv, [Next]_vars
    PROVE  RunsInv'
<1>a. StoreTypeOK /\ StoreTypeOK' /\ ProcTypeOK
  BY TypeNext, TypeSplit DEF TypeOK, StoreTypeOK
<1>b. ASSUME UNCHANGED storeVars PROVE RunsInv'
  BY <1>a, <1>b, RunsFrame DEF storeVars
<1>c. ASSUME NEW out, Attempt(Commit(stream.cur, stream.buf), out) PROVE RunsInv'
  BY <1>a, <1>b, <1>c, CommitRuns DEF Attempt
<1>d. ASSUME InJob
      PROVE  /\ job.run \in 1 .. nextRun /\ job.run # Null
             /\ job.mode = "setup" => JobWindow \in Windows
                                      /\ job.run = checkpoints[JobWindow].last_run
             /\ job.mode # "setup" => runs[job.run].mode = "normal"
  BY <1>a, <1>d DEF JobInv, JobKnows, JobOwns, ProcTypeOK, Jobs, Null
<1>1. ASSUME NEW w \in Windows, NEW out \in Outcomes, NEW e \in EndChoices(w), Seed(w, e, out)
      PROVE  RunsInv'
  BY <1>1, <1>a, <1>b, SeedWindowRuns DEF Seed, Attempt
<1>2. ASSUME NEW out, NEW q \in queue, RunWindow(q, out)
      PROVE  RunsInv'
  BY <1>2, <1>a, <1>b, BeginWindowRuns DEF RunWindow, Attempt, ProcTypeOK
<1>3. ASSUME NEW out, FileEnd(out) \/ DoneLeftover(out) \/ \E f : FileBeginLeftover(f, out)
      PROVE  RunsInv'
  BY <1>3, <1>c DEF FileEnd, DoneLeftover, FileBeginLeftover
<1>4. ASSUME NEW out, FinishSetup(out)
      PROVE  RunsInv'
  BY <1>4, <1>a, <1>b, <1>d, FinishWindowRuns DEF FinishSetup, Attempt, InJob
<1>5. ASSUME NEW out, Advance(out)
      PROVE  RunsInv'
  BY <1>5, <1>a, RunsFrame DEF Advance, Attempt, AdvanceCursor, storeVars
<1>6. ASSUME NEW out, FinishDiff(out)
      PROVE  RunsInv'
  BY <1>6, <1>a, <1>b, <1>d, FinishDiffRunRuns DEF FinishDiff, Attempt, InJob
<1>7. ASSUME NEW out, RecordFailure(out)
      PROVE  RunsInv'
  <2>1. CASE job.mode = "setup"
    BY <1>7, <2>1, <1>a, <1>b, <1>d, FailWindowRuns DEF RecordFailure, Attempt, InJob
  <2>2. CASE job.mode # "setup"
    BY <1>7, <2>2, <1>a, <1>b, <1>d, FinishDiffRunRuns DEF RecordFailure, Attempt, InJob
  <2> QED BY <2>1, <2>2
<1>8. ASSUME NEW out, NEW c \in todo, RunDiff(c, out)
      PROVE  RunsInv'
  BY <1>8, <1>a, <1>b, BeginDiffRunRuns DEF RunDiff, Attempt, ProcTypeOK
<1>9. ASSUME NEW w \in Windows, Abandon(w)
      PROVE  RunsInv'
  BY <1>9, <1>a, AbandonWindowRuns DEF Abandon
<1>10. ASSUME NEW out, ListPending(out) \/ ListCursors(out) \/ \E ts : OpenOk(ts, out)
      PROVE  RunsInv'
  BY <1>b, <1>10 DEF ListPending, ListCursors, OpenOk
<1>11. ASSUME \/ SeedDone \/ WindowsDone \/ NoData \/ Record \/ Done \/ StreamError
              \/ SpawnError \/ DiffsDone \/ Normalize \/ Kill \/ Provide
              \/ \E f : FileBegin(f) \/ \E c, P : StartCommand(c, P)
      PROVE  RunsInv'
  BY <1>b, <1>11 DEF SeedDone, WindowsDone, NoData, Record, Done, StreamError, SpawnError,
                     DiffsDone, Normalize, Kill, Provide, FileBegin, StartCommand
<1>12. CASE UNCHANGED vars
  BY <1>b, <1>12 DEF vars
<1> QED
  BY <1>1, <1>2, <1>3, <1>4, <1>5, <1>6, <1>7, <1>8, <1>9, <1>10, <1>11, <1>12
  DEF Next, ProcessStep
=============================================================================
