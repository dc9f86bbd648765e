---------------------------- MODULE ImporterFetch ----------------------------
(***************************************************************************)
(* The process keeps JobInv, ListsInv and StreamInv: what it knows of the  *)
(* run in progress, of the lists read once and of the stream is true.      *)
(* One step per action that the part can notice.                           *)
(***************************************************************************)
EXTENDS ImporterProofs, DescentProofs

(***************************************************************************)
(* Raw records are only ever added.                                        *)
(***************************************************************************)
LEMMA StoredGrows ==
    ASSUME raw \subseteq raw'
    PROVE  /\ \A d, f : Stored(d, f) => Stored(d, f)'
           /\ \A d, S : AllStored(d, S) => \A f \in S : Stored(d, f)'
  BY DEF Stored, AllStored

LEMMA CommitStores ==
    ASSUME Commit(stream.cur, stream.buf), stream.buf = RecCount
    PROVE  /\ raw \subseteq raw'
           /\ \A d, f : d = job.spec /\ f = stream.cur => Stored(d, f)'
           /\ \A k \in raw' : k \in raw \/ (k[1] = job.spec /\ k[2] = stream.cur)
<1>1. raw' = raw \union Inserted(job.spec, stream.cur, RecCount)
  BY LocalsType DEF Commit, CommitFile, CommitDiffFile, InsertRaw
<1>2. ASSUME NEW d, NEW f, d = job.spec, f = stream.cur
      PROVE  Stored(d, f)'
  BY <1>1, <1>2 DEF Inserted, Stored
<1>3. \A k \in raw' : k \in raw \/ (k[1] = job.spec /\ k[2] = stream.cur)
  BY <1>1 DEF Inserted
<1> QED BY <1>1, <1>2, <1>3

LEMMA RawGrows == [Next]_vars => raw \subseteq raw'
<1> SUFFICES ASSUME Next PROVE raw \subseteq raw'
  BY DEF vars, storeVars
<1>1. ASSUME NEW out, Attempt(Commit(stream.cur, stream.buf), out)
      PROVE  raw \subseteq raw'
  BY <1>1 DEF Attempt, Commit, CommitFile, CommitDiffFile, InsertRaw, storeVars
<1>2. ASSUME NEW out, FileEnd(out) \/ DoneLeftover(out) \/ \E f : FileBeginLeftover(f, out)
      PROVE  raw \subseteq raw'
  BY <1>1, <1>2 DEF FileEnd, DoneLeftover, FileBeginLeftover
<1>3. ASSUME NEW out, \/ FinishSetup(out) \/ Advance(out) \/ FinishDiff(out)
                      \/ RecordFailure(out) \/ \E q : RunWindow(q, out)
                      \/ \E c : RunDiff(c, out) \/ \E w, e : Seed(w, e, out)
      PROVE  raw \subseteq raw'
  BY <1>3 DEF FinishSetup, Advance, FinishDiff, RecordFailure, RunWindow, RunDiff, Seed,
              Attempt, FinishWindow, AdvanceCursor, FinishDiffRun, FailWindow, BeginWindow,
              BeginDiffRun, SeedWindow, storeVars
<1>4. ASSUME UNCHANGED storeVars PROVE raw \subseteq raw'
  BY <1>4 DEF storeVars
<1>5. ASSUME NEW out, \/ ListPending(out) \/ ListCursors(out) \/ \E ts : OpenOk(ts, out)
      PROVE  raw \subseteq raw'
  BY <1>4, <1>5 DEF ListPending, ListCursors, OpenOk
<1>6. ASSUME \/ SeedDone \/ WindowsDone \/ NoData \/ Record \/ Done \/ StreamError
             \/ SpawnError \/ DiffsDone \/ Normalize \/ Kill \/ Provide
             \/ \E f : FileBegin(f) \/ \E c, P : StartCommand(c, P)
      PROVE  raw \subseteq raw'
  BY <1>4, <1>6 DEF SeedDone, WindowsDone, NoData, Record, Done, StreamError, SpawnError,
                    DiffsDone, Normalize, Kill, Provide, FileBegin, StartCommand
<1>7. ASSUME NEW w, Abandon(w) PROVE raw \subseteq raw'
  BY <1>7 DEF Abandon, AbandonWindow
<1> QED BY <1>2, <1>3, <1>5, <1>6, <1>7 DEF Next, ProcessStep

(***************************************************************************)
(* The cursors only move forward.                                          *)
(***************************************************************************)
LEMMA LaterTimeIsLater ==
    ASSUME NEW old \in Times, NEW ts \in Times
    PROVE  LaterTime(old, ts) \in {old, ts} /\ LaterTime(old, ts) >= old
  BY DEF LaterTime, Times, Null

LEMMA CursorsGrow ==
    ASSUME TypeOK, [Next]_vars
    PROVE  \A d \in Specs : cursors'[d] >= cursors[d]
<1>a. ASSUME UNCHANGED cursors PROVE \A d \in Specs : cursors'[d] >= cursors[d]
  BY <1>a DEF TypeOK, Times, Null
<1>b. ASSUME NEW e, NEW ts \in Times, cursors' = [cursors EXCEPT ![e] = LaterTime(@, ts)]
      PROVE  \A d \in Specs : cursors'[d] >= cursors[d]
  BY <1>b, LaterTimeIsLater DEF TypeOK, Times, Null
<1>c. stream.ts \in Times /\ CursorTs \in Times
  BY DEF TypeOK, Streams, CursorTs, Jobs, Times
<1>1. ASSUME NEW out, FinishSetup(out)
      PROVE  \A d \in Specs : cursors'[d] >= cursors[d]
  BY <1>1, <1>a, <1>b, <1>c DEF FinishSetup, Attempt, FinishWindow, storeVars
<1>2. ASSUME NEW out, Advance(out)
      PROVE  \A d \in Specs : cursors'[d] >= cursors[d]
  BY <1>2, <1>a, <1>b, <1>c DEF Advance, Attempt, AdvanceCursor, storeVars
<1>3. ASSUME NEW out, \/ FileEnd(out) \/ DoneLeftover(out) \/ \E f : FileBeginLeftover(f, out)
                      \/ FinishDiff(out) \/ RecordFailure(out) \/ \E q : RunWindow(q, out)
                      \/ \E c : RunDiff(c, out) \/ \E w, e : Seed(w, e, out)
      PROVE  UNCHANGED cursors
  BY <1>3 DEF FileEnd, DoneLeftover, FileBeginLeftover, FinishDiff, RecordFailure, RunWindow,
              RunDiff, Seed, Attempt, Commit, CommitFile, CommitDiffFile, FinishDiffRun,
              FailWindow, BeginWindow, BeginDiffRun, SeedWindow, storeVars
<1>4. ASSUME NEW out, ListPending(out) \/ ListCursors(out) \/ \E ts : OpenOk(ts, out)
      PROVE  UNCHANGED cursors
  BY <1>4 DEF ListPending, ListCursors, OpenOk, storeVars
<1>5. ASSUME \/ SeedDone \/ WindowsDone \/ NoData \/ Record \/ Done \/ StreamError
             \/ SpawnError \/ DiffsDone \/ Normalize \/ Kill \/ Provide
             \/ \E f : FileBegin(f) \/ \E c, P : StartCommand(c, P)
      PROVE  UNCHANGED cursors
  BY <1>5 DEF SeedDone, WindowsDone, NoData, Record, Done, StreamError, SpawnError,
              DiffsDone, Normalize, Kill, Provide, FileBegin, StartCommand, storeVars
<1>6. ASSUME NEW w, Abandon(w) PROVE UNCHANGED cursors
  BY <1>6 DEF Abandon, AbandonWindow
<1>7. CASE UNCHANGED vars
  BY <1>7, <1>a DEF vars, storeVars
<1> QED BY <1>a, <1>1, <1>2, <1>3, <1>4, <1>5, <1>6, <1>7 DEF Next, ProcessStep

\* The cursor of a dataspec never moves back, whatever order setup windows and
\* differential runs finish in (ingest.rs 308-327, 419-450).
THEOREM CursorsAreMonotone == Spec => CursorNeverMovesBack
<1>1. TypeOK /\ [Next]_vars => [\A d \in Specs : cursors'[d] >= cursors[d]]_vars
  BY CursorsGrow
<1> QED BY <1>1, TypeCorrect, PTL DEF Spec, CursorNeverMovesBack

(***************************************************************************)
(* JobKnows and ListsKnow: what the process knows of its run and its lists *)
(* stays true whatever else happens to the tables.                         *)
(***************************************************************************)
\* Run ids are handed out upwards.
LEMMA RunIdsGrow ==
    ASSUME TypeOK, [Next]_vars
    PROVE  nextRun' \in Nat /\ nextRun' >= nextRun
<1>0. nextRun \in Nat
  BY StoreConstants DEF TypeOK
<1>a. ASSUME nextRun' = nextRun \/ nextRun' = nextRun + 1
      PROVE  nextRun' \in Nat /\ nextRun' >= nextRun
  BY <1>0, <1>a
<1>1. ASSUME NEW out, \/ \E q : RunWindow(q, out) \/ \E c : RunDiff(c, out)
                      \/ \E w, e : Seed(w, e, out)
                      \/ FileEnd(out) \/ DoneLeftover(out) \/ \E f : FileBeginLeftover(f, out)
      PROVE  nextRun' = nextRun \/ nextRun' = nextRun + 1
  BY <1>1 DEF RunWindow, RunDiff, Seed, FileEnd, DoneLeftover, FileBeginLeftover, Attempt,
              BeginWindow, BeginDiffRun, SeedWindow, Commit, CommitFile, CommitDiffFile, storeVars
<1>2. ASSUME NEW out, \/ FinishSetup(out) \/ Advance(out) \/ FinishDiff(out)
                      \/ RecordFailure(out)
      PROVE  nextRun' = nextRun
  BY <1>2 DEF FinishSetup, Advance, FinishDiff, RecordFailure, Attempt, FinishWindow,
              AdvanceCursor, FinishDiffRun, FailWindow, storeVars
<1>3. ASSUME NEW out, ListPending(out) \/ ListCursors(out) \/ \E ts : OpenOk(ts, out)
      PROVE  nextRun' = nextRun
  BY <1>3 DEF ListPending, ListCursors, OpenOk, storeVars
<1>4. ASSUME \/ SeedDone \/ WindowsDone \/ NoData \/ Record \/ Done \/ StreamError
             \/ SpawnError \/ DiffsDone \/ Normalize \/ Kill \/ Provide
             \/ \E f : FileBegin(f) \/ \E c, P : StartCommand(c, P)
      PROVE  nextRun' = nextRun
  BY <1>4 DEF SeedDone, WindowsDone, NoData, Record, Done, StreamError, SpawnError,
              DiffsDone, Normalize, Kill, Provide, FileBegin, StartCommand, storeVars
<1>5. ASSUME NEW w, Abandon(w) PROVE nextRun' = nextRun
  BY <1>5 DEF Abandon, AbandonWindow
<1>6. CASE UNCHANGED vars
  BY <1>6, <1>a DEF vars, storeVars
<1> QED BY <1>a, <1>1, <1>2, <1>3, <1>4, <1>5, <1>6 DEF Next, ProcessStep

\* A step of the run, one that ends it, or one of another process.
LEMMA JobFrame ==
    ASSUME TypeOK, TypeOK', JobKnows, raw \subseteq raw', nextRun' >= nextRun,
           \A d \in Specs : cursors'[d] >= cursors[d],
           InJob' => InJob /\ job' = job
    PROVE  JobKnows'
<1> SUFFICES ASSUME InJob', InJob, job' = job PROVE JobKnows'
  BY DEF JobKnows
<1>0. job.spec \in Specs /\ job.lo \in Nat /\ nextRun \in Nat /\ nextRun' \in Nat
  BY StoreConstants DEF TypeOK, Jobs
<1>1. JobWindow' = JobWindow
  BY DEF JobWindow
<1>2. ASSUME job.mode = "setup"
      PROVE  /\ JobWindow \in Windows
             /\ AllStored(job.spec, FilesBetween(job.spec, job.lo, job.skip))'
  <2>1. AllStored(job.spec, FilesBetween(job.spec, job.lo, job.skip))
    BY <1>2 DEF JobKnows
  <2>2. \A f \in FilesBetween(job.spec, job.lo, job.skip) : Stored(job.spec, f)'
    BY <2>1, StoredGrows
  <2> QED BY <1>2, <2>2 DEF JobKnows, AllStored, FilesBetween, Stored
<1>3. ASSUME job.mode = "normal" PROVE job.lo <= cursors'[job.spec]
  BY <1>0, <1>3 DEF JobKnows, TypeOK, Times, Null
<1>4. job.run \in 1 .. nextRun'
  BY <1>0 DEF JobKnows
<1> QED BY <1>1, <1>2, <1>3, <1>4 DEF JobKnows

LEMMA ListsFrame ==
    ASSUME TypeOK, TypeOK', ListsKnow, raw \subseteq raw',
           \A d \in Specs : cursors'[d] >= cursors[d],
           queue' \subseteq queue, todo' \subseteq todo
    PROVE  ListsKnow'
<1>1. \A q \in queue' :
         \A f \in FilesBetween(SpecOf(q.win), StartOf(q.win), q.skip) : Stored(SpecOf(q.win), f)'
  BY StoredGrows DEF ListsKnow
<1>2. ASSUME NEW c \in todo' PROVE c.from <= cursors'[c.spec]
  <2>1. c.spec \in Specs /\ c.from \in Nat /\ c.from <= cursors[c.spec]
    BY DEF ListsKnow, TypeOK
  <2> QED BY <2>1 DEF TypeOK, Times, Null
<1> QED BY <1>1, <1>2 DEF ListsKnow, AllStored, FilesBetween, Stored

\* A run begins: what the list said of it is what the run knows.
LEMMA RunBegins ==
    ASSUME TypeOK, ListsKnow, raw \subseteq raw', NEW q \in queue, RunWindow(q, "ok")
    PROVE  JobKnows' /\ JobWindow' = q.win /\ job'.run = nextRun' /\ job'.mode = "setup"
<1> DEFINE d == SpecOf(q.win)
           lo == StartOf(q.win)
<1>1. q.win \in Windows /\ d \in Specs /\ lo \in Nat /\ q.win = <<d, lo>>
  BY WindowParts DEF TypeOK
<1>2. \A f \in FilesBetween(d, lo, q.skip) : Stored(d, f)'
  BY StoredGrows DEF ListsKnow
<1>3. nextRun' \in 1 .. nextRun'
  BY StoreConstants DEF RunWindow, Attempt, BeginWindow, RunIds, TypeOK
<1>4. /\ job'.mode = "setup" /\ job'.spec = d /\ job'.lo = lo
      /\ job'.skip = q.skip /\ job'.run = nextRun'
  BY DEF RunWindow
<1>5. JobWindow' = q.win
  BY <1>1, <1>4 DEF JobWindow
<1>6. AllStored(job.spec, FilesBetween(job.spec, job.lo, job.skip))'
  BY <1>2, <1>4 DEF AllStored, FilesBetween, Stored
<1> QED BY <1>1, <1>3, <1>4, <1>5, <1>6 DEF JobKnows

LEMMA DiffBegins ==
    ASSUME TypeOK, ListsKnow, NEW c \in todo, RunDiff(c, "ok"),
           \A d \in Specs : cursors'[d] >= cursors[d], TypeOK'
    PROVE  JobKnows' /\ runs'[job'.run].mode = "normal" /\ job'.mode = "normal"
<1>1. BeginDiffRun(c.spec, c.from) /\ c.spec \in Specs /\ c.from \in Nat
  BY DEF RunDiff, Attempt, TypeOK
<1>2. /\ nextRun' \in 1 .. nextRun' /\ nextRun' \in RunIds
      /\ runs'[nextRun'].mode = "normal"
  BY <1>1, StoreConstants DEF BeginDiffRun, RunIds, TypeOK
<1>3. c.from <= cursors'[c.spec]
  BY <1>1 DEF ListsKnow, TypeOK, Times, Null
<1>4. job' = [mode |-> "normal", spec |-> c.spec, lo |-> c.from,
              end |-> NoEnd, skip |-> Null, run |-> nextRun']
  BY DEF RunDiff
<1> QED BY <1>2, <1>3, <1>4 DEF JobKnows

\* Which steps of the process begin a run, and which make a list.
LEMMA OtherSteps ==
    ASSUME [Next]_vars
    PROVE  /\ \/ \E q \in queue : RunWindow(q, "ok")
              \/ \E c \in todo : RunDiff(c, "ok")
              \/ InJob' => InJob /\ job' = job
           /\ \/ ListPending("ok")
              \/ ListCursors("ok")
              \/ queue' \subseteq queue /\ todo' \subseteq todo
<1> DEFINE Goal == /\ \/ \E q \in queue : RunWindow(q, "ok")
                      \/ \E c \in todo : RunDiff(c, "ok")
                      \/ InJob' => InJob /\ job' = job
                   /\ \/ ListPending("ok")
                      \/ ListCursors("ok")
                      \/ queue' \subseteq queue /\ todo' \subseteq todo
<1>1. ASSUME NEW out, NEW q \in queue, RunWindow(q, out) PROVE Goal
  <2>1. queue' \subseteq queue /\ todo' = todo /\ (out # "ok" => ~InJob')
    BY <1>1 DEF RunWindow, AfterWindows, InJob
  <2> QED BY <1>1, <2>1
<1>2. ASSUME NEW out, NEW c \in todo, RunDiff(c, out) PROVE Goal
  <2>1. queue' = queue /\ todo' \subseteq todo /\ (out # "ok" => ~InJob')
    BY <1>2 DEF RunDiff, InJob
  <2> QED BY <1>2, <2>1
<1>3. ASSUME NEW out, ListPending(out) PROVE Goal
  <2>1. ~InJob' /\ todo' = todo /\ (out # "ok" => queue' = {})
    BY <1>3 DEF ListPending, AfterWindows, InJob
  <2> QED BY <1>3, <2>1
<1>4. ASSUME NEW out, ListCursors(out) PROVE Goal
  <2>1. ~InJob' /\ (out # "ok" => queue' = {} /\ todo' = {})
    BY <1>4 DEF ListCursors, Exit, InJob
  <2> QED BY <1>4, <2>1
<1>5. ASSUME NEW out, \/ FileEnd(out) \/ DoneLeftover(out) \/ \E f : FileBeginLeftover(f, out)
                      \/ \E ts : OpenOk(ts, out) \/ Advance(out)
                      \/ FinishSetup(out) \/ FinishDiff(out)
      PROVE  Goal
  BY <1>5 DEF FileEnd, DoneLeftover, FileBeginLeftover, OpenOk, Advance, FinishSetup, FinishDiff,
              EndJob, Abort, InJob
<1>6. ASSUME NEW out, RecordFailure(out) \/ \E w, e : Seed(w, e, out) PROVE Goal
  BY <1>6 DEF RecordFailure, Seed, Exit, EndJob, AfterWindows, InJob
<1>7. ASSUME \/ NoData \/ Record \/ Done \/ StreamError \/ SpawnError \/ \E f : FileBegin(f)
      PROVE  Goal
  BY <1>7 DEF NoData, Record, Done, StreamError, SpawnError, FileBegin, AfterStream, InJob
<1>8. ASSUME SeedDone \/ WindowsDone \/ DiffsDone \/ Normalize \/ Kill \/ \E c, P : StartCommand(c, P)
      PROVE  Goal
  BY <1>8 DEF SeedDone, WindowsDone, DiffsDone, Normalize, Kill, StartCommand, Exit,
              AfterWindows, InJob
<1>9. ASSUME (\E w : Abandon(w)) \/ Provide \/ UNCHANGED vars PROVE Goal
  BY <1>9 DEF Abandon, Provide, vars, procVars, InJob
<1> QED BY <1>1, <1>2, <1>3, <1>4, <1>5, <1>6, <1>7, <1>8, <1>9 DEF Next, ProcessStep

LEMMA JobKnowsNext ==
    ASSUME TypeOK, TypeOK', JobKnows, ListsKnow, [Next]_vars
    PROVE  JobKnows'
  BY RawGrows, CursorsGrow, RunIdsGrow, OtherSteps, RunBegins, DiffBegins, JobFrame

LEMMA ListsKnowNext ==
    ASSUME TypeOK, TypeOK', ListsKnow, TableData, [Next]_vars
    PROVE  ListsKnow'
<1>a. raw \subseteq raw' /\ \A d \in Specs : cursors'[d] >= cursors[d]
  BY RawGrows, CursorsGrow
<1>1. CASE ListPending("ok")
  <2>1. queue' = PendingWindows /\ todo' = todo
    BY <1>1 DEF ListPending
  <2>2. ASSUME NEW q \in PendingWindows
        PROVE  AllStored(SpecOf(q.win), FilesBetween(SpecOf(q.win), StartOf(q.win), q.skip))
    <3>1. PICK w \in Windows : q.win = w /\ q.skip = checkpoints[w].last_file
      BY DEF PendingWindows
    <3>2. SpecOf(w) \in Specs /\ StartOf(w) \in Nat
      BY WindowParts
    <3>3. CASE q.skip = Null
      BY <3>1, <3>2, <3>3, FilesArePositive DEF AllStored, FilesBetween, Null
    <3>4. CASE q.skip # Null
      BY <3>1, <3>4 DEF TableData, ResumePointStored
    <3> QED BY <3>3, <3>4
  <2>3. \A q \in PendingWindows :
           \A f \in FilesBetween(SpecOf(q.win), StartOf(q.win), q.skip) : Stored(SpecOf(q.win), f)'
    BY <1>a, <2>2, StoredGrows
  <2>4. \A c \in todo' : c.from <= cursors'[c.spec]
    BY <1>1, <2>1 DEF ListPending, ListsKnow, storeVars
  <2> QED BY <2>1, <2>3, <2>4 DEF ListsKnow, AllStored, FilesBetween, Stored
<1>2. CASE ListCursors("ok")
  <2>1. /\ queue' = queue /\ todo' \subseteq AllCursors
        /\ UNCHANGED storeVars
    BY <1>2 DEF ListCursors
  <2>2. \A c \in AllCursors : c.from <= cursors[c.spec]
    BY DEF AllCursors, TypeOK, Times, Null
  <2>3. \A q \in queue' :
           AllStored(SpecOf(q.win), FilesBetween(SpecOf(q.win), StartOf(q.win), q.skip))'
    BY <2>1 DEF ListsKnow, AllStored, FilesBetween, Stored, storeVars
  <2>4. \A c \in todo' : c.from <= cursors'[c.spec]
    BY <2>1, <2>2 DEF storeVars
  <2> QED BY <2>3, <2>4 DEF ListsKnow
<1>3. CASE queue' \subseteq queue /\ todo' \subseteq todo
  BY <1>a, <1>3, ListsFrame
<1> QED BY <1>1, <1>2, <1>3, OtherSteps

(***************************************************************************)
(* JobOwns: alone, a setup job is the last run of its window.              *)
(***************************************************************************)
LEMMA JobOwnsFrame ==
    ASSUME TypeOK, JobKnows, JobOwns,
           InJob' => /\ InJob /\ job' = job
                     /\ \A r \in RunIds : runs'[r].mode = runs[r].mode
                     /\ \A w \in Windows : checkpoints'[w].last_run = checkpoints[w].last_run
    PROVE  JobOwns'
<1>1. 1 .. nextRun \subseteq RunIds
  BY StoreConstants DEF TypeOK, RunIds
<1>2. job' = job => JobWindow' = JobWindow
  BY DEF JobWindow
<1> QED BY <1>1, <1>2 DEF JobOwns, JobKnows

LEMMA JobOwnsNext ==
    ASSUME TypeOK, TypeOK', JobKnows, JobOwns, ListsKnow, [Next]_vars
    PROVE  JobOwns'
<1>a. StoreTypeOK /\ ProcTypeOK /\ raw \subseteq raw'
  BY TypeSplit, RawGrows
<1>b. ASSUME ~InJob' PROVE JobOwns'
  BY <1>b DEF JobOwns
<1>c. ASSUME UNCHANGED <<checkpoints, runs, job>>, InJob \/ ~InJob' PROVE JobOwns'
  BY <1>b, <1>c, JobOwnsFrame
<1>d. ASSUME UNCHANGED storeVars PROVE UNCHANGED <<checkpoints, runs>>
  BY <1>d DEF storeVars
<1>1. ASSUME NEW w \in Windows, NEW out, NEW e, Seed(w, e, out)
      PROVE  JobOwns'
  BY <1>1, <1>b DEF Seed, Exit, InJob
<1>2. ASSUME NEW out, NEW q \in queue, RunWindow(q, out)
      PROVE  JobOwns'
  <2>1. CASE out # "ok"
    BY <1>2, <1>b, <2>1 DEF RunWindow, AfterWindows, InJob
  <2>2. CASE out = "ok"
    <3>1. JobWindow' = q.win /\ job'.run = nextRun' /\ job'.mode = "setup"
      BY <1>2, <1>a, <2>2, RunBegins
    <3>2. q.win \in Windows /\ BeginWindow(q.win)
      BY <1>2, <1>a, <2>2 DEF RunWindow, Attempt, ProcTypeOK
    <3>3. checkpoints'[q.win].last_run = nextRun'
      BY <1>a, <3>2 DEF BeginWindow, StoreTypeOK, CheckpointRows
    <3> QED BY <3>1, <3>3 DEF JobOwns
  <2> QED BY <2>1, <2>2
<1>3. ASSUME NEW out, FileEnd(out) \/ DoneLeftover(out) \/ \E f : FileBeginLeftover(f, out)
      PROVE  JobOwns'
  <2>1. Attempt(Commit(stream.cur, stream.buf), out) /\ job' = job /\ InJob
    BY <1>3 DEF FileEnd, DoneLeftover, FileBeginLeftover, InJob
  <2>2. /\ \A r \in RunIds : runs'[r].mode = runs[r].mode
        /\ \A w \in Windows : checkpoints'[w].last_run = checkpoints[w].last_run
    <3>1. CASE UNCHANGED storeVars
      BY <1>d, <3>1
    <3>2. CASE Commit(stream.cur, stream.buf)
      BY <1>a, <3>2, CommitRows
    <3> QED BY <2>1, <3>1, <3>2 DEF Attempt
  <2> QED BY <2>1, <2>2, JobOwnsFrame
<1>4. ASSUME NEW out, FinishSetup(out)
      PROVE  JobOwns'
  <2>1. CASE out = "ok"
    BY <1>4, <1>b, <2>1 DEF FinishSetup, EndJob, InJob
  <2>2. CASE out # "ok"
    <3>1. job' = job /\ InJob
      BY <1>4, <2>2 DEF FinishSetup, Abort, InJob
    <3>2. /\ \A r \in RunIds : runs'[r].mode = runs[r].mode
          /\ \A w \in Windows : checkpoints'[w].last_run = checkpoints[w].last_run
      <4>1. CASE UNCHANGED storeVars
        BY <1>d, <4>1
      <4>2. CASE FinishWindow(job.run, JobWindow, stream.ts, CursorTs)
        BY <1>a, <4>2 DEF FinishWindow, FinishedRow, StoreTypeOK, CheckpointRows, RunRows
      <4> QED BY <1>4, <4>1, <4>2 DEF FinishSetup, Attempt
    <3> QED BY <3>1, <3>2, JobOwnsFrame
  <2> QED BY <2>1, <2>2
<1>5. ASSUME NEW out, Advance(out)
      PROVE  JobOwns'
  BY <1>5, <1>c, <1>d DEF Advance, Attempt, AdvanceCursor, InJob
<1>6. ASSUME NEW out, FinishDiff(out)
      PROVE  JobOwns'
  <2>1. CASE out = "ok"
    BY <1>6, <1>b, <2>1 DEF FinishDiff, EndJob, InJob
  <2>2. CASE out # "ok"
    <3>1. job' = job /\ InJob
      BY <1>6, <2>2 DEF FinishDiff, Abort, InJob
    <3>2. /\ \A r \in RunIds : runs'[r].mode = runs[r].mode
          /\ \A w \in Windows : checkpoints'[w].last_run = checkpoints[w].last_run
      BY <1>6, <1>a, <1>d DEF FinishDiff, Attempt, FinishDiffRun, StoreTypeOK, RunRows
    <3> QED BY <3>1, <3>2, JobOwnsFrame
  <2> QED BY <2>1, <2>2
<1>7. ASSUME NEW out, RecordFailure(out)
      PROVE  JobOwns'
  BY <1>7, <1>b DEF RecordFailure, EndJob, AfterWindows, InJob
<1>8. ASSUME NEW out, NEW c \in todo, RunDiff(c, out)
      PROVE  JobOwns'
  <2>1. CASE out # "ok"
    BY <1>8, <1>b, <2>1 DEF RunDiff, InJob
  <2>2. CASE out = "ok"
    BY <1>8, <2>2, CursorsGrow, DiffBegins DEF JobOwns
  <2> QED BY <2>1, <2>2
<1>9. ASSUME NEW w, Abandon(w)
      PROVE  JobOwns'
  BY <1>9, <1>b DEF Abandon, procVars, InJob
<1>10. ASSUME NEW out, ListPending(out) \/ ListCursors(out)
       PROVE  JobOwns'
  BY <1>10, <1>b DEF ListPending, ListCursors, Exit, AfterWindows, InJob
<1>11. ASSUME \/ \E ts, out : OpenOk(ts, out)
              \/ NoData \/ Record \/ Done \/ StreamError \/ SpawnError
              \/ \E f : FileBegin(f)
       PROVE  JobOwns'
  BY <1>c, <1>d, <1>11 DEF OpenOk, NoData, Record, Done, StreamError, SpawnError, FileBegin, InJob
<1>12. ASSUME SeedDone \/ WindowsDone \/ DiffsDone \/ Normalize \/ Kill \/ \E c, P : StartCommand(c, P)
       PROVE  JobOwns'
  BY <1>b, <1>12 DEF SeedDone, WindowsDone, DiffsDone, Normalize, Kill, StartCommand, Exit,
                     AfterWindows, InJob
<1>13. CASE Provide
  BY <1>c, <1>d, <1>13 DEF Provide, procVars, InJob
<1>14. CASE UNCHANGED vars
  BY <1>c, <1>d, <1>14 DEF vars, procVars, InJob
<1> QED
  BY <1>1, <1>2, <1>3, <1>4, <1>5, <1>6, <1>7, <1>8, <1>9, <1>10, <1>11, <1>12, <1>13, <1>14
  DEF Next, ProcessStep

(***************************************************************************)
(* ListsInv.                                                               *)
(***************************************************************************)
\* A step that only shortens the lists and leaves the rows listed alone.
LEMMA FreshFrame ==
    ASSUME TypeOK, TypeOK', ListsInv, \A d \in Specs : cursors'[d] >= cursors[d],
           queue' \subseteq queue, todo' \subseteq todo,
           queue' # {} => pc' = "windows" \/ InSetup',
           \A q \in queue' : checkpoints'[q.win] = checkpoints[q.win],
           InSetup' => /\ InSetup /\ job' = job
                       /\ checkpoints'[JobWindow].end = checkpoints[JobWindow].end
    PROVE  ListsInv'
<1>1. (InSetup => \A q \in queue : q.win # JobWindow)'
  BY DEF ListsInv, JobWindow
<1>2. SnapshotIsFresh'
  BY DEF ListsInv, SnapshotIsFresh, JobWindow
<1>3. (\A c \in todo : c.from <= cursors[c.spec])'
  <2> SUFFICES ASSUME NEW c \in todo' PROVE c.from <= cursors'[c.spec]
    OBVIOUS
  <2>1. c.spec \in Specs /\ c.from \in Nat /\ c.from <= cursors[c.spec]
    BY DEF ListsInv, TypeOK
  <2> QED BY <2>1 DEF TypeOK, Times, Null
<1> QED BY <1>1, <1>2, <1>3 DEF ListsInv

LEMMA ListsNext ==
    ASSUME TypeOK, TypeOK', JobInv, ListsInv, [Next]_vars
    PROVE  ListsInv'
<1>a. /\ StoreTypeOK /\ ProcTypeOK
      /\ \A d \in Specs : cursors'[d] >= cursors[d]
  BY TypeSplit, CursorsGrow
<1>b. \* Where run_pending is not at work its list is empty.
      ASSUME pc \notin {"windows"}, ~InSetup, ~InSetup', queue' \subseteq queue, todo' \subseteq todo
      PROVE  ListsInv'
  <2>1. queue' = {}
    BY <1>b DEF ListsInv
  <2> QED BY <1>a, <1>b, <2>1, FreshFrame
<1>c. ASSUME UNCHANGED <<storeVars, queue, todo, job>>, InSetup' => InSetup,
             queue # {} => pc' = "windows" \/ InSetup'
      PROVE  ListsInv'
  BY <1>a, <1>c, FreshFrame DEF storeVars
<1>1. ASSUME NEW w \in Windows, NEW out, NEW e, Seed(w, e, out)
      PROVE  ListsInv'
  BY <1>1, <1>b DEF Seed, Exit, InSetup, InJob
<1>2. ASSUME NEW out, NEW q \in queue, RunWindow(q, out)
      PROVE  ListsInv'
  <2>0. ~InSetup
    BY <1>2 DEF RunWindow, InSetup, InJob
  <2>1. CASE out # "ok"
    <3>1. queue' = {} /\ todo' = todo /\ ~InSetup'
      BY <1>2, <2>1 DEF RunWindow, AfterWindows, InSetup, InJob
    <3> QED BY <1>a, <3>1, FreshFrame
  <2>2. CASE out = "ok"
    <3>1. /\ q.win \in Windows /\ q.end = checkpoints[q.win].end
          /\ q.win = <<SpecOf(q.win), StartOf(q.win)>>
      BY <1>a, WindowParts DEF ListsInv, SnapshotIsFresh, ProcTypeOK
    <3>2. /\ queue' = queue \ {q} /\ todo' = todo
          /\ job'.spec = SpecOf(q.win) /\ job'.lo = StartOf(q.win) /\ job'.end = q.end
          /\ InSetup'
      BY <1>2, <2>2 DEF RunWindow, InSetup, InJob
    <3>3. JobWindow' = q.win
      BY <3>1, <3>2 DEF JobWindow
    <3>4. \A p \in queue' : p.win # q.win
      <4>1. \A p \in queue : p = [win |-> p.win, end |-> p.end, skip |-> p.skip]
        BY <1>a DEF ProcTypeOK
      <4> QED BY <3>2, <4>1 DEF ListsInv, SnapshotIsFresh
    <3>5. /\ checkpoints'[q.win].end = checkpoints[q.win].end
          /\ \A w \in Windows \ {q.win} : checkpoints'[w] = checkpoints[w]
      BY <1>2, <1>a, <2>2, <3>1
      DEF RunWindow, Attempt, BeginWindow, StoreTypeOK, CheckpointRows
    <3>6. SnapshotIsFresh'
      BY <1>a, <3>1, <3>2, <3>3, <3>4, <3>5 DEF ListsInv, SnapshotIsFresh, ProcTypeOK
    <3>7. cursors' = cursors
      BY <1>2, <2>2 DEF RunWindow, Attempt, BeginWindow
    <3> QED BY <3>2, <3>3, <3>4, <3>6, <3>7 DEF ListsInv
  <2> QED BY <2>1, <2>2
<1>3. ASSUME NEW out, FileEnd(out) \/ DoneLeftover(out) \/ \E f : FileBeginLeftover(f, out)
      PROVE  ListsInv'
  <2>1. /\ Attempt(Commit(stream.cur, stream.buf), out)
        /\ UNCHANGED <<job, queue, todo>> /\ InJob /\ InJob'
    BY <1>3 DEF FileEnd, DoneLeftover, FileBeginLeftover, AfterStream, InJob
  <2>2. InSetup <=> InSetup'
    BY <2>1 DEF InSetup
  <2>3. queue # {} => InSetup /\ JobWindow \in Windows
    BY <1>3, <2>1 DEF ListsInv, JobInv, JobKnows, InSetup, FileEnd, DoneLeftover, FileBeginLeftover
  <2>4. CASE UNCHANGED storeVars
    BY <1>c, <2>1, <2>2, <2>3, <2>4
  <2>5. CASE Commit(stream.cur, stream.buf)
    <3>1. \A q \in queue : q.win \in Windows /\ q.win # JobWindow
      BY <1>a, <2>3 DEF ListsInv, ProcTypeOK
    <3>2. \A q \in queue : checkpoints'[q.win] = checkpoints[q.win]
      BY <1>a, <2>5, <3>1, CommitRows
    <3>3. InSetup => checkpoints'[JobWindow].end = checkpoints[JobWindow].end
      BY <1>a, <2>5, CommitRows DEF InSetup, JobInv, JobKnows
    <3> QED BY <1>a, <2>1, <2>2, <2>3, <3>2, <3>3, FreshFrame
  <2> QED BY <2>1, <2>4, <2>5 DEF Attempt
<1>4. ASSUME NEW out, FinishSetup(out)
      PROVE  ListsInv'
  <2>1. InSetup /\ JobWindow \in Windows /\ UNCHANGED <<queue, todo>>
    BY <1>4 DEF FinishSetup, InSetup, InJob, JobInv, JobKnows
  <2>2. /\ InSetup' => job' = job
        /\ pc' = "windows" \/ InSetup'
    BY <1>4, <2>1 DEF FinishSetup, EndJob, Abort, InSetup, InJob
  <2>3. /\ \A w \in Windows \ {JobWindow} : checkpoints'[w] = checkpoints[w]
        /\ checkpoints'[JobWindow].end = checkpoints[JobWindow].end
    <3>1. CASE UNCHANGED storeVars
      BY <3>1 DEF storeVars
    <3>2. CASE FinishWindow(job.run, JobWindow, stream.ts, CursorTs)
      BY <1>a, <2>1, <3>2 DEF FinishWindow, FinishedRow, StoreTypeOK, CheckpointRows
    <3> QED BY <1>4, <3>1, <3>2 DEF FinishSetup, Attempt
  <2>4. \A q \in queue : q.win \in Windows /\ q.win # JobWindow
    BY <1>a, <2>1 DEF ListsInv, ProcTypeOK
  <2> QED BY <1>a, <2>1, <2>2, <2>3, <2>4, FreshFrame
<1>5. ASSUME NEW out, RecordFailure(out)
      PROVE  ListsInv'
  <2>1. InJob /\ ~InSetup'
    BY <1>5 DEF RecordFailure, EndJob, AfterWindows, InSetup, InJob
  <2>2. CASE job.mode = "setup"
    <3>1. InSetup /\ JobWindow \in Windows
      BY <2>1, <2>2 DEF InSetup, JobInv, JobKnows
    <3>2. queue' \subseteq queue /\ todo' = todo /\ (queue' # {} => pc' = "windows")
      BY <1>5, <2>2 DEF RecordFailure, EndJob
    <3>3. \A w \in Windows \ {JobWindow} : checkpoints'[w] = checkpoints[w]
      BY <1>5, <1>a, <2>2, <3>1
      DEF RecordFailure, Attempt, FailWindow, storeVars, StoreTypeOK
    <3>4. \A q \in queue : q.win \in Windows /\ q.win # JobWindow
      BY <1>a, <3>1 DEF ListsInv, ProcTypeOK
    <3> QED BY <1>a, <2>1, <3>2, <3>3, <3>4, FreshFrame
  <2>3. CASE job.mode # "setup"
    <3>1. ~InSetup /\ pc # "windows" /\ queue' = queue /\ todo' \subseteq todo
      BY <1>5, <2>3 DEF RecordFailure, InSetup
    <3> QED BY <1>b, <2>1, <3>1
  <2> QED BY <2>2, <2>3
<1>6. ASSUME NEW out, Advance(out) \/ FinishDiff(out)
      PROVE  ListsInv'
  <2>1. job.mode = "normal" => ~InSetup
    BY DEF InSetup
  <2>2. UNCHANGED <<checkpoints, queue, todo>> /\ (InJob' => job' = job) /\ InJob /\ pc # "windows"
    BY <1>6 DEF Advance, FinishDiff, Attempt, AdvanceCursor, FinishDiffRun, EndJob, Abort,
                storeVars, InJob
  <2>3. queue # {} => InSetup
    BY <2>2 DEF ListsInv
  <2>4. InSetup => Advance(out) /\ InSetup'
    BY <1>6, <2>1 DEF FinishDiff, Advance, InSetup, InJob
  <2> QED BY <1>a, <2>2, <2>3, <2>4, FreshFrame DEF InSetup
<1>7. ASSUME NEW out, ListPending(out)
      PROVE  ListsInv'
  <2>1. CASE out = "ok"
    <3>1. queue' = PendingWindows /\ pc' = "windows" /\ UNCHANGED <<storeVars, todo>>
      BY <1>7, <2>1 DEF ListPending
    <3>2. ~InSetup'
      BY <3>1 DEF InSetup, InJob
    <3> QED BY <3>1, <3>2 DEF ListsInv, SnapshotIsFresh, PendingWindows, storeVars
  <2>2. CASE out # "ok"
    BY <1>7, <1>b, <2>2 DEF ListPending, AfterWindows, InSetup, InJob
  <2> QED BY <2>1, <2>2
<1>8. ASSUME NEW out, ListCursors(out)
      PROVE  ListsInv'
  <2>1. ~InSetup /\ queue = {} /\ ~InSetup'
    BY <1>8 DEF ListCursors, Exit, InSetup, InJob, ListsInv
  <2>2. CASE out = "ok"
    <3>1. queue' = {} /\ todo' \subseteq AllCursors /\ UNCHANGED storeVars
      BY <1>8, <2>1, <2>2 DEF ListCursors
    <3>2. \A c \in AllCursors : c.from <= cursors[c.spec]
      BY <1>a DEF AllCursors, StoreTypeOK, Times, Null
    <3> QED BY <2>1, <3>1, <3>2 DEF ListsInv, SnapshotIsFresh, storeVars
  <2>3. CASE out # "ok"
    BY <1>8, <1>b, <2>1, <2>3 DEF ListCursors, Exit
  <2> QED BY <2>2, <2>3
<1>9. ASSUME NEW out, NEW c \in todo, RunDiff(c, out)
      PROVE  ListsInv'
  BY <1>9, <1>b DEF RunDiff, InSetup, InJob, NoJob
<1>10. ASSUME NEW w, Abandon(w)
       PROVE  ListsInv'
  BY <1>10, <1>b DEF Abandon, procVars, InSetup, InJob
<1>11. ASSUME \/ \E ts, out : OpenOk(ts, out)
              \/ NoData \/ Record \/ Done \/ StreamError \/ SpawnError
              \/ \E f : FileBegin(f)
       PROVE  ListsInv'
  <2>1. UNCHANGED <<storeVars, queue, todo, job>> /\ InJob /\ InJob' /\ pc # "windows"
    BY <1>11 DEF OpenOk, NoData, Record, Done, StreamError, SpawnError, FileBegin, AfterStream, InJob
  <2> QED BY <1>c, <2>1 DEF InSetup, ListsInv
<1>12. ASSUME Normalize \/ Kill
       PROVE  ListsInv'
  BY <1>12, <1>a, FreshFrame DEF Normalize, Kill, Exit, InSetup, InJob
<1>13. ASSUME SeedDone \/ WindowsDone \/ DiffsDone \/ \E c, P : StartCommand(c, P)
       PROVE  ListsInv'
  <2>1. UNCHANGED <<storeVars, queue, todo, job>> /\ ~InJob /\ ~InJob' /\ queue = {}
    BY <1>13 DEF SeedDone, WindowsDone, DiffsDone, StartCommand, AfterWindows, InJob, InSetup, ListsInv
  <2> QED BY <1>c, <2>1 DEF InSetup
<1>14. CASE Provide \/ UNCHANGED vars
  BY <1>14, <1>c DEF Provide, vars, procVars, InSetup, InJob, ListsInv
<1> QED
  BY <1>1, <1>2, <1>3, <1>4, <1>5, <1>6, <1>7, <1>8, <1>9, <1>10, <1>11, <1>12, <1>13, <1>14
  DEF Next, ProcessStep

(***************************************************************************)
(* StreamInv.                                                              *)
(***************************************************************************)
LEMMA StreamFrame ==
    ASSUME StreamInv, UNCHANGED <<job, stream>>, raw \subseteq raw', InJob' => InJob,
           \/ pc' \notin {"fetch", "leftover", "advance", "finish"}
           \/ pc' = pc
    PROVE  StreamInv'
<1>1. \A d, f : Stored(d, f) => Stored(d, f)'
  BY StoredGrows
<1>2. /\ \A hi : RangeFiles(hi)' = RangeFiles(hi)
      /\ SkipMissing' = SkipMissing
  BY DEF RangeFiles, SkipMissing
<1>3. (pc \in {"fetch", "leftover"} /\ stream.opened /\ ~SkipMissing =>
          \A f \in RangeFiles(stream.hi) :
              f <= stream.pos /\ f # stream.cur => Stored(job.spec, f))'
  <2> SUFFICES ASSUME pc' = pc, pc \in {"fetch", "leftover"}, stream.opened, ~SkipMissing,
                      NEW f \in RangeFiles(stream.hi), f <= stream.pos, f # stream.cur
               PROVE  Stored(job.spec, f)'
    BY <1>2 DEF RangeFiles, SkipMissing, Stored
  <2> QED BY <1>1 DEF StreamInv, Stored
<1>4. (pc \in {"finish", "advance"} =>
          /\ AllStored(job.spec, FilesBetween(job.spec, job.lo, stream.ts))
          /\ job.end # NoEnd => AllStored(job.spec, FilesBetween(job.spec, job.lo, job.end)))'
  BY DEF StreamInv, AllStored, FilesBetween, Stored
<1> QED BY <1>2, <1>3, <1>4 DEF StreamInv, RangeFiles, SkipMissing

LEMMA NoStreamInv ==
    ASSUME stream' = NoStream, pc' \notin {"leftover", "advance", "finish"}
    PROVE  StreamInv'
  BY DEF StreamInv, NoStream

\* All files of the opened range are stored: the run may finish or advance.
LEMMA RangeStored ==
    ASSUME TypeOK, StreamInv, InJob, stream.opened, UNCHANGED <<job>>,
           stream'.ts = stream.ts,
           \A f \in RangeFiles(stream.hi) : \A d : d = job.spec => Stored(d, f)'
    PROVE  (/\ AllStored(job.spec, FilesBetween(job.spec, job.lo, stream.ts))
            /\ job.end # NoEnd => AllStored(job.spec, FilesBetween(job.spec, job.lo, job.end)))'
<1>0. /\ stream.hi \in Nat /\ stream.ts \in Times
      /\ job.spec \in Specs /\ job.lo \in Nat
  BY DEF TypeOK, Streams, Jobs
<1>1. FilesBetween(job.spec, job.lo, stream.ts) \subseteq RangeFiles(stream.hi)
  <2>1. CASE stream.ts = Null
    BY <1>0, <2>1, FilesArePositive DEF FilesBetween, Null
  <2>2. CASE stream.ts # Null
    BY <1>0, <2>2, FilesArePositive DEF FilesBetween, RangeFiles, StreamInv, Times
  <2> QED BY <2>1, <2>2
<1>2. job.end # NoEnd => FilesBetween(job.spec, job.lo, job.end) = RangeFiles(stream.hi)
  BY DEF FilesBetween, RangeFiles, StreamInv
<1>3. AllStored(job.spec, FilesBetween(job.spec, job.lo, stream.ts))'
  BY <1>1 DEF AllStored, FilesBetween, Stored
<1>4. job.end # NoEnd => AllStored(job.spec, FilesBetween(job.spec, job.lo, job.end))'
  BY <1>2 DEF AllStored, FilesBetween, Stored
<1> QED BY <1>3, <1>4

LEMMA OpenOkStream ==
    ASSUME TypeOK, StreamInv, JobKnows, NEW ts, NEW out, OpenOk(ts, out)
    PROVE  StreamInv'
<1>0. /\ stream \in Streams /\ job \in Jobs /\ job.spec \in Specs /\ job.lo \in Nat
      /\ job.skip \in Times
      /\ job' = job /\ raw' = raw /\ pc = "fetch" /\ pc' \in {"fetch", "abort"}
  BY DEF TypeOK, Jobs, OpenOk, storeVars
<1>1. stream = NoStream
  BY DEF OpenOk, StreamInv
<1>2. /\ stream'.opened /\ stream'.hi = RangeEnd /\ stream'.ts = ts
      /\ stream'.cur = Null /\ stream'.buf = 0
      /\ stream'.pos = IF job.skip = Null THEN job.lo ELSE job.skip - 1
  BY <1>1 DEF OpenOk, NoStream
<1>3. \A hi : RangeFiles(hi)' = RangeFiles(hi)
  BY <1>0 DEF RangeFiles
<1>4. (stream.ts # Null => stream.ts \in RangeFiles(stream.hi))'
  BY <1>0, <1>2 DEF OpenOk, IsLast, RangeFiles
<1>5. (InJob /\ stream.opened /\ job.end # NoEnd => stream.hi = job.end)'
  BY <1>0, <1>2 DEF RangeEnd
<1>6. ASSUME NEW f \in RangeFiles(RangeEnd), f <= stream'.pos
      PROVE  Stored(job.spec, f)
  <2>1. f \in Nat /\ f \in FileTimes[job.spec] /\ job.lo < f
    BY <1>0, FilesArePositive DEF RangeFiles
  <2>2. job.skip # Null /\ f <= job.skip
    BY <1>0, <1>2, <1>6, <2>1 DEF Times
  <2>3. job.mode = "setup"
    BY <1>0, <2>2 DEF JobKnows, InJob, Jobs
  <2>4. AllStored(job.spec, FilesBetween(job.spec, job.lo, job.skip))
    BY <1>0, <2>3 DEF JobKnows, InJob
  <2> QED BY <2>1, <2>2, <2>4 DEF AllStored, FilesBetween
<1>7. (\A f \in RangeFiles(stream.hi) :
          f <= stream.pos /\ f # stream.cur => Stored(job.spec, f))'
  BY <1>0, <1>2, <1>6 DEF RangeFiles, Stored
<1> QED BY <1>0, <1>2, <1>4, <1>5, <1>7 DEF StreamInv

LEMMA NoDataStream ==
    ASSUME TypeOK, StreamInv, NoData
    PROVE  StreamInv'
<1>0. /\ job.spec \in Specs /\ job.lo \in Nat /\ stream = NoStream
      /\ UNCHANGED <<job, stream, raw>> /\ pc' = "finish"
      /\ RangeFiles(RangeEnd) = {}
  BY DEF TypeOK, Jobs, NoData, StreamInv, storeVars
<1>1. AllStored(job.spec, FilesBetween(job.spec, job.lo, stream.ts))'
  BY <1>0, FilesArePositive DEF AllStored, FilesBetween, NoStream, Null
<1>2. (job.end # NoEnd => AllStored(job.spec, FilesBetween(job.spec, job.lo, job.end)))'
  BY <1>0 DEF AllStored, FilesBetween, RangeFiles, RangeEnd
<1> QED BY <1>0, <1>1, <1>2 DEF StreamInv, NoStream

\* The next file begins; the one before, if any, has just been committed.
LEMMA BeginFileStream ==
    ASSUME TypeOK, StreamInv, pc = "fetch", pc' \in {"fetch", "abort"},
           stream.opened, ~SkipMissing, raw \subseteq raw', job' = job,
           NEW f \in FileTimes[job.spec], NextFile(f),
           pc' = "fetch" => \A d, g : d = job.spec /\ g = stream.cur /\ g # Null => Stored(d, g)',
           stream'.opened, stream'.hi = stream.hi, stream'.ts = stream.ts,
           stream'.pos = f, stream'.cur = f
    PROVE  StreamInv'
<1>0. /\ stream \in Streams /\ job \in Jobs /\ job.spec \in Specs /\ f \in Nat /\ f # Null
      /\ stream.pos \in Int
      /\ f \in RangeFiles(stream.hi)
  BY FilesArePositive DEF TypeOK, Jobs, Streams, NextFile
<1>1. /\ \A hi : RangeFiles(hi)' = RangeFiles(hi)
      /\ ~SkipMissing'
  BY DEF RangeFiles, SkipMissing
<1>2. ASSUME NEW g \in RangeFiles(stream.hi), g <= f, g # f
      PROVE  /\ g <= stream.pos /\ g # Null
             /\ g # stream.cur => Stored(job.spec, g)
  <2>1. g \in Nat /\ g # Null
    BY <1>0, FilesArePositive DEF RangeFiles
  <2>2. g <= stream.pos
    BY <1>0, <1>2, <2>1 DEF NextFile
  <2> QED BY <2>1, <2>2 DEF StreamInv
<1>3. ASSUME pc' = "fetch", NEW g \in RangeFiles(stream.hi), g <= f, g # f
      PROVE  \A d : d = job.spec => Stored(d, g)'
  BY <1>2, <1>3, StoredGrows
<1>4. (pc \in {"fetch", "leftover"} /\ stream.opened /\ ~SkipMissing =>
          \A g \in RangeFiles(stream.hi) :
              g <= stream.pos /\ g # stream.cur => Stored(job.spec, g))'
  BY <1>3 DEF RangeFiles, Stored
<1>5. (stream.cur # Null =>
          /\ stream.cur \in RangeFiles(stream.hi)
          /\ stream.cur = stream.pos
          /\ ~SkipMissing)'
  BY <1>0, <1>1 DEF RangeFiles, SkipMissing
<1>6. (stream.ts # Null => stream.ts \in RangeFiles(stream.hi))'
  BY DEF StreamInv, RangeFiles
<1>7. (InJob /\ stream.opened /\ job.end # NoEnd => stream.hi = job.end)'
  BY DEF StreamInv, InJob
<1> QED BY <1>0, <1>4, <1>5, <1>6, <1>7 DEF StreamInv

\* The file being read was committed, or the commit failed and the run ends.
LEMMA EndFileStream ==
    ASSUME TypeOK, StreamInv, pc \in {"fetch", "leftover"}, stream.cur # Null,
           raw \subseteq raw', job' = job,
           stream'.opened, stream'.hi = stream.hi, stream'.ts = stream.ts,
           stream'.pos = stream.pos, stream'.cur = Null, stream'.buf = 0,
           \/ pc' = "abort"
           \/ /\ \A d, g : d = job.spec /\ g = stream.cur => Stored(d, g)'
              /\ pc' = IF pc = "fetch" THEN "fetch" ELSE AfterStream
    PROVE  StreamInv'
<1>0. /\ stream \in Streams /\ job \in Jobs /\ job.spec \in Specs
      /\ stream.opened /\ ~SkipMissing /\ InJob
  BY DEF TypeOK, Jobs, StreamInv, NoStream, InJob
<1>1. ASSUME pc' # "abort", NEW f \in RangeFiles(stream.hi), f <= stream.pos
      PROVE  \A d : d = job.spec => Stored(d, f)'
  <2>1. CASE f = stream.cur
    BY <1>1, <2>1
  <2>2. CASE f # stream.cur
    BY <1>0, <1>1, <2>2, StoredGrows DEF StreamInv
  <2> QED BY <2>1, <2>2
<1>2. (pc \in {"fetch", "leftover"} /\ stream.opened /\ ~SkipMissing =>
          \A f \in RangeFiles(stream.hi) :
              f <= stream.pos /\ f # stream.cur => Stored(job.spec, f))'
  BY <1>1 DEF RangeFiles, Stored
<1>3. (stream.ts # Null => stream.ts \in RangeFiles(stream.hi))'
  BY DEF StreamInv, RangeFiles
<1>4. (InJob /\ stream.opened /\ job.end # NoEnd => stream.hi = job.end)'
  BY <1>0 DEF StreamInv, InJob
<1>5. (pc = "advance" => job.mode = "normal" /\ stream.ts # Null)'
  BY DEF AfterStream
<1>6. (pc \in {"finish", "advance"} =>
          /\ AllStored(job.spec, FilesBetween(job.spec, job.lo, stream.ts))
          /\ job.end # NoEnd => AllStored(job.spec, FilesBetween(job.spec, job.lo, job.end)))'
  <2> SUFFICES ASSUME pc' \in {"finish", "advance"}
               PROVE  (/\ AllStored(job.spec, FilesBetween(job.spec, job.lo, stream.ts))
                       /\ job.end # NoEnd =>
                            AllStored(job.spec, FilesBetween(job.spec, job.lo, job.end)))'
    OBVIOUS
  <2>1. pc = "leftover"
    OBVIOUS
  <2>2. \A f \in RangeFiles(stream.hi) : \A d : d = job.spec => Stored(d, f)'
    BY <1>1, <2>1 DEF StreamInv
  <2> QED BY <1>0, <2>2, RangeStored
<1>7. pc' # "leftover"
  BY DEF AfterStream
<1> QED BY <1>2, <1>3, <1>4, <1>5, <1>6, <1>7 DEF StreamInv

LEMMA DoneStream ==
    ASSUME TypeOK, StreamInv, Done
    PROVE  StreamInv'
<1>0. /\ stream \in Streams /\ stream.buf \in 0 .. RecCount /\ RecCount \in Nat \ {0}
      /\ pc = "fetch" /\ stream.opened /\ ~SkipMissing /\ InJob
      /\ UNCHANGED <<job, stream, raw>>
      /\ pc' = IF stream.buf > 0 THEN "leftover" ELSE AfterStream
      /\ \A f \in RangeFiles(stream.hi) : f <= stream.pos
      /\ stream.cur = Null \/ stream.buf = RecCount
  BY StoreConstants DEF TypeOK, Streams, Done, InJob, storeVars
<1>1. /\ \A hi : RangeFiles(hi)' = RangeFiles(hi)
      /\ SkipMissing' = SkipMissing
  BY <1>0 DEF RangeFiles, SkipMissing
<1>2. CASE stream.buf > 0
  <2>1. pc' = "leftover" /\ stream.cur # Null /\ stream.buf = RecCount
    BY <1>0, <1>2 DEF StreamInv
  <2>2. (\A f \in RangeFiles(stream.hi) :
            f <= stream.pos /\ f # stream.cur => Stored(job.spec, f))'
    BY <1>0 DEF StreamInv, RangeFiles, Stored
  <2>3. (\A f \in RangeFiles(stream.hi) : f <= stream.pos)'
    BY <1>0 DEF RangeFiles
  <2> QED BY <1>0, <1>1, <2>1, <2>2, <2>3 DEF StreamInv, InJob, RangeFiles, SkipMissing
<1>3. CASE ~(stream.buf > 0)
  <2>1. stream.cur = Null /\ pc' = AfterStream /\ pc' \in {"advance", "finish"}
    BY <1>0, <1>3 DEF AfterStream
  <2>2. ASSUME NEW f \in RangeFiles(stream.hi) PROVE \A d : d = job.spec => Stored(d, f)'
    <3>1. f # Null
      BY FilesArePositive DEF RangeFiles, TypeOK, Jobs
    <3> QED BY <1>0, <2>1, <3>1, StoredGrows DEF StreamInv
  <2>3. (/\ AllStored(job.spec, FilesBetween(job.spec, job.lo, stream.ts))
         /\ job.end # NoEnd => AllStored(job.spec, FilesBetween(job.spec, job.lo, job.end)))'
    BY <1>0, <2>2, RangeStored
  <2>4. (pc = "advance" => job.mode = "normal" /\ stream.ts # Null)'
    BY <1>0, <2>1 DEF AfterStream
  <2> QED BY <1>0, <1>1, <2>1, <2>3, <2>4 DEF StreamInv, InJob, RangeFiles, SkipMissing
<1> QED BY <1>2, <1>3

LEMMA StreamNext ==
    ASSUME TypeOK, TypeOK', JobKnows, StreamInv, [Next]_vars
    PROVE  StreamInv'
<1>a. /\ raw \subseteq raw' /\ stream \in Streams /\ job.spec \in Specs
      /\ stream.cur # Null => stream.opened /\ ~SkipMissing
  BY RawGrows DEF TypeOK, Jobs, StreamInv, NoStream
<1>b. ASSUME NEW out, Attempt(Commit(stream.cur, stream.buf), out), out = "ok",
             stream.buf = RecCount
      PROVE  \A d, g : d = job.spec /\ g = stream.cur => Stored(d, g)'
  BY <1>b, CommitStores DEF Attempt
<1>1. ASSUME NEW out, NEW f \in FileTimes[job.spec], FileBeginLeftover(f, out)
      PROVE  StreamInv'
  <2>1. /\ pc = "fetch" /\ NextFile(f) /\ job' = job /\ stream.opened /\ ~SkipMissing
        /\ pc' = IF out = "ok" THEN "fetch" ELSE "abort"
        /\ out = "ok" => \A d, g : d = job.spec /\ g = stream.cur => Stored(d, g)'
    BY <1>1, <1>a, <1>b DEF FileBeginLeftover
  <2>2. /\ stream'.opened /\ stream'.hi = stream.hi /\ stream'.ts = stream.ts
        /\ stream'.pos = f /\ stream'.cur = f
    BY <1>1, <1>a, <2>1 DEF FileBeginLeftover, Streams
  <2> QED BY <1>a, <2>1, <2>2, BeginFileStream
<1>2. ASSUME NEW f \in FileTimes[job.spec], FileBegin(f)
      PROVE  StreamInv'
  <2>1. /\ pc = "fetch" /\ pc' = "fetch" /\ NextFile(f) /\ job' = job /\ stream.opened
        /\ ~SkipMissing /\ stream.cur = Null
    BY <1>2 DEF FileBegin
  <2>2. /\ stream'.opened /\ stream'.hi = stream.hi /\ stream'.ts = stream.ts
        /\ stream'.pos = f /\ stream'.cur = f
    BY <1>2, <1>a, <2>1 DEF FileBegin, Streams
  <2> QED BY <1>a, <2>1, <2>2, BeginFileStream
<1>3. ASSUME NEW out, FileEnd(out) \/ DoneLeftover(out)
      PROVE  StreamInv'
  <2>1. /\ pc \in {"fetch", "leftover"} /\ stream.cur # Null /\ job' = job
        /\ stream.opened /\ stream.buf = RecCount
        /\ Attempt(Commit(stream.cur, stream.buf), out)
        /\ pc' = IF out # "ok" THEN "abort"
                 ELSE IF pc = "fetch" THEN "fetch" ELSE AfterStream
        /\ stream' = [stream EXCEPT !.cur = Null, !.buf = 0]
    BY <1>3, <1>a DEF FileEnd, DoneLeftover, StreamInv
  <2>2. /\ stream'.opened /\ stream'.hi = stream.hi /\ stream'.ts = stream.ts
        /\ stream'.pos = stream.pos /\ stream'.cur = Null /\ stream'.buf = 0
    BY <1>a, <2>1 DEF Streams
  <2> QED BY <1>a, <1>b, <2>1, <2>2, EndFileStream
<1>4. CASE Record
  <2>1. /\ pc' = pc /\ pc = "fetch" /\ stream.cur # Null /\ UNCHANGED <<job, raw>>
        /\ stream'.opened = stream.opened /\ stream'.hi = stream.hi
        /\ stream'.ts = stream.ts /\ stream'.pos = stream.pos /\ stream'.cur = stream.cur
    BY <1>4, <1>a DEF Record, Streams, storeVars
  <2>2. (\A f \in RangeFiles(stream.hi) :
            f <= stream.pos /\ f # stream.cur => Stored(job.spec, f))'
    BY <1>a, <2>1 DEF StreamInv, RangeFiles, Stored
  <2> QED BY <1>a, <2>1, <2>2 DEF StreamInv, InJob, RangeFiles, SkipMissing
<1>5. ASSUME NEW out, \E ts : OpenOk(ts, out)
      PROVE  StreamInv'
  BY <1>5, OpenOkStream
<1>6. CASE NoData
  BY <1>6, NoDataStream
<1>7. CASE Done
  BY <1>7, DoneStream
<1>8. ASSUME NEW out, FinishSetup(out) \/ FinishDiff(out)
      PROVE  StreamInv'
  BY <1>8, <1>a, StreamFrame, NoStreamInv DEF FinishSetup, FinishDiff, EndJob, Abort, InJob
<1>9. ASSUME NEW out, Advance(out)
      PROVE  StreamInv'
  <2>1. /\ pc = "advance" /\ UNCHANGED <<job, stream>> /\ pc' \in {"finish", "abort"}
    BY <1>9 DEF Advance
  <2>2. \A hi : RangeFiles(hi)' = RangeFiles(hi)
    BY <2>1 DEF RangeFiles
  <2>3. (/\ AllStored(job.spec, FilesBetween(job.spec, job.lo, stream.ts))
         /\ job.end # NoEnd => AllStored(job.spec, FilesBetween(job.spec, job.lo, job.end)))'
    BY <1>a, <2>1 DEF StreamInv, AllStored, FilesBetween, Stored
  <2> QED BY <2>1, <2>2, <2>3 DEF StreamInv, InJob, RangeFiles, SkipMissing
<1>10. ASSUME NEW out, RecordFailure(out) \/ (\E q : RunWindow(q, out)) \/ \E c : RunDiff(c, out)
       PROVE  StreamInv'
  BY <1>10, NoStreamInv DEF RecordFailure, RunWindow, RunDiff, EndJob, AfterWindows
<1>11. ASSUME StreamError \/ Normalize \/ Kill
       PROVE  StreamInv'
  BY <1>11, NoStreamInv DEF StreamError, Normalize, Kill, Exit
<1>12. ASSUME NEW out, \/ \E w, e : Seed(w, e, out)
                       \/ ListPending(out) \/ ListCursors(out)
       PROVE  StreamInv'
  BY <1>12, <1>a, StreamFrame, NoStreamInv
  DEF Seed, ListPending, ListCursors, Exit, AfterWindows, InJob
<1>13. ASSUME SeedDone \/ WindowsDone \/ DiffsDone \/ SpawnError \/ \E c, P : StartCommand(c, P)
       PROVE  StreamInv'
  BY <1>13, <1>a, StreamFrame
  DEF SeedDone, WindowsDone, DiffsDone, SpawnError, StartCommand, AfterWindows, InJob
<1>14. ASSUME (\E w : Abandon(w)) \/ Provide \/ UNCHANGED vars
       PROVE  StreamInv'
  BY <1>14, <1>a, StreamFrame DEF Abandon, Provide, vars, procVars, InJob
<1> QED
  BY <1>1, <1>2, <1>3, <1>4, <1>5, <1>6, <1>7, <1>8, <1>9, <1>10, <1>11, <1>12, <1>13, <1>14
  DEF Next, ProcessStep

(***************************************************************************)
(* A command approaches its end.                                           *)
(***************************************************************************)
\* The tables are finite, and so are the lists read from them.
FiniteTables == IsFiniteSet(Windows) /\ IsFiniteSet(Specs)
ListsFinite == IsFiniteSet(plan) /\ IsFiniteSet(queue) /\ IsFiniteSet(todo)

LEMMA ListedAreFinite ==
    ASSUME FiniteTables
    PROVE  IsFiniteSet(PendingWindows) /\ IsFiniteSet(AllCursors)
<1>1. IsFiniteSet(PendingWindows)
  <2> DEFINE V == {v \in Windows : checkpoints[v].state \in Pending}
             row(w) == [win |-> w, end |-> checkpoints[w].end, skip |-> checkpoints[w].last_file]
             f == [w \in V |-> row(w)]
  <2>1. IsFiniteSet(V)
    BY FS_Subset DEF FiniteTables
  <2>2. f \in Surjection(V, PendingWindows)
    BY DEF PendingWindows, Surjection
  <2> HIDE DEF V, f
  <2> QED BY <2>1, <2>2, FS_Surjection DEF ExistsSurjection
<1>2. IsFiniteSet(AllCursors)
  <2> DEFINE V == {c \in Specs : cursors[c] # Null}
             row(d) == [spec |-> d, from |-> cursors[d]]
             f == [d \in V |-> row(d)]
  <2>1. IsFiniteSet(V)
    BY FS_Subset DEF FiniteTables
  <2>2. f \in Surjection(V, AllCursors)
    BY DEF AllCursors, Surjection
  <2> HIDE DEF V, f
  <2> QED BY <2>1, <2>2, FS_Surjection DEF ExistsSurjection
<1> QED BY <1>1, <1>2

LEMMA ListsFiniteNext ==
    ASSUME FiniteTables, ListsFinite, TypeOK', [Next]_vars
    PROVE  ListsFinite'
<1>1. IsFiniteSet(plan')
  BY FS_Subset DEF TypeOK, FiniteTables
<1>2. CASE ListPending("ok")
  BY <1>1, <1>2, ListedAreFinite DEF ListPending, ListsFinite
<1>3. CASE ListCursors("ok")
  BY <1>1, <1>3, ListedAreFinite, FS_Subset DEF ListCursors, ListsFinite
<1>4. CASE queue' \subseteq queue /\ todo' \subseteq todo
  BY <1>1, <1>4, FS_Subset DEF ListsFinite
<1> QED BY <1>2, <1>3, <1>4, OtherSteps

\* The five places of the distance are numbers, and each may be the one that counts.
LEMMA DistanceType ==
    ASSUME TypeOK, ListsFinite
    PROVE  /\ StagesLeft \in 0 .. 6 /\ EntriesLeft \in Nat /\ RunLeft \in 0 .. 6
           /\ FilesLeft \in Nat /\ RecordsLeft \in Nat
           /\ \A p : IsFiniteSet({f \in RangeFiles(stream.hi) : f > p})
<1>0. job.spec \in Specs /\ stream.hi \in Nat /\ stream.buf \in 0 .. RecCount
  BY DEF TypeOK, Jobs, Streams
<1>1. StagesLeft \in 0 .. 6 /\ RunLeft \in 0 .. 6
  BY DEF StagesLeft, RunLeft
<1>2. EntriesLeft \in Nat
  BY FS_CardinalityType DEF ListsFinite, EntriesLeft
<1>3. ASSUME NEW p PROVE IsFiniteSet({f \in RangeFiles(stream.hi) : f > p})
  <2> DEFINE S == {f \in RangeFiles(stream.hi) : f > p}
  <2>1. S \in SUBSET Nat /\ \A f \in S : f <= stream.hi
    BY <1>0, FilesArePositive DEF RangeFiles
  <2> HIDE DEF S
  <2>2. IsFiniteSet(S)
    BY <1>0, <2>1, FS_BoundedSetOfNaturals
  <2> QED BY <2>2 DEF S
<1>4. FilesLeft \in Nat
  BY <1>3, FS_CardinalityType DEF FilesLeft
<1>5. RecordsLeft \in Nat
  BY <1>0, StoreConstants DEF RecordsLeft
<1> QED BY <1>1, <1>2, <1>3, <1>4, <1>5

LEMMA NearerCases ==
    ASSUME \/ StagesLeft' < StagesLeft
           \/ /\ StagesLeft' = StagesLeft
              /\ \/ EntriesLeft' < EntriesLeft
                 \/ /\ EntriesLeft' = EntriesLeft
                    /\ \/ RunLeft' < RunLeft
                       \/ /\ RunLeft' = RunLeft
                          /\ \/ FilesLeft' < FilesLeft
                             \/ FilesLeft' = FilesLeft /\ RecordsLeft' < RecordsLeft
    PROVE  Nearer(Distance', Distance)
<1>1. CASE StagesLeft' < StagesLeft
  BY <1>1 DEF Nearer, Distance
<1>2. CASE StagesLeft' = StagesLeft /\ EntriesLeft' < EntriesLeft
  BY <1>2 DEF Nearer, Distance
<1>3. CASE StagesLeft' = StagesLeft /\ EntriesLeft' = EntriesLeft /\ RunLeft' < RunLeft
  BY <1>3 DEF Nearer, Distance
<1>4. CASE /\ StagesLeft' = StagesLeft /\ EntriesLeft' = EntriesLeft /\ RunLeft' = RunLeft
           /\ FilesLeft' < FilesLeft
  BY <1>4 DEF Nearer, Distance
<1>5. CASE /\ StagesLeft' = StagesLeft /\ EntriesLeft' = EntriesLeft /\ RunLeft' = RunLeft
           /\ FilesLeft' = FilesLeft /\ RecordsLeft' < RecordsLeft
  BY <1>5 DEF Nearer, Distance
<1> QED BY <1>1, <1>2, <1>3, <1>4, <1>5

\* Within a run: the next file, the next record, or the end of a file.
LEMMA FilesNearer ==
    ASSUME TypeOK, ListsFinite, UNCHANGED <<plan, queue, todo, job>>,
           pc = "fetch", pc' = "fetch",
           stream'.opened = stream.opened, stream'.hi = stream.hi,
           \/ \E f : NextFile(f) /\ stream'.pos = f
           \/ stream'.pos = stream.pos /\ RecordsLeft' < RecordsLeft
    PROVE  Nearer(Distance', Distance)
<1>1. /\ StagesLeft' = StagesLeft /\ EntriesLeft' = EntriesLeft /\ RunLeft' = RunLeft
      /\ RangeFiles(stream.hi)' = RangeFiles(stream.hi)
  BY DEF StagesLeft, EntriesLeft, RunLeft, RangeFiles, InSetup, InJob
<1>2. ASSUME NEW f, NextFile(f), stream'.pos = f
      PROVE  FilesLeft' < FilesLeft
  <2> DEFINE ahead == {g \in RangeFiles(stream.hi) : g > stream.pos}
             next == {g \in RangeFiles(stream.hi) : g > f}
  <2>1. f \in ahead /\ f \in Nat /\ stream.pos \in Int /\ f > stream.pos
        /\ \A g \in RangeFiles(stream.hi) : g \in Nat
    BY <1>2, FilesArePositive DEF NextFile, RangeFiles, TypeOK, Jobs, Streams
  <2>2. next \in SUBSET ahead /\ f \notin next
    <3>1. \A n \in Nat : n > f => n > stream.pos /\ n # f
      BY <2>1
    <3> QED BY <2>1, <3>1
  <2>3. IsFiniteSet(ahead) /\ IsFiniteSet(next)
    BY DistanceType
  <2>4. Cardinality(ahead) = FilesLeft /\ Cardinality(next) = FilesLeft'
    BY <1>1, <1>2 DEF FilesLeft
  <2> HIDE DEF ahead, next
  <2>5. Cardinality(next) <= Cardinality(ahead) /\ Cardinality(next) # Cardinality(ahead)
    BY <2>1, <2>2, <2>3, FS_Subset
  <2>6. Cardinality(next) \in Nat /\ Cardinality(ahead) \in Nat
    BY <2>3, FS_CardinalityType
  <2> QED BY <2>4, <2>5, <2>6
<1>3. ASSUME stream'.pos = stream.pos PROVE FilesLeft' = FilesLeft
  BY <1>1, <1>3 DEF FilesLeft
<1> QED BY <1>1, <1>2, <1>3, NearerCases

\* A list entry is taken, or none is left.
LEMMA EntriesNearer ==
    ASSUME ListsFinite, StagesLeft' = StagesLeft,
           \/ UNCHANGED <<queue, todo>> /\ \E w \in plan : plan' = plan \ {w}
           \/ UNCHANGED <<plan, todo>> /\ \E q \in queue : queue' = queue \ {q}
           \/ UNCHANGED <<plan, queue>> /\ \E c \in todo : todo' = todo \ {c}
    PROVE  Nearer(Distance', Distance)
<1>1. /\ Cardinality(plan) \in Nat /\ Cardinality(queue) \in Nat /\ Cardinality(todo) \in Nat
      /\ \A w \in plan : Cardinality(plan \ {w}) = Cardinality(plan) - 1
      /\ \A q \in queue : Cardinality(queue \ {q}) = Cardinality(queue) - 1
      /\ \A c \in todo : Cardinality(todo \ {c}) = Cardinality(todo) - 1
  BY FS_CardinalityType, FS_RemoveElement DEF ListsFinite
<1>2. EntriesLeft' = EntriesLeft - 1 /\ EntriesLeft \in Nat
  BY <1>1 DEF EntriesLeft
<1> QED BY <1>2, NearerCases

\* The run comes closer to its end, with the lists as they were.
LEMMA RunNearer ==
    ASSUME UNCHANGED <<plan, queue, todo>>, StagesLeft' = StagesLeft, RunLeft' < RunLeft
    PROVE  Nearer(Distance', Distance)
<1>1. EntriesLeft' = EntriesLeft
  BY DEF EntriesLeft
<1> QED BY <1>1, NearerCases

LEMMA CommandNearer ==
    ASSUME TypeOK, ListsFinite, [Next]_vars, pc # "idle"
    PROVE  Nearer(Distance', Distance) \/ UNCHANGED procVars
<1>0. /\ StagesLeft = 0 <=> pc = "idle"
      /\ stream \in Streams /\ job \in Jobs /\ pc \in PcValues
      /\ job.mode = "setup" <=> job.mode # "normal"
  BY DEF StagesLeft, TypeOK, PcValues, InSetup, InJob, Jobs
<1>a. ASSUME pc' = "idle" PROVE Nearer(Distance', Distance)
  <2>1. StagesLeft' = 0 /\ StagesLeft \in 0 .. 6
    BY <1>a, DistanceType DEF StagesLeft, InSetup, InJob
  <2> QED BY <1>0, <2>1, NearerCases
<1>1. ASSUME NEW out, NEW w, NEW e, Seed(w, e, out)
      PROVE  Nearer(Distance', Distance)
  <2>1. CASE out = "ok"
    <3>1. StagesLeft' = StagesLeft
      BY <1>1, <2>1 DEF Seed, StagesLeft, InSetup, InJob
    <3> QED BY <1>1, <2>1, <3>1, EntriesNearer DEF Seed
  <2>2. CASE out # "ok"
    BY <1>1, <1>a, <2>2 DEF Seed, Exit
  <2> QED BY <2>1, <2>2
<1>2. ASSUME NEW out, \/ SeedDone \/ WindowsDone \/ DiffsDone \/ ListPending(out)
                      \/ ListCursors(out) \/ Normalize \/ Kill
      PROVE  Nearer(Distance', Distance)
  <2>1. CASE SeedDone \/ WindowsDone \/ DiffsDone \/ ListPending(out)
    <3>1. StagesLeft' < StagesLeft
      BY <2>1 DEF SeedDone, WindowsDone, DiffsDone, ListPending, AfterWindows, StagesLeft,
                  InSetup, InJob
    <3> QED BY <3>1, NearerCases
  <2>2. CASE ListCursors(out) /\ pc' # "idle"
    <3>1. StagesLeft' < StagesLeft
      BY <2>2 DEF ListCursors, Exit, StagesLeft, InSetup, InJob
    <3> QED BY <3>1, NearerCases
  <2>3. CASE Normalize \/ Kill
    BY <1>a, <2>3 DEF Normalize, Kill, Exit
  <2> QED BY <1>2, <1>a, <2>1, <2>2, <2>3
<1>3. ASSUME NEW out, NEW q \in queue, RunWindow(q, out)
      PROVE  Nearer(Distance', Distance)
  <2>1. CASE out = "ok"
    <3>1. StagesLeft' = StagesLeft
      BY <1>3, <2>1 DEF RunWindow, StagesLeft, InSetup, InJob
    <3> QED BY <1>3, <2>1, <3>1, EntriesNearer DEF RunWindow
  <2>2. CASE out # "ok"
    <3>1. StagesLeft' < StagesLeft
      BY <1>3, <2>2 DEF RunWindow, AfterWindows, StagesLeft, InSetup, InJob
    <3> QED BY <3>1, NearerCases
  <2> QED BY <2>1, <2>2
<1>4. ASSUME NEW out, NEW c \in todo, RunDiff(c, out)
      PROVE  Nearer(Distance', Distance)
  <2>1. CASE out = "ok"
    <3>1. StagesLeft' = StagesLeft
      BY <1>4, <2>1 DEF RunDiff, StagesLeft, InSetup, InJob
    <3> QED BY <1>4, <2>1, <3>1, EntriesNearer DEF RunDiff
  <2>2. CASE out # "ok"
    <3>1. StagesLeft' < StagesLeft
      BY <1>4, <2>2 DEF RunDiff, StagesLeft, InSetup, InJob
    <3> QED BY <3>1, NearerCases
  <2> QED BY <2>1, <2>2
<1>5. ASSUME NEW out, NEW f, FileBeginLeftover(f, out) \/ FileBegin(f)
      PROVE  Nearer(Distance', Distance)
  <2>1. CASE pc' = "fetch"
    <3>1. /\ UNCHANGED <<plan, queue, todo, job>> /\ pc = "fetch" /\ NextFile(f)
          /\ stream'.opened = stream.opened /\ stream'.hi = stream.hi /\ stream'.pos = f
      BY <1>0, <1>5, <2>1 DEF FileBeginLeftover, FileBegin, Streams
    <3> QED BY <2>1, <3>1, FilesNearer
  <2>2. CASE pc' # "fetch"
    <3>1. /\ UNCHANGED <<plan, queue, todo>>
          /\ StagesLeft' = StagesLeft /\ RunLeft' < RunLeft
      BY <1>5, <2>2 DEF FileBeginLeftover, FileBegin, StagesLeft, RunLeft, InSetup, InJob
    <3> QED BY <3>1, RunNearer
  <2> QED BY <2>1, <2>2
<1>6. ASSUME NEW out, FileEnd(out) \/ Record
      PROVE  Nearer(Distance', Distance)
  <2>1. CASE pc' = "fetch"
    <3>1. /\ UNCHANGED <<plan, queue, todo, job>> /\ pc = "fetch"
          /\ stream'.opened = stream.opened /\ stream'.hi = stream.hi /\ stream'.pos = stream.pos
          /\ RecCount \in Nat /\ stream.buf \in Nat /\ stream.cur # Null
          /\ \/ stream'.cur = Null /\ stream.buf = RecCount
             \/ /\ stream'.cur = stream.cur /\ stream'.buf = stream.buf + 1
                /\ stream.buf < RecCount
      <4>1. RecCount \in Nat /\ stream.buf \in Nat
        BY <1>0, StoreConstants DEF Streams
      <4>2. CASE FileEnd(out)
        BY <1>0, <2>1, <4>1, <4>2 DEF FileEnd, Streams
      <4>3. CASE Record
        BY <1>0, <2>1, <4>1, <4>3 DEF Record, Streams
      <4> QED BY <1>6, <4>2, <4>3
    <3>2. RecordsLeft' < RecordsLeft
      BY <3>1 DEF RecordsLeft
    <3> QED BY <2>1, <3>1, <3>2, FilesNearer
  <2>2. CASE pc' # "fetch"
    <3>1. /\ UNCHANGED <<plan, queue, todo>>
          /\ StagesLeft' = StagesLeft /\ RunLeft' < RunLeft
      BY <1>6, <2>2 DEF FileEnd, Record, StagesLeft, RunLeft, InSetup, InJob
    <3> QED BY <3>1, RunNearer
  <2> QED BY <2>1, <2>2
<1>7. ASSUME NEW out, \/ (\E ts : OpenOk(ts, out)) \/ NoData \/ Done \/ DoneLeftover(out)
                      \/ StreamError \/ SpawnError \/ Advance(out)
      PROVE  Nearer(Distance', Distance)
  <2>1. UNCHANGED <<plan, queue, todo, job>>
    BY <1>7 DEF OpenOk, NoData, Done, DoneLeftover, StreamError, SpawnError, Advance
  <2>2. InJob /\ InJob' /\ RunLeft' < RunLeft
    <3>1. CASE \E ts : OpenOk(ts, out)
      <4>1. stream'.opened /\ ~stream.opened /\ pc = "fetch" /\ pc' \in {"fetch", "abort"}
        BY <1>0, <3>1 DEF OpenOk, Streams
      <4> QED BY <4>1 DEF RunLeft, InJob
    <3>2. CASE Done \/ DoneLeftover(out)
      <4>1. /\ pc = "fetch" \/ pc = "leftover"
            /\ pc' \in {"leftover", "advance", "finish", "abort"}
            /\ pc' # pc
        BY <3>2 DEF Done, DoneLeftover, AfterStream
      <4>2. pc = "leftover" => pc' # "leftover"
        BY <4>1
      <4> QED BY <4>1, <4>2 DEF RunLeft, InJob
    <3>3. CASE NoData \/ StreamError \/ SpawnError \/ Advance(out)
      BY <3>3 DEF NoData, StreamError, SpawnError, Advance, RunLeft, InJob
    <3> QED BY <1>7, <3>1, <3>2, <3>3
  <2>3. StagesLeft' = StagesLeft
    BY <2>1, <2>2 DEF StagesLeft, InSetup, InJob
  <2> QED BY <2>1, <2>2, <2>3, RunNearer
<1>8. ASSUME NEW out, FinishSetup(out) \/ FinishDiff(out)
      PROVE  Nearer(Distance', Distance)
  <2>1. /\ UNCHANGED <<plan, queue, todo>>
        /\ StagesLeft' = StagesLeft /\ RunLeft' < RunLeft
    BY <1>8 DEF FinishSetup, FinishDiff, EndJob, Abort, StagesLeft, RunLeft, InSetup, InJob
  <2> QED BY <2>1, RunNearer
<1>9. ASSUME NEW out, RecordFailure(out)
      PROVE  Nearer(Distance', Distance)
  <2>1. CASE pc = "fail"
    <3>1. /\ UNCHANGED <<plan, queue, todo>>
          /\ StagesLeft' = StagesLeft /\ RunLeft' < RunLeft
      BY <1>0, <1>9, <2>1 DEF RecordFailure, EndJob, StagesLeft, RunLeft, InSetup, InJob
    <3> QED BY <3>1, RunNearer
  <2>2. CASE pc # "fail"
    <3>1. StagesLeft' < StagesLeft
      BY <1>0, <1>9, <2>2 DEF RecordFailure, EndJob, AfterWindows, StagesLeft, InSetup, InJob
    <3> QED BY <3>1, NearerCases
  <2> QED BY <2>1, <2>2
<1>10. ASSUME (\E w : Abandon(w)) \/ Provide \/ (\E c, P : StartCommand(c, P)) \/ UNCHANGED vars
       PROVE  UNCHANGED procVars
  BY <1>10 DEF Abandon, Provide, StartCommand, vars
<1> QED BY <1>1, <1>2, <1>3, <1>4, <1>5, <1>6, <1>7, <1>8, <1>9, <1>10 DEF Next, ProcessStep

\* Where the tables are finite, no command goes on for ever: every step of it, the
\* failed ones included, leaves less to do, in an order without infinite descent
\* (main.rs:286-296).
THEOREM CommandsEnd ==
    ASSUME FiniteTables
    PROVE  /\ Spec => CommandsApproachTheirEnd
           /\ Spec => [](Distance \in Distances(5))
           /\ IsWellFoundedOn(NearerPairs(5), Distances(5))
<1>1. Init => ListsFinite
  BY FS_EmptySet DEF Init, ListsFinite
<1>2. ListsFinite /\ TypeOK' /\ [Next]_vars => ListsFinite'
  BY ListsFiniteNext
<1>3. TypeOK /\ ListsFinite /\ [Next]_vars
         => [pc # "idle" => Nearer(Distance', Distance) \/ UNCHANGED procVars]_vars
  BY CommandNearer
<1>4. TypeOK /\ ListsFinite => Distance \in Distances(5)
  BY DistanceType DEF Distance, Distances
<1>5. Spec => CommandsApproachTheirEnd
  BY <1>1, <1>2, <1>3, TypeCorrect, PTL DEF Spec, CommandsApproachTheirEnd
<1>6. Spec => [](Distance \in Distances(5))
  BY <1>1, <1>2, <1>4, TypeCorrect, PTL DEF Spec
<1> QED BY <1>5, <1>6, NearerEnds
=============================================================================
