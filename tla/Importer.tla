------------------------------- MODULE Importer -------------------------------
(***************************************************************************)
(* The jvdata process: the commands backfill, resume and abandon of        *)
(* importer-cli/src/main.rs and the fetch loops run_window and run_diff of *)
(* importer-cli/src/ingest.rs, over the tables of IngestStore.             *)
(*                                                                         *)
(* One process runs at a time (the advisory lock, main.rs:114-121); it may *)
(* be killed between any two steps, which loses every variable of the      *)
(* process and no variable of the store.  Each transaction of the store is *)
(* attempted with one of three outcomes: "ok", "err" (rolled back) and     *)
(* "lost" (committed, but the client gets an error because the connection  *)
(* broke before the acknowledgement).                                      *)
(*                                                                         *)
(* The frame stream is that of bridge::source::Source: OpenOk, then for    *)
(* each file FileBegin, Record*, FileEnd, then Done; it may break at any   *)
(* point.  FileEnd may be missing, the case the loops defend against.      *)
(***************************************************************************)
EXTENDS IngestStore

CONSTANTS
    MaxTime,    \* bound: files are provided up to this time
    Faults      \* which of "db", "stream", "spawn", "kill" can happen

ASSUME ImporterConstants ==
    /\ MaxTime \in Nat
    /\ Faults \subseteq {"db", "stream", "spawn", "kill"}

VARIABLES
    now,        \* JRA-VAN has provided the files of times 1 .. now
    pc,         \* where the process is
    cmd,        \* "backfill", "resume", or "none" while no process runs
    plan,       \* windows the backfill has still to seed
    queue,      \* run_pending's list: [win, end, skip], read once
    todo,       \* resume's list of cursors: [spec, from], read once
    job,        \* the run in progress: arguments of run_window / run_diff
    stream      \* the frame stream and the locals of the fetch loop

procVars == <<pc, cmd, plan, queue, todo, job, stream>>
vars == <<storeVars, now, procVars>>

NoJob == [mode |-> "setup", spec |-> CHOOSE d \in Specs : TRUE, lo |-> 0,
          end |-> NoEnd, skip |-> Null, run |-> Null]

\* hi, pos: the last file of the opened range and the last file begun;
\* cur, buf: cur_file and the number of buffered records; ts: last_ts.
NoStream == [opened |-> FALSE, hi |-> 0, pos |-> 0, cur |-> Null, buf |-> 0, ts |-> Null]

Init ==
    /\ StoreInit
    /\ now = 0
    /\ pc = "idle" /\ cmd = "none"
    /\ plan = {} /\ queue = {} /\ todo = {}
    /\ job = NoJob /\ stream = NoStream

(***************************************************************************)
(* Outcomes of one store operation.                                        *)
(***************************************************************************)
Outcomes == IF "db" \in Faults THEN {"ok", "err", "lost"} ELSE {"ok"}
Attempt(Tx, out) == IF out = "err" THEN UNCHANGED storeVars ELSE Tx

\* The process returns to the shell: its variables are gone.
Exit ==
    /\ pc' = "idle" /\ cmd' = "none"
    /\ plan' = {} /\ queue' = {} /\ todo' = {} /\ job' = NoJob /\ stream' = NoStream

\* After run_pending returns, with or without an error.
AfterWindows == IF cmd = "backfill" THEN "normalize" ELSE "cursors"

(***************************************************************************)
(* Commands.                                                               *)
(***************************************************************************)
\* Bound: a command starts only while run ids are left for all its runs.
StartCommand(c, P) ==
    /\ pc = "idle"
    /\ nextRun + Cardinality(Windows) + Cardinality(Specs) <= MaxRuns
    /\ cmd' = c
    /\ plan' = P
    /\ pc' = IF c = "backfill" THEN "seed" ELSE "list"
    /\ UNCHANGED <<storeVars, now, queue, todo, job, stream>>

\* setup_windows closes a window only if its end time is past.
EndChoices(w) ==
    {NoEnd} \union
    (IF SpecOf(w) \in EndTimeSpecs THEN {e \in 1 .. now : e > StartOf(w)} ELSE {})

Seed(w, e, out) ==
    /\ pc = "seed"
    /\ w \in plan
    /\ Attempt(SeedWindow(w, e), out)
    /\ IF out = "ok" THEN /\ plan' = plan \ {w}
                          /\ UNCHANGED <<pc, cmd, queue, todo, job, stream>>
                     ELSE Exit
    /\ UNCHANGED now

SeedDone ==
    /\ pc = "seed" /\ plan = {}
    /\ pc' = "list"
    /\ UNCHANGED <<storeVars, now, cmd, plan, queue, todo, job, stream>>

\* Mutant: abandon does not take the lock.
AbandonUnlocked(w) ==
    /\ AbandonWindow(w)
    /\ UNCHANGED <<now, procVars>>

Abandon(w) ==
    /\ pc = "idle"
    /\ AbandonWindow(w)
    /\ UNCHANGED <<now, procVars>>

(***************************************************************************)
(* run_pending.                                                            *)
(***************************************************************************)
ListPending(out) ==
    /\ pc = "list"
    /\ queue' = IF out = "ok" THEN PendingWindows ELSE {}
    /\ pc' = IF out = "ok" THEN "windows" ELSE AfterWindows
    /\ UNCHANGED <<storeVars, now, cmd, plan, todo, job, stream>>

\* The list is in window_start order.
FirstIn(q) == \A p \in queue : StartOf(q.win) <= StartOf(p.win)

\* Mutant: the list is fetched again for every window.
RunWindowRefetches(q, out) ==
    /\ pc = "windows"
    /\ q \in queue /\ FirstIn(q)
    /\ Attempt(BeginWindow(q.win), out)
    /\ queue' = PendingWindows'
    /\ pc' = IF out = "ok" THEN "fetch" ELSE AfterWindows
    /\ job' = IF out = "ok"
              THEN [mode |-> "setup", spec |-> SpecOf(q.win), lo |-> StartOf(q.win),
                    end |-> q.end, skip |-> q.skip, run |-> nextRun']
              ELSE NoJob
    /\ stream' = NoStream
    /\ UNCHANGED <<now, cmd, plan, todo>>

\* run_window; begin_window failing is a Db error, which ends run_pending.
RunWindow(q, out) ==
    /\ pc = "windows"
    /\ q \in queue /\ FirstIn(q)
    /\ Attempt(BeginWindow(q.win), out)
    /\ queue' = IF out = "ok" THEN queue \ {q} ELSE {}
    /\ pc' = IF out = "ok" THEN "fetch" ELSE AfterWindows
    /\ job' = IF out = "ok"
              THEN [mode |-> "setup", spec |-> SpecOf(q.win), lo |-> StartOf(q.win),
                    end |-> q.end, skip |-> q.skip, run |-> nextRun']
              ELSE NoJob
    /\ stream' = NoStream
    /\ UNCHANGED <<now, cmd, plan, todo>>

WindowsDone ==
    /\ pc = "windows" /\ queue = {}
    /\ pc' = AfterWindows
    /\ UNCHANGED <<storeVars, now, cmd, plan, queue, todo, job, stream>>

(***************************************************************************)
(* The fetch loops run_window_inner and run_diff_inner.                    *)
(***************************************************************************)
JobWindow == <<job.spec, job.lo>>

\* The files JVOpen(fromtime) selects: those later than the start time.
RangeFiles(hi) == {f \in FileTimes[job.spec] : job.lo < f /\ f <= hi}
RangeEnd == IF job.end = NoEnd THEN now ELSE job.end

\* JVSkip looks for the file to resume from; it is read again.
SkipMissing == job.skip # Null /\ job.skip \notin RangeFiles(stream.hi)

IsLast(f, S) == f \in S /\ \A g \in S : g <= f

OpenOk(ts, out) ==
    /\ pc = "fetch" /\ ~stream.opened
    /\ IsLast(ts, RangeFiles(RangeEnd)) \/ (RangeFiles(RangeEnd) = {} /\ ts = Null)
    /\ stream' = [stream EXCEPT
          !.opened = TRUE, !.hi = RangeEnd, !.ts = ts,
          !.pos = IF job.skip = Null THEN job.lo ELSE job.skip - 1]
    /\ pc' = IF out = "ok" THEN "fetch" ELSE "abort"
    /\ UNCHANGED <<storeVars, now, cmd, plan, queue, todo, job>>

\* JVOpen returned -1: Done comes without OpenOk.
NoData ==
    /\ pc = "fetch" /\ ~stream.opened
    /\ RangeFiles(RangeEnd) = {}
    /\ pc' = "finish"
    /\ UNCHANGED <<storeVars, now, cmd, plan, queue, todo, job, stream>>

NextFile(f) ==
    LET ahead == {g \in RangeFiles(stream.hi) : g > stream.pos}
    IN  f \in ahead /\ \A g \in ahead : f <= g

Commit(f, n) ==
    IF job.mode = "setup" THEN CommitFile(job.run, JobWindow, f, n)
                          ELSE CommitDiffFile(job.run, job.spec, f, n)

FileBegin(f) ==
    /\ pc = "fetch" /\ stream.opened /\ ~SkipMissing
    /\ NextFile(f)
    /\ stream.cur = Null
    /\ stream' = [stream EXCEPT !.pos = f, !.cur = f]
    /\ UNCHANGED <<storeVars, now, pc, cmd, plan, queue, todo, job>>

\* Mutant: the left-over records are dropped.
FileBeginDropsLeftover(f, out) ==
    /\ pc = "fetch" /\ NextFile(f)
    /\ stream.cur # Null /\ stream.buf = RecCount
    /\ stream' = [stream EXCEPT !.pos = f, !.cur = f, !.buf = 0]
    /\ UNCHANGED <<storeVars, now, pc, cmd, plan, queue, todo, job>>

\* FileEnd was missing: the left-over records go under the previous name.
FileBeginLeftover(f, out) ==
    /\ pc = "fetch" /\ NextFile(f)
    /\ stream.cur # Null /\ stream.buf = RecCount
    /\ Attempt(Commit(stream.cur, stream.buf), out)
    /\ stream' = [stream EXCEPT !.pos = f, !.cur = f, !.buf = 0]
    /\ pc' = IF out = "ok" THEN "fetch" ELSE "abort"
    /\ UNCHANGED <<now, cmd, plan, queue, todo, job>>

Record ==
    /\ pc = "fetch"
    /\ stream.cur # Null /\ stream.buf < RecCount
    /\ stream' = [stream EXCEPT !.buf = @ + 1]
    /\ UNCHANGED <<storeVars, now, pc, cmd, plan, queue, todo, job>>

FileEnd(out) ==
    /\ pc = "fetch"
    /\ stream.cur # Null /\ stream.buf = RecCount
    /\ Attempt(Commit(stream.cur, stream.buf), out)
    /\ stream' = [stream EXCEPT !.cur = Null, !.buf = 0]
    /\ pc' = IF out = "ok" THEN "fetch" ELSE "abort"
    /\ UNCHANGED <<now, cmd, plan, queue, todo, job>>

AfterStream == IF job.mode = "normal" /\ stream.ts # Null THEN "advance" ELSE "finish"

\* Mutant: a stream that closes early counts as done.
DoneAtEof ==
    /\ pc = "fetch" /\ stream.opened /\ ~SkipMissing
    /\ stream.cur = Null \/ stream.buf = RecCount
    /\ pc' = IF stream.buf > 0 THEN "leftover" ELSE AfterStream
    /\ UNCHANGED <<storeVars, now, cmd, plan, queue, todo, job, stream>>

Done ==
    /\ pc = "fetch" /\ stream.opened /\ ~SkipMissing
    /\ \A f \in RangeFiles(stream.hi) : f <= stream.pos
    /\ stream.cur = Null \/ stream.buf = RecCount
    /\ pc' = IF stream.buf > 0 THEN "leftover" ELSE AfterStream
    /\ UNCHANGED <<storeVars, now, cmd, plan, queue, todo, job, stream>>

DoneLeftover(out) ==
    /\ pc = "leftover"
    /\ Attempt(Commit(stream.cur, stream.buf), out)
    /\ stream' = [stream EXCEPT !.cur = Null, !.buf = 0]
    /\ pc' = IF out = "ok" THEN AfterStream ELSE "abort"
    /\ UNCHANGED <<now, cmd, plan, queue, todo, job>>

\* Mutant: the cursor advances although the stream broke.
StreamErrorAdvances ==
    /\ pc = "fetch"
    /\ "stream" \in Faults \/ (stream.opened /\ SkipMissing)
    /\ pc' = IF stream.opened /\ job.mode = "normal" THEN AfterStream ELSE "fail"
    /\ UNCHANGED <<storeVars, now, cmd, plan, queue, todo, job, stream>>

\* Mutant: what was buffered when the stream broke is committed.
StreamErrorCommits ==
    /\ pc = "fetch"
    /\ "stream" \in Faults \/ (stream.opened /\ SkipMissing)
    /\ IF stream.buf > 0 THEN Commit(stream.cur, stream.buf) ELSE UNCHANGED storeVars
    /\ pc' = "fail"
    /\ stream' = NoStream
    /\ UNCHANGED <<now, cmd, plan, queue, todo, job>>

\* A JV-Link error, a dead bridge, or the resume file not found by JVSkip.
StreamError ==
    /\ pc = "fetch"
    /\ "stream" \in Faults \/ (stream.opened /\ SkipMissing)
    /\ pc' = "fail"
    /\ stream' = NoStream
    /\ UNCHANGED <<storeVars, now, cmd, plan, queue, todo, job>>

\* The bridge cannot be started: the remaining runs would fail the same way.
SpawnError ==
    /\ pc = "fetch" /\ ~stream.opened
    /\ "spawn" \in Faults
    /\ pc' = "abort"
    /\ UNCHANGED <<storeVars, now, cmd, plan, queue, todo, job, stream>>

(***************************************************************************)
(* The ends of run_window and run_diff.                                    *)
(***************************************************************************)
\* Mutant: the cursor is set to the time the window is finished.
CursorTsIsNow == IF job.end # NoEnd THEN Null ELSE now

CursorTs ==
    IF job.end # NoEnd THEN Null ELSE IF stream.ts = Null THEN job.lo ELSE stream.ts

EndJob(next) == pc' = next /\ job' = NoJob /\ stream' = NoStream
Abort == pc' = "abort" /\ UNCHANGED <<job, stream>>

FinishSetup(out) ==
    /\ pc = "finish" /\ job.mode = "setup"
    /\ Attempt(FinishWindow(job.run, JobWindow, stream.ts, CursorTs), out)
    /\ IF out = "ok" THEN EndJob("windows") ELSE Abort
    /\ UNCHANGED <<now, cmd, plan, queue, todo>>

Advance(out) ==
    /\ pc = "advance"
    /\ Attempt(AdvanceCursor(job.spec, stream.ts), out)
    /\ pc' = IF out = "ok" THEN "finish" ELSE "abort"
    /\ UNCHANGED <<now, cmd, plan, queue, todo, job, stream>>

FinishDiff(out) ==
    /\ pc = "finish" /\ job.mode = "normal"
    /\ Attempt(FinishDiffRun(job.run, "done"), out)
    /\ IF out = "ok" THEN EndJob("diffs") ELSE Abort
    /\ UNCHANGED <<now, cmd, plan, queue, todo>>

\* Mutant: every failure ends the list.
RecordFailureStops(out) ==
    /\ pc \in {"fail", "abort"}
    /\ IF job.mode = "setup"
       THEN /\ Attempt(FailWindow(job.run, JobWindow), out)
            /\ EndJob(AfterWindows)
            /\ queue' = {}
            /\ UNCHANGED todo
       ELSE /\ Attempt(FinishDiffRun(job.run, "failed"), out)
            /\ EndJob("normalize")
            /\ todo' = {}
            /\ UNCHANGED queue
    /\ UNCHANGED <<now, cmd, plan>>

\* Err from the loop: record it (a failure to record is only logged).  A
\* systemic error ("abort") drops the rest of the list, any other goes on.
RecordFailure(out) ==
    /\ pc \in {"fail", "abort"}
    /\ IF job.mode = "setup"
       THEN /\ Attempt(FailWindow(job.run, JobWindow), out)
            /\ EndJob(IF pc = "fail" THEN "windows" ELSE AfterWindows)
            /\ queue' = IF pc = "fail" THEN queue ELSE {}
            /\ UNCHANGED todo
       ELSE /\ Attempt(FinishDiffRun(job.run, "failed"), out)
            /\ EndJob(IF pc = "fail" THEN "diffs" ELSE "normalize")
            /\ todo' = IF pc = "fail" THEN todo ELSE {}
            /\ UNCHANGED queue
    /\ UNCHANGED <<now, cmd, plan>>

(***************************************************************************)
(* resume: differential fetch and normalize.                               *)
(***************************************************************************)
ListCursors(out) ==
    /\ pc = "cursors"
    /\ IF out = "ok" THEN /\ todo' = {c \in AllCursors : c.spec \in NormalSpecs}
                          /\ pc' = "diffs"
                          /\ UNCHANGED <<cmd, plan, queue, job, stream>>
                     ELSE Exit
    /\ UNCHANGED <<storeVars, now>>

RunDiff(c, out) ==
    /\ pc = "diffs"
    /\ c \in todo
    /\ Attempt(BeginDiffRun(c.spec, c.from), out)
    /\ todo' = IF out = "ok" THEN todo \ {c} ELSE {}
    /\ pc' = IF out = "ok" THEN "fetch" ELSE "normalize"
    /\ job' = IF out = "ok"
              THEN [mode |-> "normal", spec |-> c.spec, lo |-> c.from,
                    end |-> NoEnd, skip |-> Null, run |-> nextRun']
              ELSE NoJob
    /\ stream' = NoStream
    /\ UNCHANGED <<now, cmd, plan, queue>>

DiffsDone ==
    /\ pc = "diffs" /\ todo = {}
    /\ pc' = "normalize"
    /\ UNCHANGED <<storeVars, now, cmd, plan, queue, todo, job, stream>>

\* store::normalize_pending, the subject of Normalize.tla: it touches no
\* table of this module.  The command then returns.
Normalize ==
    /\ pc = "normalize"
    /\ Exit
    /\ UNCHANGED <<storeVars, now>>

(***************************************************************************)
(* The environment.                                                        *)
(***************************************************************************)
Kill ==
    /\ "kill" \in Faults
    /\ pc # "idle"
    /\ Exit
    /\ UNCHANGED <<storeVars, now>>

Provide ==
    /\ now < MaxTime
    /\ now' = now + 1
    /\ UNCHANGED <<storeVars, procVars>>

ProcessStep ==
    \/ \E w \in Windows, out \in Outcomes : \E e \in EndChoices(w) : Seed(w, e, out)
    \/ SeedDone
    \/ \E out \in Outcomes :
          \/ ListPending(out)
          \/ \E q \in queue : RunWindow(q, out)
          \/ \E ts \in FileTimes[job.spec] \union {Null} : OpenOk(ts, out)
          \/ \E f \in FileTimes[job.spec] : FileBeginLeftover(f, out)
          \/ FileEnd(out)
          \/ DoneLeftover(out)
          \/ FinishSetup(out)
          \/ Advance(out)
          \/ FinishDiff(out)
          \/ RecordFailure(out)
          \/ ListCursors(out)
          \/ \E c \in todo : RunDiff(c, out)
    \/ WindowsDone
    \/ NoData
    \/ \E f \in FileTimes[job.spec] : FileBegin(f)
    \/ Record
    \/ Done
    \/ StreamError
    \/ SpawnError
    \/ DiffsDone
    \/ Normalize

Next ==
    \/ ProcessStep
    \/ \E P \in SUBSET Windows \ {{}} : StartCommand("backfill", P)
    \/ StartCommand("resume", {})
    \/ \E w \in Windows : Abandon(w)
    \/ Kill
    \/ Provide

Spec == Init /\ [][Next]_vars

\* Every call of the process returns: the bridge gives up after a bounded
\* number of quiet polls and the pool's acquire has a timeout.
FairSpec == Spec /\ WF_vars(ProcessStep)
=============================================================================
