------------------------------ MODULE IngestPair ------------------------------
(***************************************************************************)
(* Two jvdata processes over one set of ingest.* tables, and the advisory  *)
(* lock that keeps them apart (store/src/lib.rs:49-61, main.rs:114-121).   *)
(*                                                                         *)
(* The lock belongs to a session of its own: it goes when that connection  *)
(* breaks, and the process, whose pool reconnects, never looks at it       *)
(* again.  Without the lock a command is refused, which changes nothing.   *)
(***************************************************************************)
EXTENDS Integers, FiniteSets

CONSTANTS Specs, EndTimeSpecs, NormalSpecs, Windows, FileTimes, Rank, RecCount, MaxRuns,
          MaxTime,
          FaultsA, FaultsB,       \* what can happen to the one process and to the other
          CommandsB               \* bound: the commands of the second process

VARIABLES
    checkpoints, runs, nextRun, cursors, raw, now,      \* shared: the store, JRA-VAN
    pcA, cmdA, planA, queueA, todoA, jobA, streamA,     \* one process
    pcB, cmdB, planB, queueB, todoB, jobB, streamB,     \* the other
    lock,                                               \* who holds the advisory lock
    lost                                                \* a holder has lost it while it ran

procA == <<pcA, cmdA, planA, queueA, todoA, jobA, streamA>>
procB == <<pcB, cmdB, planB, queueB, todoB, jobB, streamB>>
vars == <<checkpoints, runs, nextRun, cursors, raw, now, procA, procB, lock, lost>>

A == INSTANCE ImporterSafety WITH
        pc <- pcA, cmd <- cmdA, plan <- planA, queue <- queueA, todo <- todoA,
        job <- jobA, stream <- streamA, Faults <- FaultsA
B == INSTANCE ImporterSafety WITH
        pc <- pcB, cmd <- cmdB, plan <- planB, queue <- queueB, todo <- todoB,
        job <- jobB, stream <- streamB, Faults <- FaultsB

\* The constants are those of the importer, with what can happen to either process.
ASSUME PairConstants ==
    A!StoreConstants /\ A!ImporterConstants /\ B!ImporterConstants

Init == A!Init /\ B!Init /\ lock = "none" /\ lost = FALSE

(***************************************************************************)
(* The lock.                                                               *)
(***************************************************************************)
\* Bound: a command starts only while run ids are left for both processes.
RunsLeft == nextRun + 2 * (Cardinality(Windows) + Cardinality(Specs)) <= MaxRuns

\* pg_try_advisory_lock, then the command.
StartA ==
    /\ RunsLeft
    /\ lock = "none" /\ lock' = "A"
    /\ \/ \E P \in SUBSET Windows \ {{}} : A!StartCommand("backfill", P)
       \/ A!StartCommand("resume", {})
    /\ UNCHANGED <<procB, lost>>

\* Mutant: the command goes on without the lock.
StartBUnlocked ==
    /\ RunsLeft /\ pcA # "idle"
    /\ \/ "backfill" \in CommandsB /\ \E P \in SUBSET Windows \ {{}} : B!StartCommand("backfill", P)
       \/ "resume" \in CommandsB /\ B!StartCommand("resume", {})
    /\ UNCHANGED <<procA, lock, lost>>

\* Two idle processes are the same: B is the one that starts second.
StartB ==
    /\ RunsLeft /\ pcA # "idle"
    /\ lock = "none" /\ lock' = "B"
    /\ \/ "backfill" \in CommandsB /\ \E P \in SUBSET Windows \ {{}} : B!StartCommand("backfill", P)
       \/ "resume" \in CommandsB /\ B!StartCommand("resume", {})
    /\ UNCHANGED <<procA, lost>>

\* abandon is one transaction: it takes the lock and gives it back.
Abandon ==
    /\ lock = "none"
    /\ \E w \in Windows : (A!Abandon(w) /\ UNCHANGED procB) \/ (B!Abandon(w) /\ UNCHANGED procA)
    /\ UNCHANGED <<lock, lost>>

\* The server sees the session of a process that is gone end; this may be later
\* than the exit (the drop of IngestLock is not awaited).
Release ==
    /\ (lock = "A" /\ pcA = "idle") \/ (lock = "B" /\ pcB = "idle")
    /\ lock' = "none"
    /\ UNCHANGED <<checkpoints, runs, nextRun, cursors, raw, now, procA, procB, lost>>

\* The lock's connection breaks; the process goes on.
LoseLock ==
    /\ (lock = "A" /\ pcA # "idle") \/ (lock = "B" /\ pcB # "idle")
    /\ lock' = "none" /\ lost' = TRUE
    /\ UNCHANGED <<checkpoints, runs, nextRun, cursors, raw, now, procA, procB>>

(***************************************************************************)
(* The processes.                                                          *)
(***************************************************************************)
StepA == (A!ProcessStep \/ A!Kill) /\ UNCHANGED <<procB, lock, lost>>
StepB == (B!ProcessStep \/ B!Kill) /\ UNCHANGED <<procA, lock, lost>>
Provide == A!Provide /\ UNCHANGED <<procB, lock, lost>>

Next == StartA \/ StartB \/ Abandon \/ Release \/ LoseLock \/ StepA \/ StepB \/ Provide

Spec == Init /\ [][Next]_vars

(***************************************************************************)
(* What the lock is for, and what two processes at once do not break.      *)
(***************************************************************************)
\* As long as no holder has lost the lock, what one process guarantees holds with
\* two: done windows are complete, checkpoints agree with runs, and what either
\* process has read before is still true (main.rs:114-121).
SafeWhileLocked ==
    ~lost => /\ A!DoneIsComplete /\ A!StateMatchesRun
             /\ A!SnapshotIsFresh /\ B!SnapshotIsFresh

\* Even without the lock, whatever the other process commits, folds, re-seeds or
\* abandons meanwhile, the resume point never gets ahead of the data ...
ResumePointStored == A!ResumePointStored

\* ... nor does the cursor, although both may finish the same window.
CursorIsCovered == A!CursorIsCovered

\* Records are counted once although both processes may commit the same file: the
\* upsert of the one counts nothing that the other has stored (ingest.rs:217-245).
EachRecordCountedOnce == A!EachRecordCountedOnce

\* Seen from outside, two processes do no more than one: whatever the other does
\* meanwhile, files are stored whole and for good, and the start of the next
\* differential fetch moves forward, and over stored files only.
KeepsPromise == A!KeepsPromise

(***************************************************************************)
(* The inductive invariant.                                                *)
(***************************************************************************)
\* While the lock was never lost, a process that is not idle holds it, so each
\* process has the whole invariant of one that is alone; afterwards each keeps the
\* part that the other cannot break.
PairInv ==
    /\ A!SharedInv /\ B!SharedInv
    /\ A!CountsInv
    /\ ~lost => /\ pcA # "idle" => lock = "A"
                /\ pcB # "idle" => lock = "B"
                /\ A!IInv /\ B!IInv

(***************************************************************************)
(* Statements of the repository that the code does not keep.               *)
(***************************************************************************)
\* main.rs:114-118: a second process at the same time loses no data; it only
\* makes resuming take a detour.  So a file in the range of a window that is done,
\* and will not be run again, is stored or still ahead of the cursor.
NothingIsLost ==
    \A w \in Windows :
        checkpoints[w].state = "done" /\ checkpoints[w].end # A!NoEnd =>
            \A f \in A!FilesBetween(w[1], w[2], checkpoints[w].end) :
                \/ A!Stored(w[1], f)
                \/ cursors[w[1]] # A!Null /\ cursors[w[1]] < f
=============================================================================
