------------------------------ MODULE PairProofs ------------------------------
(***************************************************************************)
(* Proofs about two processes over one set of tables.  A step of one of    *)
(* them is a step of Importer, to which the theorems of ImporterSafety     *)
(* apply; for the other it only adds records, moves cursors forward and    *)
(* leaves the tables covered, which keeps all it relies on without the     *)
(* lock (SharedInv).  With the lock the other one is idle.  That records   *)
(* are counted once is about the tables alone, and needs neither.          *)
(***************************************************************************)
EXTENDS IngestPair, TLAPS

(***************************************************************************)
(* Both processes see the same tables.                                     *)
(***************************************************************************)
LEMMA SameTypes ==
    /\ A!TypeOK <=> A!StoreTypeOK /\ A!ProcTypeOK
    /\ B!TypeOK <=> B!StoreTypeOK /\ B!ProcTypeOK
    /\ A!StoreTypeOK <=> B!StoreTypeOK
  BY DEF A!TypeOK, B!TypeOK, A!StoreTypeOK, B!StoreTypeOK, A!ProcTypeOK, B!ProcTypeOK,
         A!CheckpointRows, B!CheckpointRows, A!RunRows, B!RunRows, A!RunIds, B!RunIds,
         A!Times, B!Times, A!WindowStates, B!WindowStates, A!RunStatuses, B!RunStatuses,
         A!Null, B!Null, A!NoEnd, B!NoEnd

LEMMA SameCover ==
    /\ \A d, f : A!Stored(d, f) <=> B!Stored(d, f)
    /\ \A d, S : A!AllStored(d, S) <=> B!AllStored(d, S)
    /\ \A d, lo, hi : A!FilesBetween(d, lo, hi) = B!FilesBetween(d, lo, hi)
    /\ \A w : A!SpecOf(w) = B!SpecOf(w) /\ A!StartOf(w) = B!StartOf(w)
    /\ A!Null = B!Null /\ A!NoEnd = B!NoEnd
  BY DEF A!Stored, B!Stored, A!AllStored, B!AllStored, A!FilesBetween, B!FilesBetween,
         A!SpecOf, B!SpecOf, A!StartOf, B!StartOf, A!Null, B!Null, A!NoEnd, B!NoEnd

LEMMA SameData ==
    /\ A!TableData <=> B!TableData
    /\ A!DataInv <=> B!DataInv
  BY SameCover
  DEF A!TableData, B!TableData, A!DataInv, B!DataInv, A!ResumePointStored, B!ResumePointStored,
      A!CursorIsCovered, B!CursorIsCovered, A!FilesAreWhole, B!FilesAreWhole,
      A!DoneIsComplete, B!DoneIsComplete

LEMMA SameRuns == A!RunsInv <=> B!RunsInv
  BY SameCover
  DEF A!RunsInv, B!RunsInv, A!RunningRunIsLast, B!RunningRunIsLast, A!DiffRunsAreSerial,
      B!DiffRunsAreSerial, A!StateMatchesRun, B!StateMatchesRun, A!RunIds, B!RunIds

LEMMA SameCounts == A!CountsInv <=> B!CountsInv
<1>1. A!StoredByRuns = B!StoredByRuns
  BY DEF A!StoredByRuns, B!StoredByRuns
<1>2. A!Cardinality(raw) = B!Cardinality(raw) /\ (A!IsFiniteSet(raw) <=> B!IsFiniteSet(raw))
  BY DEF A!Cardinality, B!Cardinality, A!IsFiniteSet, B!IsFiniteSet
<1> QED BY <1>1, <1>2 DEF A!CountsInv, B!CountsInv, A!RunIds, B!RunIds,
                          A!EachRecordCountedOnce, B!EachRecordCountedOnce

\* The same of the next state.
LEMMA SameNext ==
    /\ A!StoreTypeOK' <=> B!StoreTypeOK'
    /\ A!TypeOK' <=> A!StoreTypeOK' /\ A!ProcTypeOK'
    /\ B!TypeOK' <=> B!StoreTypeOK' /\ B!ProcTypeOK'
    /\ A!TableData' <=> B!TableData'
    /\ A!DataInv' <=> B!DataInv'
    /\ A!RunsInv' <=> B!RunsInv'
  BY SameTypes, SameData, SameRuns, PTL

LEMMA SameCountsNext == A!CountsInv' <=> B!CountsInv'
  BY SameCounts, PTL

(***************************************************************************)
(* One process takes a step.                                               *)
(***************************************************************************)
\* Types of the one that does not.
LEMMA TypesOfB ==
    ASSUME A!TypeOK', B!TypeOK, UNCHANGED procB
    PROVE  B!TypeOK'
<1>1. B!ProcTypeOK'
  BY SameTypes, SameNext
  DEF procB, A!ProcTypeOK, B!ProcTypeOK, A!PcValues, B!PcValues, A!Jobs, B!Jobs,
      A!Streams, B!Streams, A!Times, B!Times, A!RunIds, B!RunIds, A!Null, B!Null, A!NoEnd, B!NoEnd
<1> QED BY <1>1, SameNext

LEMMA TypesOfA ==
    ASSUME B!TypeOK', A!TypeOK, UNCHANGED procA
    PROVE  A!TypeOK'
<1>1. A!ProcTypeOK'
  BY SameTypes, SameNext
  DEF procA, A!ProcTypeOK, B!ProcTypeOK, A!PcValues, B!PcValues, A!Jobs, B!Jobs,
      A!Streams, B!Streams, A!Times, B!Times, A!RunIds, B!RunIds, A!Null, B!Null, A!NoEnd, B!NoEnd
<1> QED BY <1>1, SameNext

LEMMA StepOfA ==
    ASSUME A!SharedInv, B!SharedInv, [A!Next]_(A!vars), UNCHANGED procB
    PROVE  A!SharedInv' /\ B!SharedInv'
<1>1. A!SharedInv'
  BY PairConstants, A!SharedNext
<1>2. raw \subseteq raw' /\ nextRun' >= nextRun /\ \A d \in Specs : cursors'[d] >= cursors[d]
  BY PairConstants, A!SharedSteps
<1>3. B!TypeOK' /\ B!TableData'
  BY <1>1, TypesOfB, SameNext DEF A!SharedInv, B!SharedInv
<1>4. UNCHANGED B!procVars
  BY DEF procB, B!procVars
<1>5. B!SharedInv'
  BY PairConstants, <1>2, <1>3, <1>4, B!SharedFrame
<1> QED BY <1>1, <1>5

LEMMA StepOfB ==
    ASSUME A!SharedInv, B!SharedInv, [B!Next]_(B!vars), UNCHANGED procA
    PROVE  A!SharedInv' /\ B!SharedInv'
<1>1. B!SharedInv'
  BY PairConstants, B!SharedNext
<1>2. raw \subseteq raw' /\ nextRun' >= nextRun /\ \A d \in Specs : cursors'[d] >= cursors[d]
  BY PairConstants, B!SharedSteps
<1>3. A!TypeOK' /\ A!TableData'
  BY <1>1, TypesOfA, SameNext DEF A!SharedInv, B!SharedInv
<1>4. UNCHANGED A!procVars
  BY DEF procA, A!procVars
<1>5. A!SharedInv'
  BY PairConstants, <1>2, <1>3, <1>4, A!SharedFrame
<1> QED BY <1>1, <1>5

\* Whoever commits, the counters of the runs add up.
LEMMA CountsOfBoth ==
    ASSUME A!SharedInv, B!SharedInv, A!SharedInv', B!SharedInv', A!CountsInv,
           \/ [A!Next]_(A!vars)
           \/ [B!Next]_(B!vars)
    PROVE  A!CountsInv'
<1>1. CASE [A!Next]_(A!vars)
  BY <1>1, PairConstants, A!CountsNext DEF A!SharedInv
<1>2. CASE [B!Next]_(B!vars)
  BY <1>2, PairConstants, B!CountsNext, SameCounts, SameCountsNext DEF B!SharedInv
<1> QED BY <1>1, <1>2

\* The same where the other one is idle: both keep all.
LEMMA AloneA ==
    ASSUME A!IInv, B!IInv, pcB = "idle", [A!Next]_(A!vars), UNCHANGED procB
    PROVE  A!IInv' /\ B!IInv'
<1>1. A!IInv'
  BY PairConstants, A!IInvNext
<1>2. A!SharedInv
  BY PairConstants, A!AloneIsShared
<1>3. raw \subseteq raw' /\ nextRun' >= nextRun /\ \A d \in Specs : cursors'[d] >= cursors[d]
  BY PairConstants, <1>2, A!SharedSteps
<1>4. B!TypeOK' /\ B!RunsInv' /\ B!DataInv'
  BY <1>1, TypesOfB, SameNext DEF A!IInv, B!IInv
<1>5. UNCHANGED B!procVars
  BY DEF procB, B!procVars
<1>6. B!IInv'
  BY PairConstants, <1>3, <1>4, <1>5, B!IdleFrame
<1> QED BY <1>1, <1>6

LEMMA AloneB ==
    ASSUME A!IInv, B!IInv, pcA = "idle", [B!Next]_(B!vars), UNCHANGED procA
    PROVE  A!IInv' /\ B!IInv'
<1>1. B!IInv'
  BY PairConstants, B!IInvNext
<1>2. B!SharedInv
  BY PairConstants, B!AloneIsShared
<1>3. raw \subseteq raw' /\ nextRun' >= nextRun /\ \A d \in Specs : cursors'[d] >= cursors[d]
  BY PairConstants, <1>2, B!SharedSteps
<1>4. A!TypeOK' /\ A!RunsInv' /\ A!DataInv'
  BY <1>1, TypesOfA, SameNext DEF A!IInv, B!IInv
<1>5. UNCHANGED A!procVars
  BY DEF procA, A!procVars
<1>6. A!IInv'
  BY PairConstants, <1>3, <1>4, <1>5, A!IdleFrame
<1> QED BY <1>1, <1>6

(***************************************************************************)
(* Whose step each action is.                                              *)
(***************************************************************************)
\* An action on lock and lost alone is a step of neither.
LEMMA WhoSteps ==
    ASSUME [Next]_vars
    PROVE  \/ [A!Next]_(A!vars) /\ UNCHANGED procB
           \/ [B!Next]_(B!vars) /\ UNCHANGED procA
<1>1. CASE StartA
  BY <1>1 DEF StartA, A!Next
<1>2. CASE StartB
  BY <1>2 DEF StartB, B!Next
<1>3. CASE Abandon
  BY <1>3 DEF Abandon, A!Next, B!Next
<1>4. CASE Release \/ LoseLock \/ UNCHANGED vars
  BY <1>4 DEF Release, LoseLock, vars, procA, A!vars, A!storeVars, A!procVars
<1>5. CASE StepA
  BY <1>5 DEF StepA, A!Next
<1>6. CASE StepB
  BY <1>6 DEF StepB, B!Next
<1>7. CASE Provide
  BY <1>7 DEF Provide, A!Next
<1> QED BY <1>1, <1>2, <1>3, <1>4, <1>5, <1>6, <1>7 DEF Next

\* A process that takes a step of its own is one that already held the lock.
LEMMA PairIdle ==
    ASSUME PairInv, [Next]_vars, ~lost'
    PROVE  /\ ~lost /\ A!IInv /\ B!IInv
           /\ \/ pcB = "idle" /\ [A!Next]_(A!vars) /\ UNCHANGED procB
              \/ pcA = "idle" /\ [B!Next]_(B!vars) /\ UNCHANGED procA
<1>1. ~lost
  BY DEF Next, StartA, StartB, Abandon, Release, LoseLock, StepA, StepB, Provide, vars
<1>2. /\ A!IInv /\ B!IInv
      /\ pcA # "idle" => lock = "A"
      /\ pcB # "idle" => lock = "B"
  BY <1>1 DEF PairInv
<1>3. CASE StartA
  BY <1>1, <1>2, <1>3 DEF StartA, A!Next
<1>4. CASE StartB
  BY <1>1, <1>2, <1>4 DEF StartB, B!Next
<1>5. CASE Abandon
  BY <1>1, <1>2, <1>5 DEF Abandon, A!Next, B!Next
<1>6. CASE StepA
  BY <1>1, <1>2, <1>6, PairConstants, A!WorkIsNotIdle DEF StepA, A!Next
<1>7. CASE StepB
  BY <1>1, <1>2, <1>7, PairConstants, B!WorkIsNotIdle DEF StepB, B!Next
<1>8. CASE Provide
  <2>1. [A!Next]_(A!vars) /\ UNCHANGED procB
    BY <1>8 DEF Provide, A!Next
  <2>2. [B!Next]_(B!vars) /\ UNCHANGED procA
    BY <1>8 DEF Provide, A!Provide, B!Next, B!Provide, A!storeVars, B!storeVars,
                A!procVars, B!procVars, procA, procB
  <2> QED BY <1>1, <1>2, <2>1, <2>2
<1>9. CASE UNCHANGED vars \/ Release \/ LoseLock
  <2>1. [A!Next]_(A!vars) /\ UNCHANGED procB /\ [B!Next]_(B!vars) /\ UNCHANGED procA
    BY <1>9 DEF Release, LoseLock, vars, procA, procB, A!vars, A!storeVars, A!procVars,
                B!vars, B!storeVars, B!procVars
  <2> QED BY <1>1, <1>2, <2>1
<1> QED BY <1>3, <1>4, <1>5, <1>6, <1>7, <1>8, <1>9 DEF Next

\* A process gets to work with the lock only, and gives it back when it is idle.
LEMMA HolderWorks ==
    ASSUME PairInv, [Next]_vars, ~lost'
    PROVE  /\ pcA' # "idle" => lock' = "A"
           /\ pcB' # "idle" => lock' = "B"
<1>1. ~lost /\ (pcA # "idle" => lock = "A") /\ (pcB # "idle" => lock = "B")
  BY PairIdle DEF PairInv
<1>2. CASE StepA
  BY <1>1, <1>2, PairConstants, A!WorkIsNotIdle DEF StepA, procB
<1>3. CASE StepB
  BY <1>1, <1>3, PairConstants, B!WorkIsNotIdle DEF StepB, procA
<1>4. CASE StartA
  BY <1>1, <1>4 DEF StartA, procB
<1>5. CASE StartB
  BY <1>1, <1>5 DEF StartB, procA
<1>6. CASE Release
  BY <1>1, <1>6 DEF Release, procA, procB
<1>7. CASE LoseLock
  BY <1>7 DEF LoseLock
<1>8. CASE Abandon \/ Provide \/ UNCHANGED vars
  BY <1>1, <1>8 DEF Abandon, Provide, vars, procA, procB, A!Abandon, B!Abandon, A!Provide,
                    A!procVars, B!procVars
<1> QED BY <1>2, <1>3, <1>4, <1>5, <1>6, <1>7, <1>8 DEF Next

LEMMA PairInvInit == Init => PairInv
<1> SUFFICES ASSUME Init PROVE PairInv
  OBVIOUS
<1>1. A!IInv /\ B!IInv
  BY PairConstants, A!IInvInit, B!IInvInit DEF Init
<1>2. A!SharedInv /\ B!SharedInv
  BY PairConstants, <1>1, A!AloneIsShared, B!AloneIsShared
<1>3. pcA = "idle" /\ pcB = "idle"
  BY DEF Init, A!Init, B!Init
<1>4. A!CountsInv
  BY PairConstants, A!CountsInit DEF Init
<1> QED BY <1>1, <1>2, <1>3, <1>4 DEF PairInv

LEMMA PairInvNext == PairInv /\ [Next]_vars => PairInv'
<1> SUFFICES ASSUME PairInv, [Next]_vars PROVE PairInv'
  OBVIOUS
<1>1. A!SharedInv' /\ B!SharedInv'
  BY WhoSteps, StepOfA, StepOfB DEF PairInv
<1>2. ASSUME ~lost'
      PROVE  A!IInv' /\ B!IInv'
  BY <1>2, PairIdle, AloneA, AloneB
<1>3. ASSUME ~lost'
      PROVE  (pcA' # "idle" => lock' = "A") /\ (pcB' # "idle" => lock' = "B")
  BY <1>3, HolderWorks
<1>4. A!CountsInv'
  BY <1>1, WhoSteps, CountsOfBoth DEF PairInv
<1> QED BY <1>1, <1>2, <1>3, <1>4 DEF PairInv

(***************************************************************************)
(* The theorems.                                                           *)
(***************************************************************************)
\* The inductive invariant of two processes: while the lock was never lost each
\* has all that one process alone has, and what it keeps without the lock it
\* always has, for every set of dataspecs, windows and files, every combination
\* of faults of either process, and every command of the second.
THEOREM PairSafety == Spec => []PairInv
  BY PairInvInit, PairInvNext, PTL DEF Spec

\* While no holder has lost the advisory lock, two processes are as safe as one:
\* what begin_window, finish_window and fail_window assume of each other, and
\* what run_pending assumes of the list it read, holds (main.rs:114-121).
THEOREM LockIsEnough == Spec => []SafeWhileLocked
<1>1. PairInv => SafeWhileLocked
  BY DEF PairInv, SafeWhileLocked, A!IInv, B!IInv, A!DataInv, A!RunsInv, A!ListsInv, B!ListsInv
<1> QED BY <1>1, PairSafety, PTL

\* Without the lock the resume point of a window is still behind the data: a
\* second process only adds files, and commit_file moves last_file only to a
\* file all of whose predecessors the run has seen stored (ingest.rs:185-274).
THEOREM SharedResumePoints == Spec => []ResumePointStored
<1>1. PairInv => ResumePointStored
  BY DEF PairInv, ResumePointStored, A!SharedInv, A!TableData
<1> QED BY <1>1, PairSafety, PTL

\* Without the lock the cursor of a dataspec is still behind the data, although
\* both processes advance it (finish_window, advance_cursor, ingest.rs:308-327,
\* 429-450).
THEOREM SharedCursors == Spec => []CursorIsCovered
<1>1. PairInv => CursorIsCovered
  BY DEF PairInv, CursorIsCovered, A!SharedInv, A!TableData
<1> QED BY <1>1, PairSafety, PTL

\* Two processes may read and commit the same file; its records are inserted, and
\* counted, by one run only, with or without the lock (ingest.rs:217-245).
THEOREM SharedRecordsAreCountedOnce == Spec => []EachRecordCountedOnce
<1>1. PairInv => EachRecordCountedOnce
  BY DEF PairInv, EachRecordCountedOnce, A!CountsInv
<1> QED BY <1>1, PairSafety, PTL

\* The promise is about the tables, so it is the same seen by either process.
LEMMA SamePromise ==
    [B!Promise!Next]_(B!Promise!vars) => [A!Promise!Next]_(A!Promise!vars)
<1>1. A!StoredFiles = B!StoredFiles /\ A!WindowStarts = B!WindowStarts
  BY SameCover DEF A!StoredFiles, B!StoredFiles, A!WindowStarts, B!WindowStarts
<1>2. A!StoredFiles' = B!StoredFiles'
  BY DEF A!StoredFiles, B!StoredFiles, A!Stored, B!Stored
<1> QED BY <1>1, <1>2 DEF A!Promise!Next, B!Promise!Next, A!Promise!vars, B!Promise!vars,
      A!Promise!StoreFile, B!Promise!StoreFile, A!Promise!MoveOn, B!Promise!MoveOn

\* Two processes, with or without the lock, still implement IngestPromise: a step
\* of either is one file stored whole, one cursor moved over stored files, or
\* nothing that is seen from outside (main.rs:114-121, ingest.rs:1-2).
THEOREM PairImplementsPromise == Spec => KeepsPromise
<1>1. Init => A!Promise!Init
  BY PairConstants, A!PromiseInit DEF Init
<1>2. PairInv /\ [Next]_vars => [A!Promise!Next]_(A!Promise!vars)
  BY PairConstants, WhoSteps, A!PromiseNext, B!PromiseNext, SamePromise DEF PairInv
<1> QED BY <1>1, <1>2, PairSafety, PTL DEF Spec, KeepsPromise, A!KeepsPromise, A!Promise!Spec
=============================================================================
