# Verification of jvdata-pipeline

`jvdata-pipeline` fetches racing data from JRA-VAN (JV-Link, a Windows COM
object run under wine) into PostgreSQL: raw records in the schema `ingest`, and
the entities parsed from them in the schema `jv`. This directory holds a TLA+
model of the parts whose correctness depends on order, failure and restart, the
TLC configurations that check it on small instances, and proofs checked by TLAPS
for every instance.

Paths below are relative to `src/crates/`; `ingest.rs` is
`store/src/ingest.rs` unless the importer's is named.

## 1. The system

| component | source | state it keeps | operations |
|---|---|---|---|
| Planning | `jvdata-core/src/plan.rs`, `dataspec.rs` | none (pure) | `setup_windows`: a date range becomes windows of a year, the last open-ended |
| Importer | `importer-cli/src/main.rs`, `importer-cli/src/ingest.rs` | locals of one process: the list of windows, the list of cursors, the run in progress, the stream | `backfill`, `resume`, `abandon`, `run_window`, `run_diff` |
| Store | `store/src/ingest.rs`, migrations 0001, 0006 | `checkpoints` (a row per window), `runs`, `cursors` (a row per dataspec), `raw_records` | one transaction per operation: seed, begin, commit a file, finish, fail, abandon, advance the cursor |
| Normalizer | `store/src/normalize.rs`, migrations 0002-0005 | `parse_state` of raw records, the `jv.*` tables with `applied_raw_id`, tombstones, `parse_errors` | `normalize_pending`, `reset_parse_state` |
| Bridge client | `bridge/src/source.rs` | child process, task that reads its stdout, channel of 1024 frames | `fetch` (of a process or of a fixture directory), `next` |
| Bridge | `bridge/src/bin/jvlink-bridge.rs` | the JVGets loop, the current file, the stall counter | `fetch`: open, wait for the download, skip to the resume file, read |
| Frame protocol | `bridge/src/protocol.rs` | none | encode and decode frames |
| Record parser | `jvdata-core/src/parse.rs`, `record.rs`, `field.rs`, `model.rs` | none | `parse_record` |
| Advisory lock | `store/src/lib.rs` | a session lock of PostgreSQL | `try_ingest_lock` |
| Status, fixtures, deployment | `store/src/status.rs`, `bridge/src/fixture.rs`, `docker/`, `deploy/`, `scripts/` | none that decides anything | |

How they interact. A command takes the advisory lock, so one process works on
the tables at a time. `backfill` plans windows and seeds a checkpoint for each;
`run_pending` reads the unfinished checkpoints once and runs them in order. A
run opens a stream of frames (OpenOk, then FileBegin, Record..., FileEnd for each
file, then Done) from the bridge process, and commits each file in one
transaction that also moves the checkpoint. The open-ended window of a dataspec
leaves a cursor, from which `resume` fetches differences. Then the normalizer
applies the new raw records to `jv.*` in id order.

What is hard, and what makes each part correct:

* **Importer and store**: the process may die between any two transactions, a
  transaction may fail or commit without the client knowing, the stream may
  break anywhere. Correct means that no file between a window's start and its
  resume point, its end, or the cursor is ever missing from `raw_records`; that
  checkpoints and runs agree about what is running, done and failed; that what
  the process read before is still true when it is used; and that commands end.
* **Normalizer**: records are re-applied in odd orders by retries and reparses.
  Correct means that an entity only ever moves forward to later records, and
  shows exactly one of them.
* **Planning**: window borders are exclusive on one side and inclusive on the
  other, ranges change between backfills. Correct means that windows tile the
  range, and that a done window was fetched for the range it now has.
* **Bridge and its client**: the process, the pipe, the reading task, the channel
  and the consumer each may be the one that stops. Correct means that the
  consumer sees the files in order and whole, takes nothing for the end but Done
  or an error, and does not wait for ever; and that no bridge process is left
  behind, whoever went first.
* **The lock**: commands of two processes must not interleave. Correct means
  that with the lock everything above holds as for one process, and that what
  is lost with it is known.

`PROJECT.json` lists every hazard at the line where it bites, with the property
that would catch it.

## 2. The modules

```
CheckpointRow ── IngestStore ── Importer ── ImporterProps ─┬─ MCImporter
     │                                                     └─ ImporterProofs ── ImporterFetch ── ImporterSafety
     │                                                                                                │ (two instances)
     │                                                                         MCPair ── IngestPair ──┘
     │                                                                     PairProofs ──┘
     └── Planning ─┬─ MCPlanning
                   └─ PlanningProofs
Normalize ── NormalizeProps ── MCNormalize
                   └── NormalizeProofs
LatestTable  (abstract; instantiated in NormalizeProps)
IngestPromise  (abstract; instantiated in ImporterProps)
Frames ── BridgeFetch ── BridgeProps ── BridgeHistory ── BridgeProofs
   └───── FrameStream  (abstract; instantiated in BridgeProps)
Descent  (ImporterProps, NormalizeProps, BridgeProps)
   └── DescentProofs  (ImporterFetch, NormalizeProofs, BridgeProofs)
```

* `CheckpointRow`: one checkpoint row and what `seed_window` makes of it.
* `IngestStore`: the tables `checkpoints`, `runs`, `cursors`, `raw` and one
  operator per transaction of `ingest.rs`, its effect when it commits.
* `Importer`: the process. `pc` is where it is, `queue` and `todo` are the two
  lists that are read once, `job` the arguments of `run_window` or `run_diff`,
  `stream` the locals of the fetch loop. There is one action per frame handler
  and per call of the store, and each store call has the outcomes `ok`, `err`
  (rolled back) and `lost` (committed, but the client sees an error). `Kill`
  drops every process variable and no table.
* `ImporterProps`: the properties and the inductive invariant.
* `IngestPromise`: what fetching promises, seen from outside: files are stored whole
  and for good, and the time the next differential fetch starts after moves
  forward only over stored files. `Importer` is checked and proved to implement it,
  with the files of which all records are in `raw`, and `cursors` as they are.
* `ImporterProofs`, `ImporterFetch`, `ImporterSafety`: the proofs (types, checkpoints
  and runs; the process and its end; the data, the theorems and the accounting).
  `NormalizeProofs`, `BridgeProofs`: those of the normalizer and of the bridge.
* `Descent`: when one distance to the end is smaller than another (the first place
  where they differ decides); `DescentProofs` shows that there is no infinite descent.
* `Normalize`, `NormalizeProps`: the batch loop. `db` is what is committed,
  `work` the open transaction (empty when none is open); a record is applied, skipped or recorded as failed
  inside `work`, and `Commit` publishes it.
* `LatestTable`: what readers of `jv.*` are promised. The log grows, entities
  move forward in it and show what one record holds. `Normalize` is checked and
  proved to implement it, with the map of `NormalizeProps!Promise`: an entity's version is
  the raw id of its rows, or of its deletion.
* `Frames`: the kinds of frames and which may follow which. `FrameStream`: what
  `Source::fetch` promises, a consumer that receives such frames one by one.
* `BridgeFetch`: one fetch. `at`, `code`, `out`, `cur`, `stall` are the bridge
  process: its place in `fetch_inner`, exit code, the frames decided on and not
  yet written (`emit` writes and flushes before anything else happens), `cur_file`
  and the stall counter. `jv` is JV-Link (external): files downloaded, position,
  whether the end of the last file was reported. `host` is the task of
  `ProcessSource::fetch` or of `FixtureSource::fetch`, `pipe` and `chan` are
  bounded queues, `cons` and `last` the consumer. Each return code of JVGets in
  each of the two loops is an action, so are spawning, forwarding a frame, the end
  of stdout, the exit status, the exit timeout, and the four steps of the fixture task.
* `BridgeProps`: its properties, the mapping to `FrameStream` (which needs no
  more than `req` and `last`), the distance of a fetch from its end and the
  inductive invariant.
* `BridgeHistory`: the same fetch with a history variable, the last answer of
  JVStatus and how often in a row it came, and the property that needs it.
* `IngestPair`: two `Importer` processes (`A`, `B`) over one store, and the
  advisory lock: taken before a command, given back when the server sees the
  session end, lost when its connection breaks. It instantiates the module that holds
  the importer's theorems, so that `PairProofs` can cite them for either process.
* `Planning`: `setup_windows` on a calendar of short years, and what backfills,
  runs and abandonments of windows make of the checkpoints. A whole `run_window`
  is one step here. Its inductive invariant is at the end; `PlanningProofs` holds
  the proofs.

### Abstractions

* A file is the time at which JRA-VAN provides it; its name matters only through
  its position in name order (`Rank`), because the store compares names for
  `last_file`. A file has `RecCount` records, and reading it again yields the
  same bytes, so `raw` is a set of `<<dataspec, file, position>>`.
* `runs` keeps what decides or witnesses control: mode, window, status,
  `records_stored`. JVOpen's counts, messages and dates are left out.
* The option=4 range is read as provision time in `Importer` and as content date
  in `Planning`; the code treats both as one string comparison, and the order in
  which JV-Link returns files is taken to be provision order.
* The stream of `Importer` is any stream the bridge can produce: complete, broken
  at any point, without FileEnd, or refused because the resume file is not found.
* The frames of `BridgeFetch` carry a file number and a record's position; bytes,
  names and time stamps are left out. JV-Link hands out the files of the opened
  range in order and keeps its position when a call fails; it may fail any call,
  omit the -1 at the end of a file, and stop downloading for good, and JVGets
  may answer -3 for a file that JVOpen's `download_count` left out, so both
  waits can stall. A JVSkip either skips the file or does nothing, since its
  result is not looked at. Calls of JV-Link return: one that hangs is outside
  what the program handles. A file of a fixture has a record.
* A killed bridge dies, or only the `docker exec` client in front of it does: then
  the bridge finds out when it next writes. `HostKilled` closes the pipe and drops
  nothing.
* In `Normalize` a payload carries what parsing it yields for each parser
  version. Columns of `jv.*` rows are not modelled, the parser version that
  decoded them is.
* Bounds, all named: `MaxRuns`, `MaxTime` (Importer), `MaxRaw`, `MaxParser`
  (Normalize), `LastDay`, `FirstDays` (Planning),
  `MaxFiles` (BridgeFetch), `MaxTimes` (BridgeHistory), `CommandsB` (IngestPair: the commands of the second process). A command starts only while run
  ids are left for all it may use, so the bound never cuts a command short.

## 3. What is checked

Safety runs use `Spec`; liveness runs use `FairSpec`, that of the bridge
`FairHistorySpec`, the same with the history variable.

| run | instance | question |
|---|---|---|
| `importer_faults` | one window from 0, two files of two records at 1 and 3, all faults, 5 runs; 2.0 million states | Can any mixture of failures, lost acknowledgements, kills, re-seeds and abandonments lose a file (`ResumePointStored`, `DoneIsComplete`, `CursorIsCovered`), store one in part (`FilesAreWhole`), miscount (`FilesDoneCountsFiles`, `EachRecordCountedOnce`) or let checkpoints and runs disagree (`RunningRunIsLast`, `DiffRunsAreSerial`, `StateMatchesRun`)? Does the importer do nothing, seen from outside, but what `IngestPromise` allows (`KeepsPromise`)? |
| `importer_progress` | two dataspecs, one without end time, three windows, files whose names sort in reverse, streams keep breaking, 6 runs; 0.1 million states | Is what was read once still true when used (`SnapshotIsFresh`), does every step of a command bring it nearer to its end (`CommandsApproachTheirEnd`), does every command return, is every listed window run? |
| `bridge_fetch` | up to two files of two records, every resume file, pipe and channel of one frame, stall limit 2, all faults; 0.3 million states | Is the stream the promised one (`StreamInOrder`), does it end with Done or an error (`NeverEndsSilently`), does no step go round in circles (`FetchApproachesItsEnd`), does the consumer not wait for ever (`FetchEnds`), is a download given up when it stands still and only then (`OnlyStillDownloadsAreGivenUp`), does the bridge end (`BridgeEnds`)? |
| `ingest_pair` | one window, two files whose names sort in reverse, two processes, broken streams in the first, 5 runs; 1.7 million states | Does everything hold under the lock (`SafeWhileLocked`); what survives its loss (`ResumePointStored`, `CursorIsCovered`, `EachRecordCountedOnce`, `KeepsPromise`, which includes that cursors never move back)? |
| `normalize_payouts` | one race, four payout records, corrections and deletions, two parsers, failing statements, lost connections, kills; 1.3 million states | Does an entity show one record, the latest one, and never go back; do the tables implement `LatestTable`? |
| `normalize_progress` | two entities, records without key or of unsupported type, two runs, failing statements; 0.4 million states | Does every step bring the loop nearer to its end (`NormalizeApproachesItsEnd`), does it end, does a bad record not hold up the others, are failures counted exactly? |
| `planning_covers` | three years of two days, any `--to` on any day | Do plans tile, do done windows cover what they and the last backfill ask for? |

Five runs show statements of the repository that the code does not keep; each
has a finding in `PROJECT.json` with the line it contradicts:

| run | statement | what happens |
|---|---|---|
| `importer_reseed` | a window whose range changed is read from the start | a row left `running` by a killed process keeps its resume file |
| `pair_lost` | a second process at the same time loses nothing (`main.rs:114-118`) | a window is done for a range that was widened while it ran, and whose last file was not read |
| `normalize_empty` | an older record never rolls back a newer one | an HR record without payouts leaves no version |
| `normalize_decodes` | `reparse --all` decodes every record again | rows already applied from the same record are not rewritten |
| `planning_revival` | another `--to` revives an abandoned window | not if the window's own end stays the same |

Four more disagreements are listed among the hazards and need no run: `files_done`
counts a file twice on resume where names do not sort by provision time
(`ingest.rs:247-250` assumes they do); the first instant of `--from` is in
no window (`plan.rs:49` calls both days included); `resume` does not normalize when
reading the cursors fails (`main.rs:340`); and a stalled download is reported one
poll after the limit (`jvlink-bridge.rs:382-384`).

Why the bounds are enough. The importer treats windows independently except
through the list, and dataspecs except through run ids: two of each show the
interactions. Two files are needed for a resume point inside a window, with a
gap between them for a re-seed that leaves it outside. Five runs allow an interrupted backfill,
its repetition and two resumes. In the normalizer a record can be older than,
equal to, or newer than what is applied, and a third record is needed for a
deletion between two upserts; batches of two put records of one entity in the
same and in different transactions. For the bridge, two files show a
border with and without its -1 and a resume file that is first, second or missing, two
records a file that is left half-way; buffers of one frame make every writer
wait; a stall limit of 2 (the least the code allows) leaves room for progress between quiet polls. Two processes
need one window, since they meet only in its row and its cursor. Three years give a first, a middle and a
last window.

Fairness. `FairSpec` adds weak fairness of the process's own steps only
(`ProcessStep`), never of commands, faults or the provision of files: each call
of the process returns, since the pool's acquire and the bridge's waits are
bounded, and nothing else is assumed. No liveness is claimed with kills or with a
failing database, where the operator has to start the command again. In
`BridgeFetch` the bridge, the task and the consumer are weakly fair, each as a
whole: they are an operating-system process, a task of a fair runtime with a
timer, and a loop that awaits. Nothing makes JV-Link download (`Download`) and no
fault has to happen; the polls of JVStatus do go on, because sleeping ends.
`BridgeEnds` holds although `Spec` allows a kill to miss the bridge, a consumer
to leave while both buffers are full, and the importer to be killed.

## 4. What is proved

### The importer

Its safety is proved for all values of the constants that satisfy
`StoreConstants` and `ImporterConstants`: any set of dataspecs and windows, any
files and names, any number of records per file, every combination of faults.
TLC evaluates the two assumptions in every run of the importer.

| theorem | module | states |
|---|---|---|
| `TypeCorrect` | `ImporterProofs` | `Spec => []TypeOK` |
| `CursorsAreMonotone` | `ImporterFetch` | `Spec => CursorNeverMovesBack`, which TLC checks as a part of `KeepsPromise` |
| `Safety` | `ImporterSafety` | `Spec => []IInv` |
| `ResumePoints`, `DoneWindows`, `Cursors`, `WholeFiles` | `ImporterSafety` | `ResumePointStored`, `DoneIsComplete`, `CursorIsCovered`, `FilesAreWhole` |
| `SetupRunsAreSerial`, `DiffRuns`, `StatesMatchRuns` | `ImporterSafety` | `RunningRunIsLast`, `DiffRunsAreSerial`, `StateMatchesRun` |
| `Snapshots` | `ImporterSafety` | `SnapshotIsFresh` |
| `ImplementsPromise` | `ImporterSafety` | `Spec => KeepsPromise`: `Importer` implements `IngestPromise` |
| `RecordsAreCountedOnce` | `ImporterSafety` | `EachRecordCountedOnce` |
| `FilesAreCountedOnce` | `ImporterSafety` | `FilesDoneCountsFiles`, where names sort by provision time (`NamesInOrder`) |
| `CommandsEnd` | `ImporterFetch` | `CommandsApproachTheirEnd`, for finitely many windows and dataspecs (`FiniteTables`) |

The argument. None of the properties is inductive: `DoneIsComplete` survives
`FinishWindow` only because the stream has delivered the whole range, which was
true of the files below the resume point before the stream was opened, whose
range in turn is still that of the row. `IInv` (in `ImporterProps`) says so:

* `RunsInv`: run ids are handed out in order and a window's last run is a setup
  run of that window. Without it, folding or ending a run could change the
  status another window relies on.
* `JobInv`: a setup job is the last run of its window and everything up to its
  resume file is stored; a differential job starts at or before the cursor.
* `ListsInv`: the list of windows is used only while `run_pending` works, holds
  every window once, and agrees with the rows.
* `StreamInv`: of the opened range, every file up to the one being read is
  stored; after `Done`, all of it.
* `DataInv`: rows and cursors are covered by what is stored, whatever their
  state, so that a seed or a failure cannot uncover them.

`RunsNext`, `JobKnowsNext` and `JobOwnsNext`, `ListsNext`, `StreamNext`,
`TableDataNext` and `DoneNext` show that each part is preserved by every step, given
the others before the step. `JobInv` and `DataInv` are split in two because two
processes without the lock keep only `JobKnows` and `TableData` (below). Each goes
through the actions of `Next`; what an action may not disturb is covered by one
frame lemma per part, and the transactions that write have a lemma each
(`BeginWindowRuns`, `CommitData`, `FinishWindowData`, `AdvanceData`, ...).

The refinement follows from the same invariant: a commit adds the records of one
file and of no other (`CommitKeepsPromise`, with `FilesAreWhole`), and a cursor moves
to the end of a range that is stored, from the start of a window or from where it
was (`FinishKeepsPromise`, `AdvanceKeepsPromise`). The start of a window may lie
behind the cursor, when a backfill is run with a later `--from`: what JRA-VAN provided
between the two is then fetched by no differential run. The code does this and no
document speaks of it, so `IngestPromise!MoveOn` allows it, and nothing else that
passes a gap.

The accounting. `EachRecordCountedOnce` compares a sum over all runs with the size of
`raw`: a commit adds to both the records that were not there yet (`CommitCounts`), and a run that
begins has stored nothing (`CountsInv`). Sums are a recursive function; what one
changed entry does to a sum follows from the least index at which it would not
(`TotalsRise`, `LeastNumber`), since induction is out of the prover's reach.
`FilesDoneCountsFiles` needs to know that the resume point of the row is the last file the
run has passed (`ResumePointFollows`), so that the file committed next is either that
one again or the next one of the range. It holds only where names sort in the order of provision, as
the comment at `ingest.rs:247-250` has it: `NamesInOrder` is a hypothesis of
`FilesAreCountedOnce` alone, and where it fails the code counts twice (a hazard).

That commands end. `CommandReturns` is liveness, and TLC's. What makes it true is
proved: `Distance` (stages to come, entries of the lists, steps of the run, files,
records) gets smaller with every step of a command, the failing ones included, in
lexicographic order, and no step of anyone else raises it; the order has no
infinite descent (`NearerEnds`). The list of windows is read once, which is why a
window that fails only shortens it: a version that reads it again after a failure goes round.
What is left to fairness is that a command that is not idle takes its next step.

### Two processes

Proved in `PairProofs`, for every instance of two processes with the faults of
either (`PairConstants`, evaluated by TLC in `ingest_pair`):

| theorem | states | while the lock is lost too |
|---|---|---|
| `PairSafety` | `Spec => []PairInv` | |
| `LockIsEnough` | `SafeWhileLocked` | no |
| `SharedResumePoints`, `SharedCursors` | `ResumePointStored`, `CursorIsCovered` | yes |
| `SharedRecordsAreCountedOnce` | `EachRecordCountedOnce` | yes |
| `PairImplementsPromise` | `Spec => KeepsPromise`, by which cursors only move forward | yes |

The argument. A step of a process is a step of `Importer`, so the lemmas of
`ImporterSafety` apply to it. The question is what it does to the other one.
`SharedInv` is the part of `IInv` that needs nothing but three facts about the
tables: records are only added, run ids and cursors only grow (`SharedSteps`), and what rows and
cursors promise is covered (`TableData`). Every step keeps all three, so each process
keeps its `SharedInv` whatever the other does (`SharedNext`, `SharedFrame`,
`StepOfA`, `StepOfB`). `JobOwns`, `ListsInv`, `RunsInv` and
`DoneIsComplete` are outside of it: a run can be folded by the other process, a row
re-seeded under it, which is what the run `pair_lost` shows. As long as the lock was not
lost, a process that is not idle holds it, the other one is idle, and an idle process
has its whole `IInv` whatever the tables do within it (`HolderWorks`, `AloneA`,
`AloneB`, `IdleFrame`). `MaxRuns` bounds the model and is any number here.

### The normalizer

Proved for every log, every set of payloads and parsers and every combination
of faults that satisfy `NormalizeConstants`, in `NormalizeProofs`:

| theorem | states | needs `NonEmptyUpserts` |
|---|---|---|
| `NormalizeTypes` | `Spec => []TypeOK` | no |
| `OneRecordShown` | `Spec => []EntityShowsOneRecord` | no |
| `ExactCounter` | `Spec => []CounterIsExact` | no |
| `NormalizedIsLatest` | `Spec => []LatestWins` | yes |
| `NoRegress` | `Spec => VersionNeverRegresses` | yes |
| `Refinement` | `Spec => KeepsPromise` | yes |
| `NormalizeEnds` | `Spec => NormalizeApproachesItsEnd` | no |

`NonEmptyUpserts` (no payload is an upsert without rows) is a hypothesis of the
last three and not an assumption about the code: HR records without payouts
break it, and the run `normalize_empty` shows what follows. The other tables
write exactly one row per upsert.

The argument. `SoundInv` says of the committed tables and of the open
transaction alike that every entity shows one record and that the counters are
exact; the transaction is needed because a commit makes it the committed
tables. `LatestInv` adds that the transaction is nowhere behind what is
committed, which turns a commit into a step of `LatestTable!Advance`: an
entity whose version differs has moved to a later record of its own
(`PromiseAdvances`). `StepKinds` reduces `Next` to six kinds of steps, and
`ApplyFacts`, `ApplyShows` and `ApplyAdvances` say what one record does to the
tables.

`NormalizeEnds` says that the loop, which ends only when nothing is pending, cannot go
round: the number of pending records, whether a batch is to be selected, and the
records left in the batch form a distance that every step lowers, whatever fails. A commit lowers
the first number because the batch held a pending record and left it in another
state (`BatchInv`); a record that failed and stayed pending would break
exactly this.

### The bridge

Proved in `BridgeProofs` for any number of files and records, any capacity of
pipe and channel, any stall limit and every combination of faults
(`BridgeConstants`, evaluated by TLC in `bridge_fetch`):

| theorem | states |
|---|---|
| `BridgeTypes` | `Spec => []BridgeTypeOK`, with the capacities of both buffers |
| `BridgeInvariant` | `Spec => []IInv` |
| `NeverSilent` | `Spec => []NeverEndsSilently` |
| `InOrder` | `Spec => StreamInOrder`: `BridgeFetch` implements `FrameStream` |
| `FetchStops` | `Spec => FetchApproachesItsEnd` |
| `GivesUpRightly` | `HistorySpec => OnlyStillDownloadsAreGivenUp` |

The argument. That the frame taken next may follow the one taken last says
nothing about the frames still on the way, so the invariant is about `Stream`: the
last frame received, the channel, the pipe and what the bridge has decided on
and not written, put together. `Chained` says that each of its frames may
follow the one before, unless that one ends the stream. A step then either
leaves `Stream` alone (a frame moves from one queue to the next), cuts it (a crash
loses what was not written, an error takes the place of what would follow, the
consumer takes the first frame) or extends it at the end. For the last,
`BridgeAgrees` and `FixtureAgrees` say that the last frame of `Stream` (`Tip`) is where
the bridge's `cur_file` and JV-Link's position are, so that what it emits next may
follow. Once the task waits for the exit, or is gone, the end of the stream is
in the channel, and nothing behind it matters. `HandOver`, `ChainConcat`,
`ChainFront` and `ChainBack` are the facts about sequences this rests on;
`OpenStream`, `ReadStream`, `ProcessStream`, `ReaderStream`, `FixtureStream` and
`ConsumerStream` go through the actions.

`FetchStops` says that a fetch comes to rest after finitely many steps of bridge, task,
consumer, JV-Link and faults together, for every stall limit. Its distance has six
places: files JV-Link may still download, places the three parties have yet to
pass, files and records to read, quiet polls allowed, frames on their way. The
order matters: a file that arrives allows a whole new series of polls, which is
what `Stall.tick` does when it sees progress, and a poll that emits a frame lowers
the polls and raises the frames. A stall counter that forgets what it counted breaks it. That the
parties do take their steps until then, and do not wait for each other, stays with
TLC (`FetchEnds`, `BridgeEnds`).

Neither would notice a stall counter that is never reset, which gives up on a download
that is only slow. `GivesUpRightly` does: a poll gives up only when JVStatus has given
the same answer more than `limit` times after the first, and at the latest one poll
later. The slack is real. The poll that ends the wait for the download is not passed
to `tick`, so a count that goes on in the two JVGets loops begins one poll late
(`Counted`); everything else the counter sees is what JVStatus answered, because
between polls downloads only grow and nothing else touches it (`BetweenPolls`).

### Planning

Proved in `PlanningProofs` for any dataspecs, any number of days in a year, any last
day, any first days and any sequence of backfills (`PlanningConstants`,
evaluated by TLC in `planning_covers`). All years have the same length: `plan.rs` takes
31 December from a calendar library, and the proofs use of it only that a day lies
in its year and that the years come one after the other (`DayInYear`, `YearOrder`).

| theorem | states |
|---|---|
| `PlanningTypes` | `Spec => []TypeOK`: a closed window ends with a past day |
| `PlansTileTheRange` | `Spec => []PlanTiles` |
| `DoneMeansFetched` | `Spec => []DoneForItsRange` |
| `NothingLeftOut` | `Spec => []DoneCoversAsked` |

The argument for the plan itself: `OpenYears` turns the loop's condition, which
asks about all years before, into a comparison with the year of today, so that
the years of a plan are a range (`PlanFacts`). `WindowsApart` says that of two windows
the earlier is closed and ends where the later begins: no instant is selected
twice. `Covered` names the window that selects a given instant: that of its year,
or the open one when that begins before. For the rows: `DoneCoversAsked` is not
inductive, since it only speaks of states with nothing left to run.
`AskedIsSeeded` adds that every window of the last complete backfill has its row with
the planned end; with `DoneForItsRange` this is enough. That the starts of a plan's
windows differ (`WindowTypes`) is what makes one seed not overwrite another
(`BackfillRows`).

### Model-checked only

Liveness: `CommandReturns`, `ListedWindowIsRun`, `NormalizeReturns`,
`BadRecordDoesNotBlock`, `FetchEnds`, `BridgeEnds`. The prover has no ENABLED, so what
fairness gives cannot be proved; that no command, batch loop or fetch goes
round in circles is (`CommandsEnd`, `NormalizeEnds`, `FetchStops`). All other properties of
the passing runs are proved. The five runs with findings are counterexamples and have
nothing to prove.

## 5. Not modelled, and what could come next

Not modelled, with the reason:

* the byte layout of frames (`bridge/src/protocol.rs`) and the fixed-offset fields of
  records (`jvdata-core/src/parse.rs`, `field.rs`, `model.rs`): pure decoding
  without state, whose unit tests take every kind around;
* the columns of `jv.*`: what is decoded is a function of the payload;
* `set-key` and `ping` of the bridge, `migrate`, `gen-fixture` and `status`: they
  change or read no state another part decides by;
* COM apartments, the container, the wrapper script and scheduling by cron: outside
  the sources, seen only as the faults they cause.

Next: store and normalizer together, that is content that returns to an earlier
version (A, B, A), which the idempotence key drops.
