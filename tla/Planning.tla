------------------------------- MODULE Planning -------------------------------
(***************************************************************************)
(* From the backfill command to checkpoints: setup_windows of              *)
(* jvdata-core/src/plan.rs, seeded by main.rs:243-258 and fetched window   *)
(* by window.                                                              *)
(*                                                                         *)
(* Time is that of option=4: the content dates of JV-Data.  A calendar of  *)
(* short years stands for the real one, and a day has three instants:      *)
(* 000000, one between, and 235959.  JVOpen selects the files after the    *)
(* window's start up to its end.  A whole run_window is one step here,     *)
(* done or failed; Importer.tla takes it apart.                            *)
(***************************************************************************)
EXTENDS CheckpointRow, FiniteSets

CONSTANTS
    Specs, EndTimeSpecs,    \* dataspecs, and those that take an end time
    YearLen,                \* days of a year
    LastDay,                \* bound: the last day that is reached
    FirstDays               \* bound: the days a backfill may start from

ASSUME PlanningConstants ==
    /\ EndTimeSpecs \subseteq Specs
    /\ YearLen \in Nat \ {0}
    /\ LastDay \in Nat
    /\ FirstDays \subseteq 0 .. LastDay

Days == 0 .. LastDay
Year(day) == day \div YearLen
Dec31(year) == YearLen * (year + 1) - 1
Midnight(day) == 3 * day            \* ts(day, "000000")
Evening(day) == 3 * day + 2         \* ts(day, "235959")
Instants == 0 .. Evening(LastDay)
Earlier(a, b) == IF a <= b THEN a ELSE b

VARIABLES
    today,
    rows,       \* ingest.checkpoints: <<dataspec, window start>> -> row
    fetched,    \* dataspec -> instants whose files a finished run has read
    asked       \* dataspec -> last backfill whose windows were all seeded

vars == <<today, rows, fetched, asked>>

Keys == Specs \X Instants
NotAsked == [from |-> Null, to |-> Null, day |-> Null]

Init ==
    /\ today \in Days
    /\ rows = [w \in Keys |-> AbsentCheckpoint]
    /\ fetched = [d \in Specs |-> {}]
    /\ asked = [d \in Specs |-> NotAsked]

(***************************************************************************)
(* setup_windows, by year: the loop's prev_end is the last day of the year *)
(* before, and the loop stops behind the first open-ended window.          *)
(***************************************************************************)
\* Mutant: every year starts at its first instant, which no window includes.
YearStartAtMidnight(from, year) ==
    Midnight(IF year = Year(from) THEN from ELSE Dec31(year - 1) + 1)

YearStart(from, year) ==
    IF year = Year(from) THEN Midnight(from) ELSE Evening(Dec31(year - 1))

YearEnd(to, year) == Earlier(to, Dec31(year))

\* Mutant: a window that ends today is closed.
StaysOpenAfterToday(end, day) == end > day

\* JVOpen takes only an end time that is past.
StaysOpen(end, day) == end >= day

SetupWindows(d, from, to, day) ==
    LET years == Year(from) .. Year(to)
        open(y) == StaysOpen(YearEnd(to, y), day)
        window(y) == [start |-> YearStart(from, y),
                      end |-> IF open(y) THEN NoEnd ELSE Evening(YearEnd(to, y))]
    IN  IF d \in EndTimeSpecs
        THEN {window(y) : y \in {z \in years : \A b \in years : b < z => ~open(b)}}
        ELSE {[start |-> Midnight(from), end |-> NoEnd]}

\* The instants whose files a window selects once the day has come.
Selected(start, end, day) ==
    {i \in Instants : start < i /\ i <= IF end = NoEnd THEN Evening(day) ELSE end}

(***************************************************************************)
(* Actions.                                                                *)
(***************************************************************************)
\* backfill seeds the windows in order; it may stop before the last.
Backfill(d, from, to, last) ==
    LET planned == SetupWindows(d, from, to, today)
        seeded == {w \in planned : w.start <= last}
    IN  /\ from <= to
        /\ rows' = [k \in Keys |->
              IF \E w \in seeded : k = <<d, w.start>>
              THEN SeededRow(rows[k], (CHOOSE w \in seeded : k = <<d, w.start>>).end)
              ELSE rows[k]]
        /\ asked' = [asked EXCEPT ![d] =
              IF seeded = planned THEN [from |-> from, to |-> to, day |-> today] ELSE NotAsked]
        /\ UNCHANGED <<today, fetched>>

RunWindow(k) ==
    /\ rows[k].state \in Pending
    /\ rows' = [rows EXCEPT ![k].state = "done"]
    /\ fetched' = [fetched EXCEPT ![k[1]] = @ \union Selected(k[2], rows[k].end, today)]
    /\ UNCHANGED <<today, asked>>

FailWindow(k) ==
    /\ rows[k].state \in Pending
    /\ rows' = [rows EXCEPT ![k].state = "failed"]
    /\ UNCHANGED <<today, fetched, asked>>

Abandon(k) ==
    /\ rows[k].state \in Pending
    /\ rows' = [rows EXCEPT ![k].state = "abandoned"]
    /\ UNCHANGED <<today, fetched, asked>>

NextDay ==
    /\ today < LastDay
    /\ today' = today + 1
    /\ UNCHANGED <<rows, fetched, asked>>

Next ==
    \/ \E d \in Specs, from \in FirstDays, to \in Days :
          \E w \in SetupWindows(d, from, to, today) : Backfill(d, from, to, w.start)
    \/ \E k \in Keys : RunWindow(k) \/ FailWindow(k) \/ Abandon(k)
    \/ NextDay

Spec == Init /\ [][Next]_vars

(***************************************************************************)
(* Properties.                                                             *)
(***************************************************************************)
\* A closed window ends with a day that is past (plan.rs:87-92).
TypeOK ==
    /\ today \in Days
    /\ \A k \in Keys : /\ rows[k].state \in WindowStates
                       /\ rows[k].end \in {Evening(d) : d \in 0 .. today - 1} \union {NoEnd}
    /\ fetched \in [Specs -> SUBSET Instants]
    /\ asked \in [Specs -> [from : Days, to : Days, day : Days] \union {NotAsked}]

\* The windows of a plan lie end to end: together they select every file from
\* the plan's start to its end, and no file twice; a plan that reaches today
\* ends in the one window without end (plan.rs:50-60).
PlanTiles ==
    \A d \in EndTimeSpecs, from, to \in Days :
        LET plan == SetupWindows(d, from, to, today)
            sel(w) == Selected(w.start, w.end, LastDay)
            last == IF to >= today THEN LastDay ELSE to
        IN  from <= to =>
              /\ \A i \in Instants :
                    Cardinality({w \in plan : i \in sel(w)}) =
                        IF Midnight(from) < i /\ i <= Evening(last) THEN 1 ELSE 0
              /\ Cardinality({w \in plan : w.end = NoEnd}) = IF to >= today THEN 1 ELSE 0

\* When every window is done, the closed windows of the last complete backfill
\* have been fetched, whatever was asked before and however often seeding was
\* interrupted (main.rs:250-258, store/src/ingest.rs:45-83).
DoneCoversAsked ==
    \A d \in EndTimeSpecs :
        LET a == asked[d] IN
        a # NotAsked /\ (\A k \in Keys : k[1] = d => rows[k].state \in {"absent", "done"})
        => \A w \in SetupWindows(d, a.from, a.to, a.day) :
              w.end # NoEnd => Selected(w.start, w.end, today) \subseteq fetched[d]

\* A window is done only for the range it now has (store/src/ingest.rs:46-53).
DoneForItsRange ==
    \A k \in Keys : rows[k].state = "done" /\ rows[k].end # NoEnd =>
        Selected(k[2], rows[k].end, today) \subseteq fetched[k[1]]

(***************************************************************************)
(* The inductive invariant, which PlanningProofs.tla proves.               *)
(***************************************************************************)
\* Seeding and settling leave the cursor alone: a run is one step here.
Rows == [state : WindowStates, end : Int, files_done : {0}, last_file : {Null},
         stored : {0}, last_ts : {Null}, last_run : {Null}]

\* The windows of the last complete backfill are all there, with its ends.
AskedIsSeeded ==
    \A d \in EndTimeSpecs :
        LET a == asked[d] IN
        a # NotAsked => \A w \in SetupWindows(d, a.from, a.to, a.day) :
            rows[<<d, w.start>>].state # "absent" /\ rows[<<d, w.start>>].end = w.end

IInv == TypeOK /\ rows \in [Keys -> Rows] /\ DoneForItsRange /\ AskedIsSeeded

(***************************************************************************)
(* Statements of the repository that the code does not keep.               *)
(***************************************************************************)
\* README.md:194-196, ingest.md:171-173: an abandoned window comes back when
\* backfill is run again with a different --to.
ChangedToRevives ==
    [][\A d \in Specs :
        /\ asked[d] # NotAsked /\ asked'[d] # NotAsked
        /\ asked'[d].from = asked[d].from /\ asked'[d].to # asked[d].to
        => \A w \in SetupWindows(d, asked'[d].from, asked'[d].to, today) :
              rows[<<d, w.start>>].state = "abandoned"
              => rows'[<<d, w.start>>].state # "abandoned"]_vars
=============================================================================
