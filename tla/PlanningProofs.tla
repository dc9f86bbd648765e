---------------------------- MODULE PlanningProofs ----------------------------
(***************************************************************************)
(* Proofs about the plans, for every calendar of years of equal length and *)
(* every sequence of backfills.                                            *)
(***************************************************************************)
EXTENDS Planning, FiniteSetTheorems, TLAPS

(***************************************************************************)
(* The calendar.                                                           *)
(***************************************************************************)
LEMMA Division ==
    ASSUME NEW n \in Nat \ {0}, NEW a \in Nat
    PROVE  /\ a \div n \in Nat
           /\ n * (a \div n) <= a
           /\ a <= n * ((a \div n) + 1) - 1
OBVIOUS

LEMMA Multiples ==
    ASSUME NEW n \in Nat \ {0}, NEW a \in Int, NEW b \in Int, a < b
    PROVE  n * (a + 1) <= n * b
<1>1. PICK k \in Nat : b = (a + 1) + k
  <2>1. b - (a + 1) \in Nat /\ b = (a + 1) + (b - (a + 1))
    OBVIOUS
  <2> QED  BY <2>1
<1>2. n * ((a + 1) + k) = n * (a + 1) + n * k /\ n * k \in Nat /\ n * (a + 1) \in Int
  OBVIOUS
<1> QED  BY <1>1, <1>2

\* A day lies in its year.
LEMMA DayInYear ==
    ASSUME NEW a \in Nat
    PROVE  Year(a) \in Nat /\ Dec31(Year(a) - 1) < a /\ a <= Dec31(Year(a))
<1>1. YearLen \in Nat \ {0}
  BY PlanningConstants
<1>2. /\ a \div YearLen \in Nat
      /\ YearLen * (a \div YearLen) <= a
      /\ a <= YearLen * ((a \div YearLen) + 1) - 1
  BY <1>1, Division
<1>3. (Year(a) - 1) + 1 = Year(a)
  BY <1>2 DEF Year
<1> QED  BY <1>1, <1>2, <1>3 DEF Year, Dec31

\* Years come one after the other.
LEMMA YearOrder ==
    ASSUME NEW y \in Int, NEW z \in Int
    PROVE  /\ Dec31(y) \in Int
           /\ y < z => Dec31(y) <= Dec31(z - 1) /\ Dec31(y) < Dec31(z)
<1>1. YearLen \in Nat \ {0}
  BY PlanningConstants
<1>2. Dec31(y) \in Int /\ Dec31(z) \in Int
  BY <1>1 DEF Dec31
<1>3. ASSUME y < z  PROVE Dec31(y) <= Dec31(z - 1) /\ Dec31(y) < Dec31(z)
  <2>1. YearLen * (y + 1) <= YearLen * z
    BY <1>1, <1>3, Multiples
  <2>2. YearLen * (z + 1) = YearLen * z + YearLen /\ (z - 1) + 1 = z
        /\ YearLen * (y + 1) \in Int /\ YearLen * z \in Int
    BY <1>1
  <2> QED  BY <1>1, <2>1, <2>2 DEF Dec31
<1> QED  BY <1>2, <1>3

\* The year of a day is at least y when the day comes after the year before.
LEMMA YearBound ==
    ASSUME NEW a \in Nat, NEW y \in Int
    PROVE  /\ y <= Year(a) <=> Dec31(y - 1) < a
           /\ Year(a) <= y <=> a <= Dec31(y)
<1>1. Year(a) \in Nat /\ Dec31(Year(a) - 1) < a /\ a <= Dec31(Year(a))
  BY DayInYear
<1>2. /\ Dec31(y) \in Int /\ Dec31(y - 1) \in Int
      /\ Dec31(Year(a)) \in Int /\ Dec31(Year(a) - 1) \in Int
  BY <1>1, YearOrder
<1>3. y < Year(a) => Dec31(y) <= Dec31(Year(a) - 1) /\ Dec31(y - 1) < Dec31(Year(a) - 1)
  BY <1>1, YearOrder
<1>4. Year(a) < y => Dec31(Year(a)) <= Dec31(y - 1) /\ Dec31(Year(a)) < Dec31(y)
  BY <1>1, YearOrder
<1> QED  BY <1>1, <1>2, <1>3, <1>4

(***************************************************************************)
(* The windows of a plan.                                                  *)
(***************************************************************************)
Window(from, to, day, y) ==
    [start |-> YearStart(from, y),
     end |-> IF StaysOpen(YearEnd(to, y), day) THEN NoEnd ELSE Evening(YearEnd(to, y))]

\* The years a plan has a window for: up to the first that stays open.
PlanYears(from, to, day) ==
    {z \in Year(from) .. Year(to) : to < day \/ z <= Year(from) \/ z <= Year(day)}

LEMMA YearStartFacts ==
    ASSUME NEW from \in Days, NEW y \in Int, Year(from) <= y
    PROVE  /\ YearStart(from, y) \in Int
           /\ Midnight(from) <= YearStart(from, y)
           /\ YearStart(from, y) < 3 * (Dec31(y) + 1)
           /\ y # Year(from) => YearStart(from, y) = Evening(Dec31(y - 1))
           /\ y = Year(from) => YearStart(from, y) = Midnight(from)
<1>1. from \in Nat /\ Year(from) \in Nat
  BY DayInYear, PlanningConstants DEF Days
<1>2. Dec31(y) \in Int /\ Dec31(y - 1) \in Int /\ Dec31(y - 1) < Dec31(y)
  BY YearOrder
<1>3. CASE y = Year(from)
  <2>1. from <= Dec31(y)
    BY <1>1, <1>3, DayInYear
  <2> QED  BY <1>1, <1>2, <1>3, <2>1 DEF YearStart, Midnight
<1>4. CASE y # Year(from)
  <2>1. Year(from) <= y - 1 /\ y - 1 \in Int
    BY <1>1, <1>4
  <2>2. from <= Dec31(y - 1)
    BY <1>1, <2>1, YearBound
  <2> QED  BY <1>1, <1>2, <1>4, <2>2 DEF YearStart, Midnight, Evening
<1> QED  BY <1>3, <1>4

LEMMA YearEndFacts ==
    ASSUME NEW from \in Days, NEW to \in Days, NEW y \in Year(from) .. Year(to)
    PROVE  /\ YearEnd(to, y) \in Nat /\ YearEnd(to, y) <= to /\ YearEnd(to, y) <= Dec31(y)
           /\ YearEnd(to, y) = to \/ YearEnd(to, y) = Dec31(y)
           /\ y < Year(to) => YearEnd(to, y) = Dec31(y)
           /\ y = Year(to) => YearEnd(to, y) = to
<1>1. from \in Nat /\ to \in Nat /\ Year(from) \in Nat /\ Year(to) \in Nat
  BY DayInYear, PlanningConstants DEF Days
<1>2. y \in Int /\ Year(from) <= y /\ y <= Year(to)
  BY <1>1
<1>3. from <= Dec31(y) /\ Dec31(y) \in Int
  BY <1>1, <1>2, YearBound, YearOrder
<1>4. y = Year(to) => to <= Dec31(y)
  BY <1>1, DayInYear
<1>5. y < Year(to) => Dec31(y) < to
  <2>1. ASSUME y < Year(to)  PROVE ~(Year(to) <= y)
    BY <1>1, <1>2, <2>1
  <2> QED  BY <1>1, <1>2, <1>3, <2>1, YearBound
<1> QED  BY <1>1, <1>2, <1>3, <1>4, <1>5 DEF YearEnd, Earlier

\* A year stays open when the plan reaches today and the year does.
LEMMA OpenYears ==
    ASSUME NEW from \in Days, NEW to \in Days, NEW day \in Days, NEW y \in Year(from) .. Year(to)
    PROVE  StaysOpen(YearEnd(to, y), day) <=> to >= day /\ Year(day) <= y
<1>1. from \in Nat /\ to \in Nat /\ day \in Nat
      /\ Year(from) \in Nat /\ Year(to) \in Nat /\ Year(day) \in Nat
  BY DayInYear, PlanningConstants DEF Days
<1>2. y \in Int /\ Dec31(y) \in Int /\ (Year(day) <= y <=> day <= Dec31(y))
  BY <1>1, YearBound, YearOrder
<1>3. y = Year(to) /\ to >= day => Year(day) <= y
  <2>1. to <= Dec31(Year(to)) /\ Dec31(Year(to)) \in Int
    BY <1>1, DayInYear, YearOrder
  <2> QED  BY <1>1, <1>2, <2>1
<1> QED  BY <1>1, <1>2, <1>3, YearEndFacts DEF StaysOpen

LEMMA PlanFacts ==
    ASSUME NEW d \in EndTimeSpecs, NEW from \in Days, NEW to \in Days, NEW day \in Days
    PROVE  SetupWindows(d, from, to, day) =
               {Window(from, to, day, y) : y \in PlanYears(from, to, day)}
<1> DEFINE years == Year(from) .. Year(to)
           open(y) == StaysOpen(YearEnd(to, y), day)
           kept == {z \in years : \A b \in years : b < z => ~open(b)}
<1>1. Year(from) \in Nat /\ Year(to) \in Nat /\ Year(day) \in Nat /\ to \in Nat /\ day \in Nat
  BY DayInYear, PlanningConstants DEF Days
<1>2. \A b \in years : open(b) <=> to >= day /\ Year(day) <= b
  BY OpenYears
<1> HIDE DEF open
<1>3. ASSUME NEW z \in years
      PROVE  (\A b \in years : b < z => ~open(b)) <=> to < day \/ z <= Year(from) \/ z <= Year(day)
  <2>1. ASSUME to >= day, Year(from) < z, Year(day) < z
        PROVE  \E b \in years : b < z /\ open(b)
    <3>1. z - 1 \in years /\ z - 1 < z /\ Year(day) <= z - 1
      BY <1>1, <2>1
    <3> QED  BY <1>2, <2>1, <3>1
  <2> QED  BY <1>1, <1>2, <2>1
<1>4. kept = PlanYears(from, to, day)
  BY <1>3 DEF PlanYears
<1>5. SetupWindows(d, from, to, day) = {Window(from, to, day, y) : y \in kept}
  BY DEF SetupWindows, Window, open
<1> QED  BY <1>4, <1>5

\* Where a window begins and ends, for the instants a window can select.
LEMMA WindowSelects ==
    ASSUME NEW from \in Days, NEW to \in Days, NEW day \in Days,
           NEW y \in PlanYears(from, to, day), NEW i \in Instants
    PROVE  LET w == Window(from, to, day, y)
               open == to >= day /\ Year(day) <= y
           IN
           /\ y \in Int /\ y \in Year(from) .. Year(to)
           /\ w.end = NoEnd <=> open
           /\ i \in Selected(w.start, w.end, LastDay) <=>
                 YearStart(from, y) < i /\ (open \/ i <= Evening(YearEnd(to, y)))
<1> DEFINE w == Window(from, to, day, y)
           open == to >= day /\ Year(day) <= y
<1>1. /\ from \in Nat /\ to \in Nat /\ day \in Nat
      /\ Year(from) \in Nat /\ Year(to) \in Nat /\ Year(day) \in Nat
  BY DayInYear, PlanningConstants DEF Days
<1>2. y \in Int /\ y \in Year(from) .. Year(to)
  BY <1>1 DEF PlanYears
<1>3. StaysOpen(YearEnd(to, y), day) <=> open
  BY <1>2, OpenYears
<1>4. YearEnd(to, y) \in Nat /\ Evening(YearEnd(to, y)) \in Nat
  BY <1>2, YearEndFacts DEF Evening
<1>5. w.start = YearStart(from, y) /\ w.end = IF open THEN NoEnd ELSE Evening(YearEnd(to, y))
  BY <1>3 DEF Window
<1>6. w.end = NoEnd <=> open
  BY <1>4, <1>5 DEF NoEnd
<1>7. i \in Nat /\ i <= Evening(LastDay)
  BY PlanningConstants DEF Instants, Evening
<1>8. i \in Selected(w.start, w.end, LastDay) <=>
         w.start < i /\ i <= IF w.end = NoEnd THEN Evening(LastDay) ELSE w.end
  BY DEF Selected
<1> QED  BY <1>2, <1>5, <1>6, <1>7, <1>8

\* Of two windows the earlier is closed, and ends where the later begins or before.
LEMMA WindowsApart ==
    ASSUME NEW from \in Days, NEW to \in Days, NEW day \in Days,
           NEW y \in PlanYears(from, to, day), NEW z \in PlanYears(from, to, day), y < z
    PROVE  /\ ~(to >= day /\ Year(day) <= y)
           /\ YearStart(from, y) < YearStart(from, z)
           /\ Evening(YearEnd(to, y)) <= YearStart(from, z)
<1>1. /\ from \in Nat /\ to \in Nat /\ day \in Nat
      /\ Year(from) \in Nat /\ Year(to) \in Nat /\ Year(day) \in Nat
  BY DayInYear, PlanningConstants DEF Days
<1>2. /\ y \in Int /\ y \in Year(from) .. Year(to) /\ Year(from) <= y
      /\ z \in Int /\ z \in Year(from) .. Year(to) /\ Year(from) < z
      /\ to < day \/ z <= Year(day)
  BY <1>1 DEF PlanYears
<1>3. YearStart(from, z) = Evening(Dec31(z - 1)) /\ Dec31(z - 1) \in Int
  BY <1>1, <1>2, YearStartFacts, YearOrder
<1>4. Dec31(y) <= Dec31(z - 1) /\ Dec31(y) \in Int
  BY <1>2, YearOrder
<1>5. YearEnd(to, y) <= Dec31(y) /\ YearEnd(to, y) \in Nat
  BY <1>2, YearEndFacts
<1>6. YearStart(from, y) \in Int /\ YearStart(from, y) < 3 * (Dec31(y) + 1)
  BY <1>2, YearStartFacts
<1>7. YearStart(from, y) < YearStart(from, z)
  <2>1. CASE y = Year(from)
    <3>1. YearStart(from, y) = Midnight(from) /\ from <= Dec31(y)
      BY <1>1, <1>2, <2>1, YearStartFacts, DayInYear
    <3> QED  BY <1>1, <1>3, <1>4, <3>1 DEF Midnight, Evening
  <2>2. CASE y # Year(from)
    <3>1. YearStart(from, y) = Evening(Dec31(y - 1)) /\ Dec31(y - 1) < Dec31(y)
          /\ Dec31(y - 1) \in Int
      BY <1>2, <2>2, YearStartFacts, YearOrder
    <3> QED  BY <1>3, <1>4, <3>1 DEF Evening
  <2> QED  BY <2>1, <2>2
<1> QED  BY <1>1, <1>2, <1>3, <1>4, <1>5, <1>7 DEF Evening

\* The end of what a plan made on a day covers in the long run.
Covers(from, to, day, i) ==
    Midnight(from) < i /\ i <= Evening(IF to >= day THEN LastDay ELSE to)

\* Every instant a plan covers is selected by the window of its year, or by
\* the open window when that begins before.
LEMMA Covered ==
    ASSUME NEW from \in Days, NEW to \in Days, NEW day \in Days, NEW i \in Instants,
           from <= to, Covers(from, to, day, i)
    PROVE  \E y \in PlanYears(from, to, day) :
              LET w == Window(from, to, day, y) IN i \in Selected(w.start, w.end, LastDay)
<1> DEFINE D == i \div 3
           own == Year(D)
           end == IF to >= day /\ Year(day) >= Year(from) THEN Year(day) ELSE Year(from)
           y == IF to >= day /\ own > end THEN end ELSE own
<1>1. /\ from \in Nat /\ to \in Nat /\ day \in Nat
      /\ Year(from) \in Nat /\ Year(to) \in Nat /\ Year(day) \in Nat
  BY DayInYear, PlanningConstants DEF Days
<1>2. i \in Nat /\ D \in Nat /\ 3 * D <= i /\ i <= 3 * D + 2
  BY PlanningConstants, Division DEF Instants, Evening
<1>3. from <= D /\ (to < day => D <= to) /\ own \in Nat
  BY <1>1, <1>2, DayInYear DEF Covers, Midnight, Evening
<1>4. Year(from) <= own
  <2>1. Dec31(Year(from) - 1) < from /\ Dec31(Year(from) - 1) \in Int
    BY <1>1, DayInYear, YearOrder
  <2> QED  BY <1>1, <1>2, <1>3, <2>1, YearBound
<1>5. to < day => own <= Year(to)
  <2>1. to <= Dec31(Year(to)) /\ Dec31(Year(to)) \in Int
    BY <1>1, DayInYear, YearOrder
  <2> QED  BY <1>1, <1>2, <1>3, <2>1, YearBound
<1>6. Year(from) <= Year(to)
  <2>1. to <= Dec31(Year(to)) /\ Dec31(Year(to)) \in Int
    BY <1>1, DayInYear, YearOrder
  <2> QED  BY <1>1, <2>1, YearBound
<1>7. to >= day => Year(day) <= Year(to)
  <2>1. to <= Dec31(Year(to)) /\ Dec31(Year(to)) \in Int
    BY <1>1, DayInYear, YearOrder
  <2> QED  BY <1>1, <2>1, YearBound
<1>8. y \in Year(from) .. Year(to) /\ y <= own /\ y \in Int
  BY <1>1, <1>3, <1>4, <1>5, <1>6, <1>7
<1>9. y \in PlanYears(from, to, day)
  BY <1>1, <1>3, <1>8 DEF PlanYears
<1>10. YearStart(from, y) < i
  <2>1. CASE y = Year(from)
    BY <1>1, <2>1, YearStartFacts DEF Covers
  <2>2. CASE y # Year(from)
    <3> HIDE DEF D, y
    <3>1. YearStart(from, y) = Evening(Dec31(y - 1))
      BY <1>1, <1>8, <2>2, YearStartFacts
    <3>2. Dec31(y - 1) < D
      BY <1>2, <1>8, YearBound
    <3>3. Dec31(y - 1) \in Int
      BY <1>8, YearOrder
    <3> QED  BY <1>2, <3>1, <3>2, <3>3 DEF Evening
  <2> QED  BY <2>1, <2>2
<1>11. (to >= day /\ Year(day) <= y) \/ i <= Evening(YearEnd(to, y))
  <2>1. CASE to >= day /\ own > end
    BY <1>1, <1>3, <1>8, <2>1
  <2>2. CASE ~(to >= day /\ own > end) /\ ~(to >= day /\ Year(day) <= y)
    <3>1. y = own /\ D <= Dec31(own) /\ Dec31(own) \in Int
      BY <1>2, <1>3, <2>2, DayInYear, YearOrder
    <3>2. YearEnd(to, y) \in Nat /\ (YearEnd(to, y) = to \/ YearEnd(to, y) = Dec31(y))
          /\ (y < Year(to) => YearEnd(to, y) = Dec31(y))
      BY <1>8, YearEndFacts
    <3>3. D <= YearEnd(to, y)
      BY <1>1, <1>2, <1>3, <1>7, <1>8, <2>2, <3>1, <3>2
    <3> QED  BY <1>2, <3>2, <3>3 DEF Evening
  <2> QED  BY <2>1, <2>2
<1> QED  BY <1>9, <1>10, <1>11, WindowSelects

LEMMA Singletons ==
    ASSUME NEW S, NEW x \in S, \A z \in S : z = x
    PROVE  Cardinality(S) = 1
<1>1. S = {x}
  OBVIOUS
<1> QED  BY <1>1, FS_Singleton

\* Each instant a plan covers is selected once, every other not at all.
LEMMA TilesOnce ==
    ASSUME NEW d \in EndTimeSpecs, NEW from \in Days, NEW to \in Days, NEW day \in Days,
           NEW i \in Instants, from <= to
    PROVE  Cardinality({w \in SetupWindows(d, from, to, day) :
                           i \in Selected(w.start, w.end, LastDay)}) =
               IF Covers(from, to, day, i) THEN 1 ELSE 0
<1> DEFINE plan == SetupWindows(d, from, to, day)
           sel(w) == Selected(w.start, w.end, LastDay)
           hit == {w \in plan : i \in sel(w)}
           W(y) == Window(from, to, day, y)
           years == PlanYears(from, to, day)
<1>1. plan = {W(y) : y \in years}
  BY PlanFacts
<1>2. /\ from \in Nat /\ to \in Nat /\ day \in Nat /\ i \in Nat /\ i <= Evening(LastDay)
      /\ Year(from) \in Nat /\ Year(to) \in Nat /\ Year(day) \in Nat
  BY DayInYear, PlanningConstants DEF Days, Instants, Evening
<1>3. ASSUME NEW y \in years, NEW z \in years, i \in sel(W(y)), i \in sel(W(z)), y < z
      PROVE  FALSE
  <2>1. i <= Evening(YearEnd(to, y)) /\ YearStart(from, z) < i
    BY <1>3, WindowSelects, WindowsApart
  <2>2. Evening(YearEnd(to, y)) <= YearStart(from, z)
    BY <1>3, WindowsApart
  <2>3. YearStart(from, z) \in Int /\ Evening(YearEnd(to, y)) \in Int
    <3>1. z \in Int /\ Year(from) <= z /\ y \in Year(from) .. Year(to)
      BY <1>2 DEF PlanYears
    <3> QED  BY <3>1, YearStartFacts, YearEndFacts DEF Evening
  <2> QED  BY <1>2, <2>1, <2>2, <2>3
<1>4. ASSUME NEW y \in years, NEW z \in years, i \in sel(W(y)), i \in sel(W(z))
      PROVE  y = z
  <2>1. y \in Int /\ z \in Int
    BY <1>2 DEF PlanYears
  <2> QED  BY <1>3, <1>4, <2>1
<1>5. ASSUME NEW y \in years, i \in sel(W(y))  PROVE Covers(from, to, day, i)
  <2>1. y \in Int /\ Year(from) <= y /\ y \in Year(from) .. Year(to)
    BY <1>2 DEF PlanYears
  <2>2. YearStart(from, y) < i
        /\ ((to >= day /\ Year(day) <= y) \/ i <= Evening(YearEnd(to, y)))
    BY <1>5, WindowSelects
  <2>3. Midnight(from) <= YearStart(from, y) /\ YearStart(from, y) \in Int
    BY <2>1, YearStartFacts
  <2>4. YearEnd(to, y) \in Nat /\ YearEnd(to, y) <= to
    BY <2>1, YearEndFacts
  <2> QED  BY <1>2, <2>2, <2>3, <2>4 DEF Covers, Midnight, Evening
<1>6. CASE Covers(from, to, day, i)
  <2>1. PICK y \in years : i \in sel(W(y))
    BY <1>6, Covered
  <2>2. W(y) \in hit /\ \A w \in hit : w = W(y)
    BY <1>1, <1>4, <2>1
  <2> HIDE DEF hit, W
  <2>3. Cardinality(hit) = 1
    BY <2>2, Singletons
  <2> QED  BY <1>6, <2>3 DEF hit
<1>7. CASE ~Covers(from, to, day, i)
  <2>1. hit = {}
    BY <1>1, <1>5, <1>7
  <2> QED  BY <1>7, <2>1, FS_EmptySet
<1> QED  BY <1>6, <1>7

\* A plan that reaches today has one window without end, any other has none.
LEMMA OneOpenWindow ==
    ASSUME NEW d \in EndTimeSpecs, NEW from \in Days, NEW to \in Days, NEW day \in Days,
           from <= to
    PROVE  Cardinality({w \in SetupWindows(d, from, to, day) : w.end = NoEnd}) =
               IF to >= day THEN 1 ELSE 0
<1> DEFINE plan == SetupWindows(d, from, to, day)
           opens == {w \in plan : w.end = NoEnd}
           W(y) == Window(from, to, day, y)
           years == PlanYears(from, to, day)
           end == IF Year(day) >= Year(from) THEN Year(day) ELSE Year(from)
<1>1. plan = {W(y) : y \in years}
  BY PlanFacts
<1>2. /\ from \in Nat /\ to \in Nat /\ day \in Nat /\ 0 \in Instants
      /\ Year(from) \in Nat /\ Year(to) \in Nat /\ Year(day) \in Nat
  BY DayInYear, PlanningConstants DEF Days, Instants, Evening
<1>3. ASSUME NEW y \in years  PROVE W(y).end = NoEnd <=> to >= day /\ Year(day) <= y
  BY <1>2, WindowSelects
<1>4. CASE to >= day
  <2>1. to <= Dec31(Year(to)) /\ Dec31(Year(to)) \in Int
    BY <1>2, DayInYear, YearOrder
  <2>2. Year(from) <= Year(to) /\ Year(day) <= Year(to)
    BY <1>2, <1>4, <2>1, YearBound
  <2>3. end \in years /\ Year(day) <= end
    BY <1>2, <2>2 DEF PlanYears
  <2>4. ASSUME NEW y \in years, Year(day) <= y  PROVE y = end
    BY <1>2, <1>4, <2>4 DEF PlanYears
  <2> HIDE DEF end, years, W
  <2>5. W(end) \in opens /\ \A w \in opens : w = W(end)
    BY <1>1, <1>3, <1>4, <2>3, <2>4
  <2> HIDE DEF opens
  <2>6. Cardinality(opens) = 1
    BY <2>5, Singletons
  <2> QED  BY <1>4, <2>6 DEF opens
<1>5. CASE ~(to >= day)
  <2>1. opens = {}
    BY <1>1, <1>3, <1>5
  <2> QED  BY <1>5, <2>1, FS_EmptySet
<1> QED  BY <1>4, <1>5

\* The windows of any plan lie end to end, on any day (PlanTiles).
LEMMA PlansTile == today \in Days => PlanTiles
<1> SUFFICES ASSUME today \in Days, NEW d \in EndTimeSpecs, NEW from \in Days, NEW to \in Days,
                    from <= to
             PROVE  LET plan == SetupWindows(d, from, to, today)
                        sel(w) == Selected(w.start, w.end, LastDay)
                        last == IF to >= today THEN LastDay ELSE to
                    IN  /\ \A i \in Instants :
                              Cardinality({w \in plan : i \in sel(w)}) =
                                  IF Midnight(from) < i /\ i <= Evening(last) THEN 1 ELSE 0
                        /\ Cardinality({w \in plan : w.end = NoEnd}) =
                                  IF to >= today THEN 1 ELSE 0
  BY DEF PlanTiles
<1> QED  BY TilesOnce, OneOpenWindow DEF Covers

(***************************************************************************)
(* What seeding leaves.                                                    *)
(***************************************************************************)
\* The start of a window is an instant, and tells the windows of a plan apart;
\* a closed window ends with a past day.
LEMMA WindowTypes ==
    ASSUME NEW d \in Specs, NEW from \in Days, NEW to \in Days, NEW day \in Days
    PROVE  /\ \A w \in SetupWindows(d, from, to, day) :
                 /\ w.start \in Instants
                 /\ w.end \in {Evening(b) : b \in 0 .. day - 1} \union {NoEnd}
           /\ \A v, w \in SetupWindows(d, from, to, day) : v.start = w.start => v = w
<1>1. /\ from \in Nat /\ to \in Nat /\ day \in Nat
      /\ from <= LastDay /\ to <= LastDay /\ LastDay \in Nat
      /\ Year(from) \in Nat /\ Year(to) \in Nat /\ Year(day) \in Nat
  BY DayInYear, PlanningConstants DEF Days
<1>2. CASE d \notin EndTimeSpecs
  <2>1. SetupWindows(d, from, to, day) = {[start |-> Midnight(from), end |-> NoEnd]}
    BY <1>2 DEF SetupWindows
  <2>2. Midnight(from) \in Instants
    BY <1>1 DEF Midnight, Instants, Evening
  <2> QED  BY <2>1, <2>2
<1>3. CASE d \in EndTimeSpecs
  <2> DEFINE years == PlanYears(from, to, day)
             W(y) == Window(from, to, day, y)
  <2>1. SetupWindows(d, from, to, day) = {W(y) : y \in years}
    BY <1>3, PlanFacts
  <2>2. ASSUME NEW y \in years
        PROVE  /\ W(y).start = YearStart(from, y) /\ W(y).start \in Instants
               /\ W(y).end \in {Evening(b) : b \in 0 .. day - 1} \union {NoEnd}
    <3>1. y \in Int /\ y \in Year(from) .. Year(to) /\ Year(from) <= y /\ y <= Year(to)
      BY <1>1 DEF PlanYears
    <3>2. YearStart(from, y) \in Int /\ Midnight(from) <= YearStart(from, y)
      BY <3>1, YearStartFacts
    <3>3. Dec31(y - 1) < to /\ Dec31(y - 1) \in Int
      BY <1>1, <3>1, YearBound, YearOrder
    <3>4. YearStart(from, y) <= Evening(LastDay)
      BY <1>1, <3>1, <3>3, YearStartFacts DEF Midnight, Evening
    <3>5. YearStart(from, y) \in Instants
      BY <1>1, <3>2, <3>4 DEF Instants, Midnight, Evening
    <3>6. YearEnd(to, y) \in Nat
      BY <3>1, YearEndFacts
    <3>7. StaysOpen(YearEnd(to, y), day) \/ YearEnd(to, y) \in 0 .. day - 1
      BY <1>1, <3>6 DEF StaysOpen
    <3> QED  BY <3>5, <3>7 DEF Window
  <2>3. ASSUME NEW y \in years, NEW z \in years, W(y).start = W(z).start  PROVE y = z
    <3>1. y \in Int /\ z \in Int /\ Year(from) <= y /\ Year(from) <= z
      BY <1>1 DEF PlanYears
    <3>2. YearStart(from, y) = YearStart(from, z) /\ YearStart(from, y) \in Int
      BY <2>2, <2>3, <3>1, YearStartFacts
    <3> QED  BY <3>1, <3>2, WindowsApart
  <2> HIDE DEF years, W
  <2> QED  BY <2>1, <2>2, <2>3
<1> QED  BY <1>2, <1>3

LEMMA SeededFacts ==
    ASSUME NEW c \in Rows, NEW e \in Int
    PROVE  /\ SeededRow(c, e) \in Rows
           /\ SeededRow(c, e).end = e
           /\ SeededRow(c, e).state # "absent"
           /\ SeededRow(c, e).state = "done" => c.state = "done" /\ c.end = e
<1>1. c.state \in WindowStates
  BY DEF Rows
<1>2. CASE c.state = "absent"
  BY <1>2 DEF SeededRow, Rows, WindowStates, Settled
<1>3. CASE c.state # "absent" /\ c.end = e
  BY <1>3 DEF SeededRow, Rows, WindowStates, Settled
<1>4. CASE c.state \in Settled /\ c.end # e
  BY <1>4 DEF SeededRow, Rows, WindowStates, Settled
<1>5. CASE c.state \notin Settled \union {"absent"} /\ c.end # e
  BY <1>5, <1>1 DEF SeededRow, Rows, WindowStates, Settled
<1> QED  BY <1>2, <1>3, <1>4, <1>5

Ends == {Evening(b) : b \in 0 .. today - 1} \union {NoEnd}

LEMMA EndsAreIntegers == today \in Days => Ends \subseteq Int
BY PlanningConstants DEF Ends, Days, Evening, NoEnd

\* The row of a seeded window, and of any other.
LEMMA BackfillRows ==
    ASSUME IInv, NEW d \in Specs, NEW from \in FirstDays, NEW to \in Days, NEW last,
           Backfill(d, from, to, last)
    PROVE  LET seeded == {w \in SetupWindows(d, from, to, today) : w.start <= last} IN
           /\ rows' \in [Keys -> Rows]
           /\ \A w \in seeded :
                 <<d, w.start>> \in Keys
                 /\ rows'[<<d, w.start>>] = SeededRow(rows[<<d, w.start>>], w.end)
           /\ \A k \in Keys : rows'[k] = rows[k]
                 \/ \E w \in seeded : k = <<d, w.start>> /\ rows'[k] = SeededRow(rows[k], w.end)
<1> DEFINE plan == SetupWindows(d, from, to, today)
           seeded == {w \in plan : w.start <= last}
           of(k) == CHOOSE w \in seeded : k = <<d, w.start>>
<1>1. from \in Days /\ to \in Days /\ today \in Days /\ rows \in [Keys -> Rows]
  BY PlanningConstants DEF IInv, TypeOK, Days
<1>2. rows' = [k \in Keys |-> IF \E w \in seeded : k = <<d, w.start>>
                              THEN SeededRow(rows[k], of(k).end) ELSE rows[k]]
  BY DEF Backfill
<1>3. \A w \in seeded : w.start \in Instants /\ w.end \in Ends
  BY <1>1, WindowTypes DEF Ends
<1>4. \A v, w \in seeded : v.start = w.start => v = w
  BY <1>1, WindowTypes
<1> HIDE DEF seeded, plan
<1>5. ASSUME NEW k \in Keys, NEW w \in seeded, k = <<d, w.start>>
      PROVE  of(k) = w /\ rows'[k] = SeededRow(rows[k], w.end)
  <2>1. of(k) \in seeded /\ k = <<d, of(k).start>>
    BY <1>5
  <2>2. of(k) = w
    BY <1>4, <1>5, <2>1
  <2> QED  BY <1>2, <1>5, <2>2
<1>6. \A w \in seeded : <<d, w.start>> \in Keys
  BY <1>3 DEF Keys
<1>7. ASSUME NEW k \in Keys  PROVE
        /\ rows'[k] \in Rows
        /\ rows'[k] = rows[k]
             \/ \E w \in seeded : k = <<d, w.start>> /\ rows'[k] = SeededRow(rows[k], w.end)
  <2>1. CASE \E w \in seeded : k = <<d, w.start>>
    <3>1. PICK w \in seeded : k = <<d, w.start>>
      BY <2>1
    <3>2. w.end \in Int /\ rows[k] \in Rows
      BY <1>1, <1>3, EndsAreIntegers
    <3>3. rows'[k] = SeededRow(rows[k], w.end)
      BY <1>5, <3>1
    <3>4. SeededRow(rows[k], w.end) \in Rows
      BY <3>2, SeededFacts
    <3> QED  BY <3>1, <3>3, <3>4
  <2>2. CASE ~\E w \in seeded : k = <<d, w.start>>
    BY <1>1, <1>2, <2>2
  <2> QED  BY <2>1, <2>2
<1>8. rows' \in [Keys -> Rows]
  <2> DEFINE F(k) == IF \E w \in seeded : k = <<d, w.start>>
                     THEN SeededRow(rows[k], of(k).end) ELSE rows[k]
  <2>1. rows' = [k \in Keys |-> F(k)]
    BY <1>2
  <2>2. \A k \in Keys : rows'[k] = F(k)
    BY <2>1
  <2> HIDE DEF F
  <2>3. \A k \in Keys : F(k) \in Rows
    BY <1>7, <2>2
  <2> QED  BY <2>1, <2>3
<1>9. \A w \in seeded : <<d, w.start>> \in Keys
         /\ rows'[<<d, w.start>>] = SeededRow(rows[<<d, w.start>>], w.end)
  BY <1>5, <1>6
<1> QED  BY <1>7, <1>8, <1>9 DEF seeded, plan

(***************************************************************************)
(* The inductive invariant.                                                *)
(***************************************************************************)
LEMMA InitInv == Init => IInv
<1> SUFFICES ASSUME Init  PROVE IInv
  OBVIOUS
<1>1. AbsentCheckpoint \in Rows /\ AbsentCheckpoint.state = "absent"
      /\ AbsentCheckpoint.end = NoEnd
  BY DEF AbsentCheckpoint, Rows, WindowStates, NoEnd
<1>2. rows \in [Keys -> Rows] /\ \A k \in Keys : rows[k] = AbsentCheckpoint
  BY <1>1 DEF Init
<1>3. \A d \in Specs : asked[d] = NotAsked
  BY DEF Init
<1>4. TypeOK
  <2>1. \A k \in Keys : rows[k].state \in WindowStates /\ rows[k].end = NoEnd
    BY <1>1, <1>2 DEF Rows
  <2> QED  BY <2>1 DEF Init, TypeOK
<1>5. DoneForItsRange
  BY <1>1, <1>2 DEF DoneForItsRange
<1>6. AskedIsSeeded
  BY <1>3, PlanningConstants DEF AskedIsSeeded
<1> QED  BY <1>2, <1>4, <1>5, <1>6 DEF IInv

\* The last backfill that was completed, if any, is one of the command's.
LEMMA AskedFacts ==
    ASSUME TypeOK, NEW d \in Specs, asked[d] # NotAsked
    PROVE  asked[d].from \in Days /\ asked[d].to \in Days /\ asked[d].day \in Days
BY DEF TypeOK

\* Settling a window touches the state of a row that is there, and no end.
LEMMA SettleKeepsRows ==
    ASSUME IInv, NEW k \in Keys, rows[k].state \in Pending,
           NEW s \in WindowStates, s # "absent",
           rows' = [rows EXCEPT ![k].state = s], UNCHANGED <<today, asked>>
    PROVE  /\ rows' \in [Keys -> Rows]
           /\ \A j \in Keys : rows'[j].end = rows[j].end /\ rows'[j].state \in WindowStates
           /\ \A j \in Keys : rows'[j].state = IF j = k THEN s ELSE rows[j].state
           /\ AskedIsSeeded'
<1>1. rows \in [Keys -> Rows]
  BY DEF IInv
<1>2. ASSUME NEW j \in Keys
      PROVE  /\ rows'[j] = IF j = k THEN [rows[k] EXCEPT !.state = s] ELSE rows[j]
             /\ rows'[j].end = rows[j].end
             /\ rows'[j].state = IF j = k THEN s ELSE rows[j].state
             /\ rows'[j].state \in WindowStates /\ rows'[j] \in Rows
  BY <1>1 DEF Rows
<1>3. rows' \in [Keys -> Rows]
  BY <1>1, <1>2
<1>4. AskedIsSeeded'
  <2> SUFFICES ASSUME NEW d \in EndTimeSpecs, asked[d] # NotAsked,
                      NEW w \in SetupWindows(d, asked[d].from, asked[d].to, asked[d].day)
               PROVE  rows'[<<d, w.start>>].state # "absent" /\ rows'[<<d, w.start>>].end = w.end
    BY DEF AskedIsSeeded
  <2>1. w.start \in Instants /\ d \in Specs
    BY AskedFacts, WindowTypes, PlanningConstants DEF IInv
  <2>2. <<d, w.start>> \in Keys
    BY <2>1 DEF Keys
  <2>3. rows[<<d, w.start>>].state # "absent" /\ rows[<<d, w.start>>].end = w.end
    BY DEF IInv, AskedIsSeeded
  <2> QED  BY <1>2, <2>2, <2>3
<1> QED  BY <1>2, <1>3, <1>4

LEMMA SettleInv ==
    ASSUME IInv, NEW k \in Keys, RunWindow(k) \/ FailWindow(k) \/ Abandon(k)
    PROVE  IInv'
<1>1. today' = today /\ asked' = asked /\ rows[k].state \in Pending
  BY DEF RunWindow, FailWindow, Abandon
<1>2. PICK s \in {"done", "failed", "abandoned"} :
        /\ rows' = [rows EXCEPT ![k].state = s]
        /\ s = "done" => RunWindow(k)
        /\ s # "done" => fetched' = fetched
  BY DEF RunWindow, FailWindow, Abandon
<1>3. s \in WindowStates /\ s # "absent"
  BY <1>2 DEF WindowStates
<1>4. /\ rows' \in [Keys -> Rows]
      /\ \A j \in Keys : rows'[j].end = rows[j].end /\ rows'[j].state \in WindowStates
      /\ \A j \in Keys : rows'[j].state = IF j = k THEN s ELSE rows[j].state
      /\ AskedIsSeeded'
  BY <1>1, <1>2, <1>3, SettleKeepsRows
<1>5. fetched' = IF s = "done"
                 THEN [fetched EXCEPT ![k[1]] = @ \union Selected(k[2], rows[k].end, today)]
                 ELSE fetched
  BY <1>2 DEF RunWindow
<1>6. k[1] \in Specs /\ k[2] \in Instants /\ fetched \in [Specs -> SUBSET Instants]
  BY DEF Keys, IInv, TypeOK
<1>7. fetched' \in [Specs -> SUBSET Instants]
      /\ (\A d \in Specs : fetched[d] \subseteq fetched'[d])
      /\ (s = "done" => Selected(k[2], rows[k].end, today) \subseteq fetched'[k[1]])
  <2>1. Selected(k[2], rows[k].end, today) \subseteq Instants
    BY DEF Selected
  <2> QED  BY <1>5, <1>6, <2>1
<1>8. TypeOK'
  BY <1>1, <1>4, <1>7 DEF IInv, TypeOK
<1>9. DoneForItsRange'
  <2> SUFFICES ASSUME NEW j \in Keys, rows'[j].state = "done", rows'[j].end # NoEnd
               PROVE  Selected(j[2], rows'[j].end, today) \subseteq fetched'[j[1]]
    BY <1>1 DEF DoneForItsRange
  <2>1. j[1] \in Specs /\ rows'[j].end = rows[j].end
    BY <1>4 DEF Keys
  <2>2. CASE j = k
    BY <1>4, <1>7, <2>1, <2>2
  <2>3. CASE j # k
    <3>1. Selected(j[2], rows[j].end, today) \subseteq fetched[j[1]]
      BY <1>4, <2>1, <2>3 DEF IInv, DoneForItsRange
    <3> QED  BY <1>7, <2>1, <3>1
  <2> QED  BY <2>2, <2>3
<1> QED  BY <1>4, <1>8, <1>9 DEF IInv

LEMMA BackfillInv ==
    ASSUME IInv, NEW d \in Specs, NEW from \in FirstDays, NEW to \in Days, NEW last,
           Backfill(d, from, to, last)
    PROVE  IInv'
<1> DEFINE plan == SetupWindows(d, from, to, today)
           seeded == {w \in plan : w.start <= last}
<1>1. /\ from \in Days /\ today \in Days /\ rows \in [Keys -> Rows]
      /\ today' = today /\ fetched' = fetched
      /\ asked' = [asked EXCEPT ![d] = IF seeded = plan
                     THEN [from |-> from, to |-> to, day |-> today] ELSE NotAsked]
      /\ asked \in [Specs -> [from : Days, to : Days, day : Days] \union {NotAsked}]
  BY PlanningConstants DEF IInv, TypeOK, Days, Backfill
<1>2. /\ rows' \in [Keys -> Rows]
      /\ \A w \in seeded :
            <<d, w.start>> \in Keys
            /\ rows'[<<d, w.start>>] = SeededRow(rows[<<d, w.start>>], w.end)
      /\ \A k \in Keys : rows'[k] = rows[k]
            \/ \E w \in seeded : k = <<d, w.start>> /\ rows'[k] = SeededRow(rows[k], w.end)
  BY BackfillRows
<1>3. \A w \in plan : w.start \in Instants /\ w.end \in Ends
  BY <1>1, WindowTypes DEF Ends
<1>4. \A w \in plan : w.end \in Int
  BY <1>1, <1>3, EndsAreIntegers
<1> HIDE DEF seeded, plan
<1>5. seeded \subseteq plan
  BY DEF seeded
<1>6. ASSUME NEW k \in Keys
      PROVE  /\ rows'[k].state \in WindowStates /\ rows'[k].end \in Ends
             /\ rows'[k].state = "done" => rows[k].state = "done" /\ rows'[k].end = rows[k].end
             /\ rows[k].state # "absent" => rows'[k].state # "absent"
             /\ k[1] # d => rows'[k] = rows[k]
  <2>1. rows[k] \in Rows /\ rows'[k] \in Rows /\ rows[k].end \in Ends
    BY <1>1, <1>2 DEF IInv, TypeOK, Ends
  <2>2. rows'[k].state \in WindowStates
    BY <2>1 DEF Rows
  <2>3. CASE rows'[k] = rows[k]
    BY <2>1, <2>2, <2>3
  <2>4. CASE \E w \in seeded : k = <<d, w.start>> /\ rows'[k] = SeededRow(rows[k], w.end)
    <3>1. PICK w \in seeded : k = <<d, w.start>> /\ rows'[k] = SeededRow(rows[k], w.end)
      BY <2>4
    <3>2. w.end \in Int /\ w.end \in Ends /\ k[1] = d
      BY <1>3, <1>4, <1>5, <3>1
    <3> QED  BY <2>1, <2>2, <3>1, <3>2, SeededFacts
  <2> QED  BY <1>2, <2>3, <2>4
<1>7. asked' \in [Specs -> [from : Days, to : Days, day : Days] \union {NotAsked}]
  BY <1>1
<1>8. TypeOK'
  BY <1>1, <1>6, <1>7 DEF IInv, TypeOK, Ends
<1>9. DoneForItsRange'
  BY <1>1, <1>6 DEF IInv, DoneForItsRange
<1>10. AskedIsSeeded'
  <2> SUFFICES ASSUME NEW c \in EndTimeSpecs, asked'[c] # NotAsked,
                      NEW w \in SetupWindows(c, asked'[c].from, asked'[c].to, asked'[c].day)
               PROVE  rows'[<<c, w.start>>].state # "absent" /\ rows'[<<c, w.start>>].end = w.end
    BY DEF AskedIsSeeded
  <2>1. c \in Specs
    BY PlanningConstants
  <2>2. CASE c = d
    <3>1. seeded = plan /\ asked'[c] = [from |-> from, to |-> to, day |-> today]
      BY <1>1, <2>1, <2>2
    <3>2. w \in plan
      BY <2>2, <3>1 DEF plan
    <3>3. <<d, w.start>> \in Keys /\ w.end \in Int
          /\ rows'[<<d, w.start>>] = SeededRow(rows[<<d, w.start>>], w.end)
      BY <1>2, <1>4, <3>1, <3>2
    <3> QED  BY <1>1, <2>2, <3>3, SeededFacts
  <2>3. CASE c # d
    <3>1. asked'[c] = asked[c]
      BY <1>1, <2>1, <2>3
    <3>2. w.start \in Instants
      BY <2>1, <3>1, AskedFacts, WindowTypes DEF IInv
    <3>3. <<c, w.start>> \in Keys /\ <<c, w.start>>[1] # d
      BY <2>1, <2>3, <3>2 DEF Keys
    <3>4. rows'[<<c, w.start>>] = rows[<<c, w.start>>]
      BY <1>6, <3>3
    <3>5. rows[<<c, w.start>>].state # "absent" /\ rows[<<c, w.start>>].end = w.end
      BY <3>1 DEF IInv, AskedIsSeeded
    <3> QED  BY <3>4, <3>5
  <2> QED  BY <2>2, <2>3
<1> QED  BY <1>2, <1>8, <1>9, <1>10 DEF IInv

\* The files of a closed window do not depend on the day.
LEMMA NextDayInv ==
    ASSUME IInv, NextDay
    PROVE  IInv'
<1>1. /\ today \in Days /\ LastDay \in Nat /\ today' = today + 1 /\ today < LastDay
      /\ rows' = rows /\ fetched' = fetched /\ asked' = asked
  BY PlanningConstants DEF NextDay, IInv, TypeOK
<1>2. today' \in Days /\ 0 .. today - 1 \subseteq 0 .. today' - 1
  BY <1>1 DEF Days
<1>3. TypeOK'
  BY <1>1, <1>2 DEF IInv, TypeOK
<1>4. DoneForItsRange'
  BY <1>1 DEF IInv, DoneForItsRange, Selected
<1>5. AskedIsSeeded'
  BY <1>1 DEF IInv, AskedIsSeeded
<1> QED  BY <1>1, <1>3, <1>4, <1>5 DEF IInv

LEMMA NextInv == IInv /\ [Next]_vars => IInv'
<1> SUFFICES ASSUME IInv, [Next]_vars  PROVE IInv'
  OBVIOUS
<1>1. ASSUME NEW d \in Specs, NEW from \in FirstDays, NEW to \in Days,
             NEW w \in SetupWindows(d, from, to, today), Backfill(d, from, to, w.start)
      PROVE  IInv'
  BY <1>1, BackfillInv
<1>2. ASSUME NEW k \in Keys, RunWindow(k) \/ FailWindow(k) \/ Abandon(k)
      PROVE  IInv'
  BY <1>2, SettleInv
<1>3. CASE NextDay
  BY <1>3, NextDayInv
<1>4. CASE UNCHANGED vars
  BY <1>4 DEF vars, IInv, TypeOK, DoneForItsRange, AskedIsSeeded
<1> QED  BY <1>1, <1>2, <1>3, <1>4 DEF Next

LEMMA CoversFromInv == IInv => DoneCoversAsked
<1> SUFFICES ASSUME IInv, NEW d \in EndTimeSpecs, asked[d] # NotAsked,
                    \A k \in Keys : k[1] = d => rows[k].state \in {"absent", "done"},
                    NEW w \in SetupWindows(d, asked[d].from, asked[d].to, asked[d].day),
                    w.end # NoEnd
             PROVE  Selected(w.start, w.end, today) \subseteq fetched[d]
  BY DEF DoneCoversAsked
<1>1. d \in Specs
  BY PlanningConstants
<1>2. w.start \in Instants
  BY <1>1, AskedFacts, WindowTypes DEF IInv
<1>3. PICK k \in Keys : k = <<d, w.start>> /\ k[1] = d /\ k[2] = w.start
  <2>1. <<d, w.start>> \in Keys
    BY <1>1, <1>2 DEF Keys
  <2>2. <<d, w.start>>[1] = d /\ <<d, w.start>>[2] = w.start
    OBVIOUS
  <2> QED  BY <2>1, <2>2
<1>4. rows[k].state # "absent" /\ rows[k].end = w.end
  BY <1>3 DEF IInv, AskedIsSeeded
<1>5. rows[k].state = "done"
  BY <1>3, <1>4
<1> QED  BY <1>3, <1>4, <1>5 DEF IInv, DoneForItsRange

(***************************************************************************)
(* The results.                                                            *)
(***************************************************************************)
LEMMA SpecInv == Spec => []IInv
<1> QED  BY InitInv, NextInv, PTL DEF Spec

\* A closed window ends with a day that is past, whenever it was planned and
\* whatever was seeded over it (plan.rs:87-92): JVOpen takes no other end time.
THEOREM PlanningTypes == Spec => []TypeOK
<1>1. IInv => TypeOK
  BY DEF IInv
<1> QED  BY <1>1, SpecInv, PTL

\* The windows of a plan select every file of its range exactly once, for every
\* length of the year, first day, last day and day of planning (plan.rs:50-60).
THEOREM PlansTileTheRange == Spec => []PlanTiles
<1>1. IInv => PlanTiles
  BY PlansTile DEF IInv, TypeOK
<1> QED  BY <1>1, SpecInv, PTL

\* A row is done only for the range it has now: re-seeding with another end
\* takes the state back (store/src/ingest.rs:46-53).
THEOREM DoneMeansFetched == Spec => []DoneForItsRange
<1>1. IInv => DoneForItsRange
  BY DEF IInv
<1> QED  BY <1>1, SpecInv, PTL

\* When nothing is left to run, the closed windows of the last complete backfill
\* have been fetched, however many backfills came before and wherever their
\* seeding stopped (main.rs:250-258, store/src/ingest.rs:45-83).
THEOREM NothingLeftOut == Spec => []DoneCoversAsked
<1> QED  BY CoversFromInv, SpecInv, PTL
=============================================================================
