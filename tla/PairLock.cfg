SPECIFICATION Spec
CONSTANTS
    race = race
    Specs <- OneSpec
    EndTimeSpecs <- OneSpec
    NormalSpecs <- OneSpec
    Windows <- OneYear
    FileTimes <- TwoFiles
    Rank <- ReversedNames
    RecCount = 1
    MaxRuns = 5
    MaxTime = 2
    FaultsA = {"stream"}
    FaultsB = {}
    CommandsB = {"backfill"}
INVARIANTS
    SafeWhileLocked
    ResumePointStored
    CursorIsCovered
    EachRecordCountedOnce
PROPERTIES
    KeepsPromise
