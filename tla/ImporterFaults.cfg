SPECIFICATION Spec
CONSTANTS
    race = race
    hoyu = hoyu
    Specs <- OneSpec
    EndTimeSpecs <- OneSpec
    NormalSpecs <- OneSpec
    Windows <- OneYear
    FileTimes <- TwoFiles
    Rank <- SortedNames
    RecCount = 2
    MaxRuns = 5
    MaxTime = 3
    Faults = {"db", "stream", "spawn", "kill"}
INVARIANTS
    TypeOK
    ResumePointStored
    DoneIsComplete
    CursorIsCovered
    RunningRunIsLast
    StateMatchesRun
    DiffRunsAreSerial
    FilesAreWhole
    FilesDoneCountsFiles
    EachRecordCountedOnce
PROPERTIES
    KeepsPromise
