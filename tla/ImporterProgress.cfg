SPECIFICATION FairSpec
CONSTANTS
    race = race
    hoyu = hoyu
    Specs <- TwoSpecs
    EndTimeSpecs <- OneSpec
    NormalSpecs <- TwoSpecs
    Windows <- ThreeWindows
    FileTimes <- SparseFiles
    Rank <- ReversedNames
    RecCount = 1
    MaxRuns = 6
    MaxTime = 2
    Faults = {"stream"}
INVARIANTS
    SnapshotIsFresh
PROPERTIES
    CommandReturns
    ListedWindowIsRun
    CommandsApproachTheirEnd
