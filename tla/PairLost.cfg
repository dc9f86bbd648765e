SPECIFICATION Spec
CONSTANTS
    race = race
    Specs <- OneSpec
    EndTimeSpecs <- OneSpec
    NormalSpecs <- OneSpec
    Windows <- OneYear
    FileTimes <- TwoFiles
    Rank <- SortedNames
    RecCount = 1
    MaxRuns = 5
    MaxTime = 2
    FaultsA = {}
    FaultsB = {}
    CommandsB = {"backfill"}
INVARIANTS
    NothingIsLost
