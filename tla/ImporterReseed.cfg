SPECIFICATION Spec
CONSTANTS
    race = race
    hoyu = hoyu
    Specs <- OneSpec
    EndTimeSpecs <- OneSpec
    NormalSpecs <- OneSpec
    Windows <- OneYear
    FileTimes <- ThreeFiles
    Rank <- SortedNames
    RecCount = 1
    MaxRuns = 6
    MaxTime = 3
    Faults = {"kill"}
INVARIANTS
    ResumeFileIsInStream
