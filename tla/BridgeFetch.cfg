SPECIFICATION FairHistorySpec
CONSTANTS
    RecCount = 2
    MaxFiles = 2
    Limit = 2
    PipeCap = 1
    ChanCap = 1
    Faults = {"jv", "crash", "spawn", "garbled", "orphan", "leave", "kill", "io"}
INVARIANTS
    BridgeTypeOK
    NeverEndsSilently
PROPERTIES
    StreamInOrder
    FetchEnds
    BridgeEnds
    FetchApproachesItsEnd
    OnlyStillDownloadsAreGivenUp
CHECK_DEADLOCK FALSE
