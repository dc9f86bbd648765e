SPECIFICATION Spec
CONSTANTS
    horse = horse
    race = race
    none = none
    self = self
    win = win
    place = place
    NoKey = none
    Keys = {race}
    Combos = {self, win, place}
    Payloads <- PayoutPayloads
    RunIds = {1}
    Batch = 2
    MaxParser = 2
    MaxRaw = 4
    Faults = {"sql", "db", "kill"}
INVARIANTS
    TypeOK
    EntityShowsOneRecord
    LatestWins
PROPERTIES
    VersionNeverRegresses
    KeepsPromise
