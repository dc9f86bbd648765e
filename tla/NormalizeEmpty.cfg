SPECIFICATION Spec
CONSTANTS
    horse = horse
    race = race
    none = none
    self = self
    win = win
    place = place
    NoKey = none
    Keys = {race}
    Combos = {self, win, place}
    Payloads <- EmptyPayouts
    RunIds = {1}
    Batch = 1
    MaxParser = 2
    MaxRaw = 3
    Faults = {}
INVARIANTS
    NewerStateIsKept
