SPECIFICATION FairSpec
CONSTANTS
    horse = horse
    race = race
    none = none
    self = self
    win = win
    place = place
    NoKey = none
    Keys = {horse, race}
    Combos = {self, win, place}
    Payloads <- MixedPayloads
    RunIds = {1, 2}
    Batch = 2
    MaxParser = 2
    MaxRaw = 3
    Faults = {"sql"}
INVARIANTS
    CounterIsExact
PROPERTIES
    NormalizeReturns
    BadRecordDoesNotBlock
    NormalizeApproachesItsEnd
