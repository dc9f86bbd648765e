SPECIFICATION Spec
CONSTANTS
    race = race
    hoyu = hoyu
    Specs = {race}
    EndTimeSpecs = {race}
    YearLen = 2
    LastDay = 4
    FirstDays = {1}
INVARIANTS
    TypeOK
    PlanTiles
    DoneCoversAsked
    DoneForItsRange
