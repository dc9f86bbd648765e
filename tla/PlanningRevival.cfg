SPECIFICATION Spec
CONSTANTS
    race = race
    hoyu = hoyu
    Specs = {race, hoyu}
    EndTimeSpecs = {race}
    YearLen = 2
    LastDay = 3
    FirstDays = {1}
PROPERTIES
    ChangedToRevives
