\* One flight; up to two gate runs, one rung to escalate to, one automatic
\* landing and one automatic text an hour, two failures until the human is asked.
CONSTANTS
    f1 = f1
    Flights <- TheFlight
    TopRung = 1
    PerRung = 2
    MaxAuto = 1
    Settings <- Anything
    MaxRuns = 2
    MaxTexts = 1
    MaxRestarts = 1
SPECIFICATION FairSpec
INVARIANTS
    TypeOK
    SomebodyHasIt
PROPERTIES
    LandsPassed
    InFlightHasLead
    GatesAnswered
