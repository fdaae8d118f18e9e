\* The levels as they are out of the box, where Tower's texts wait in the Inbox.
CONSTANTS
    f1 = f1
    Flights <- TheFlight
    TopRung = 1
    PerRung = 2
    MaxAuto = 1
    Settings <- Box
    MaxRuns = 2
    MaxTexts = 1
    MaxRestarts = 0
SPECIFICATION Spec
INVARIANTS
    WaitingMessageIsShown
