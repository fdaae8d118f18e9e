\* One agent of any kind, two messages; one dropped connection, hook that gives
\* up or restart.
CONSTANTS
    a1 = a1
    Agents <- TheAgent
    MaxMessages = 2
    MaxFaults = 1
SPECIFICATION FairSpec
\* An agent that ended, with the bounds used up, leaves nothing to do.
CHECK_DEADLOCK FALSE
INVARIANTS
    TypeOK
    NoDuplicate
    InOrder
PROPERTIES
    NoSilentLoss
    StaysStopped
    WaitingIsRead
