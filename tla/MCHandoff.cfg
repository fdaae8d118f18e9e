\* Three packets, one model of one place, two places in the role; one restart, deleted
\* flight, sender that leaves, further return, message to a helper or turn of an agent
\* of another flight.
CONSTANTS
    p1 = p1
    p2 = p2
    p3 = p3
    m1 = m1
    o1 = o1
    o2 = o2
    Packets <- MCPackets
    Models <- MCModels
    Capacity <- MCCapacity
    RoleMax = 2
    Others <- MCOthers
    OtherModel <- MCOtherModel
    LocalOthers <- MCLocalOthers
    MaxExtras = 1
SPECIFICATION FairSpec
INVARIANTS
    TypeOK
    WaitingIsAsked
    ReportedOnce
PROPERTIES
    NotOverbooked
    OldestFirst
    AwaitAnswered
