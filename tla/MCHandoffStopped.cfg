\* As MCHandoff, without any of the extras.
CONSTANTS
    p1 = p1
    p2 = p2
    p3 = p3
    m1 = m1
    o1 = o1
    o2 = o2
    Packets <- MCPackets
    Models <- MCModels
    Capacity <- MCCapacity
    RoleMax = 2
    Others <- MCOthers
    OtherModel <- MCOtherModel
    LocalOthers <- MCLocalOthers
    MaxExtras = 0
SPECIFICATION Spec
INVARIANT StoppedIsFailed
