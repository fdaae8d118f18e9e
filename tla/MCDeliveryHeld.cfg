\* One agent of any kind, one message, no fault.
CONSTANTS
    a1 = a1
    Agents <- TheAgent
    MaxMessages = 1
    MaxFaults = 0
SPECIFICATION FairSpec
CHECK_DEADLOCK FALSE
PROPERTY UpdateIsRead
