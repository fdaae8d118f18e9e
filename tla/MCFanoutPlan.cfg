\* Every shape of four parts, three parts over two files, two parts that spell
\* one path in every way, and bad plans.
CONSTANTS
    Names = {"s1", "s2", "s3", "s4", "s5", "s9"}
    Files = {"lib", "main"}
    Roles = {"coder", "chatter"}
    CannotTake = {"chatter"}
    MaxSubtasks = 4
    MaxWaves = 3
    Plans <- ManyPlans
SPECIFICATION FairSpec
INVARIANTS
    PlanTypeOK
    CycleVerdict
    KeepsThePlan
    Layered
    WritersApart
PROPERTIES
    Decided
\* One call of start_fanout, which returns.
CHECK_DEADLOCK FALSE
