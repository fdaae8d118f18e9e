\* Two parts in a row, on_failure edited while they run, a restart, and a human
\* who releases a draft that the fan-out left behind.
CONSTANTS
    NParts = 2
    NWaves = 2
    WaveOf <- PairWaves
    DependsOn <- PairDeps
    MaxAgents = 1
    RoleCap = 1
    MaxRetries = 1
    OnFailureCfg = {"ask", "continue", "stop"}
    Swarm = FALSE
    HandsFree = FALSE
    HasTimeout = TRUE
    MaxRestarts = 1
    MaxHandReleases = 1
    MaxDeletes = 0
SPECIFICATION FairSpec
INVARIANTS
    Capacity
PROPERTIES
    RunningEndsOrAsks
