\* Tower's own split, which asks the human about what failed and may retry it.
CONSTANTS
    NParts = 3
    NWaves = 2
    WaveOf <- ForkWaves
    DependsOn <- ForkDeps
    MaxAgents = 1
    RoleCap = 2
    MaxRetries = 1
    OnFailureCfg = {"auto"}
    Swarm = TRUE
    HandsFree = FALSE
    HasTimeout = TRUE
    MaxRestarts = 0
    MaxHandReleases = 0
    MaxDeletes = 0
SPECIFICATION Spec
INVARIANTS
    Barrier
    FanoutInv
    WaitsForAnAnswer
    OneWorkerPerPart
PROPERTIES
    OverIsFinal
