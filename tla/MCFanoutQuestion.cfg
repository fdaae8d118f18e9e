\* The flight lands while its fan-out waits for an answer.
CONSTANTS
    NParts = 3
    NWaves = 2
    WaveOf <- ForkWaves
    DependsOn <- ForkDeps
    MaxAgents = 2
    RoleCap = 2
    MaxRetries = 0
    OnFailureCfg = {"ask"}
    Swarm = FALSE
    HandsFree = FALSE
    HasTimeout = FALSE
    MaxRestarts = 0
    MaxHandReleases = 0
    MaxDeletes = 0
SPECIFICATION Spec
INVARIANTS
    QuestionStays
