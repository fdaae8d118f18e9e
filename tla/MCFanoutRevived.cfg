\* A retry brings back a part that also waits on a failure gone on without.
CONSTANTS
    NParts = 4
    NWaves = 3
    WaveOf <- JoinWaves
    DependsOn <- JoinDeps
    MaxAgents = 2
    RoleCap = 2
    MaxRetries = 1
    OnFailureCfg = {"ask"}
    Swarm = FALSE
    HandsFree = FALSE
    HasTimeout = FALSE
    MaxRestarts = 0
    MaxHandReleases = 0
    MaxDeletes = 0
SPECIFICATION Spec
INVARIANTS
    DepsReturned
