\* A lead's own split, which goes on without what failed: one slot, a role that
\* other flights share, one restart, one deleted child.
CONSTANTS
    NParts = 4
    NWaves = 3
    WaveOf <- TailWaves
    DependsOn <- TailDeps
    MaxAgents = 1
    RoleCap = 2
    MaxRetries = 0
    OnFailureCfg = {"auto"}
    Swarm = FALSE
    HandsFree = FALSE
    HasTimeout = TRUE
    MaxRestarts = 1
    MaxHandReleases = 0
    MaxDeletes = 1
SPECIFICATION FairSpec
INVARIANTS
    TypeOK
    DepsReturned
    Capacity
    AnsweredOnce
    QueueSound
    RunningHasAgent
    ClosedIsOver
PROPERTIES
    StartsOnlyLiveParts
    RunningEnds
    KeepsPromise
