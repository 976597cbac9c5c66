\* After a rollback the config that failed is promoted.
CONSTANTS
    TmTasks = {t1, t2}
    TmEvents = {1, 2, 3, 4}
    TmSize <- MCTmSize
    BatchMaxEvents = 2
    BatchMaxBytes = 3
    SpoolCapacity = 2
    Producers <- MCProducers
    EsEvents = {e1, e2}
    PipelineCapacity = 1
    WdSubsystems <- MCWatched
    DownThreshold = 2
    RestartAttempts = 2
    GraphVersions = 3
    BundleKinds = {"good", "unloadable", "uncompilable"}
    ApplyFaults = 2
    EdgeRestarts = 1
    ShConfigs = {"a", "b"}
    FirstConfig = "a"
    BadConfigs = {"b"}
    FailedRequired = 2
    MaxRestarts = 2
    ShApplies = 2
SPECIFICATION Spec
INVARIANT LastKnownGoodWasSeenHealthy
CHECK_DEADLOCK FALSE
