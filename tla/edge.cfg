\* The edge process, one component at a time.
CONSTANTS
    TmTasks = {t1, t2}
    TmEvents = {1, 2, 3, 4}
    TmSize <- MCTmSize
    BatchMaxEvents = 2
    BatchMaxBytes = 3
    SpoolCapacity = 2
    Producers <- MCProducers
    EsEvents = {e1, e2}
    PipelineCapacity = 1
    WdSubsystems <- MCWatched
    DownThreshold = 2
    RestartAttempts = 2
    GraphVersions = 2
    BundleKinds = {"good", "unloadable", "uncompilable"}
    ApplyFaults = 3
    EdgeRestarts = 1
    ShConfigs = {"a", "b"}
    FirstConfig = "a"
    BadConfigs = {"b"}
    FailedRequired = 2
    MaxRestarts = 2
    ShApplies = 2
SPECIFICATION Spec
INVARIANTS
    AcksNeverRegress
    HammerOnlySustained
    LayersAgree
    RestartsWarranted
PROPERTIES
    OnlyHungTasksTimeOut
    ImplementsEventChannel
    ShutdownCompletes
    OutageHandled
    NoPolicyRollback
    NewestEnforced
    EpisodesEnd
CHECK_DEADLOCK FALSE
