\* The services of the edge, one component at a time.
CONSTANTS
    ImTasks = {t1, t2}
    ImConfigs = {"a", "b"}
    RuleVersions = {1, 2}
    ImRestarts = 2
    FeedRevisions = 1
    Fingerprints = {f1, f2, f3, f4, f5}
    DedupWindow = 3
    DedupMax = 3
    EvictDivisor = 2
    ClockMax = 5
    FrameSizes = {0, 1, 2, 4, 5}
    MaxPackets = 3
    MaxTotalBytes = 4
    MaxPacketBytes = 5
    FramesMax = 5
    Members <- MCMembers
    Watches <- MCWatches
    Breaches = 2
    FailbackModes = {"immediate", "manual", "delay"}
    FailbackDelay = 2
    Weights <- MCWeights
    PacketsMax = 15
    Evaluators = {e1, e2}
    Flows = {w1, w2, w3}
    StPaths = {1}
    StickyWindow = 1
    StickyCapacity = 2
    StTicks = 2
    StReloads = 1
    ZtSessions = {"s"}
    ZtDevices = {"d1", "d2"}
    ProofMaxAge = 0
    ZtClockMax = 1
    ZtGrantsMax = 2
    RevokedCapacity = 1
    FpFlows = {"a", "b"}
    FpPolicies <- MCFpPolicies
    FwChunk = 1
    MaxRules = 2
    VerdictTtl = 0
    MapFaults = 1
SPECIFICATION Spec
INVARIANTS
    LoadedIsOnDisk
    WindowRemembered
    RingAccounts
    BondShares
    DeviceIndexExact
    DeniedSessionsRevoked
    FastPathSound
PROPERTIES
    RulesNeverDemoted
    NoEarlyFailback
    SwitchesWarranted
    LivePinsSurvive
    RefusalTakesHold
    StaleVerdictsEnd
CHECK_DEADLOCK FALSE
