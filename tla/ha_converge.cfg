\* Address owner: every fault, then quiet.
CONSTANTS
    Nodes = {1, 2}
    Priority <- MCOwner
    Preempt = TRUE
    Interval = 3
    AcquireTime = 2
    Faults = {"loss", "cut", "health", "host_crash", "shutdown"}
    MaxFaults = 2
SPECIFICATION FairSpec
INVARIANT
    UnfitMasterReplaced
PROPERTIES
    Converges
    NoSpuriousTakeover
