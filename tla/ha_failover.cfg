\* Equal pair: lost advertisements, partitions, and every way to leave.
CONSTANTS
    Nodes = {1, 2}
    Priority <- MCEqual
    Preempt = FALSE
    Interval = 4
    AcquireTime = 9
    Faults = {"loss", "cut", "host_crash", "process_crash", "shutdown", "vip"}
    MaxFaults = 3
SPECIFICATION Spec
INVARIANTS
    SplitBrainBounded
    HeadlessBounded
