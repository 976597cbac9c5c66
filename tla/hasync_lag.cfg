\* One Master; the queue overflows and writes fail.
CONSTANTS
    a = a
    b = b
    Nodes <- MCNodes
    Capacity = 2
    BatchSize = 2
    Faults = {"write"}
    MaxRecords = 5
    MaxPromotions = 1
    MaxFaults = 2
SPECIFICATION Spec
INVARIANTS
    TypeOK
    LagKnown
SYMMETRY NodeSymmetry
CHECK_DEADLOCK FALSE
