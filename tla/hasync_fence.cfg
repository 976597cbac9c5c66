\* Failovers, broken sessions and restarts.
CONSTANTS
    a = a
    b = b
    Nodes <- MCNodes
    Capacity = 2
    BatchSize = 1
    Faults = {"session", "restart"}
    MaxRecords = 2
    MaxPromotions = 3
    MaxFaults = 1
SPECIFICATION Spec
PROPERTIES
    AppliedInOrder
    SuccessorOutranksTable
SYMMETRY NodeSymmetry
CHECK_DEADLOCK FALSE
