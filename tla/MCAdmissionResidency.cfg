SPECIFICATION Spec
CONSTANTS
    Node <- N3
    Pool = {"memory"}
    Capacity <- Small
    Cost <- Cost3
    Memory = "memory"
    Residency <- Residency3
    Direct = {2, 3}
    Stream = {}
INVARIANT
    CountedWithinCapacity
CHECK_DEADLOCK FALSE
