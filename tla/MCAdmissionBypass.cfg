SPECIFICATION FairSpec
CONSTANTS
    Node <- N3
    Pool = {"memory"}
    Capacity <- Small
    Cost <- Cost3
    Memory = "memory"
    Residency <- Residency3
    Direct = {}
    Stream = {2, 3}
PROPERTY
    WaiterServed
CHECK_DEADLOCK FALSE
