SPECIFICATION FairSpec
CONSTANTS
    Node <- N5
    Pool <- Pools
    Capacity <- Total
    Cost <- Cost5
    Memory = "memory"
    Residency <- Residency5
    Direct = {3}
    Stream = {}
INVARIANTS
    AdmissionBooks
    EmptyMachineAdmits
PROPERTIES
    WaiterServed
CHECK_DEADLOCK FALSE
