SPECIFICATION Spec
CONSTANTS
    Node <- N4
    DataInputs <- Data4
    Upstreams <- Ups4
    Durable = {2, 3}
    TeardownCovered = {1}
    States = {"succeeded", "satisfied-from-prior", "failed"}
INVARIANTS
    PlanIsLeast
    InputsProvided
    RefusedForDemand
CHECK_DEADLOCK FALSE
