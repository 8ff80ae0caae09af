SPECIFICATION MCSpec
CONSTANTS
    Node <- N2
    DataInputs <- Chain
    Upstreams <- Chain
    Durable = {2}
    Hashed = {2}
    TeardownCovered = {}
    States = {}
    Results = {"retried", "failed"}
    MaxGen = 4
    MaxFault = 1
    Invocation = {1, 2, 3}
    ScratchKey <- TwoKeys
    MaxWrites = 2
    MaxMishap = 1
    Overlap = FALSE
INVARIANTS
    HonestArtifact
    PathIsBounded
    RightInputs
    ScratchTells
    TempIsConfined
CHECK_DEADLOCK FALSE
