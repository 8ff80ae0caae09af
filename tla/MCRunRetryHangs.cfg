SPECIFICATION FairSpec
CONSTANTS
    Node <- N3
    Plans <- Plans3
    Pool <- OnePool
    Capacity <- Two
    Cost <- Costs3
    Guarded <- G2
    Timed <- Nobody
    Fragile <- Nobody
    Blocking <- Nobody
    MaxAttempts <- Twice
    BodyResult <- Results
    FailureMode = "continue"
    MaxRequests = 0
PROPERTIES
    RunEnds
CHECK_DEADLOCK FALSE
