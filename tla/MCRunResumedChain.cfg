SPECIFICATION Spec
CONSTANTS
    Node <- N3
    Plans <- ResumedChain
    Pool <- OnePool
    Capacity <- Two
    Cost <- Costs3
    Guarded <- G1
    Timed <- Nobody
    Fragile <- Nobody
    Blocking <- Nobody
    MaxAttempts <- Twice
    BodyResult <- Results
    FailureMode = "stop"
    MaxRequests = 0
INVARIANTS
    StopNeedsFailure
CHECK_DEADLOCK FALSE
