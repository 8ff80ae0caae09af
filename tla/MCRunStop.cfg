SPECIFICATION DrainSpec
CONSTANTS
    Node <- N3
    Plans <- Plans3
    Pool <- OnePool
    Capacity <- Two
    Cost <- Costs3
    Guarded <- G1
    Timed <- Second
    Fragile <- FirstAndThird
    Blocking <- Nobody
    MaxAttempts <- Twice
    BodyResult <- Results
    FailureMode = "stop"
    MaxRequests = 1
INVARIANTS
    LoopBooks
    OneTruth
    AllDecided
    ConsumersFindInputs
    StopNeedsFailure
PROPERTIES
    RefinesContract
    NoStartAfterStop
    DrainEnds
CHECK_DEADLOCK FALSE
