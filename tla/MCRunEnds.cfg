SPECIFICATION FairSpec
CONSTANTS
    Node <- N4
    Plans <- Plans4
    Pool <- OnePool
    Capacity <- Two
    Cost <- Costs4
    Guarded <- G2
    Timed <- Fourth
    Fragile <- Nobody
    Blocking <- Nobody
    MaxAttempts <- Retried4
    BodyResult <- Results
    FailureMode = "continue"
    MaxRequests = 0
INVARIANTS
    ZombieUntilReturn
    SlotMatchesRecord
    SuccessIsHonest
PROPERTIES
    RunEnds
CHECK_DEADLOCK FALSE
