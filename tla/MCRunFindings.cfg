\* Not one of the runs: the invariants below are false of the code (README,
\* section 5).  Check them one at a time, leaving the other lines out.
SPECIFICATION Spec
CONSTANTS
    Node <- N3
    Plans <- Plans3
    Pool <- OnePool
    Capacity <- Two
    Cost <- Costs3
    Guarded <- G1
    Timed <- Nobody
    Fragile <- Nobody
    Blocking <- Nobody
    MaxAttempts <- Twice
    BodyResult <- Results
    FailureMode = "continue"
    MaxRequests = 1
INVARIANTS
    AllDecidedAlways
    FailureByCause
    CancelHeard
    EveryAttemptRecorded
CHECK_DEADLOCK FALSE
