SPECIFICATION MetastoreSpec
CONSTANTS
    Run = {r1, r2}
    Syncer = {s1}
    Length = 3
    Hashless = {r2}
    Lookalike = {r2}
    MaxTries = 2
    MaxTrouble = 1
INVARIANTS
    NeverSwallowed
PROPERTY FollowConverges
CHECK_DEADLOCK FALSE
