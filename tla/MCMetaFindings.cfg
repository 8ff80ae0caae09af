\* Not one of the runs: the invariants below are false of the code (README,
\* section 5).  Check them one at a time, leaving the other three lines out.
SPECIFICATION MetastoreSpec
CONSTANTS
    Run = {r1, r2}
    Syncer = {s1}
    Length = 3
    Hashless = {r2}
    Lookalike = {}
    MaxTries = 2
    MaxTrouble = 0
INVARIANTS
    OutputOnce
    UpIsRunning
    Gapless
    AddedWhenAbsent
CHECK_DEADLOCK FALSE
