SPECIFICATION Spec
CONSTANTS
    Key = {1, 2}
    Run = {1, 2}
    Pruner = 11
    Resumer = 12
    Client = {1, 2, 11, 12}
    Unhashed = {2}
    Tries = 2
    MaxFault = 2
INVARIANTS VerdictsAreTrue
PROPERTIES OldReferencesKept
CHECK_DEADLOCK FALSE
