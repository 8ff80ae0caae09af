SPECIFICATION FairSpec
CONSTANTS
    Uid = {1, 2}
    Attempt = {1, 2}
    PodName <- MCPodName
    None = 0
    Build <- MCBuild
    Original <- MCOriginal
    MaxMiss = 2
    MaxLaunch = 2
    Bounded = FALSE
    MaxFault = 1
INVARIANTS PodBooks SuccessIsBacked
PROPERTIES EndedIsHeard OtherBuildsUntouched
CHECK_DEADLOCK FALSE
