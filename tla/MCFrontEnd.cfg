SPECIFICATION FrontSpec
CONSTANTS
    Node <- N3
    Work <- OneWork
    Policy <- Policies
    Wiring <- Wirings
    Rule <- Rules
    MaxAfter = 1
    Foreign = {}
    MaxDeclared = 3
    Flow <- OneFlow
    Verb <- Verbs
    Token <- Words
    Env <- Envs
    Files <- FileSystems
    Build <- Builds
    Machine <- Machines
    Pipeline <- Pipelines
    Absent = Absent
    Plenty = 1000
    Sentinel = 100
    FallbackMemory = 3
    MaxTokens = 3
INVARIANT AcceptedIsRunnable
INVARIANT RunsAsAsked
CHECK_DEADLOCK FALSE
