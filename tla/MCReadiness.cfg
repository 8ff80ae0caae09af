SPECIFICATION DriverSpec
CONSTANTS
    Node <- N4
    Plans <- SoundPlans
INVARIANTS
    NeverEarly
    OriginIsACause
    NothingStranded
PROPERTIES
    TrackerKeepsContract
CHECK_DEADLOCK FALSE
