SPECIFICATION Spec
CONSTANTS
    Ceiling = 2
    MaxLaunches = 2
    MaxTroubles = 1
PROPERTY
    TurnsStartUnasked
CHECK_DEADLOCK FALSE
