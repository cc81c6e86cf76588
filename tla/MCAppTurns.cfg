SPECIFICATION Spec
CONSTANTS
    Ceiling = 1
    MaxLaunches = 2
    MaxTroubles = 2
INVARIANTS
    OneWriter
    NeverOvercharged
    CeilingHolds
    EveryTurnIsTold
    ClaimComesBack
CHECK_DEADLOCK FALSE
