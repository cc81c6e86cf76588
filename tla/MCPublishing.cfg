SPECIFICATION FairSpec
CONSTANTS
    Sessions = {1, 2}
    MaxRequests = 2
    MaxTurns = 3
    MaxFaults = 1
INVARIANTS
    LiveIsServed
    LiveIsWhole
    RevertReachesBack
PROPERTIES
    ClaimIsReleased
CHECK_DEADLOCK FALSE
