SPECIFICATION Spec
CONSTANTS
    Page = 2
    BackPage = 1
    Ahead = 1
    History = 1
    MaxPosts = 4
    MaxDeletes = 1
    MaxLosses = 1
    MaxAsked = 2
INVARIANTS
    HolesAreMarked
    CaughtUpWhenQuiet
CONSTRAINT
    TwoInFlight
CHECK_DEADLOCK FALSE
