SPECIFICATION Spec
CONSTANTS
    Slugs = {s}
    Cap = 1
    MaxBuilds = 2
    MaxDay = 1
    MaxCrashes = 2
INVARIANTS
    ToldOnce
    TicketStays
    BudgetHolds
    HarvestHasItsFiles
PROPERTIES
    EveryBuildIsTold
CHECK_DEADLOCK FALSE
