SPECIFICATION Spec
CONSTANTS
    Slugs = {a, b}
    Runs = {r1, r2}
    Tiers = {0, 2}
    Budget = 1
    MaxChanges = 3
    MaxPasses = 1
    MaxAsks = 2
    MaxCrashes = 1
INVARIANTS
    SelfMergesAreGreenTierZero
    BudgetHolds
    ReviewedOrHarmless
PROPERTIES
    GatedAsItLands
SYMMETRY Symmetry
CHECK_DEADLOCK FALSE
