SPECIFICATION Spec
CONSTANTS
    Seats = {gable, claudette}
    Human = Human
    HopCap = 1
    DailyHopCap = 1
    BudgetCap = 2
    MaxPosts = 4
    MaxHuman = 2
    MaxDay = 1
    MaxCrashes = 1
INVARIANTS
    HopsPerLook
    BudgetHolds
    BotSessionsAreEarned
SYMMETRY Symmetry
CHECK_DEADLOCK FALSE
