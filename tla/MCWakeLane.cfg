SPECIFICATION FairLaneSpec
CONSTANTS
    Wakes = {1, 2, 3}
    Nothing = 0
    Day = 2
    Cap = 1
    Grace = 1
    Retention = 4
    DailyCap = 1
    MaxServed = 2
    MaxWait = 1
    MaxTime = 4
    MaxCrashes = 1
INVARIANTS
    DailyCapHolds
    ServedOnce
PROPERTIES
    EveryWakeIsTaken
ACTION_CONSTRAINT
    CallsInOrder
CHECK_DEADLOCK FALSE
