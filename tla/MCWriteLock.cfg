SPECIFICATION FairLockSpec
CONSTANTS
    Tasks = {t1, t2, t3}
    Units = {1, 2, 3}
    MaxStmts = 2
    NoTask = NoTask
    NoUnit = NoUnit
ACTION_CONSTRAINT UnitsInOrder
INVARIANTS
    AllOrNothing
PROPERTIES
    CommitsOwnWork
    InheritedBlockDies
    WaitersAreServed
