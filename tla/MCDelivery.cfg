SPECIFICATION FairSpec
CONSTANTS
    Handlers = {h1}
    Actors = {user}
    Bots = {}
    Flags = {}
    MaxRows = 3
    MaxEvents = 4
    NoHandler = NoHandler
    Page = 2
    MaxDrops = 2
    MaxFailures = 0
    MaxRestarts = 0
INVARIANTS
    NothingSkipped
PROPERTIES
    IsAFeed
    Delivered
CHECK_DEADLOCK FALSE
