SPECIFICATION Spec
CONSTANTS
    Handlers = {h1, h2}
    Actors = {user, bot}
    Bots = {bot}
    Flags = {secret}
    MaxRows = 2
    MaxEvents = 3
    NoHandler = NoHandler
    Page = 2
    MaxDrops = 1
    MaxFailures = 1
    MaxRestarts = 1
INVARIANTS
    HiddenTextStaysHidden
    SeqIsGapless
    TextIsFlagged
    NothingSkipped
CHECK_DEADLOCK FALSE
