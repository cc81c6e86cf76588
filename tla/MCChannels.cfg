SPECIFICATION Spec
CONSTANTS
    Handlers = {h1, h2}
    Users = {owner, guest}
    Bots = {bot}
    Admins = {guest}
    Owner = owner
    Nobody = Nobody
    MaxPosts = 1
    MaxRequests = 3
SYMMETRY Symmetry
INVARIANTS
    OutsidersHearNothing
    NoOrphanRows
PROPERTIES
    MembersHear
CHECK_DEADLOCK FALSE
