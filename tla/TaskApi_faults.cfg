\* An owner and an admin on one task, two requests at a time, every fault.
SPECIFICATION Spec
CONSTANTS
    Ids = {a}
    Users = {ann, root}
    Admins = {root}
    NoId = NoId
    NoUser = NoUser
    Handlers = {h1, h2}
    MaxUpdates = 2
    MaxLost = 1
    Faults = {"db_error", "redis_error", "redis_down", "reply_lost", "crash"}
    a = a
    ann = ann
    root = root
    h1 = h1
    h2 = h2
SYMMETRY Symmetry
INVARIANTS TypeOK DeletionIsLogged EventsAreTrue ChangesAreAudited
PROPERTIES KeepsLedger
