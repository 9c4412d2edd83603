\* A user and an admin with one key; queries and SMTP fail, no process does.
SPECIFICATION StatusSpec
CONSTANTS
    u1 = u1
    u2 = u2
    k1 = k1
    s1 = s1
    s2 = s2
    Users = {u1, u2}
    Admins = {u2}
    Keys = {k1}
    AutoIds = {}
    Slots = {s1, s2}
    Processes <- OneProcessEach
    MaxAttempts = 2
    MaxStalled = 0
    Events = {}
    NoJob = NoJob
    NoSlot = NoSlot
    NoUser = NoUser
INVARIANTS StatusIsPrivate HandedJobIsOwn CompletedMeansMailed
