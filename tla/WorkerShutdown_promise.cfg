\* One job that three runs on two workers race for, while the workers are replaced.
SPECIFICATION ShutdownFairSpec
CONSTANTS
    u1 = u1
    k1 = k1
    s1 = s1
    s2 = s2
    s3 = s3
    Users = {u1}
    Keys = {k1}
    AutoIds = {}
    Slots = {s1, s2, s3}
    Processes <- TwoWorkers
    MaxAttempts = 3
    MaxStalled = 2
    Events = {"crash", "lock_loss", "claim_reply_lost", "evict"}
    NoJob = NoJob
    NoSlot = NoSlot
    NoUser = NoUser
INVARIANTS AtMostOnceEmail ClaimIsExclusive StallsAreForced
PROPERTIES KeepsPromise
