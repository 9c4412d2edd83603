\* Two single-slot workers, a keyed and an unkeyed job, everything that may go wrong.
SPECIFICATION Spec
CONSTANTS
    u1 = u1
    k1 = k1
    a1 = a1
    s1 = s1
    s2 = s2
    s3 = s3
    Users = {u1}
    Keys = {k1}
    AutoIds = {a1}
    Slots = {s1, s2}
    Processes <- OneProcessEach
    MaxAttempts = 2
    MaxStalled = 1
    Events = {"crash", "lock_loss", "smtp_ambiguous", "claim_reply_lost",
              "release_reply_lost", "evict", "early_ttl"}
    NoJob = NoJob
    NoSlot = NoSlot
    NoUser = NoUser
SYMMETRY SlotSymmetry
INVARIANTS PipelineInv MailsAreBounded
PROPERTIES FinishedIsFinal
\* A finite set of reports is requested and all of them end.
