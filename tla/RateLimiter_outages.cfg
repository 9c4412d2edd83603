\* Two processes, and an outage, a restart or a window that ends.
SPECIFICATION FairSpec
CONSTANTS
    p1 = p1
    p2 = p2
    u1 = u1
    u2 = u2
    Procs = {p1, p2}
    Readers = {p1}
    Redis = redis
    Address = address
    Users = {u1, u2}
    Limiters = {"global", "tasks", "reports"}
    Limit <- MCLimit
    MaxRequests = 2
    MaxEvents = 1
INVARIANTS TypeOK LimitHolds RefusedAfterLimit
PROPERTIES DownKeepsServing RecoversWithRedis
\* All requests are decided, then nothing is left to do.
CHECK_DEADLOCK FALSE
