\* A request without a User-Agent header.
SPECIFICATION Spec
CONSTANTS
    Processes = {api, worker}
    Bodies = {"login"}
    Agents = {"curl", "undefined"}
    MaxRecords = 3
    MaxBoots = 2
    Damages = {}
    api = api
    worker = worker
\* After MaxRecords records, MaxBoots starts and a change nothing is left to do.
CHECK_DEADLOCK FALSE
INVARIANT IntactVerifies
