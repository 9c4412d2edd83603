\* Two processes and one change of one line.
SPECIFICATION Spec
CONSTANTS
    Processes = {api, worker}
    Bodies = {"login", "delete"}
    Agents = {"curl"}
    MaxRecords = 4
    MaxBoots = 3
    Damages = {"edit", "lose", "truncate", "duplicate", "move"}
    api = api
    worker = worker
\* After MaxRecords records, MaxBoots starts and a change nothing is left to do.
CHECK_DEADLOCK FALSE
INVARIANT IntactVerifies DamageIsFound VerifierIsExact
