CONSTANTS
    Nodes = {1, 2}
    Pids = {1, 2, 3}
    NodeOf <- Together
    Names = {x}
    Scenarios <- Contests
    Retries = 2
    MaxClaims = 3
    MaxFaults = 1
SPECIFICATION MCSpec
INVARIANTS ExclusiveClaim
CHECK_DEADLOCK FALSE
