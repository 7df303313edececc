CONSTANTS
    Nodes = {1, 2, 3}
    Pids = {1, 2, 3}
    NodeOf <- Apart
    Names = {x}
    Scenarios <- ClaimsAndMerges
    Retries = 2
    MaxClaims = 3
    MaxFaults = 1
SPECIFICATION MCSpec
INVARIANTS TypeOK GrantedEverywhere SomebodyWins MergesAgree
PROPERTIES EntriesYield
CHECK_DEADLOCK FALSE
