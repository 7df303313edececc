CONSTANTS
    Nodes = {a, b, c, d}
    MaxPending = 1
    Scenarios <- Convergence
SPECIFICATION MCSpec
INVARIANTS TypeOK NoEcho
PROPERTIES FloodEnds Reconverges
CHECK_DEADLOCK FALSE
