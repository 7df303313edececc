CONSTANTS
    Nodes = {a, b, c, d}
    MaxPending = 1
    Scenarios <- Break
SPECIFICATION MCSpec
PROPERTIES CascadeSettles
CHECK_DEADLOCK FALSE
