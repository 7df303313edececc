CONSTANTS
    a = a
    b = b
    c = c
    n1 = n1
    n2 = n2
    Nodes = {n1, n2}
    Pids = {a, b, c}
    Home <- MCHome
    Traps = {a}
    Given = {"normal", "exception", "kill"}
    MaxRef = 2
SPECIFICATION MCSpec
INVARIANTS TypeOK LinksFire MonitorsFire LinksSettle SignalsAreTrue
PROPERTY ComesToRest
CHECK_DEADLOCK FALSE
