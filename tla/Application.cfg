CONSTANTS
    c1 = c1
    c2 = c2
    s1 = s1
    s2 = s2
    pool = pool
    a = a
    b = b
    Clients = {c1, c2}
    Far = {c2}
    Servers = {s1, s2}
    Pool = pool
    NoOp = NoOp
    Ops <- MCOps
    MaxCalls = 3
    MaxCasts = 1
    Ids = {a, b}
    Kinds <- MCKinds
    NoKind = NoKind
    Intensity = 1
    MaxExits = 2
    MaxFails = 1
    Starts <- MCStarts
SPECIFICATION Spec
INVARIANTS CallsAreAnswered PoolMatchesWorld PoolLeavesNothing
PROPERTIES CallsReturn NodeFollowsRoot
CHECK_DEADLOCK FALSE
