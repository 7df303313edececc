CONSTANTS
    N = 2
    Strategies = {"one_for_all"}
    ChildSpecs <- DefaultKind
    Intensity = 2
    Period = 1
    Patience = 1
    MaxInst = 6
    MaxFails = 0
    MaxNow = 2
SPECIFICATION Spec
INVARIANT PermanentIsRestarted
CHECK_DEADLOCK FALSE
