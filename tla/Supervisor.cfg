CONSTANTS
    N = 2
    Strategies = {"one_for_one", "one_for_all", "rest_for_one"}
    ChildSpecs <- MixedKinds
    Intensity = 2
    Period = 1
    Patience = 1
    MaxInst = 6
    MaxFails = 1
    MaxNow = 2
SPECIFICATION Spec
INVARIANTS TypeOK CoreMatchesWorld OneInstance BrakeHolds LaterChildIsYounger GivesUpCleanly
PROPERTY PermanentReturns
CHECK_DEADLOCK FALSE
