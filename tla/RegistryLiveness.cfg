CONSTANTS
    Pids = {a, b, c}
    NoPid = NoPid
    MaxRef = 0
    Names = {}
    NoName = NoName
    Outside = {}
    ExitReasons = {"normal", "kill"}
    Boots = {3}
    MaxCalls = 3
SPECIFICATION MCSpec
PROPERTY ExitsFinish
CHECK_DEADLOCK FALSE
