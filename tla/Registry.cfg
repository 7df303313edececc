CONSTANTS
    Pids = {a, b, c}
    NoPid = NoPid
    MaxRef = 1
    Names = {n1}
    NoName = NoName
    Outside = {peer}
    ExitReasons = {"normal", "kill"}
    Boots = {2}
    MaxCalls = 4
SPECIFICATION MCSpec
SYMMETRY Symmetry
INVARIANTS TypeOK LinksAreMutual AbnormalDeathReachesLinks DeathReachesWatchers DeathPublishedOnce SentKillIsNeverTrapped
PROPERTIES NamesKeepTheirHolder
CHECK_DEADLOCK FALSE
