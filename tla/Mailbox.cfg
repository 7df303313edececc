CONSTANTS
    Senders = {s1, s2}
    Refs = {r1, r2}
    NoRef = NoRef
    MaxPushes = 3
SPECIFICATION Spec
INVARIANTS TypeOK NoLostWakeup QueueOrder Conservation
PROPERTY ImplementsPromise
CHECK_DEADLOCK FALSE
