CONSTANTS
    Senders = {s1}
    Refs = {r1}
    NoRef = NoRef
    MaxPushes = 2
SPECIFICATION Spec
PROPERTY CloseWakesReceiver
CHECK_DEADLOCK FALSE
