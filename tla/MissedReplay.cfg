SPECIFICATION Spec
CONSTANTS
    c1 = c1
    c2 = c2
    Channels = {c1}
    Founding = {c1}
    EventCap = 1
    CmdCap = 4
    SeenHalf = 3
    NoticeHalf = 2
    Skew = 1
    SlowSends = {"replay", "drain", "command", "close"}
    MaxItems = 3
    MaxFaults = 2
INVARIANTS
    DroppedComeBack
CHECK_DEADLOCK FALSE
