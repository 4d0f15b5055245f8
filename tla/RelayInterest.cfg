SPECIFICATION Spec
CONSTANTS
    c1 = c1
    c2 = c2
    i1 = i1
    i2 = i2
    t1 = t1
    t2 = t2
    NoTopic = NoTopic
    NoConn = NoConn
    Topics = {t1}
    Conns = {c1}
    SubIds = {i1, i2}
    MaxReqs = 2
    MaxEvents = 0
    MaxEvictions = 1
    MaxFaults = 0
    MaxOutages = 0
    Endings = {"close", "disconnect"}
    Sweeps = {"drain", "archive"}
    MaxSweeps = 1
SYMMETRY Interchangeable
INVARIANTS
    InterestCounted
    OnlyDropsHide
    NoneOutlivesSweep
CHECK_DEADLOCK FALSE
