SPECIFICATION Spec
CONSTANTS
    c1 = c1
    c2 = c2
    i1 = i1
    i2 = i2
    t1 = t1
    t2 = t2
    NoTopic = NoTopic
    NoConn = NoConn
    Topics = {t1, t2}
    Conns = {c1}
    SubIds = {i1, i2}
    MaxReqs = 2
    MaxEvents = 1
    MaxEvictions = 0
    MaxFaults = 1
    MaxOutages = 1
    Endings = {}
    Sweeps = {}
    MaxSweeps = 1
SYMMETRY Interchangeable
INVARIANTS
    InterestCovered
    NoGap
    RoutedOnce
    InScope
CHECK_DEADLOCK FALSE
