\* A lost reply to an INCR: does the window still end?
SPECIFICATION FairSpec
CONSTANTS
    c1 = c1
    c2 = c2
    c3 = c3
    k1 = k1
    k2 = k2
    Callers = {c1, c2}
    Keys = {k1, k2}
    Limit = 2
    MaxResends = 1
    MaxCount = 4
    NoKey = NoKey
    Faults = {"lost"}
PROPERTIES ExhaustedKeyRecovers
CHECK_DEADLOCK FALSE
