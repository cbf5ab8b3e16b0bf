\* The quota holds under every fault, and every window ends that no fault cut.
SPECIFICATION FairSpec
CONSTANTS
    c1 = c1
    c2 = c2
    c3 = c3
    k1 = k1
    k2 = k2
    Callers = {c1, c2, c3}
    Keys = {k1, k2}
    Limit = 2
    MaxResends = 1
    MaxCount = 4
    NoKey = NoKey
    Faults = {"lost", "down", "expire", "crash", "restart"}
INVARIANTS TypeOK UnarmedIsTransient
PROPERTIES QuotaKept UncutKeyRecovers
