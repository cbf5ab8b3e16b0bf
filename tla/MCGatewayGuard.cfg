\* The database fails during a lookup: is a valid key counted as a failure?
SPECIFICATION FairSpec
CONSTANTS
    q1 = q1
    q2 = q2
    Tokens = {"t1"}
    Strangers = {"s1"}
    Malformed = "none"
    Prefix <- MCPrefix
    IPs = {"ip1"}
    Reqs = {q1}
    KeyLimit = 1
    GuardLimit = 1
    MaxResends = 0
    NoId = NoId
    Faults = {"db"}
PROPERTIES ValidKeySparesGuard
