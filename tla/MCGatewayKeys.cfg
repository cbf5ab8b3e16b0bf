\* Two requests against keygen, with the database and Redis failing.
SPECIFICATION FairSpec
CONSTANTS
    q1 = q1
    q2 = q2
    Tokens = {"t1", "t2"}
    Strangers = {"s1"}
    Malformed = "none"
    Prefix <- MCPrefix
    IPs = {"ip1"}
    Reqs = {q1, q2}
    KeyLimit = 2
    GuardLimit = 1
    MaxResends = 1
    NoId = NoId
    Faults = {"db", "redis"}
INVARIANTS TypeOK PassedWithLiveKey
PROPERTIES QuotaChargedToPresenter RequestsAnswered
