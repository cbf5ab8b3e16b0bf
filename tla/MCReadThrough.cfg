\* A request races with two ingests; every call may fail and the process may die.
SPECIFICATION RTFairSpec
CONSTANTS
    p1 = p1
    r1 = r1
    Procs = {p1}
    Readers = {r1}
    Symbols = {"AAPL", "MSFT"}
    Metas = {"m1"}
    NoCompany = NoCompany
    NaN = NaN
    MaxNumeric = 1000
    Snapshots <- MCTwoReports
    Args = {"AAPL", "aapl", "msft"}
    ArgLists <- MCEither
    Norm <- MCNorm
    Blank = "blank"
    Invalid = "invalid"
    NoSymbol = NoSymbol
    NoSnapshot = NoSnapshot
    MaxLaunches = 1
    HasCache = TRUE
    Faults = {"db", "cache", "crash"}
    NoEntry = NoEntry
    NoKey = NoKey
INVARIANTS RTTypeOK CachedFromStored FreshUnlessLate
PROPERTIES EventuallyFresh
