\* A fill that overlaps an ingest: is the cache stale after the purge?
SPECIFICATION RTFairSpec
CONSTANTS
    p1 = p1
    r1 = r1
    Procs = {p1}
    Readers = {r1}
    Symbols = {"AAPL"}
    Metas = {"m1"}
    NoCompany = NoCompany
    NaN = NaN
    MaxNumeric = 1000
    Snapshots <- MCTwoReports
    Args = {"AAPL", "aapl"}
    ArgLists <- MCTwice
    Norm <- MCNorm
    Blank = "blank"
    Invalid = "invalid"
    NoSymbol = NoSymbol
    NoSnapshot = NoSnapshot
    MaxLaunches = 1
    HasCache = TRUE
    Faults = {}
    NoEntry = NoEntry
    NoKey = NoKey
INVARIANTS NeverStaleAfterIngest
