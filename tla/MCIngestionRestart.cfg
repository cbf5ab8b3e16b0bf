\* One process, launched again after an exit, a deadline or a crash.
SPECIFICATION FairSpec
CONSTANTS
    p1 = p1
    Procs = {p1}
    Symbols = {"AAPL", "MSFT"}
    Metas = {"m1", "m2"}
    NoCompany = NoCompany
    NaN = NaN
    MaxNumeric = 1000
    Snapshots <- MCSnapshots
    Args = {"aapl", " AAPL", "MSFT", " ", "$!"}
    ArgLists <- MCTwoLists
    Norm <- MCNorm
    Blank = "blank"
    Invalid = "invalid"
    NoSymbol = NoSymbol
    NoSnapshot = NoSnapshot
    MaxLaunches = 2
    HasCache = TRUE
    Faults = {"provider", "db", "cache", "deadline", "crash"}
\* The launches are bounded: in the end every process is down.
CHECK_DEADLOCK FALSE
INVARIANTS SuccessRunsAreComplete CleanExitMeansIngested
PROPERTIES HistoryIsFinal ReingestIsNoOp LaunchesEnd
