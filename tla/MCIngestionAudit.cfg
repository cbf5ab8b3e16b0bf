\* The deadline passes during an Ingest: is the attempt audited?
SPECIFICATION FairSpec
CONSTANTS
    p1 = p1
    Procs = {p1}
    Symbols = {"AAPL", "MSFT"}
    Metas = {"m1", "m2"}
    NoCompany = NoCompany
    NaN = NaN
    MaxNumeric = 1000
    Snapshots <- MCSnapshots
    Args = {"aapl", " AAPL", "MSFT", " ", "$!"}
    ArgLists <- MCOneSymbol
    Norm <- MCNorm
    Blank = "blank"
    Invalid = "invalid"
    NoSymbol = NoSymbol
    NoSnapshot = NoSnapshot
    MaxLaunches = 1
    HasCache = FALSE
    Faults = {"deadline"}
\* The launches are bounded: in the end every process is down.
CHECK_DEADLOCK FALSE
PROPERTIES EveryAttemptAudited
