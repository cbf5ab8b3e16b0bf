\* Does an error message of the service always fail the snapshot?
SPECIFICATION ProviderSpec
CONSTANTS
    p1 = p1
    p2 = p2
    Procs = {p1}
    Symbols = {"AAPL"}
    Metas = {"m1", "no metadata"}
    NoMeta = "no metadata"
    NoCompany = NoCompany
    NaN = NaN
    MaxNumeric = 1000
    Snapshots <- MCSnapshots
    Answers <- MCAnswers
    Unparsable = Unparsable
    Garbled = Garbled
    MaxInt64 = 8
    OutOfInt64 <- MCOutOfInt64
    Empty = Empty
    Args = {"aapl", "AAPL", " ", "$!"}
    ArgLists <- MCLists
    Norm <- MCNorm
    Blank = "blank"
    Invalid = "invalid"
    NoSymbol = NoSymbol
    NoSnapshot = NoSnapshot
    MaxLaunches = 1
    HasCache = FALSE
    Faults = {"provider"}
\* The launches are bounded: in the end every process is down.
CHECK_DEADLOCK FALSE
INVARIANTS FailureFailsSnapshot
