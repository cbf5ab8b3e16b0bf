\* Every endpoint on every database two feeds can fill.
SPECIFICATION Spec
CONSTANTS
    Symbols = {"AAPL", "XOM"}
    Metas <- MCMetas
    NoCompany = NoCompany
    NaN = NaN
    MaxNumeric = 1000
    Snapshots <- MCSnapshots
    Feeds <- MCFeeds
    RawSymbols = {"AAPL", "aapl", "XOM", "a b"}
    Norm <- MCNorm
    Invalid = "invalid"
    Short = 2
    Medium = 3
    Long = 4
    Period = 2
    MaxCompare = 2
    Lists <- MCLists
    Criteria <- MCCriteria
INVARIANTS TablesSound IndicatorsMatchDefinition NullsFollowWindows ScreenerMatchesAnalytics
    CompareMatchesAnalytics PagesAgree FailureIsNotAbsence
PROPERTIES RSIFollowsClose AnalyticsOfNewestOnly
