\* Two threads record two values each, in every order of the atomic steps; up to four
\* values below six are corrected with each interval and reported.
SPECIFICATION MCSpec
CONSTANTS
    Threads = {t1, t2}
    Limit = 6
    Values = {0, 2, 5, 6}
    U64Max = 15
    MaxCalls = 2
    I64Max = 7
    Intervals <- MCIntervals
    Errors <- MCErrors
    MaxRecords = 4
INVARIANTS
    TrackedRange
    CallsAccounted
    MirrorsBehind
    CorrectionSpreads
    PercentileIsRank
    ScriptsSeeAll
    ReportsAgree
PROPERTY RecordReturns
\* Every thread may have made its calls, and a reported run is over.
CHECK_DEADLOCK FALSE
