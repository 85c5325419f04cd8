\* Two threads share three connections and complete up to two responses each.
SPECIFICATION FairSpec
CONSTANTS
    N = 2
    Connections = 3
    Duration = 7
    Candidates <- MCCandidates
    Inputs <- MCInputs
    Given <- MCGiven
    MaxResponses = 2
INVARIANTS
    EnginesPlaced
    StopsAtLimit
    IntervalNotShort
PROPERTIES
    RunEnds
    ImplementsBenchmark
\* The process exits.
CHECK_DEADLOCK FALSE
