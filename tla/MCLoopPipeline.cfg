\* A pipelined connection whose server may fail but never answers what it has not got.
SPECIFICATION LoopSpec
CONSTANTS
    Slots = {s1}
    NoSlot = NoSlot
    Pipeline = 3
    RequestUnits = 1
    HasDelay = FALSE
    Dynamic = FALSE
    WantsResponse = TRUE
    Answers = {"ok", "error", "close", "until"}
    Faults = {"refuse", "local", "reset", "hangup", "junk"}
    MayStop = TRUE
    OutUnits = 3
    InTokens = 3
    RecvTokens = 2
    MaxUnread = 3
    MaxDeadlines = 0
    CounterMod = 1
INVARIANT EveryRequestAwaited
PROPERTIES
    ImplementsClosedLoop
    LoopStops
CHECK_DEADLOCK FALSE
