\* A pipelined burst larger than the socket buffer, and a server that answers at once.
SPECIFICATION Spec
CONSTANTS
    Slots = {s1}
    NoSlot = NoSlot
    Pipeline = 3
    RequestUnits = 1
    HasDelay = FALSE
    Dynamic = FALSE
    WantsResponse = FALSE
    Answers = {"ok"}
    Faults = {}
    MayStop = FALSE
    OutUnits = 1
    InTokens = 2
    RecvTokens = 2
    MaxUnread = 1
    MaxDeadlines = 0
    CounterMod = 1
INVARIANT WritableUntilSent
CHECK_DEADLOCK FALSE
