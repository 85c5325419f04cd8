\* Two connections and a well behaved server: nothing stalls.
SPECIFICATION FairSpec
CONSTANTS
    Slots = {s1, s2}
    NoSlot = NoSlot
    Pipeline = 1
    RequestUnits = 2
    HasDelay = TRUE
    Dynamic = FALSE
    WantsResponse = TRUE
    Answers = {"ok", "close", "until"}
    Faults = {}
    MayStop = TRUE
    OutUnits = 1
    InTokens = 2
    RecvTokens = 1
    MaxUnread = 2
    MaxDeadlines = 1
    CounterMod = 1
INVARIANTS
    WritableUntilSent
    StopEndsTurn
    NeverForgotten
PROPERTY BurstsKeepComing
\* The loop ends.
CHECK_DEADLOCK FALSE
