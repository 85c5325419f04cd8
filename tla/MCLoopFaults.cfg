\* One connection against a network, a server and a script that fail in every way.
SPECIFICATION Spec
CONSTANTS
    Slots = {s1}
    NoSlot = NoSlot
    Pipeline = 1
    RequestUnits = 2
    HasDelay = TRUE
    Dynamic = TRUE
    WantsResponse = TRUE
    Answers = {"ok", "close"}
    Faults = {"refuse", "local", "reset", "hangup", "early", "interim", "junk", "script", "poll"}
    MayStop = FALSE
    OutUnits = 1
    InTokens = 2
    RecvTokens = 1
    MaxUnread = 2
    MaxDeadlines = 1
    CounterMod = 2
INVARIANTS
    NoLostWakeup
    SocketsAccounted
    RatesAddUp
PROPERTY DelayHeld
\* The loop ends when a script fails or stops the thread.
CHECK_DEADLOCK FALSE
