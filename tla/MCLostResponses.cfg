\* Every way a feed may end, a failure included.
SPECIFICATION FairSpec
CONSTANTS
    Byte <- MCByte
    Hex <- MCHex
    Block <- MCBlock
    Streams <- MCStreams
    CompactAt = 3
    UsizeMax = 255
INVARIANT EveryResponseReturned
CHECK_DEADLOCK FALSE
