CONSTANTS
    Byte <- MCByte
    Hex <- MCHex
    Block <- MCBlock
    Streams <- MCStreams
    CompactAt = 3
    UsizeMax = 255
SPECIFICATION FairSpec
INVARIANTS WholeResponses RejectsOnlyBroken
PROPERTIES FeedReturns ImplementsStreamReader
CHECK_DEADLOCK FALSE
