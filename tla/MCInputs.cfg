\* Four words on three builds, with numbers of sixteen bits; four more characters on
\* each text; one header set before and two messages formatted.
SPECIFICATION MCSpec
CONSTANTS
    Symbol <- MCSymbol
    Word <- MCWord
    MaxWords = 4
    Completions <- MCCompletions
    DigitOf <- MCDigitOf
    Addresses <- MCAddresses
    Modulus = 65536
    Extension <- MCExtension
    Builds <- MCBuilds
    Nil = Nil
    Char <- MCChar
    Digit <- MCDigit
    MaxPort = 9
    Starts <- MCStarts
    MaxMore = 4
    Absent = Absent
    Lower <- MCLower
    Named <- MCNamed
    Tokens <- MCTokens
    MaxHeaders = 3
    GivenHeaders <- MCGivenHeaders
    Assignable <- MCAssignable
    Reassigned <- MCReassigned
    Bodies <- MCBodies
    MaxSet = 1
    MaxBatch = 2
INVARIANTS
    RereadsAsParsed
    RunsAsAsked
    FieldsInside
    ParseMatchesGrammar
    HostHeaderReadsBack
    BatchCounted
    EnginesAgree
\* The command line is complete, the parser has returned, a request was built.
CHECK_DEADLOCK FALSE
