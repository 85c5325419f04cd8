SPECIFICATION FairSpec
CONSTANTS
    RequestUnits = 12
    Tls13 = FALSE
    FlightUnits = 4
    Tickets = 0
    OutUnits = 5
    InUnits = 4
    ReadUnits = 3
    QueueUnits = 7
INVARIANT ReportedIsSent
PROPERTIES
    WholeRequests
    RequestsAnswered
