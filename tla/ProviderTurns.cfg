SPECIFICATION FairSpec
CONSTANTS
    Protocols <- AllProtocols
    MaxRequests = 2
    MaxBlocks = 2
    MaxSent = 4
    MaxRetries = 1
    MaxFaults = 1
    AdjacentSigned = FALSE
INVARIANTS AnswersAreWhole RequestsAreFaithful
PROPERTIES RunsSettle
CHECK_DEADLOCK FALSE
