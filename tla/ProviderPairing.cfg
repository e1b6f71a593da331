SPECIFICATION ProviderSpec
CONSTANTS
    Protocols <- AllProtocols
    MaxRequests = 2
    MaxBlocks = 3
    MaxSent = 3
    MaxRetries = 1
    MaxFaults = 0
    AdjacentSigned = FALSE
INVARIANTS PairingIsExact
CHECK_DEADLOCK FALSE
