CONSTANTS
    c1 = c1
    Controllers = {c1}
    Jobs = {1, 2}
    OwnerOf <- Solo
    MaxExits = 2
    MaxWrites = 2
    Timeouts = TRUE
SPECIFICATION FairSpec
INVARIANTS StoresCloseWhenQuiet
PROPERTIES ExitIsDecided
CHECK_DEADLOCK FALSE
