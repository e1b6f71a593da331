CONSTANTS
    Callers = {a, b, c}
    Stores = {1, 2, 3, 4, 5}
    ClearsAfterClose = TRUE
SPECIFICATION LocalFairSpec
INVARIANTS AuthorityIsOpen
PROPERTIES CallsAreAnswered
CHECK_DEADLOCK FALSE
