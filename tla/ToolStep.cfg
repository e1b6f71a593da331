SPECIFICATION FairSpec
CONSTANTS
  c1 = c1
  c2 = c2
  Calls <- MCCalls
  Capabilities <- MCCapabilities
  Declared <- MCDeclared
  Environments <- MCEnvironments
  Offered <- MCOffered
  Ruling <- MCRuling
  Executable <- MCExecutable
  MaxFaults = 1
  MaxCrashes = 1
INVARIANTS
  ExecutionIsOnceAndAuthorised
  DialogsMatchWaits
  AccountsOfACallAgree
PROPERTIES
  NothingStartsOnceInterrupted
  EveryCallSettles
CHECK_DEADLOCK FALSE
