SPECIFICATION FairSpec
CONSTANTS
  Runs = {r1, r2}
  NoRun = NoRun
  Operations = {o1}
  NoOperation = NoOperation
  maxEvents = 2
  MaxLog = 6
  MaxOther = 1
  MaxFaults = 1
  MaxCrashes = 1
INVARIANTS
  MemoryAndRecoveryFollowLog
  AcknowledgedIsDurable
PROPERTIES
  EveryCallSettles
CHECK_DEADLOCK FALSE
