SPECIFICATION FairSpec
CONSTANTS
  MaxWrites = 4
  MaxFaults = 1
  MaxCrashes = 1
INVARIANTS
  ControllerFollowsStore
  DrainedBeforeClose
PROPERTIES
  ImplementsJournal
  EveryWriteSettles
CHECK_DEADLOCK FALSE
