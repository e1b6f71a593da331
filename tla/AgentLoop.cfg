SPECIFICATION FairSpec
CONSTANTS
  Interactions = {i1, i2}
  NoInteraction = NoInteraction
  ToolMode = "parallel"
  ToolConcurrency = 2
  Batches <- MCBatches
  MaxBatch = 3
  maxTurns = 2
  maxModelLoops = 2
  maxToolCalls = 4
  maxExecutionSteps = 5
  MaxFaults = 1
  MaxRuns = 2
INVARIANTS
  LogIsSound
  InteractionsAccountedFor
  WavesAreBarriers
  BudgetsHold
PROPERTIES
  NoNewWorkOnceInterrupted
  RunEnds
CHECK_DEADLOCK FALSE
