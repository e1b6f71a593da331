SPECIFICATION ContextSpec
CONSTANTS
    InputBudget = 10
    MaxSummaryTokens = 4
    SoftLimit = 80
    HardLimit = 92
    TargetUtilization = 70
    RetainRecentMin = 2
    RetainRecentPercent = 0
    AllowSplitGroup = TRUE
    ManualMinTokens = 3
    ManualMinTurns = 1
    ManualMinGain = 1
    ManualMinGainPercent = 20
    Sizes = {2}
    ResultSizes = {1, 3}
    MaxWorkingSet = 37
    FullResult = 25
    Overhead = 1
    Obedient = TRUE
    MaxHistory = 5
    MaxBranches = 1
    MaxCheckpoints = 2
INVARIANTS ProjectionIsNewest PlansAreSafe FailuresAreRemembered
PROPERTY SentPrefixIsStable
CHECK_DEADLOCK FALSE
