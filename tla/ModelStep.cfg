SPECIFICATION Spec
CONSTANTS
    Requests = {1, 2}
    Manuals = {3, 4}
    AutoCompacts = TRUE
    Targets = {4}
    Scenarios <- TwoAtATime
INVARIANTS StepsGetTheirOwnAnswer ProviderSeesCommitted PlansAreCommittedOnce OutcomesAreShown
PROPERTIES StepsSettle
CHECK_DEADLOCK FALSE
