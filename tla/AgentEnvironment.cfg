SPECIFICATION FairSpec
CONSTANTS
    deepseek = deepseek
    custom = custom
    Models <- MCModels
    DefaultModel = 3
    Providers <- MCProviders
    BuiltIn <- MCBuiltIn
    Owner <- MCOwner
    Catalogue <- MCCatalogue
    Registries <- MCRegistries
    GlobalModel = 0
    MaxRequests = 2
    MaxLoads = 2
    MaxFaults = 1
    MaxCrashes = 1
INVARIANTS SettingsAreKept
PROPERTIES SelectionsStayUsable MutationsSettle
CHECK_DEADLOCK FALSE
