SPECIFICATION FairSpec
CONSTANTS
    N = 2
    Scenarios <- MCScenarios
    MaxCrashes = 1
INVARIANTS
    TypeOK
    DanglingIsExplained
    SitesFollowInputs
PROPERTIES
    FeedFades
