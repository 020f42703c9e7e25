SPECIFICATION FairSpec
CONSTANTS
    Emails = {e1, e2}
    RuleIds = {1, 2}
    DedupeWindow = 1
    Interval = 2
    MaxKeys = 2
    MaxCrashes = 1
    Scenarios <- EachAlone
INVARIANTS
    TypeOK
    KeyIsMailedOnce
    ReportTwiceIsExplained
PROPERTIES
    StandingAlarmIsMailed
