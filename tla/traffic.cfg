SPECIFICATION FairSpec
CONSTANTS
    HourLen = 2
    DayLen = 2
    KeepMinutes = 1
    KeepHours = 2
    Window = 1
    MaxMinute = 3
    Formats <- SomeFormats
    MaxLines = 2
    MaxRotations = 1
    MaxFailures = 1
INVARIANTS
    TypeOK
    CountedAtMostOnce
    PeriodsAddUp
    LossIsExplained
    RulesCountTwiceAtMost
PROPERTY
    AheadIsCounted
CHECK_DEADLOCK FALSE
