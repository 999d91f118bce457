\* Once the bounds on edits, days and crashes are used up, the watcher has nothing to do.
CHECK_DEADLOCK FALSE
SPECIFICATION FairSpec
CONSTANTS
    early = early
    late = late
    Unparsable = Unparsable
    NoTrigger = NoTrigger
    Trigger <- MCTrigger
    Config <- MCConfig
    FirstConfig <- Plain
    WeeklyDefault = early
    HealthTime = early
    RotationTime = late
    TestSlots = 2
    MaxDay = 3
    MaxSaves = 3
    MaxCrashes = 1
INVARIANTS
    ReloadIsRestart
    FailedReloadKeepsTests
    RemindedOnce
PROPERTIES
    EditsAreRead
