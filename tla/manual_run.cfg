\* Three runs, two faults anywhere, one crash; a cooldown of two seconds in half-second ticks.
SPECIFICATION FairSpec
CONSTANTS
    MaxRuns = 3
    MaxTime = 6
    MaxFaults = 2
    MaxCrashes = 1
    TicksPerSecond = 2
    CooldownSeconds = 2
    LogLines = 1
    ChildLines = {"progress", "timed out"}
INVARIANTS
    OneWriter
    SuccessIsReal
    LockLeaksOnlyAtStart
    UnattendedFollowFaults
    QuietMeansSaved
PROPERTIES
    RowNeverGoesBack
    CooldownSurvivesRestart
    LockIsReleased
    SlotSpec
CHECK_DEADLOCK FALSE
