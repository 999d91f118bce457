\* One save, of a good config or of one whose backup time is 99:99, no crash.
CHECK_DEADLOCK FALSE
SPECIFICATION FairSpec
CONSTANTS
    early = early
    late = late
    Unparsable = Unparsable
    NoTrigger = NoTrigger
    Trigger <- MCTrigger
    Config <- MCPickupConfig
    FirstConfig <- Plain
    WeeklyDefault = early
    HealthTime = early
    RotationTime = late
    TestSlots = 2
    MaxDay = 2
    MaxSaves = 1
    MaxCrashes = 0
PROPERTIES
    SavedIsPickedUp
