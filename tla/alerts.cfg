\* Three tests at a time, a cooldown of one unit that passes twice.  Tests go on for ever.
CONSTANTS
    Tests = {t1, t2, t3}
    Cooldown = 1
    MaxClock = 2
    Unreadable = Unreadable
SPECIFICATION Spec
SYMMETRY Interchangeable
INVARIANTS
    CooldownHolds
    SilencedWithReason
