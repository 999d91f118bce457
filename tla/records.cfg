\* A week of two days of two slots and one slot of the next, which either clock may reach first; two
\* tests beside the first row, one of them imported; a grace of one slot more than a test takes, and
\* one slot to start late in; one incident shown; an edit of the schedule or the time zone.  Time ends.
CONSTANTS
    DayLength = 2
    WeekLength = 2
    Retries = 1
    Timeout = 1
    Delay = 1
    MinGrace = 2
    Misfire = 1
    Breaches <- MCBreaches
    Schedules <- MCSchedules
    First <- MCFirst
    Shifts <- MCShifts
    MaxShown = 1
    LastSlot = 4
    MaxTests = 2
    MaxImported = 1
    None = None
SPECIFICATION RecordsSpec
INVARIANTS
    OverdueIsReal
    MissedIsOverdue
    IncidentsAddUp
    ReportIsFinal
CHECK_DEADLOCK FALSE
