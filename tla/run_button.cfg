SPECIFICATION ButtonFairSpec
\* A page that joined a run in progress when it was opened really stops: nothing
\* but a reload, which is a new page, turns its button on again.
CHECK_DEADLOCK FALSE
CONSTANT
    MaxRuns = 4
INVARIANTS
    StuckOnlyFromFirstAnswer
    OffWhileFollowed
PROPERTIES
    EndIsPresented
