\* Two requests at a time, one change after the registration or the first account,
\* two reset links, a block after the second failure.  The server never stops.
CONSTANTS
    w1 = w1
    w2 = w2
    Workers = {w1, w2}
    MaxTries = 2
    MaxPending = 1
    MaxChanges = 3
    MaxLinks = 2
SYMMETRY Symmetry
SPECIFICATION Spec
INVARIANTS
    OldSessionsEnd
    FileMatchesEnvironment
    LinkChangesOnce
PROPERTIES
    RefusedForGood
    BlockHolds
