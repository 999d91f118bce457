\* Archives of three seconds, two of them kept; two steps of the clock, or one and one
\* new password, or two new passwords.  The server never stops.
CONSTANTS
    MaxBackups = 2
    Seconds = 3
    MaxEvents = 2
SPECIFICATION Spec
INVARIANTS
    WithinMax
    SessionsEnd
    KeyIsSaved
PROPERTIES
    NewestKept
