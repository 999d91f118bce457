\* Two requests at a time, two pages, three accepted saves, two addresses.  The
\* server never stops.
CONSTANTS
    r1 = r1
    r2 = r2
    p1 = p1
    p2 = p2
    Requests = {r1, r2}
    Pages = {p1, p2}
    Addresses = {1, 2}
    MaxSaves = 3
SYMMETRY Symmetry
SPECIFICATION Spec
INVARIANTS
    NoEditLost
    ToldHolds
    PasswordNotAhead
    EndedStaysEnded
