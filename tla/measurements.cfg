\* Two runs beside two imports; logs of an older installation or none.
SPECIFICATION Spec
CONSTANTS
    Runs = {r1, r2}
    OldTests = {old}
    MaxRetries = 3
    Preferred = TRUE
    MaxImports = 2
INVARIANTS
    ReportedIsStored
    ImportCovers
PROPERTIES
    OnlyUnstoredVanish
CHECK_DEADLOCK FALSE
