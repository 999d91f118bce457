\* One run and the import that the next `docker compose up` starts.
SPECIFICATION Spec
CONSTANTS
    Runs = {r1}
    OldTests = {old}
    MaxRetries = 1
    Preferred = FALSE
    MaxImports = 2
INVARIANTS
    CountedOnce
CHECK_DEADLOCK FALSE
