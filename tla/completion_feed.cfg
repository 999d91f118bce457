SPECIFICATION FairSpec
CONSTANTS
    Scheduled = {"s1"}
    Earlier = 1
    MaxTests = 2
    MaxFaults = 1
INVARIANTS
    QuietMeansShown
PROPERTIES
    PageCatchesUp
