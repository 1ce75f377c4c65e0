SPECIFICATION Spec
CONSTANTS
    a = a
    b = b
    c = c
    Device <- Trio
    MaxClock = 2
INVARIANTS
    MergeIsHigher
    MergeNeverAborts
    CompareIsExact
\* A merge happens once.
CHECK_DEADLOCK FALSE
