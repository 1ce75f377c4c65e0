SPECIFICATION Spec
CONSTANTS
    a = a
    b = b
    c = c
    Device <- Pair
    Session <- OneConnection
    Creator = a
    Holder = {a}
    Author = {a, b}
    MaxSaves = 2
    Faults = {"overlap", "error", "crash"}
    MaxFaults = 1
INVARIANTS
    TypeOK
    KnownSavesHappened
    UncountedUnknown
    OwnRowPresent
PROPERTY
    OwnRowKept
