SPECIFICATION FairSpec
CONSTANTS
    a = a
    b = b
    c = c
    Device <- Pair
    Session <- TwiceOnOne
    Creator = a
    Holder = {a}
    Author = {a, b}
    MaxSaves = 2
    Faults = {"drop", "crash"}
    MaxFaults = 1
INVARIANT
    ClockSound
PROPERTIES
    ImplementsReplica
    Converges
