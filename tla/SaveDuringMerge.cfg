SPECIFICATION Spec
CONSTANTS
    a = a
    b = b
    c = c
    Device <- Pair
    Session <- OneConnection
    Creator = a
    Holder = {a, b}
    Author = {a, b}
    MaxSaves = 2
    Faults = {"overlap"}
    MaxFaults = 0
INVARIANT
    AgreedMeansSame
