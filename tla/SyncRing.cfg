SPECIFICATION Spec
CONSTANTS
    a = a
    b = b
    c = c
    Device <- Trio
    Session <- Ring
    Creator = a
    Holder = {a}
    Author = {a, c}
    MaxSaves = 2
    Faults = {"drop"}
    MaxFaults = 1
INVARIANT
    AgreedMeansSame
PROPERTY
    ImplementsReplica
