SPECIFICATION FairSpec
CONSTANTS
    a = a
    b = b
    n1 = n1
    n2 = n2
    None = None
    Node <- Devices
    Note <- Notes
    Opens <- OneGoesElsewhere
    MaxSwitches = 3
    MaxEdits = 1
    Kinds = {"main"}
    Faults = {}
CHECK_DEADLOCK FALSE
INVARIANTS
    TypeOK
    BufferOfNote
    EditorOfNote
PROPERTIES
    Meet
    BuffersAgree
