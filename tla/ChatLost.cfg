SPECIFICATION Spec
CONSTANTS
    a = a
    b = b
    c1 = c1
    c2 = c2
    None = None
    Node <- Devices
    Chat <- OneChat
    Opens <- TheChat
    Earlier <- Before
    MaxSwitches = 3
    MaxMessages = 2
    Overlap = FALSE
CHECK_DEADLOCK FALSE
INVARIANT KeptByAuthor
