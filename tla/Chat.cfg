SPECIFICATION FairSpec
CONSTANTS
    a = a
    b = b
    c1 = c1
    c2 = c2
    None = None
    Node <- Devices
    Chat <- Chats
    Opens <- OneGoesElsewhere
    Earlier <- Before
    MaxSwitches = 3
    MaxMessages = 2
    Overlap = FALSE
CHECK_DEADLOCK FALSE
INVARIANTS
    TypeOK
    BufferOfChat
PROPERTIES
    ChatsAgree
