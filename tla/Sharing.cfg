CONSTANTS
    a = a
    b = b
    c = c
    d = d
    n1 = n1
    None = None
    User <- Four
    Note <- Notes
    Creator <- Creators
    Foldered <- Notes
    Founder = a
    NoteShares <- NoteAsked
    FolderShares <- FromFounder
    Session <- Line
    Met <- Neighbours
    MaxOpen = 1
    MaxFaults = 1
SPECIFICATION FairSpec
INVARIANTS TypeOK Together HoldersRead ProofsKept FolderProofsKept AlwaysAuthorised
PROPERTY Spread
