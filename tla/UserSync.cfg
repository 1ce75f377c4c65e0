SPECIFICATION FairSpec
CONSTANTS
    r1 = r1
    r2 = r2
    f1 = f1
    f2 = f2
    Resource <- Two
    Folder <- TwoFolders
    FolderOf <- Apart
    Faults = {"error", "drop"}
    MaxEvents = 1
CHECK_DEADLOCK FALSE
INVARIANTS
    TypeOK
    ResultThere
    FolderFirst
    Delivered
PROPERTY
    Quiesces
