SPECIFICATION Spec
CONSTANTS
    r1 = r1
    r2 = r2
    f1 = f1
    f2 = f2
    Resource <- Two
    Folder <- OneFolder
    FolderOf <- Together
    Faults = {}
    MaxEvents = 0
CHECK_DEADLOCK FALSE
INVARIANT
    MergesDone
