SPECIFICATION FairSpec
CONSTANTS
    a = a
    b = b
    None = None
    Node <- Pair
    Asks <- EditorAndSyncer
    MaxLinks = 3
    MaxAdds = 1
    MaxFaults = 1
    Faults = {"lose", "refuse"}
INVARIANT TypeOK MarksHaveDials SyncedIsKnown Answerable Mutual
CHECK_DEADLOCK FALSE
PROPERTY EditorsReconnect
