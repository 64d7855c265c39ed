SPECIFICATION FairSpec
CONSTANTS
    f1 = f1
    f2 = f2
    d1 = d1
    d2 = d2
    Files = {f1, f2}
    Folders = {d1, d2}
    Root = root
    FolderOf <- RootAndFolder
    Volumes = {"same", "another"}
    MaxSaves = 2
    MaxFaults = 2
    Absent = Absent
INVARIANTS
    TypeOK
    RestoredMeansBack
    AtMostOneUnledgered
    RegisteredIsRecoverable
PROPERTIES
    NothingLost
    RollbackRestoresOnOneVolume
    OperationsEnd
CHECK_DEADLOCK FALSE
