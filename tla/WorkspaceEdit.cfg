SPECIFICATION EditSpec
CONSTANTS
    Files = {1, 2}
    Inodes = {i1, i2, i3, i4, i5}
    NoInode = NoInode
    Versions = {0, 1}
    Base = 0
    Saves = {s1}
    Torn = Torn
    Styles = {"rename", "truncate"}
    Faults = {"crash", "metadata", "stage", "exchange"}
    MaxCalls = 0
    MaxEdits = 2
SYMMETRY Symmetry
INVARIANTS
    NoSaveLost
    FailedSessionRestores
    StagedBeforeExchange
    DocumentsMatchDisk
    NoStagedCopyLeft
CHECK_DEADLOCK FALSE
