SPECIFICATION Spec
CONSTANTS
    Files = {f1}
    Inodes = {i1, i2, i3, i4, i5}
    NoInode = NoInode
    Versions = {v0, v1}
    Base = v0
    Saves = {s1, s2}
    Torn = Torn
    Styles = {"delete", "rename", "truncate", "update"}
    Faults = {"crash", "metadata", "stage", "exchange", "unlink"}
    MaxCalls = 2
SYMMETRY Symmetry
INVARIANTS
    TypeOK
    NeverHalfWritten
    FailureIsUndone
PROPERTIES
    NeverResurrects
CHECK_DEADLOCK FALSE
