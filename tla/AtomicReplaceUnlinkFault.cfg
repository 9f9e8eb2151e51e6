SPECIFICATION Spec
CONSTANTS
    Files = {f1}
    Inodes = {i1, i2, i3, i4}
    NoInode = NoInode
    Versions = {v0, v1}
    Base = v0
    Saves = {s1}
    Torn = Torn
    Styles = {"rename"}
    Faults = {"unlink"}
    MaxCalls = 1
SYMMETRY Symmetry
INVARIANTS
    NoSaveLost
CHECK_DEADLOCK FALSE
