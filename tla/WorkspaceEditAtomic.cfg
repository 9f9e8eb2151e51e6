SPECIFICATION EditSpec
CONSTANTS
    Files = {1, 2}
    Inodes = {i1, i2, i3, i4}
    NoInode = NoInode
    Versions = {0, 1, 2}
    Base = 0
    Saves = {s1}
    Torn = Torn
    Styles = {}
    Faults = {}
    MaxCalls = 0
    MaxEdits = 2
PROPERTIES
    EditsAreAtomic
CHECK_DEADLOCK FALSE
