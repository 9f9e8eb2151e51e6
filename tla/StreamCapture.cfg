SPECIFICATION FairSpec
CONSTANTS
    Outputs <- MCOutputs
    Retention = 2
    Limit = 4
    PipeRoom = 2
    Buffer = 3
    Faults = {"spawn", "reader", "wait", "read", "spill", "reopen"}
INVARIANTS
    NothingIsLost
    NothingIsLeft
PROPERTIES
    CaptureEnds
CHECK_DEADLOCK FALSE
