SPECIFICATION FairSpec
CONSTANTS
    Kinds = {"note", "call", "replay", "batch", "deadline", "mutating-deadline"}
    Panics = TRUE
    MaxSent = 4
INVARIANTS
    TypeOK
    ExactlyOneResponse
    OneBatchAtATime
PROPERTIES
    EveryMessageIsHandled
    SlotIsReleased
    RefusedOnlyAfterTimeout
CHECK_DEADLOCK FALSE
