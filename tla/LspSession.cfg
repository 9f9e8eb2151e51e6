SPECIFICATION FairSpec

CONSTANTS
    Docs = {1, 2}
    Keys = {"a", "b"}
    Answers <- MCAnswers
    PipeRoom = 1
    ReaderRoom = 1
    Budget = 2
    MaxIterations = 2
    MaxRetries = 1
    MaxDeferred = 2
    MaxNested = 2
    MaxWrites = 1
    Faults = {"deadline", "crash", "apply"}

INVARIANTS
    DiagnosticsFitTheText
    OneEditPerAction
    AnswersAreMatched
PROPERTIES
    EditsFitTheirText
    ActionIsCurrent
    SessionEnds
CHECK_DEADLOCK FALSE
