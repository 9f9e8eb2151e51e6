SPECIFICATION FairSpec
CONSTANTS
    Diagnostics = {d1, d2}
    Patches = {p1, p2}
    d1 = d1
    d2 = d2
    p1 = p1
    p2 = p2
    Family <- OneFamily
    NoFix = NoFix
    Workers = {w1, w2}
    Requests <- Mixed
    Nobody = Nobody
    Stale = Stale
    Leaked = Leaked
    Absent = Absent
    Torn = Torn
    Retries = 1
    Faults = {"acquire", "owner", "reject", "load", "git", "ignore", "save", "remove", "crash"}
    MaxCalls = 3
INVARIANTS
    TypeOK
    MutualExclusion
    ReportedOnce
    NotSilenced
PROPERTIES
    Linearizable
    AppliesCurrentFix
    EveryWaitEnds
    LockIsReleased
CHECK_DEADLOCK FALSE
