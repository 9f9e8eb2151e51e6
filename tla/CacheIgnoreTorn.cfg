SPECIFICATION Spec
CONSTANTS
    Diagnostics = {d1, d2}
    Patches = {p1, p2}
    d1 = d1
    d2 = d2
    p1 = p1
    p2 = p2
    Family <- OneFamily
    NoFix = NoFix
    Workers = {w1}
    Requests <- Updates
    Nobody = Nobody
    Stale = Stale
    Leaked = Leaked
    Absent = Absent
    Torn = Torn
    Retries = 1
    Faults = {"ignore"}
    MaxCalls = 2
INVARIANTS
    CacheIgnored
CHECK_DEADLOCK FALSE
