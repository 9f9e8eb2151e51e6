----------------------------- MODULE CacheLedger -----------------------------
(***************************************************************************)
(* What the diagnostics cache promises its callers: every call either      *)
(* takes effect as a whole, at one moment between its beginning and its    *)
(* end, on the cache as it is at that moment, or has no effect at all.     *)
(*                                                                         *)
(* (The *_and_save functions of crates/aifix/src/cache.rs, from outside.)  *)
(***************************************************************************)
EXTENDS CacheContents

CONSTANTS Workers, Requests

VARIABLES
    ledger,    \* the cache
    asked,     \* the request of each worker's call
    outcome,   \* "idle", "pending", "ok", "failed" or "dead"
    answer     \* the diagnostics a call reports as new

Init ==
    /\ ledger = Empty
    /\ asked \in [Workers -> Requests]
    /\ outcome = [w \in Workers |-> "idle"]
    /\ answer = [w \in Workers |-> {}]

Begin(w) ==
    /\ outcome[w] = "idle"
    /\ outcome' = [outcome EXCEPT ![w] = "pending"]
    /\ \E r \in Requests : asked' = [asked EXCEPT ![w] = r]
    /\ UNCHANGED <<ledger, answer>>

Succeed(w) ==
    /\ outcome[w] = "pending"
    /\ outcome' = [outcome EXCEPT ![w] = "ok"]
    /\ UNCHANGED asked

\* Metrics cover every diagnostic of the call, whether it is new or not.
Update(w) ==
    LET r == asked[w]
        counted == IF r.metrics THEN RecordMetrics(ledger, r.ds) ELSE ledger
    IN  /\ r.op = "update"
        /\ Succeed(w)
        /\ ledger' = IF r.dedupe THEN MarkSeen(counted, r.ds) ELSE counted
        /\ answer' = [answer EXCEPT ![w] = IF r.dedupe THEN Unseen(ledger, r.ds) ELSE {}]

Report(w) ==
    LET r == asked[w]
    IN  /\ r.op = "report"
        /\ Succeed(w)
        /\ ledger' = RecordFix(ledger, r.d, r.patch, r.syntax)
        /\ UNCHANGED answer

Replay(w) ==
    LET r == asked[w]
    IN  /\ r.op = "replay"
        /\ Succeed(w)
        /\ \E found \in Lookups(ledger, r.ds) : ledger' = CountUses(ledger, found)
        /\ UNCHANGED answer

Refuse(w) ==
    /\ outcome[w] = "pending"
    /\ outcome' = [outcome EXCEPT ![w] = "failed"]
    /\ UNCHANGED <<ledger, asked, answer>>

End(w) ==
    /\ outcome[w] \in {"ok", "failed"}
    /\ outcome' = [outcome EXCEPT ![w] = "idle"]
    /\ answer' = [answer EXCEPT ![w] = {}]
    /\ UNCHANGED <<ledger, asked>>

Die(w) ==
    /\ outcome[w] # "dead"
    /\ outcome' = [outcome EXCEPT ![w] = "dead"]
    /\ answer' = [answer EXCEPT ![w] = {}]
    /\ UNCHANGED <<ledger, asked>>

Next ==
    \E w \in Workers :
        Begin(w) \/ Update(w) \/ Report(w) \/ Replay(w) \/ Refuse(w) \/ End(w) \/ Die(w)

Spec == Init /\ [][Next]_<<ledger, asked, outcome, answer>>
=============================================================================
