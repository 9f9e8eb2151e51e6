------------------------- MODULE MCDiagnosticCache -------------------------
(* DiagnosticCache for TLC: two diagnostics of one family and few requests. *)
EXTENDS DiagnosticCache

CONSTANTS d1, d2, p1, p2

OneFamily == [d \in Diagnostics |-> "family"]

\* Every kind of update, with an overlap and a repetition in the diagnostics.
Updates ==
    {[op |-> "update", ds |-> <<d1, d2>>, dedupe |-> TRUE, metrics |-> TRUE],
     [op |-> "update", ds |-> <<d1, d1>>, dedupe |-> TRUE, metrics |-> FALSE],
     [op |-> "update", ds |-> <<d2>>, dedupe |-> FALSE, metrics |-> TRUE]}

\* Two patches for one diagnostic, and replays that match exactly or nearly.
Replays ==
    {[op |-> "report", d |-> d1, patch |-> p1, syntax |-> TRUE],
     [op |-> "report", d |-> d1, patch |-> p2, syntax |-> FALSE],
     [op |-> "replay", ds |-> <<d1, d2>>, mode |-> "apply"],
     [op |-> "replay", ds |-> <<d2>>, mode |-> "dry-run"]}

Mixed == Updates \cup Replays
=============================================================================
