---------------------------- MODULE CacheContents ----------------------------
(***************************************************************************)
(* The diagnostics cache as a value, and what each operation makes of it   *)
(* (DiagnosticCache and its methods in crates/aifix/src/cache.rs).  A      *)
(* diagnostic stands for its stable signature and a patch for its text.    *)
(***************************************************************************)
EXTENDS Naturals, FiniteSets, Sequences

CONSTANTS
    Diagnostics,   \* signatures
    Patches,       \* texts of cached fixes
    Family,        \* the normalized family of each diagnostic
    NoFix          \* "no fix is cached under this signature"

ASSUME ContentsAssumption == NoFix \notin Diagnostics /\ NoFix \notin Patches

\* syntax: the fix was recorded with a syntax fingerprint, so that it can match
\* another diagnostic of its family approximately.
Fix == [patch: Patches, uses: Nat, syntax: BOOLEAN]

Cache ==
    [seen: [Diagnostics -> Nat],
     metrics: [Diagnostics -> Nat],
     fixes: [Diagnostics -> Fix \cup {NoFix}]]

Empty ==
    [seen |-> [d \in Diagnostics |-> 0],
     metrics |-> [d \in Diagnostics |-> 0],
     fixes |-> [d \in Diagnostics |-> NoFix]]

Times(ds, d) == Cardinality({k \in DOMAIN ds : ds[k] = d})

\* filter_unseen_diagnostics: count every occurrence; the first occurrence of
\* an unseen signature is returned.
Unseen(c, ds) == {d \in Diagnostics : Times(ds, d) > 0 /\ c.seen[d] = 0}

MarkSeen(c, ds) ==
    [c EXCEPT !.seen = [d \in Diagnostics |-> c.seen[d] + Times(ds, d)]]

RecordMetrics(c, ds) ==
    [c EXCEPT !.metrics = [d \in Diagnostics |-> c.metrics[d] + Times(ds, d)]]

\* record_fix_entry: a new fix replaces the old one and its use count.
RecordFix(c, d, patch, syntax) ==
    [c EXCEPT !.fixes[d] = [patch |-> patch, uses |-> 0, syntax |-> syntax]]

\* An exact fix wins; otherwise a fix of the family whose recorded syntax
\* resembles the source around the diagnostic, if there is one.
Candidates(c, d) ==
    IF c.fixes[d] # NoFix
    THEN {d}
    ELSE {NoFix} \cup
         {e \in Diagnostics : /\ Family[e] = Family[d]
                              /\ c.fixes[e] # NoFix
                              /\ c.fixes[e].syntax}

\* What a lookup may find: for each diagnostic, the signature of a fix or none.
Lookups(c, ds) ==
    {found \in [DOMAIN ds -> Diagnostics \cup {NoFix}] :
        \A k \in DOMAIN ds : found[k] \in Candidates(c, ds[k])}

CountUses(c, found) ==
    [c EXCEPT !.fixes =
        [d \in Diagnostics |->
            IF c.fixes[d] = NoFix THEN NoFix
            ELSE [c.fixes[d] EXCEPT !.uses = @ + Times(found, d)]]]
=============================================================================
