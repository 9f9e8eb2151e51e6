------------------------------ MODULE BatchRun ------------------------------
(***************************************************************************)
(* `aifix batch` (batch.rs): every detected profile of `auto`, or one named *)
(* profile, is checked, fixed as asked for, and diagnosed.  All of it runs  *)
(* in one thread; what it runs are the user's tools, which change the       *)
(* sources and can fail at any point.                                       *)
(*                                                                         *)
(* A setting is what the configuration and the directory say of a profile:  *)
(* an argv is "absent", "empty", "blank" (its executable is) or a "tool",   *)
(* and installed says which of the profile's executables can be run.        *)
(***************************************************************************)
EXTENDS Naturals, Sequences, FiniteSets

CONSTANTS
    Catalogue,    \* profile names in catalogue order
    BuiltIn,      \* those with a built-in diagnostic command
    Rust,         \* the one with a built-in fix and a built-in server
    Settings,     \* what a profile may be set to
    AutoProfile   \* the name that stands for all of them

Argv == {"absent", "empty", "blank", "tool"}
Executables == {"argv", "fix", "server"}

Setting ==
    [auto: BOOLEAN, found: BOOLEAN, argv: Argv, fix: Argv,
     actions: {"absent", "off", "invalid", "server"},
     explicit: BOOLEAN, installed: SUBSET Executables]

Names == {Catalogue[k] : k \in DOMAIN Catalogue}
Mutations == {"fix", "actions"}

ASSUME BatchAssumption ==
    /\ Rust \in BuiltIn
    /\ BuiltIn \subseteq Names
    /\ AutoProfile \notin Names
    /\ Settings \subseteq Setting
    /\ Catalogue \in Seq(Names)
    /\ Cardinality(Names) = Len(Catalogue)

VARIABLES
    set,        \* the setting of each profile
    mode,       \* AutoProfile, or the name of the profile to run
    asked,      \* FixPhases
    stage,      \* which of the loops the run is in
    left,       \* and the profiles that loop has yet to come to
    failure,    \* phase_failures
    residual,   \* profiles whose session left diagnostics (lsp_residuals)
    statuses,   \* profile_statuses, or the one result
    log         \* history: what was run, in order

vars == <<set, mode, asked, stage, left, failure, residual, statuses, log>>

-----------------------------------------------------------------------------
(***************************************************************************)
(* What the catalogue and the configuration say.                           *)
(***************************************************************************)

Defaultable(p) == set[p].auto \/ p \in BuiltIn

Detected(p) == mode # AutoProfile \/ set[p].auto \/ (p \in BuiltIn /\ set[p].found)

\* The profiles of the run.
Considered == IF mode = AutoProfile THEN {p \in Names : Defaultable(p)} ELSE {mode}

Position(p) == CHOOSE k \in DOMAIN Catalogue : Catalogue[k] = p

\* auto_profile_has_native_fix, auto_profile_has_code_actions.
Has(p, mutation) ==
    \/ mutation = "fix" /\ (p = Rust \/ set[p].fix # "absent")
    \/ /\ mutation = "actions"
       /\ set[p].actions # "off"
       /\ p = Rust \/ set[p].actions # "absent"

\* A named profile is to do what was asked for, whether it can or not.
Mutates(p, mutation) ==
    /\ mutation \in asked
    /\ Detected(p)
    /\ mode = AutoProfile => Has(p, mutation)

\* The commands, and preflight_direct_argv on what they resolve to: an argv that
\* is absent or empty gives way to the built-in one.
Runnable(argv, builtIn, executable, p) ==
    /\ argv = "tool" \/ (argv \in {"absent", "empty"} /\ builtIn)
    /\ executable \in set[p].installed

DiagnosticReady(p) == Runnable(set[p].argv, p \in BuiltIn, "argv", p)
FixReady(p) == Runnable(set[p].fix, p = Rust, "fix", p)
ActionsReady(p) ==
    /\ Has(p, "actions")
    /\ set[p].actions # "invalid"
    /\ "server" \in set[p].installed

Ready(p) ==
    /\ DiagnosticReady(p)
    /\ Mutates(p, "fix") => FixReady(p)
    /\ Mutates(p, "actions") => ActionsReady(p)

-----------------------------------------------------------------------------
Init ==
    /\ set \in [Names -> Settings]
    /\ mode \in Names \cup {AutoProfile}
    /\ asked \in SUBSET Mutations
    /\ stage = "preflight"
    /\ left = Considered
    /\ failure = [p \in Names |-> "none"]
    /\ residual = {}
    /\ statuses = <<>>
    /\ log = <<>>

\* The loops of run_auto_profile_mode one after the other.  Diagnosing before the
\* language server has acted would report what is no longer there.
Diagnosing == [preflight |-> "settle", settle |-> "fix", fix |-> "diagnose",
               diagnose |-> "actions", actions |-> "done"]

After == [preflight |-> "settle", settle |-> "fix", fix |-> "actions",
          actions |-> "diagnose", diagnose |-> "done"]

\* The loop of stage s is at profile p: every loop takes them in catalogue order.
AtProfile(s, p) == stage = s /\ p \in left /\ \A q \in left : Position(p) <= Position(q)

Advance(p) ==
    IF left = {p}
      THEN left' = Considered /\ stage' = After[stage]
      ELSE left' = left \ {p} /\ UNCHANGED stage

Ran(what, p, ok) == log' = Append(log, [what |-> what, profile |-> p, ok |-> ok])
Failing(p, why) == failure' = [failure EXCEPT ![p] = why]

\* Resolve and look for every executable the profile will need; a language server
\* is started, asked what it can do, and stopped.
Preflight(p) ==
    /\ AtProfile("preflight", p)
    /\ \/ /\ mode = AutoProfile /\ (asked = {} \/ ~Detected(p))
          /\ UNCHANGED <<failure, log>>
       \/ /\ mode # AutoProfile \/ (asked # {} /\ Detected(p))
          /\ \E negotiated \in BOOLEAN :
                LET ok == Ready(p) /\ (Mutates(p, "actions") => negotiated)
                IN  /\ Ran("preflight", p, ok)
                    /\ Failing(p, IF ok THEN "none" ELSE "preflight")
    /\ Advance(p)
    /\ UNCHANGED <<set, mode, asked, residual, statuses>>

\* Every capable profile may act.
RefuseNobody(found) == found

\* Several profiles with code actions: none of them is to act.
RefuseRivals(found) ==
    LET capable == {p \in Names : Mutates(p, "actions")}
    IN  IF Cardinality(capable) > 1 /\ \A p \in Names : found[p] = "none"
          THEN [p \in Names |-> IF p \in capable THEN "rivals" ELSE "none"]
          ELSE found

\* The profiles that are ready go on without the others.
AbortNobody(found) == found

\* One profile that is not ready keeps all from changing anything.
AbortOthers(found) ==
    LET participates(p) == \E m \in Mutations : Mutates(p, m)
    IN  IF \E p \in Names : found[p] # "none"
          THEN [p \in Names |->
                  IF found[p] = "none" /\ participates(p) THEN "aborted" ELSE found[p]]
          ELSE found

Settle ==
    /\ stage = "settle"
    /\ failure' = IF mode = AutoProfile THEN AbortOthers(RefuseRivals(failure)) ELSE failure
    /\ stage' = After[stage]
    /\ UNCHANGED <<set, mode, asked, left, residual, statuses, log>>

\* run_native_fix_argv: a tool that exits with an error has done its work when its
\* output can be told to hold diagnostics.
FixRuns ==
    [exit: {"uncaptured", "zero", "nonzero", "signal"},
     output: {"diagnostics", "clean", "garbage"}]

FixAccepted(p, run) ==
    \/ run.exit = "zero"
    \/ run.exit = "nonzero" /\ set[p].explicit /\ run.output = "diagnostics"

\* A failure of the tool is forgotten.
NativeFixRegardless(p) ==
    /\ AtProfile("fix", p)
    /\ IF Mutates(p, "fix") /\ failure[p] = "none"
         THEN \E run \in FixRuns : Ran("fix", p, FixAccepted(p, run))
         ELSE UNCHANGED log
    /\ Advance(p)
    /\ UNCHANGED <<set, mode, asked, failure, residual, statuses>>

NativeFix(p) ==
    /\ AtProfile("fix", p)
    /\ IF Mutates(p, "fix") /\ failure[p] = "none"
         THEN \E run \in FixRuns :
                 /\ Ran("fix", p, FixAccepted(p, run))
                 /\ Failing(p, IF FixAccepted(p, run) THEN "none" ELSE "fix")
         ELSE UNCHANGED <<failure, log>>
    /\ Advance(p)
    /\ UNCHANGED <<set, mode, asked, residual, statuses>>

\* apply_code_actions: a session that fails is rolled back.
CodeActions(p) ==
    /\ AtProfile("actions", p)
    /\ IF Mutates(p, "actions") /\ failure[p] = "none"
         THEN \/ /\ Ran("actions", p, TRUE)
                 /\ residual' \in {residual, residual \cup {p}}
                 /\ UNCHANGED failure
              \/ /\ Ran("actions", p, FALSE)
                 /\ Failing(p, "actions")
                 /\ UNCHANGED residual
         ELSE UNCHANGED <<failure, residual, log>>
    /\ Advance(p)
    /\ UNCHANGED <<set, mode, asked, statuses>>

\* What is reported of a profile, and from which sources.
Status(p, state, from) == Append(statuses, [profile |-> p, state |-> state, from |-> from])

\* run_argv and merge_residual_diagnostics.
Diagnose(p) ==
    /\ AtProfile("diagnose", p)
    /\ \/ /\ ~Detected(p)
          /\ statuses' = Status(p, "skipped", {})
          /\ UNCHANGED log
       \/ /\ Detected(p)
          /\ failure[p] # "none"
          /\ statuses' = Status(p, "failed", {})
          /\ UNCHANGED log
       \/ /\ Detected(p)
          /\ failure[p] = "none"
          /\ \E ok \in IF DiagnosticReady(p) THEN BOOLEAN ELSE {FALSE} :
                /\ Ran("diagnose", p, ok)
                /\ statuses' =
                      IF ok
                        THEN Status(p, "ran", {"tool"} \cup IF p \in residual THEN {"server"} ELSE {})
                        ELSE Status(p, "failed", {})
    /\ Advance(p)
    /\ UNCHANGED <<set, mode, asked, failure, residual>>

Next ==
    \/ Settle
    \/ \E p \in Names : Preflight(p) \/ NativeFix(p) \/ CodeActions(p) \/ Diagnose(p)

Spec == Init /\ [][Next]_vars

-----------------------------------------------------------------------------
(***************************************************************************)
(* Properties.                                                             *)
(***************************************************************************)

Entries(whats) == {k \in DOMAIN log : log[k].what \in whats}
Tools(p) == {k \in Entries({"fix", "actions", "diagnose"}) : log[k].profile = p}

\* Nothing changes a source file unless, before, every detected profile of the run
\* was found to be able to do all it will be asked to do, and at most one language
\* server changes the sources (the preflight of run_auto_profile_mode).
MutationsArePrepared ==
    /\ \A k \in Entries(Mutations) :
          \A p \in Considered :
              Detected(p) => \E j \in 1 .. k - 1 : log[j] = [what |-> "preflight", profile |-> p, ok |-> TRUE]
    /\ Cardinality({log[k].profile : k \in Entries({"actions"})}) <= 1

\* A tool that formats or fixes never runs after the language server acted on the
\* text, neither runs after anything was diagnosed, and none runs twice: what is
\* reported is what is left (the order of the loops of run_auto_profile_mode).
NothingChangesAfterwards ==
    \A j, k \in DOMAIN log :
        j < k =>
            /\ ~(log[j].what = "diagnose" /\ log[k].what \in Mutations)
            /\ ~(log[j].what = "actions" /\ log[k].what = "fix")
            /\ ~(log[j].what = log[k].what /\ log[j].profile = log[k].profile)

\* Every profile of the run gets one status, in order.  One that is reported as
\* run has done all it was asked to do and reports both of its sources; of one that
\* was refused or aborted nothing was run; and one that was skipped ran nothing
\* (profile_statuses).
StatusesAreHonest ==
    /\ \A j, k \in DOMAIN statuses :
          j < k => Position(statuses[j].profile) < Position(statuses[k].profile)
    /\ stage = "done" => {statuses[k].profile : k \in DOMAIN statuses} = Considered
    /\ \A k \in DOMAIN statuses :
          LET p == statuses[k].profile
          IN  /\ statuses[k].state = "ran" =>
                    /\ \A j \in Tools(p) : log[j].ok
                    /\ {log[j].what : j \in Tools(p)}
                          = {m \in Mutations : Mutates(p, m)} \cup {"diagnose"}
                    /\ p \in residual <=> "server" \in statuses[k].from
              /\ statuses[k].state = "skipped" \/ failure[p] \in {"preflight", "rivals", "aborted"}
                    => Tools(p) = {}
=============================================================================
