------------------------ MODULE WorkspaceTransaction ------------------------
(***************************************************************************)
(* What one language-server session promises about the source files when   *)
(* nothing interferes: each workspace edit changes all of its files at     *)
(* once, and a session that fails leaves every file as it found it.        *)
(*                                                                         *)
(* (LspSession::apply_workspace_edit and rollback_committed_edits in       *)
(* crates/aifix/src/lsp_fix.rs, seen from outside.)                        *)
(***************************************************************************)
EXTENDS Naturals

CONSTANTS Files, Versions, Base

VARIABLES
    source,    \* the text of each file
    outcome    \* "running", then "ok" or "failed"

Init ==
    /\ source = [f \in Files |-> Base]
    /\ outcome = "running"

\* One workspace edit: all of its files, or none.
Apply(changed, updated) ==
    /\ outcome = "running"
    /\ changed # {}
    /\ source' = [f \in Files |-> IF f \in changed THEN updated[f] ELSE source[f]]
    /\ UNCHANGED outcome

Finish ==
    /\ outcome = "running"
    /\ outcome' = "ok"
    /\ UNCHANGED source

Fail ==
    /\ outcome = "running"
    /\ outcome' = "failed"
    /\ source' = [f \in Files |-> Base]

Next ==
    \/ \E changed \in SUBSET Files, updated \in [Files -> Versions] :
          Apply(changed, updated)
    \/ Finish
    \/ Fail

Spec == Init /\ [][Next]_<<source, outcome>>
=============================================================================
