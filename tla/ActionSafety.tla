----------------------------- MODULE ActionSafety -----------------------------
(***************************************************************************)
(* Which of the actions a server offers for a diagnostic may be applied     *)
(* without asking anyone (lsp_fix.rs: code_actions and what it calls), and  *)
(* which of those is chosen (next_safe_action).                             *)
(*                                                                         *)
(* Every test ends as "ok", "skip" (the action is not eligible, policy) or  *)
(* "fail" (the answer is malformed and the session fails).  A JSON field    *)
(* is its abstract shape: absent, malformed, or the value the tests see.    *)
(***************************************************************************)
EXTENDS Naturals, Sequences, SequencesExt, FiniteSets, FiniteSetsExt, Containers

CONSTANTS
    ActionKinds,     \* config.action_kinds: sequences of the segments between dots
    AllowedCommands, \* config.allowed_commands
    Opened,          \* documents (numbers) the session has opened
    Missing,         \* a document whose path does not exist
    Absent,          \* a field that is not there
    Null,            \* a field that is null
    Malformed        \* a field of the wrong type

\* The verdict of tests made in order: that of the first which is not "ok".
FirstOf(verdicts) ==
    LET bad == {k \in DOMAIN verdicts : verdicts[k] # "ok"}
    IN  IF bad = {} THEN "ok" ELSE verdicts[Min(bad)]

Check(holds, otherwise) == IF holds THEN "ok" ELSE otherwise

-----------------------------------------------------------------------------
(***************************************************************************)
(* Commands.  A command is a record of its shape ("string" where the action *)
(* is the command itself, "object", or "other"), its id, "" when empty, and *)
(* whether its arguments are well formed.                                   *)
(***************************************************************************)

HasCommand(action) ==
    /\ action.command # Absent
    /\ action.command.shape \in {"string", "object"}
    /\ action.command.id # ""
    /\ action.command.arguments

CommandAllowed(action) == HasCommand(action) /\ action.command.id \in AllowedCommands

\* A literal action's kind, or a kind below it; a direct command needs none.
KindAllowed(action) ==
    IF action.kind = Absent
    THEN action.command # Absent /\ action.command.shape = "string" /\ CommandAllowed(action)
    ELSE \E allowed \in ActionKinds : IsPrefix(allowed, action.kind)

\* One edit or one allowed command, never both.
PayloadAllowed(action) ==
    /\ action.edit \notin {Absent, Null} <=> action.command = Absent
    /\ action.command # Absent => CommandAllowed(action)

-----------------------------------------------------------------------------
(***************************************************************************)
(* Edits.  An edit holds changes, documentChanges or both; each is Absent,  *)
(* Malformed or a sequence of entries, one for a document.                *)
(***************************************************************************)

\* Versions are looked at first, for every entry that names a document.
EntryVersion(entry) ==
    IF entry.op = "resource" THEN "ok"
    ELSE FirstOf(<<Check(entry.doc \in Opened, "skip"),
                   Check(entry.version \in {"current", "null"}, "fail")>>)

Versions(edit) ==
    IF edit.documentChanges = Absent THEN "ok"
    ELSE IF edit.documentChanges = Malformed THEN "fail"
    ELSE FirstOf([k \in DOMAIN edit.documentChanges |-> EntryVersion(edit.documentChanges[k])])

\* Annotated edits are applied only if they need no confirmation.
Annotation(entry) ==
    CASE entry.annotation \in {"none", "plain"} -> "ok"
      [] entry.annotation = "confirm" -> "skip"
      [] entry.annotation = "malformed" -> "fail"

\* An entry of changes has edits; one of documentChanges may be anything.
Changed(entries) ==
    FirstOf([k \in DOMAIN entries |->
        FirstOf(<<Check(entries[k].op = "edit", "fail"), Annotation(entries[k])>>)])

DocumentChanged(entries) ==
    FirstOf([k \in DOMAIN entries |->
        FirstOf(<<Check(entries[k].op # "resource", "skip"),
                  Check(entries[k].op = "edit", "fail"),
                  Check(\A j \in 1..(k - 1) : entries[j].doc # entries[k].doc, "skip"),
                  Annotation(entries[k])>>)])

Entries(edit) == IF edit.changes # Absent THEN edit.changes ELSE edit.documentChanges

\* collect_workspace_edits
Collected(edit) ==
    LET both == edit.changes # Absent /\ edit.documentChanges # Absent
        none == edit.changes = Absent /\ edit.documentChanges = Absent
    IN  IF both THEN "skip"
        ELSE IF none \/ Entries(edit) = Malformed THEN "fail"
        ELSE FirstOf(<<IF edit.changes # Absent THEN Changed(Entries(edit))
                       ELSE DocumentChanged(Entries(edit)),
                       Check(Entries(edit) # <<>>, "fail"),
                       Check(\E k \in DOMAIN Entries(edit) : Entries(edit)[k].fit # "empty", "skip")>>)

\* What a document's own checks and the edits made to its text say.
EntryFits(entry) ==
    FirstOf(<<Check(entry.doc # Missing, "fail"),
              Check(entry.doc \in Opened, "skip"),
              Check(entry.fit # "stale", "skip"),
              Check(entry.fit # "malformed", "fail"),
              Check(entry.fit # "overlap", "skip")>>)

\* The entries are tried document by document: the first that does not fit decides.
DocumentsFit(entries) ==
    LET unfit == {k \in DOMAIN entries : EntryFits(entries[k]) # "ok"}
    IN  IF unfit = {} THEN "ok"
        ELSE EntryFits(entries[CHOOSE k \in unfit : \A j \in unfit : entries[k].doc <= entries[j].doc])

\* workspace_edit_applicable: every entry fits and one of them changes its text.
Applicable(edit) ==
    IF edit = Null THEN "fail"
    ELSE LET early == FirstOf(<<Versions(edit), Collected(edit)>>)
         IN  IF early # "ok" THEN early
             ELSE FirstOf(<<DocumentsFit(Entries(edit)),
                            Check(\E k \in DOMAIN Entries(edit) : Entries(edit)[k].fit = "changes", "skip")>>)

-----------------------------------------------------------------------------
(***************************************************************************)
(* The filter of code_actions.                                             *)
(***************************************************************************)

Matches(action) ==
    CASE action.diagnostics \in {"absent", "this"} -> "ok"
      [] action.diagnostics = "other" -> "skip"
      [] action.diagnostics = "malformed" -> "fail"

Policy(action) ==
    FirstOf(<<Check(~action.disabled /\ KindAllowed(action), "skip"), Matches(action)>>)

Preserved(offered, resolved) ==
    /\ \A field \in {"title", "kind", "preferred", "diagnostics"} : offered[field] = resolved[field]
    /\ offered.command \in {Absent, resolved.command}

NeedsResolve(action, resolves) == resolves /\ action.edit = Absent /\ action.data

\* As Resolved, but what was offered is not tested again.
ResolvedOnTrust(offered, answer) == Check(answer.preferred # Malformed, "fail")

\* What the server made of an action has to pass what the offer passed.
Resolved(offered, answer) ==
    FirstOf(<<Check(answer.preferred # Malformed, "fail"),
              Check(Preserved(offered, answer), "skip"),
              Policy(answer)>>)

\* The action that would be applied: the offer, or what the server resolved it to.
Final(offered, answer, resolves) == IF NeedsResolve(offered, resolves) THEN answer ELSE offered

Verdict(offered, answer, resolves) ==
    LET final == Final(offered, answer, resolves)
    IN  FirstOf(<<Check(offered.title # Absent /\ offered.preferred # Malformed, "fail"),
                  Policy(offered),
                  IF NeedsResolve(offered, resolves) THEN Resolved(offered, answer) ELSE "ok",
                  Check(PayloadAllowed(final), "skip"),
                  IF final.edit = Absent THEN "ok" ELSE Applicable(final.edit)>>)

-----------------------------------------------------------------------------
(***************************************************************************)
(* The choice among eligible actions.  An action is its key, a number, and  *)
(* its value, which says whether it is preferred.                           *)
(***************************************************************************)

\* Sorted by key, in the order offered where keys are equal.
Sorted(actions) ==
    LET before == {p \in (DOMAIN actions) \X (DOMAIN actions) :
                      \/ actions[p[1]].key < actions[p[2]].key
                      \/ actions[p[1]].key = actions[p[2]].key /\ p[1] < p[2]}
        order == Sort(DOMAIN actions, before)
    IN  [k \in DOMAIN actions |-> actions[order[k]]]

\* Neighbours that are equal in key and value are one.
Eligible(actions) ==
    LET sorted == Sorted(actions)
    IN  Picked(sorted, {k \in DOMAIN sorted : k = 1 \/ sorted[k] # sorted[k - 1]})

\* The one preferred action or the only action, of those not applied before.
Choose(actions, applied) ==
    LET eligible == Eligible(actions)
        candidates == {k \in DOMAIN eligible : eligible[k].key \notin applied}
        preferred == {k \in candidates : eligible[k].preferred}
        only(places) == eligible[CHOOSE k \in places : TRUE]
    IN  IF candidates = {} /\ actions # <<>> THEN "repeated"
        ELSE IF Cardinality(preferred) = 1 THEN only(preferred)
        ELSE IF preferred = {} /\ Cardinality(candidates) = 1 THEN only(candidates)
        ELSE "none"

-----------------------------------------------------------------------------
(***************************************************************************)
(* What the user relies on.                                                *)
(***************************************************************************)

\* An edit that may be made unseen: only texts of opened documents, each once, at
\* the version and content the session knows, nothing to confirm, something changed.
HarmlessEdit(edit) ==
    /\ edit # Null
    /\ edit.changes = Absent \/ edit.documentChanges = Absent
    /\ Entries(edit) \notin {Absent, Malformed}
    /\ \A k \in DOMAIN Entries(edit) :
          /\ Entries(edit)[k].op = "edit"
          /\ Entries(edit)[k].doc \in Opened \ {Missing}
          /\ edit.changes = Absent => Entries(edit)[k].version \in {"current", "null"}
          /\ Entries(edit)[k].annotation \in {"none", "plain"}
          /\ Entries(edit)[k].fit \in {"changes", "same", "empty"}
          /\ \A j \in DOMAIN Entries(edit) :
                Entries(edit)[j].doc = Entries(edit)[k].doc => j = k
    /\ \E k \in DOMAIN Entries(edit) : Entries(edit)[k].fit = "changes"

\* An action of an allowed kind for this diagnostic that does one allowed thing.
Harmless(action) ==
    /\ ~action.disabled
    /\ action.diagnostics \in {"absent", "this"}
    /\ action.kind = Absent => action.command # Absent /\ action.command.shape = "string"
    /\ action.kind # Absent => \E n \in 0..Len(action.kind) : SubSeq(action.kind, 1, n) \in ActionKinds
    /\ IF action.edit = Absent THEN CommandAllowed(action)
       ELSE action.command = Absent /\ HarmlessEdit(action.edit)

WellFormed(action) == action.title # Absent /\ action.preferred # Malformed

\* What is applied is harmless and is what was offered; every harmless offer that
\* stays one when it is resolved may be applied.
VerdictIsSafe(offered, answer, resolves) ==
    LET final == Final(offered, answer, resolves)
    IN  Verdict(offered, answer, resolves) = "ok" <=>
            /\ WellFormed(offered)
            /\ ~offered.disabled
            /\ Harmless(final)
            /\ \A field \in {"title", "kind", "preferred", "diagnostics"} :
                  final[field] = offered[field]
            /\ offered.command # Absent \/ offered.kind = Absent => final.command = offered.command

\* Where a key stands for one action, order and repetition of the offers make no
\* difference: the choice is the only preferred or the only action not yet applied.
ChoiceIsClear(actions, applied) ==
    LET offered == ToSet(actions)
        left == {a \in offered : a.key \notin applied}
        best == IF \E a \in left : a.preferred THEN {a \in left : a.preferred} ELSE left
    IN  (\A a, b \in offered : a.key = b.key => a = b) =>
            CASE left = {} /\ offered # {} -> Choose(actions, applied) = "repeated"
              [] Cardinality(best) = 1 -> best = {Choose(actions, applied)}
              [] OTHER -> Choose(actions, applied) = "none"
=============================================================================
