------------------------------- MODULE Operators -------------------------------
(***************************************************************************)
(* Calls of the pure algorithms, one in a step, each with an input of a set *)
(* that is a parameter, and what the users of each rely on.                 *)
(***************************************************************************)
EXTENDS TextEdits, ActionSafety, Adapters, ConfigLayers, Digests

CONSTANTS
    TextInputs,     \* texts with the edits to be made to them
    OfferInputs,    \* offered actions, the answers to resolving them, and whether a server resolves
    ChoiceInputs,   \* eligible actions, and the keys of those applied before
    OutputInputs,   \* a tool's output and the protocol its profile names
    RangeInputs,    \* ranges as tools report them
    LayerInputs,    \* the environment, the state of the files, and what they say
    ProfileInputs,  \* a profile's code-action settings
    DigestInputs,   \* diagnostics, and the cap on samples
    GeneralFields, ProfileFields, ActionFields, SettingValues,  \* settings and what they may be
    GivenValues,    \* usable values of a code-action setting
    Paths           \* of the settings that are compared

-----------------------------------------------------------------------------
(***************************************************************************)
(* What the inputs may be.                                                 *)
(***************************************************************************)

Position == Nat \X Nat

TextEdit == [start: Position, end: Position, text: Seq(STRING)]

TextInput == [text: Seq(Scalars), edits: Seq(TextEdit)]

Entry ==
    [doc: Nat, op: {"edit", "resource", "malformed"}, version: {"current", "null", "stale", "absent"},
     annotation: {"none", "plain", "confirm", "malformed"},
     fit: {"changes", "same", "empty", "stale", "overlap", "malformed"}]

\* The entries of changes are keyed by their document.
OnePerDocument(entries) == \A j, k \in DOMAIN entries : entries[j].doc = entries[k].doc => j = k

\* The entries of changes are the values of a map.
Edit ==
    {edit \in [changes: {Absent, Malformed} \cup Seq(Entry),
               documentChanges: {Absent, Malformed} \cup Seq(Entry)] :
        edit.changes \notin {Absent, Malformed} =>
            /\ OnePerDocument(edit.changes)
            /\ \A k \in DOMAIN edit.changes : edit.changes[k].op # "resource"}

Action ==
    [title: {Absent} \cup STRING, preferred: {Malformed} \cup BOOLEAN, disabled: BOOLEAN,
     kind: {Absent} \cup Seq(STRING), data: BOOLEAN,
     diagnostics: {"absent", "this", "other", "malformed"},
     command: {Absent} \cup [shape: {"string", "object", "other"}, id: STRING, arguments: BOOLEAN],
     edit: {Absent, Null} \cup Edit]

OfferInput == [offered: Action, answer: Action, resolves: BOOLEAN]

ActionList == Seq([key: Nat, preferred: BOOLEAN])

ChoiceInput == [actions: ActionList, applied: SUBSET Nat]

OutputInput == [text: Seq(LineKinds), protocol: Protocols]

RangeInput == [start: Position, end: Position]

Profile ==
    [settings: [ProfileFields -> SettingValues], actions: {Unset} \cup [ActionFields -> SettingValues]]

\* A layer says something of the general settings and of some profiles.
IsLayer(layer) ==
    /\ layer = [general |-> layer.general, profiles |-> layer.profiles]
    /\ layer.general \in [GeneralFields -> SettingValues]
    /\ DOMAIN layer.profiles \subseteq STRING
    /\ layer.profiles \in [DOMAIN layer.profiles -> Profile]

\* The paths of settings.
IsPath(path) ==
    \/ \E g \in GeneralFields : path = <<g>>
    \/ \E f \in ProfileFields : path = <<path[1], f>> /\ path[1] \in STRING
    \/ \E f \in ActionFields : path = <<path[1], "actions", f>> /\ path[1] \in STRING

\* What is configured when no file says anything.
Nothing == [general |-> [f \in GeneralFields |-> Unset], profiles |-> [p \in {} |-> Unset]]

ActionSettings ==
    {Unset} \cup
    [enabled: {Unset} \cup BOOLEAN,
     argv: {Unset, "empty", "blank"} \cup GivenValues,
     language_id: {Unset, "empty", "blank"} \cup GivenValues,
     extensions: {Unset, "empty", "blank"} \cup GivenValues,
     action_kinds: {Unset, "empty", "blank"} \cup GivenValues,
     allowed_commands: {Unset, "blank"} \cup GivenValues,
     max_iterations: {Unset, "zero"} \cup GivenValues,
     timeout_ms: {Unset, "zero", "huge"} \cup GivenValues]

ProfileInput == [rust: BOOLEAN, actions: ActionSettings]

Diagnostic ==
    [source: STRING, code: STRING, message: STRING, severity: Nat, sites: STRING, raw: STRING]

DigestInput == [diagnostics: Seq(Diagnostic), limit: Nat]

ASSUME TextAssumption == TextInputs \subseteq TextInput

ASSUME ActionAssumption ==
    /\ ActionKinds \subseteq Seq(STRING)
    /\ OfferInputs \subseteq OfferInput
    /\ ChoiceInputs \subseteq ChoiceInput

ASSUME OutputAssumption ==
    /\ MaxU32 \in Nat
    /\ OutputInputs \subseteq OutputInput
    /\ RangeInputs \subseteq RangeInput
    /\ DigestInputs \subseteq DigestInput

\* Nothing a setting may be is mistaken for its being unset, or for being unusable.
ASSUME SettingAssumption ==
    /\ Unset \in SettingValues
    /\ Unset \notin [ActionFields -> SettingValues]
    /\ Unset \notin {"quickfix", "none", "64", "30 s"}
    /\ GivenValues \cap {Unset, "empty", "blank", "zero", "huge"} = {}
    /\ \A input \in LayerInputs :
          /\ IsLayer(input.layers.user) /\ IsLayer(input.layers.project)
          /\ input.candidates \in Seq(STRING)
    /\ \A path \in Paths : IsPath(path)
    /\ ProfileInputs \subseteq ProfileInput

-----------------------------------------------------------------------------
VARIABLE call

Init == call = [kind |-> "none"]

\* apply_text_edits
EditText ==
    /\ call.kind = "none"
    /\ \E input \in TextInputs :
           call' = [kind |-> "edits", text |-> input.text, edits |-> input.edits]

\* The part of code_actions that screens one action.
ScreenAction ==
    /\ call.kind = "none"
    /\ \E input \in OfferInputs :
           call' = [kind |-> "action", offered |-> input.offered, answer |-> input.answer,
                    resolves |-> input.resolves]

\* The end of code_actions, and the part of next_safe_action after it.
ChooseAction ==
    /\ call.kind = "none"
    /\ \E input \in ChoiceInputs :
           call' = [kind |-> "choice", actions |-> input.actions, applied |-> input.applied]

\* parse_captured_output
ReadOutput ==
    /\ call.kind = "none"
    /\ \E input \in OutputInputs :
           call' = [kind |-> "output", text |-> input.text, protocol |-> input.protocol]

\* lsp_span, parse_agda_header
ReadRange ==
    /\ call.kind = "none"
    /\ \E range \in RangeInputs : call' = [kind |-> "range", range |-> range]

\* Config::discover
FindLayers ==
    /\ call.kind = "none"
    /\ \E input \in LayerInputs :
           call' = [kind |-> "config", env |-> input.env, user |-> input.user,
                    candidates |-> input.candidates, layers |-> input.layers]

\* resolve_code_action_config
ResolveProfile ==
    /\ call.kind = "none"
    /\ \E input \in ProfileInputs :
           call' = [kind |-> "profile", rust |-> input.rust, actions |-> input.actions]

\* build_digest
Digest ==
    /\ call.kind = "none"
    /\ \E input \in DigestInputs :
           call' = [kind |-> "digest", diagnostics |-> input.diagnostics, limit |-> input.limit]

Next == EditText \/ ScreenAction \/ ChooseAction \/ ReadOutput \/ ReadRange \/ FindLayers
        \/ ResolveProfile \/ Digest

Spec == Init /\ [][Next]_call

-----------------------------------------------------------------------------
\* Edits that are applied make the text they mean, each where it says and nothing else
\* changed.  Edits that are refused do not fit the text or each other, or they contain a
\* position that is misread for one of an earlier line (lsp_fix.rs:2875): every list with
\* such a position is refused, and no other list that fits.  The end of a document is
\* where an update of it says (apply_text_edits, resolve_position_offsets,
\* document_end_position).
EditsMakeTheirText ==
    call.kind = "edits" => EditsAreSound(call.text, call.edits) /\ EndIsSound(call.text)

\* An action is applied unseen exactly if the server's last word on it is harmless
\* and is still the action that was offered; among several, the choice is clear and
\* does not depend on the order they come in (code_actions, workspace_edit_applicable,
\* resolved_metadata_preserved, next_safe_action).
OnlySafeActions ==
    /\ call.kind = "action" => VerdictIsSafe(call.offered, call.answer, call.resolves)
    /\ call.kind = "choice" => ChoiceIsClear(call.actions, call.applied)

\* Output captured by a batch run is read as the same text in one string would be;
\* no diagnostic is lost because a line beside it is malformed, and none is reported
\* twice or out of order.  Output is reported as clean if it says that all is well; the
\* one exception is cargo's, of which neither the record of a failed build nor the text
\* beside the records is looked at (adapter.rs:413, 492).  The digest keeps, counts and
\* groups every diagnostic that is not an exact repetition (parse_auto,
\* detect_auto_protocol_reader, the adapters, lsp_span, build_digest).
OutputIsReported ==
    /\ call.kind = "output" => ReportIsComplete(call.protocol, call.text)
    /\ call.kind = "range" => SpansFit(call.range)
    /\ call.kind = "digest" => DigestIsFair(call.diagnostics, call.limit)

\* Every setting is the project's where it gives one, an explicit FALSE or empty list
\* included, and the user's otherwise; unusable files are reported, never skipped; and
\* a profile runs code actions exactly when it is listed as able to and its settings
\* are complete (config.rs, resolve_code_action_config, has_code_action_support).
ProjectSettingsWin ==
    /\ call.kind = "config" =>
          ProjectOverUser(call.env, call.user, call.candidates, call.layers, Nothing, Paths)
    /\ call.kind = "profile" => ActionsAreConsistent(call.rust, call.actions)

\* Non-overlapping edits of a text are applied, as the comment on apply_text_edits
\* says (lsp_fix.rs:2728).
ValidEditsApply == call.kind = "edits" => EditsApply(call.text, call.edits)
=============================================================================
