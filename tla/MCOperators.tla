---------------------------- MODULE MCOperators -----------------------------
(* Small inputs of the pure algorithms, for TLC.                           *)
EXTENDS Operators

CONSTANTS
    MaxLines,   \* lines in a tool's output
    MaxLen      \* scalars in a text that one edit is made to

\* Positions up to the third line and the third unit.
Positions == (0..2) \X (0..3)

Edits(positions) ==
    [start: positions, end: positions, text: {<<>>, <<"x">>}]

MCKinds == {<<"quickfix">>}

Texts ==
    { <<>>, <<"n">>, <<"a", "a">>, <<"a", "W", "r", "n", "a">>, <<"a", "n", "W">> }

\* A text of any scalars and one edit of it, or one of some texts and two edits,
\* ordered or not, apart, touching or overlapping.
MCTextInputs ==
    LET forward == {e \in Edits((0..1) \X (0..2)) : ~Before(e.end, e.start)}
        doubled == {[e EXCEPT !.text = @ \o @] : e \in forward}
    IN  [text: UNION {[1..n -> Scalars] : n \in 0..MaxLen}, edits: [1..1 -> Edits(Positions)]]
        \cup [text: Texts, edits: forward \X doubled]

-----------------------------------------------------------------------------
\* Actions as servers offer them: a sound one, and those that differ from it in a
\* field or two.
Command(shape, id, arguments) == [shape |-> shape, id |-> id, arguments |-> arguments]

Commands ==
    {Absent, Command("other", "fix", TRUE), Command("string", "fix", TRUE), Command("object", "fix", TRUE),
     Command("object", "fix", FALSE), Command("string", "rm", TRUE), Command("string", "", TRUE)}

SomeEntry(doc, fit) ==
    [doc |-> doc, op |-> "edit", version |-> "current", annotation |-> "none", fit |-> fit]

SomeEntries ==
    LET good == SomeEntry(1, "changes")
    IN  {SomeEntry(d, f) : d \in {0, 1, 2, 3}, f \in {"changes", "same", "empty", "stale", "overlap", "malformed"}}
        \cup {[good EXCEPT !.op = o] : o \in {"resource", "malformed"}}
        \cup {[good EXCEPT !.version = v] : v \in {"stale", "null", "absent"}}
        \cup {[good EXCEPT !.annotation = a] : a \in {"plain", "confirm", "malformed"}}

Lists == UNION {[1..n -> SomeEntries] : n \in 0..2}

\* The entries of changes are keyed by document and have no version.
Maps == {l \in Lists : /\ OnePerDocument(l) /\ (Len(l) = 2 => l[1].doc < l[2].doc)
                       /\ \A k \in DOMAIN l : l[k].op # "resource" /\ l[k].version = "current"}

SomeEdits ==
    UNION {[changes: {Absent}, documentChanges: Lists \cup {Absent, Malformed}],
           [changes: Maps \cup {Malformed}, documentChanges: {Absent}],
           [changes: {<<SomeEntry(1, "changes")>>},
            documentChanges: {Malformed, <<SomeEntry(2, "same")>>}]}

Sound ==
    [title |-> "t", preferred |-> FALSE, disabled |-> FALSE, kind |-> <<"quickfix">>, data |-> TRUE,
     diagnostics |-> "absent", command |-> Absent,
     edit |-> [changes |-> Absent, documentChanges |-> <<SomeEntry(1, "changes")>>]]

\* What a policy looks at, apart from the edit.
Policies ==
    [title: {"t", Absent}, preferred: {FALSE, TRUE, Malformed}, disabled: BOOLEAN, data: BOOLEAN,
     kind: {<<"quickfix">>, <<"quickfix", "add">>, <<"quickfixes">>, Absent},
     diagnostics: {"absent", "this", "other", "malformed"}, command: Commands,
     edit: {Absent, Null, Sound.edit}]

\* What has yet to be resolved.
Unresolved ==
    {[Sound EXCEPT !.edit = Absent, !.preferred = p, !.command = c, !.kind = k] :
        p \in BOOLEAN, c \in Commands, k \in {<<"quickfix">>, Absent}}

\* Any action without having to resolve it, any edit in a sound action, and any answer
\* to a request to resolve an action that lacks its edit.
MCOfferInputs ==
    [offered: Policies, answer: {Sound}, resolves: {FALSE}]
    \cup [offered: {[Sound EXCEPT !.edit = e] : e \in SomeEdits}, answer: {Sound}, resolves: {FALSE}]
    \cup [offered: Unresolved, answer: {a \in Policies : a.title = "t" /\ ~a.data}, resolves: {TRUE}]

\* Up to three eligible actions, with repetitions, some of them applied before.
MCChoiceInputs ==
    [actions: UNION {[1..n -> [key: 1..3, preferred: BOOLEAN]] : n \in 0..3},
     applied: SUBSET (1..3)]

-----------------------------------------------------------------------------
\* The output of a tool, read by an adapter that is named or detected.
MCOutputInputs ==
    [text: UNION {[1..n -> LineKinds] : n \in 0..MaxLines}, protocol: Protocols]

\* Ranges with coordinates up to one more than can be represented.
MCRangeInputs ==
    LET positions == (0..(MaxU32 + 1)) \X (0..(MaxU32 + 1)) IN [start: positions, end: positions]

-----------------------------------------------------------------------------
MCGeneralFields == {"max_output_bytes"}
MCProfileFields == {"argv", "auto"}
MCActionFields == {"enabled", "argv"}
MCSettingValues == {Unset, "no", "yes", "empty", "tool", "server", "small", "mine"}

\* Layers with one general setting and two profiles, one of them with actions.
Profiles ==
    [settings: [argv: {Unset, "empty", "tool"}, auto: {Unset, "no"}],
     actions: {Unset} \cup [enabled: {Unset, "no", "yes"}, argv: {Unset, "server"}]]

Plain == [settings |-> [argv |-> "tool", auto |-> "yes"], actions |-> Unset]

Layers ==
    [general: {[max_output_bytes |-> v] : v \in {Unset, "small"}},
     profiles: [{} -> {}] \cup [{"rust"} -> Profiles]
               \cup {[p \in {"rust", "lint"} |-> IF p = "lint" THEN Plain ELSE q] : q \in Profiles}]

MCPaths ==
    {<<"max_output_bytes">>}
    \cup {<<p, f>> : p \in {"rust", "lint"}, f \in {"argv", "auto"}}
    \cup {<<p, "actions", f>> : p \in {"rust", "lint"}, f \in {"enabled", "argv"}}

Home == [mode |-> "absent", platform |-> TRUE, xdg |-> "absent", home |-> "set"]

States == {"absent", "other", "denied", "invalid", "vanishing", "file"}

\* Any two layers, from files in their usual places; and files in every state, for
\* every environment, in three directories.
MCLayerInputs ==
    [env: {Home}, user: {"file"}, candidates: {<<"absent", "file">>},
     layers: [user: Layers, project: Layers]]
    \cup
    [env: [mode: {"absent", "empty", "xdg", "native", "foreign", "unknown"}, platform: BOOLEAN,
           xdg: {"absent", "empty", "foreign", "set"}, home: {"absent", "empty", "foreign", "set"}],
     user: States, candidates: States \X States,
     layers: {[user |-> [Nothing EXCEPT !.general.max_output_bytes = "mine"],
               project |-> [Nothing EXCEPT !.profiles = [p \in {"lint"} |-> Plain]]]}]

MCGivenValues == {"server", "agda", "refactor", "fix", "1", "1 s"}

\* Every setting of code actions unset, unusable or given.
MCProfileInputs ==
    [rust: BOOLEAN,
     actions: {Unset} \cup
         [enabled: {Unset, FALSE, TRUE}, argv: {Unset, "empty", "blank", "server"},
          language_id: {Unset, "blank", "agda"}, extensions: {Unset, "empty", "blank", "agda"},
          action_kinds: {Unset, "empty", "refactor"}, allowed_commands: {Unset, "blank", "fix"},
          max_iterations: {Unset, "zero", "1"}, timeout_ms: {Unset, "zero", "huge", "1 s"}]]

-----------------------------------------------------------------------------
\* A hash that tells severities apart and nothing else.
Colliding(identity) == identity.severity

SomeDiagnostics ==
    {d \in [source: {"rustc", "lsp"}, code: {"none", "", "c"}, message: {"m", "c"}, severity: {1, 4},
            sites: {"here"}, raw: {"none", "json"}] : d.source = "lsp" => d.code = "none" /\ d.raw = "none"}

\* Lists of up to three diagnostics and every cap on samples.
MCDigestInputs ==
    [diagnostics: UNION {[1..n -> SomeDiagnostics] : n \in 0..3}, limit: 0..3]
=============================================================================
