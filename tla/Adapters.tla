------------------------------- MODULE Adapters -------------------------------
(***************************************************************************)
(* How the output of a tool becomes diagnostics (adapter.rs): by an adapter *)
(* that is named or detected, from a string or, in batch runs, from a       *)
(* capture that is read twice.  A line is the kind of text it holds:        *)
(*   blank, noise   no text, and text no adapter knows                      *)
(*   message        a cargo compiler-message with a text; hollow has none   *)
(*   event, failed  any other well-formed cargo record; failed is the one   *)
(*                  that says that the build failed                         *)
(*   strange, torn  JSON that a cargo record is not; one that is not JSON   *)
(*   native, echo   the JSON of aifix with one diagnostic; echo quotes the  *)
(*                  cargo record that the diagnostic was made from          *)
(*   lsp, lspbad    the "diagnostics" of LSP, one; or one that is malformed *)
(*   clean          JSON whose list of diagnostics is empty                 *)
(*   published      what LSP publishes about a file without diagnostics     *)
(*   object, scalar valid JSON without a list of diagnostics                *)
(*   open, end      the two halves of native JSON on two lines              *)
(*   header, status of Agda;  ts  of the TypeScript compiler                *)
(***************************************************************************)
EXTENDS Naturals, Sequences, SequencesExt, FiniteSets, FiniteSetsExt, Containers

CONSTANT
    MaxU32      \* the largest coordinate that can be represented

\* Lines that start like an object and mention the field a cargo record has.
CargoLines == {"message", "hollow", "event", "failed", "strange", "torn", "echo"}

\* Cargo records with the fields they need.
Records == {"message", "hollow", "event", "failed"}

\* Lines that start like an object or an array, and lines that are valid JSON.
BraceLines == CargoLines \cup {"native", "lsp", "lspbad", "clean", "published", "object", "open"}
JsonLines == (BraceLines \ {"torn", "open"}) \cup {"scalar"}

LineKinds == BraceLines \cup {"blank", "noise", "scalar", "end", "header", "status", "ts"}

Protocols == {"auto", "aifix", "clippy", "agda", "typescript", "lsp", "nushell"}

Success(found) == [error |-> "none", found |-> found]
Failure(error) == [error |-> error, found |-> <<>>]

Found(adapter, line) == [by |-> adapter, at |-> line, body |-> {}]

\* The lines of certain kinds, in order, as diagnostics of an adapter.
Each(adapter, text, kinds) ==
    LET lines == Ascending({k \in DOMAIN text : text[k] \in kinds})
    IN  [i \in DOMAIN lines |-> Found(adapter, lines[i])]

Holds(text, kinds) == \E k \in DOMAIN text : text[k] \in kinds

IsBlank(text) == ~Holds(text, LineKinds \ {"blank"})

-----------------------------------------------------------------------------
(***************************************************************************)
(* Cargo records, line by line.                                            *)
(***************************************************************************)

\* What a line that holds no diagnostic is remembered for.
StructuredError(kind) ==
    CASE kind \in {"torn", "open"} -> "json"
      [] kind \in JsonLines \ {"message", "event", "failed"} -> "parser"
      [] OTHER -> "none"

PushLine(parser, k, kind) ==
    [parser EXCEPT
        !.found = IF kind = "message" THEN Append(@, Found("clippy", k)) ELSE @,
        !.json = @ \/ kind \in Records,
        !.nonempty = @ \/ kind # "blank",
        !.error = IF @ = "none" THEN StructuredError(kind) ELSE @]

Finish(parser) ==
    CASE parser.found # <<>> -> Success(parser.found)
      [] parser.found = <<>> /\ parser.error # "none" -> Failure(parser.error)
      [] OTHER -> IF parser.nonempty /\ ~parser.json THEN Failure("parser") ELSE Success(<<>>)

ParseClippy(text) ==
    LET step(parser, k) == PushLine(parser, k, text[k])
    IN  Finish(FoldLeft(step, [found |-> <<>>, json |-> FALSE, nonempty |-> FALSE, error |-> "none"],
                        [k \in DOMAIN text |-> k]))

-----------------------------------------------------------------------------
(***************************************************************************)
(* One JSON value.                                                         *)
(***************************************************************************)

\* The value the whole text is, or "invalid".
JsonValue(text) ==
    LET lines == Picked(text, {k \in DOMAIN text : text[k] # "blank"})
    IN  IF Len(lines) = 1 /\ lines[1] \in JsonLines THEN lines[1]
        ELSE IF lines = <<"open", "end">> THEN "native"
        ELSE "invalid"

First(text) == CHOOSE k \in DOMAIN text : text[k] # "blank" /\ \A j \in 1..(k - 1) : text[j] = "blank"

ParseAifix(text) ==
    CASE JsonValue(text) = "invalid" -> Failure("json")
      [] JsonValue(text) \in {"native", "echo"} -> Success(<<Found("aifix", First(text))>>)
      [] JsonValue(text) = "clean" -> Success(<<>>)
      [] JsonValue(text) \in {"lsp", "lspbad"} -> Failure("json")
      [] OTHER -> Failure("parser")

\* One malformed diagnostic rejects the whole value.
ParseLsp(text) ==
    CASE JsonValue(text) = "invalid" -> Failure("json")
      [] JsonValue(text) = "lsp" -> Success(<<Found("lsp", First(text))>>)
      [] JsonValue(text) \in {"clean", "published"} -> Success(<<>>)
      [] OTHER -> Failure("parser")

LspShape(text) == JsonValue(text) \in {"lsp", "lspbad", "published"}

ParseCompleteJson(text) == IF LspShape(text) THEN ParseLsp(text) ELSE ParseAifix(text)

\* The span of an LSP range: both positions there, in order, and countable from one.
LspSpan(range) ==
    IF /\ range.start[1] <= MaxU32 /\ range.start[2] <= MaxU32
       /\ range.end[1] <= MaxU32 /\ range.end[2] <= MaxU32
       /\ \/ range.start[1] < range.end[1]
          \/ range.start[1] = range.end[1] /\ range.start[2] <= range.end[2]
       /\ MaxU32 \notin {range.start[1], range.start[2], range.end[1], range.end[2]}
    THEN {[from |-> <<range.start[1] + 1, range.start[2] + 1>>,
           to |-> <<range.end[1] + 1, range.end[2] + 1>>]}
    ELSE {}

-----------------------------------------------------------------------------
(***************************************************************************)
(* Text.                                                                   *)
(***************************************************************************)

\* A header and the lines up to the next one; status lines belong to none.
AgdaLine(found, k, kind) ==
    IF kind = "header" THEN Append(found, Found("agda", k))
    ELSE IF kind = "status" \/ found = <<>> THEN found
    ELSE [found EXCEPT ![Len(found)].body = @ \cup {k}]

ParseAgda(text) ==
    LET step(found, k) == AgdaLine(found, k, text[k])
        found == FoldLeft(step, <<>>, [k \in DOMAIN text |-> k])
    IN  IF found = <<>> /\ Holds(text, LineKinds \ {"blank", "status"}) THEN Failure("parser")
        ELSE Success(found)

ParseTypescript(text) ==
    LET found == Each("typescript", text, {"ts"})
    IN  IF found = <<>> /\ ~IsBlank(text) THEN Failure("parser") ELSE Success(found)

ParseNushell(text) == Success(Each("nushell", text, LineKinds \ {"blank"}))

\* The positions in a header: from one, in order; one line when no other is named.
AgdaSpan(range) ==
    IF /\ 0 \notin {range.start[1], range.start[2], range.end[1], range.end[2]}
       /\ range.end[1] >= range.start[1]
       /\ range.end[1] = range.start[1] => range.start[2] <= range.end[2]
       /\ \A p \in {range.start, range.end} : p[1] <= MaxU32 /\ p[2] <= MaxU32
    THEN {[from |-> range.start, to |-> range.end]}
    ELSE {}

-----------------------------------------------------------------------------
(***************************************************************************)
(* Which adapter.                                                          *)
(***************************************************************************)

\* parse_auto, of a string.
ParseAuto(text) ==
    CASE IsBlank(text) -> Success(<<>>)
      [] Holds(text, CargoLines) -> ParseClippy(text)
      [] OTHER ->
            IF text[First(text)] \in BraceLines THEN ParseCompleteJson(text)
            ELSE IF Holds(text, {"header", "status"}) THEN ParseAgda(text)
            ELSE IF ParseTypescript(text).error = "none" THEN ParseTypescript(text)
            ELSE ParseNushell(text)

\* As Detect, but one object or array is looked for before cargo records.
DetectJsonFirst(text) ==
    CASE ~IsBlank(text) /\ text[First(text)] \in BraceLines -> "json"
      [] Holds(text, CargoLines) -> "clippy"
      [] Holds(text, {"header", "status"}) -> "agda"
      [] OTHER -> IF Holds(text, {"ts"}) THEN "typescript" ELSE "nushell"

\* detect_auto_protocol_reader, the first pass over a capture.
Detect(text) ==
    CASE Holds(text, CargoLines) -> "clippy"
      [] OTHER ->
            IF ~IsBlank(text) /\ text[First(text)] \in BraceLines THEN "json"
            ELSE IF Holds(text, {"header", "status"}) THEN "agda"
            ELSE IF Holds(text, {"ts"}) THEN "typescript"
            ELSE "nushell"

\* An adapter that was named or detected.
Parse(protocol, text) ==
    CASE protocol = "auto" -> ParseAuto(text)
      [] protocol = "aifix" -> ParseAifix(text)
      [] protocol = "clippy" -> ParseClippy(text)
      [] protocol = "agda" -> ParseAgda(text)
      [] protocol = "typescript" -> ParseTypescript(text)
      [] protocol = "lsp" -> ParseLsp(text)
      [] protocol = "nushell" -> ParseNushell(text)
      [] protocol = "json" -> ParseCompleteJson(text)

\* parse_captured_output, which reads a capture again for the detected adapter.
Replay(protocol, text) == Parse(IF protocol = "auto" THEN Detect(text) ELSE protocol, text)

-----------------------------------------------------------------------------
(***************************************************************************)
(* What the user relies on.                                                *)
(***************************************************************************)

\* The lines an adapter has to report, whatever stands beside them.
Reportable(adapter, text) ==
    {k \in DOMAIN text : CASE adapter = "clippy" -> text[k] = "message"
                           [] adapter = "agda" -> text[k] = "header"
                           [] adapter = "typescript" -> text[k] = "ts"
                           [] adapter = "nushell" -> text[k] # "blank"
                           [] OTHER -> k = First(text)}

\* The output says that nothing is wrong: there is none, or it is what one of the
\* tools prints when all is well and nothing else.
AllIsWell(text) ==
    \/ IsBlank(text)
    \/ ~Holds(text, LineKinds \ {"blank", "status"})
    \/ JsonValue(text) \in {"clean", "published"}
    \/ ~Holds(text, LineKinds \ {"blank", "event"})

\* The output holds cargo records that are no diagnostics, and beside them what nobody
\* looks at: the record of a build that failed, or text that is not JSON.
IsOverlooked(text) ==
    /\ Holds(text, {"event", "failed"})
    /\ ~Holds(text, (JsonLines \cup {"torn", "open"}) \ {"event", "failed"})
    /\ Holds(text, LineKinds \ {"blank", "event"})

\* A capture is read as the string would be; what is reported is every line of the
\* adapter that matched, once and in order; Agda's text after the first header is in
\* one message each; and "no diagnostics" means that the output says that all is well,
\* or that it is the one kind of output that is overlooked.
ReportIsComplete(protocol, text) ==
    LET made == Replay(protocol, text)
    IN  /\ made = Parse(protocol, text)
        /\ made.found # <<>> =>
              /\ {made.found[i].at : i \in DOMAIN made.found} =
                    Reportable(made.found[1].by, text)
              /\ \A i, j \in DOMAIN made.found : i < j => made.found[i].at < made.found[j].at
              /\ \A k \in DOMAIN text :
                    /\ made.found[1].by = "agda" /\ k > made.found[1].at
                    /\ text[k] \notin {"header", "status"}
                    => {made.found[i].at : i \in {j \in DOMAIN made.found : k \in made.found[j].body}} =
                          {Max({h \in 1..k : text[h] = "header"})}
        /\ made = Success(<<>>) => AllIsWell(text) \/ IsOverlooked(text)

\* A span starts at one, in order, and is there exactly if its coordinates fit.
SpansFit(range) ==
    LET ordered(p, q) == p[1] < q[1] \/ (p[1] = q[1] /\ p[2] <= q[2])
        within(low, high) ==
            \A p \in {range.start, range.end} : {p[1], p[2]} \subseteq low..high
    IN  /\ LspSpan(range) # {} <=> ordered(range.start, range.end) /\ within(0, MaxU32 - 1)
        /\ AgdaSpan(range) # {} <=> ordered(range.start, range.end) /\ within(1, MaxU32)
        /\ \A span \in LspSpan(range) \cup AgdaSpan(range) :
              /\ ordered(span.from, span.to)
              /\ {span.from[1], span.from[2], span.to[1], span.to[2]} \subseteq 1..MaxU32
=============================================================================
