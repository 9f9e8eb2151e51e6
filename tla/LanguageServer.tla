--------------------------- MODULE LanguageServer ---------------------------
(***************************************************************************)
(* The language server that LspSession talks to, as its code relies on it, *)
(* and the two pipes between them.  The server handles what it reads in    *)
(* order, answers every request once and tells the truth about versions;   *)
(* but it publishes diagnostics late, more than once or not at all, and it *)
(* sends requests of its own whenever it likes.                            *)
(***************************************************************************)
EXTENDS Integers, Sequences, FiniteSets

CONSTANTS
    Docs,         \* the source documents, numbered in URI order
    Keys,         \* what tells one code action from another (ActionKey)
    Answers,      \* what a code-action response may offer: sets of actions
    PipeRoom,     \* messages between the writer thread and the server
    ReaderRoom,   \* messages between the server and the session
    Budget        \* how many messages the server sends without being asked

\* No version, and no record.
None == -1
Nothing == [is |-> "nothing"]

\* The version of a document that is not open.
Closed == -1

Kinds == {"edit", "command", "unresolved"}
Action == [key: Keys, preferred: BOOLEAN, kind: Kinds, docs: SUBSET Docs]

ASSUME ServerAssumption ==
    /\ Docs \subseteq Nat
    /\ IsFiniteSet(Docs)
    /\ Answers \subseteq SUBSET Action
    /\ {PipeRoom, ReaderRoom} \subseteq Nat \ {0}
    /\ Budget \in Nat

VARIABLES
    toServer,   \* the server's standard input
    toClient,   \* its standard output, with the reader thread and its channel
    known,      \* the version of each document the server knows
    owed,       \* the requests the server has read and not answered
    budget,     \* unasked messages left
    server      \* "up", "quiet" once it has agreed to shut down, then "down"

servervars == <<toServer, toClient, known, owed, budget, server>>

Methods == {"initialize", "codeAction", "resolve", "command", "shutdown"}

Publication(d, base, version, problem) ==
    [is |-> "publish", doc |-> d, base |-> base, version |-> version,
     problem |-> problem]

ServerInit ==
    /\ toServer = <<>>
    /\ toClient = <<>>
    /\ known = [d \in Docs |-> Closed]
    /\ owed = <<>>
    /\ budget = Budget
    /\ server = "up"

Write(m) ==
    /\ server = "up"
    /\ Len(toClient) < ReaderRoom
    /\ toClient' = Append(toClient, m)

ServerReads ==
    /\ server # "down"
    /\ toServer # <<>>
    /\ toServer' = Tail(toServer)
    /\ LET m == Head(toServer)
       IN  /\ known' = IF m.is = "text" THEN [known EXCEPT ![m.doc] = m.version] ELSE known
           /\ owed' = IF m.is = "request" THEN Append(owed, m) ELSE owed
           /\ server' = IF m.is = "exit" THEN "down" ELSE server
    /\ UNCHANGED <<toClient, budget>>

\* A resolved action carries an edit, or is not one the session accepts.
Offers(request) ==
    CASE request.method = "codeAction" -> Answers
      [] request.method = "resolve"    -> {{}, {[request.about EXCEPT !.kind = "edit"]}}
      [] OTHER                         -> {{}}

\* Edits in a response are computed from the documents as they are now.
Response(outcome, offered) ==
    [is |-> "response", id |-> Head(owed).id, outcome |-> outcome, actions |-> offered,
     base |-> known]

ServerAnswers ==
    /\ owed # <<>>
    /\ \/ /\ \E offered \in Offers(Head(owed)) : Write(Response("result", offered))
          /\ server' = IF Head(owed).method = "shutdown" THEN "quiet" ELSE server
          /\ UNCHANGED budget
       \/ /\ budget > 0
          /\ budget' = budget - 1
          /\ Write(Response("modified", {}))
          /\ UNCHANGED server
    /\ owed' = Tail(owed)
    /\ UNCHANGED <<toServer, known>>

Unasked(m) ==
    /\ budget > 0
    /\ budget' = budget - 1
    /\ Write(m)
    /\ UNCHANGED <<toServer, known, owed, server>>

\* Diagnostics of this or an earlier version of the text, with or without the
\* version; also of documents that are not open, from the text on disk.
ServerPublishes(d) ==
    \E base \in 0 .. known[d] \cup {0}, problem \in BOOLEAN :
        \E version \in {base, None} :
            Unasked(Publication(d, base, version, problem))

\* workspace/configuration, window/workDoneProgress/create and the like.
ServerAsks == Unasked([is |-> "ask"])

\* workspace/applyEdit, in the course of a command or out of the blue.
ServerEdits(docs) ==
    /\ \A d \in docs : known[d] # Closed
    /\ Unasked([is |-> "edit", docs |-> docs, base |-> known])

ServerStep ==
    \/ ServerReads
    \/ ServerAnswers
    \/ \E d \in Docs : ServerPublishes(d)
    \/ ServerAsks
    \/ \E docs \in (SUBSET Docs) \ {{}} : ServerEdits(docs)
=============================================================================
