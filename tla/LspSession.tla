----------------------------- MODULE LspSession -----------------------------
(***************************************************************************)
(* One language-server session (LspSession in crates/aifix/src/lsp_fix.rs) *)
(* from initialize to shutdown.  The session is one thread: while it waits *)
(* for an answer, for silence, or for a message to be written, it handles  *)
(* what the server sends, and handling that can make it write again.  The  *)
(* stack holds the functions it is in the middle of, innermost last.       *)
(*                                                                         *)
(* A document's text is its version; what an edit does to the files is the *)
(* subject of WorkspaceEdit.                                               *)
(***************************************************************************)
EXTENDS LanguageServer, SequencesExt

CONSTANTS
    MaxIterations,  \* max_iterations
    MaxRetries,     \* MAX_CONTENT_MODIFIED_RETRIES
    MaxDeferred,    \* MAX_DEFERRED_LSP_EVENTS
    MaxNested,      \* MAX_NESTED_SERVER_REQUESTS
    MaxWrites,      \* MAX_PENDING_LSP_WRITES
    Faults          \* what may go wrong, a subset of FaultPoints

FaultPoints == {"deadline", "crash", "apply"}

ASSUME SessionAssumption ==
    /\ {MaxIterations, MaxRetries, MaxDeferred} \subseteq Nat
    /\ {MaxNested, MaxWrites} \subseteq Nat \ {0}
    /\ Faults \subseteq FaultPoints

VARIABLES
    phase,       \* where the session's own course is
    stack,       \* the functions that wait, innermost last
    writer,      \* messages the writer thread was given and has not written
    failure,     \* the first error, or "none"
    nextId,      \* next_id
    pending,     \* pending_request_id, or 0
    deferred,    \* deferred_events
    version,     \* the version of each document
    residual,    \* diagnostics: the last accepted publication
    actionable,  \* actionable_diagnostics with diagnostic_versions
    published,   \* published_versions
    generation,  \* diagnostic_generation
    query,       \* next_safe_action: what it has asked and what it has found
    chosen,      \* the action that is applied, with mutation_count before it
    applied,     \* keys of the actions that were applied
    mutations,   \* mutation_count
    scope,       \* command_edit_scope
    applying     \* applying_workspace_edit

transport == <<writer, deferred>>
requests == <<nextId, pending>>
diagnostics == <<version, residual, actionable, published, generation>>
selection == <<query, chosen, applied>>
edits == <<mutations, scope, applying>>
control == <<phase, stack, failure>>
vars == <<servervars, transport, requests, diagnostics, selection, edits, control>>

Init ==
    /\ ServerInit
    /\ phase = "start"
    /\ stack = <<>>
    /\ writer = <<>>
    /\ failure = "none"
    /\ nextId = 1
    /\ pending = 0
    /\ deferred = <<>>
    /\ version = [d \in Docs |-> Closed]
    /\ residual = [d \in Docs |-> Nothing]
    /\ actionable = [d \in Docs |-> Nothing]
    /\ published = [d \in Docs |-> None]
    /\ generation = 0
    /\ query = [gen |-> 0, todo |-> <<>>, unresolved |-> {}, ready |-> {}]
    /\ chosen = [action |-> Nothing, before |-> 0]
    /\ applied = {}
    /\ mutations = 0
    /\ scope = "inactive"
    /\ applying = FALSE

-----------------------------------------------------------------------------
(***************************************************************************)
(* Frames.                                                                 *)
(***************************************************************************)

Sending(m) == [at |-> "send", msg |-> m, queued |-> FALSE]
Waiting == [at |-> "wait"]
Draining == [at |-> "drain"]
Syncing(docs, base) == [at |-> "sync", docs |-> docs, base |-> base]

Reply(ok) == Sending([is |-> "reply", applied |-> ok])

Idle(p) == phase = p /\ stack = <<>>
In(place) == stack # <<>> /\ Last(stack).at = place
Callers == Front(stack)

\* The first error ends what the session does.  It leads to shutdown() and to
\* the rollback, except that an error of initialize() or of shutdown() ends the
\* session and that the writer stops at a message nobody waits for any more,
\* which is the end of a shutdown() that has to write.
Fail(why) ==
    LET running == phase \in {"search", "query", "select", "apply", "command", "applied"}
        abandoned == \E k \in DOMAIN stack : stack[k].at = "send" /\ stack[k].queued
    IN  /\ failure' = IF failure = "none" THEN why ELSE failure
        /\ \/ phase' = "shutdown" /\ running /\ writer = <<>>
           \/ phase' = "ended" /\ (~running \/ abandoned)
        /\ stack' = <<>>
        /\ scope' = "inactive"
        /\ applying' = FALSE
        /\ UNCHANGED mutations

Go(p, frames) ==
    /\ phase' = p
    /\ stack' = frames
    /\ UNCHANGED failure

\* request: each attempt has an id of its own.
Ask(p, method, about, retries, frames) ==
    /\ Go(p, frames \o
          <<[at |-> "request", method |-> method, about |-> about, retries |-> retries],
            Sending([is |-> "request", id |-> nextId, method |-> method, about |-> about])>>)
    /\ pending' = nextId
    /\ nextId' = nextId + 1

-----------------------------------------------------------------------------
(***************************************************************************)
(* Handling what the server sends; the session then goes on with frames.   *)
(***************************************************************************)

\* Any publication without a version is taken for current.
CurrentUnlessStated(m) == version[m.doc] # Closed /\ m.version \in {None, version[m.doc]}

\* textDocument/publishDiagnostics: a version that is yet to come is an error,
\* one that has passed is ignored, and only what is known to be of the version
\* that is open is acted upon.
Late(m) == m.version # None /\ (m.version < version[m.doc] \/ m.version < published[m.doc])
Current(m) ==
    /\ version[m.doc] # Closed
    /\ m.version = version[m.doc] \/ (m.version = None /\ version[m.doc] = 0)

Publish(m, frames) ==
    LET early == version[m.doc] # Closed /\ m.version > version[m.doc]
    IN  \/ /\ early
           /\ Fail("early")
           /\ UNCHANGED diagnostics
        \/ /\ ~early
           /\ Late(m)
           /\ Go(phase, frames)
           /\ UNCHANGED <<diagnostics, edits>>
        \/ /\ ~early
           /\ ~Late(m)
           /\ residual' = [residual EXCEPT ![m.doc] = m]
           /\ actionable' = [actionable EXCEPT ![m.doc] = IF Current(m) THEN m ELSE Nothing]
           /\ published' =
                 [published EXCEPT ![m.doc] = IF m.version = None THEN @ ELSE m.version]
           /\ generation' = generation + 1
           /\ Go(phase, frames)
           /\ UNCHANGED <<version, edits>>

\* apply_workspace_edit: every file is replaced, or the session fails; then the
\* documents are synchronized.
Apply(p, s, docs, base, frames) ==
    \/ /\ ~applying
       /\ applying' = TRUE
       /\ scope' = s
       /\ Go(p, Append(frames, Syncing(docs, base)))
       /\ UNCHANGED mutations
    \/ /\ applying \/ "apply" \in Faults
       /\ Fail(IF applying THEN "nested" ELSE "apply")

\* Edits are refused only after the command's own.
CommandedUnlessSeen == scope # "seen"

\* workspace/applyEdit: the one edit of the command that is executing, where it
\* can be applied.
Commanded == scope = "awaiting"

ServeEdit(m, frames) ==
    \/ /\ Go(phase, Append(frames, Reply(FALSE)))
       /\ scope' = IF Commanded THEN "seen" ELSE scope
       /\ UNCHANGED <<mutations, applying>>
    \/ /\ Commanded
       /\ Apply(phase, "seen", m.docs, m.base, Append(frames, Reply(TRUE)))

\* handle_event, for whatever is not the response the session waits for; server
\* requests are answered one within the other, up to a limit.
Handle(m, frames) ==
    LET nested == {k \in DOMAIN frames : frames[k].at = "send" /\ frames[k].msg.is = "reply"}
        full == Cardinality(nested) >= MaxNested
    IN  \/ m.is = "publish" /\ Publish(m, frames)
        \/ /\ m.is \in {"ask", "edit"}
           /\ full
           /\ Fail("nesting")
           /\ UNCHANGED diagnostics
        \/ /\ m.is = "ask"
           /\ ~full
           /\ Go(phase, Append(frames, Reply(TRUE)))
           /\ UNCHANGED <<diagnostics, edits>>
        \/ /\ m.is = "edit"
           /\ ~full
           /\ ServeEdit(m, frames)
           /\ UNCHANGED diagnostics
        \/ m.is = "response" /\ Fail("mismatch") /\ UNCHANGED diagnostics

-----------------------------------------------------------------------------
(***************************************************************************)
(* Writing, and what is handled meanwhile.                                 *)
(***************************************************************************)

\* send: the message goes into the writer's queue and is acknowledged when it has
\* been written, after all before it.
HasRoom == Len(writer) < MaxWrites

Send ==
    /\ In("send")
    /\ \/ /\ ~Last(stack).queued
          /\ HasRoom
          /\ writer' = Append(writer, Last(stack).msg)
          /\ Go(phase, Append(Callers, [Last(stack) EXCEPT !.queued = TRUE]))
       \/ /\ Last(stack).queued
          /\ writer = <<>>
          /\ Go(phase, Callers)
          /\ UNCHANGED writer
    /\ UNCHANGED <<servervars, deferred, requests, diagnostics, selection, edits>>

\* Answers are not put aside.
PutAsideEvents(m) == m.is \in {"publish", "edit"}

\* pump_during_write: what may change the session's state is put aside.
PutAside(m) ==
    \/ m.is = "response" /\ pending # 0
    \/ m.is \in {"publish", "edit"}

\* Nothing is read while the writer is at work, only while its queue is full.
PumpingForRoom ==
    /\ In("send")
    /\ ~Last(stack).queued
    /\ ~HasRoom
    /\ toClient # <<>>

Pumping ==
    /\ In("send")
    /\ Last(stack).queued \/ ~HasRoom
    /\ toClient # <<>>

Read == toClient' = Tail(toClient) /\ UNCHANGED <<toServer, known, owed, budget, server>>

Pump ==
    /\ Pumping
    /\ Read
    /\ LET m == Head(toClient)
       IN  \/ /\ ~PutAside(m)
              /\ Handle(m, stack)
              /\ UNCHANGED deferred
           \/ /\ PutAside(m)
              /\ Len(deferred) < MaxDeferred
              /\ deferred' = Append(deferred, m)
              /\ UNCHANGED <<diagnostics, edits, control>>
           \/ /\ PutAside(m)
              /\ Len(deferred) >= MaxDeferred
              /\ Fail("deferred")
              /\ UNCHANGED <<deferred, diagnostics>>
    /\ UNCHANGED <<writer, requests, selection>>

\* write_messages, the writer thread.
WriterWrites ==
    /\ writer # <<>>
    /\ server # "down"
    /\ Len(toServer) < PipeRoom
    /\ toServer' = Append(toServer, Head(writer))
    /\ writer' = Tail(writer)
    /\ UNCHANGED <<toClient, known, owed, budget, server, deferred, requests, diagnostics,
                   selection, edits, control>>

-----------------------------------------------------------------------------
(***************************************************************************)
(* Waiting.  What was put aside comes first.                               *)
(***************************************************************************)

Incoming == deferred \o toClient

Take ==
    IF deferred # <<>>
      THEN deferred' = Tail(deferred) /\ UNCHANGED servervars
      ELSE Read /\ UNCHANGED deferred

\* wait_for_diagnostics: handle events until none comes for a while.
WaitForDiagnostics ==
    /\ In("wait")
    /\ \/ /\ Incoming # <<>>
          /\ Take
          /\ Handle(Head(Incoming), stack)
       \/ /\ deferred = <<>>
          /\ server = "down" => toClient # <<>>
          /\ Go(phase, Callers)
          /\ UNCHANGED <<servervars, deferred, diagnostics, edits>>
    /\ UNCHANGED <<writer, requests, selection>>

\* drain_server_events: handle what is there, but leave the answer that
\* request() waits for, and what came after it, to request().
DrainServerEvents ==
    LET awaited == Incoming # <<>> /\ Head(Incoming).is = "response" /\ pending # 0
    IN  /\ In("drain")
        /\ \/ /\ Incoming # <<>>
              /\ ~awaited
              /\ Take
              /\ Handle(Head(Incoming), stack)
           \/ /\ deferred = <<>> \/ awaited
              /\ Go(phase, Callers)
              /\ UNCHANGED <<servervars, deferred, diagnostics, edits>>
           \/ /\ deferred = <<>>
              /\ awaited
              /\ Read
              /\ deferred' = <<Head(toClient)>>
              /\ Go(phase, Callers)
              /\ UNCHANGED <<diagnostics, edits>>
        /\ UNCHANGED <<writer, requests, selection>>

\* apply_workspace_edit_inner: the next document takes its new text and loses
\* its diagnostics, and the server is told; events are handled before the next.
Synchronize ==
    /\ In("sync")
    /\ \/ /\ Last(stack).docs # {}
          /\ LET d == Min(Last(stack).docs)
             IN  /\ version' = [version EXCEPT ![d] = version[d] + 1]
                 /\ residual' = [residual EXCEPT ![d] = Nothing]
                 /\ actionable' = [actionable EXCEPT ![d] = Nothing]
                 /\ generation' = generation + 1
                 /\ Go(phase, Callers \o
                       <<[Last(stack) EXCEPT !.docs = Last(stack).docs \ {d}], Draining,
                         Sending([is |-> "text", doc |-> d, version |-> version'[d]])>>)
          /\ UNCHANGED <<published, edits>>
       \/ /\ Last(stack).docs = {}
          /\ mutations' = mutations + 1
          /\ applying' = FALSE
          /\ Go(phase, Callers)
          /\ UNCHANGED <<diagnostics, scope>>
    /\ UNCHANGED <<servervars, transport, requests, selection>>

\* The response to this attempt.
Answered(outcome) ==
    /\ In("request")
    /\ Incoming # <<>>
    /\ Head(Incoming).is = "response"
    /\ Head(Incoming).id = pending
    /\ Head(Incoming).outcome = outcome

\* request: handle events until the response comes; another one is an error.
RequestHandles ==
    /\ In("request")
    /\ Incoming # <<>>
    /\ ~\E outcome \in {"result", "modified"} : Answered(outcome)
    /\ Take
    /\ Handle(Head(Incoming), stack)
    /\ UNCHANGED <<writer, requests, selection>>

\* ContentModified: ask again, a few times.
Retry ==
    /\ Answered("modified")
    /\ Take
    /\ LET f == Last(stack)
       IN  \/ /\ f.retries < MaxRetries
              /\ Ask(phase, f.method, f.about, f.retries + 1, Callers)
              /\ UNCHANGED edits
           \/ /\ f.retries >= MaxRetries
              /\ pending' = 0
              /\ Fail("modified")
              /\ UNCHANGED nextId
    /\ UNCHANGED <<writer, diagnostics, selection>>

\* The result for the method; the caller continues in phase p with frames.
Result(method, p, frames) ==
    /\ Answered("result")
    /\ Last(stack).method = method
    /\ Take
    /\ pending' = 0
    /\ Go(p, frames)
    /\ UNCHANGED <<writer, nextId, diagnostics, mutations, applying>>

-----------------------------------------------------------------------------
(***************************************************************************)
(* The session's own course.                                               *)
(***************************************************************************)

SettingUp == UNCHANGED <<servervars, transport, selection, edits>>

\* negotiate.
Negotiate ==
    \/ /\ Idle("start")
       /\ Ask("negotiate", "initialize", Nothing, 0, <<>>)
       /\ SettingUp
       /\ UNCHANGED diagnostics
    \/ /\ Result("initialize", "open", <<Sending([is |-> "note"])>>)
       /\ UNCHANGED <<selection, scope>>

\* initialize: open the documents in order, handling events after each, and wait
\* for the first diagnostics.
OpenDocuments ==
    /\ \/ /\ Idle("open")
          /\ \E d \in Docs : version[d] = Closed
          /\ LET d == Min({e \in Docs : version[e] = Closed})
             IN  /\ version' = [version EXCEPT ![d] = 0]
                 /\ Go("open", <<Draining,
                       Sending([is |-> "text", doc |-> d, version |-> 0])>>)
       \/ /\ Idle("open")
          /\ \A d \in Docs : version[d] # Closed
          /\ Go("settle", <<Waiting>>)
          /\ UNCHANGED version
       \/ /\ Idle("settle")
          /\ Go("search", <<>>)
          /\ UNCHANGED version
    /\ SettingUp
    /\ UNCHANGED <<requests, residual, actionable, published, generation>>

\* next_safe_action: the documents whose diagnostics are of their own version.
Search ==
    LET reported == {d \in Docs : actionable[d] # Nothing /\ actionable[d].problem}
    IN  /\ Idle("search")
        /\ query' = [gen |-> generation, todo |-> SetToSortSeq(reported, <),
                     unresolved |-> {}, ready |-> {}]
        /\ Go("query", <<>>)
        /\ UNCHANGED <<servervars, transport, requests, diagnostics, chosen, applied, edits>>

QueryActions ==
    /\ Idle("query")
    /\ query.todo # <<>>
    /\ Ask("query", "codeAction", Nothing, 0, <<>>)
    /\ query' = [query EXCEPT !.todo = Tail(query.todo)]
    /\ UNCHANGED <<servervars, transport, diagnostics, chosen, applied, edits>>

\* It does not.
NeverOutdated == FALSE

\* code_actions starts over when a publication was accepted in the meantime.
Outdated == generation # query.gen

Offered ==
    LET offered == Head(Incoming).actions
        based == {[key |-> a.key, preferred |-> a.preferred, kind |-> a.kind,
                   docs |-> a.docs, base |-> Head(Incoming).base] : a \in offered}
    IN  \E p \in {"search", "select"} :
          /\ p = IF Outdated THEN "search" ELSE "select"
          /\ \/ /\ Result("codeAction", p, <<>>)
                /\ query' = [query EXCEPT
                               !.unresolved = {a \in based : a.kind = "unresolved"},
                               !.ready = {a \in based : a.kind # "unresolved"}]
             \/ /\ Result("resolve", p, <<>>)
                /\ query' = [query EXCEPT !.ready = query.ready \cup based]
          /\ UNCHANGED <<chosen, applied, scope>>

Resolve ==
    /\ Idle("select")
    /\ \E a \in query.unresolved :
          /\ Ask("select", "resolve", a, 0, <<>>)
          /\ query' = [query EXCEPT !.unresolved = query.unresolved \ {a}]
    /\ UNCHANGED <<servervars, transport, diagnostics, chosen, applied, edits>>

\* The one preferred action, or the one action there is, that was not applied.
Candidates == {a \in query.ready : a.key \notin applied}
Unambiguous ==
    LET preferred == {a \in Candidates : a.preferred}
    IN  CASE Cardinality(preferred) = 1 -> preferred
          [] preferred = {} /\ Cardinality(Candidates) = 1 -> Candidates
          [] OTHER -> {}

Select ==
    /\ Idle("select")
    /\ query.unresolved = {}
    /\ \/ /\ Candidates = {}
          /\ query.ready # {}
          /\ Fail("repeated")
          /\ UNCHANGED chosen
       \/ /\ Unambiguous # {}
          /\ Cardinality(applied) >= MaxIterations
          /\ Fail("iterations")
          /\ UNCHANGED chosen
       \/ /\ Cardinality(applied) < MaxIterations
          /\ \E a \in Unambiguous : chosen' = [action |-> a, before |-> mutations]
          /\ Go("apply", <<>>)
          /\ UNCHANGED edits
       \/ /\ Unambiguous = {}
          /\ ~(Candidates = {} /\ query.ready # {})
          /\ Go("query", <<>>)
          /\ UNCHANGED <<chosen, edits>>
    /\ UNCHANGED <<servervars, transport, requests, diagnostics, query, applied>>

\* apply_action.
ApplyEdit ==
    /\ Idle("apply")
    /\ chosen.action.kind = "edit"
    /\ Apply("applied", scope, chosen.action.docs, chosen.action.base, <<>>)
    /\ UNCHANGED <<servervars, transport, requests, diagnostics, selection>>

ExecuteCommand ==
    /\ \/ /\ Idle("apply")
          /\ chosen.action.kind = "command"
          /\ scope' = "awaiting"
          /\ Ask("command", "command", Nothing, 0, <<>>)
          /\ UNCHANGED <<servervars, transport, diagnostics, mutations, applying>>
       \/ /\ Result("command", "applied", <<>>)
          /\ scope' = "inactive"
    /\ UNCHANGED selection

\* run: an action that changed nothing is an error; the next one is looked for
\* when the server has become quiet again.
Applied ==
    /\ Idle("applied")
    /\ \/ /\ mutations = chosen.before
          /\ Fail("unchanged")
          /\ UNCHANGED applied
       \/ /\ mutations # chosen.before
          /\ applied' = applied \cup {chosen.action.key}
          /\ Go("search", <<Waiting>>)
          /\ UNCHANGED edits
    /\ UNCHANGED <<servervars, transport, requests, diagnostics, query, chosen>>

\* No action is left.
Converged ==
    /\ Idle("query")
    /\ query.todo = <<>>
    /\ Go(IF Outdated THEN "search" ELSE "shutdown", <<>>)
    /\ SettingUp
    /\ UNCHANGED <<requests, diagnostics>>

\* shutdown, also after a failure.
Shutdown ==
    \/ /\ Idle("shutdown")
       /\ Ask("shutdown", "shutdown", Nothing, 0, <<>>)
       /\ SettingUp
       /\ UNCHANGED diagnostics
    \/ /\ Result("shutdown", "exit", <<>>)
       /\ UNCHANGED <<selection, scope>>

\* notify_exit waits for the writer and reads nothing.
NotifyExit ==
    /\ \/ /\ Idle("exit")
          /\ HasRoom
          /\ writer' = Append(writer, [is |-> "exit"])
          /\ Go("exiting", <<>>)
       \/ /\ Idle("exiting")
          /\ writer = <<>>
          /\ Go("reap", <<>>)
          /\ UNCHANGED writer
    /\ UNCHANGED <<servervars, deferred, requests, diagnostics, selection, edits>>

Reap ==
    /\ Idle("reap")
    /\ server = "down"
    /\ Go("ended", <<>>)
    /\ SettingUp
    /\ UNCHANGED <<requests, diagnostics>>

-----------------------------------------------------------------------------
(***************************************************************************)
(* What goes wrong.                                                        *)
(***************************************************************************)

\* All deadlines are the session's: after it shutdown() fails at once as well.
\* The server is killed, at the latest when the session is dropped.
Deadline ==
    /\ "deadline" \in Faults
    /\ phase # "ended"
    /\ failure' = IF failure = "none" THEN "deadline" ELSE failure
    /\ phase' = "ended"
    /\ stack' = <<>>
    /\ scope' = "inactive"
    /\ applying' = FALSE
    /\ server' = "down"
    /\ UNCHANGED <<toServer, toClient, known, owed, budget, transport, requests,
                   diagnostics, selection, mutations>>

\* The server dies; what it has sent can still be read.
Crash ==
    /\ "crash" \in Faults
    /\ server = "up"
    /\ server' = "down"
    /\ UNCHANGED <<toServer, toClient, known, owed, budget, transport, requests,
                   diagnostics, selection, edits, control>>

\* A write fails, or nothing more can be read.
Disconnected ==
    /\ server = "down"
    /\ \/ stack # <<>> /\ In("send")
       \/ stack # <<>> /\ ~In("sync") /\ Incoming = <<>>
       \/ Idle("exiting") /\ writer # <<>>
    /\ Fail("disconnected")
    /\ UNCHANGED <<servervars, transport, requests, diagnostics, selection>>

-----------------------------------------------------------------------------
SessionStep ==
    \/ Send \/ Pump
    \/ WaitForDiagnostics \/ DrainServerEvents \/ Synchronize
    \/ RequestHandles \/ Retry
    \/ Negotiate \/ OpenDocuments
    \/ Search \/ QueryActions \/ Offered \/ Resolve \/ Select
    \/ ApplyEdit \/ ExecuteCommand \/ Applied \/ Converged
    \/ Shutdown \/ NotifyExit \/ Reap
    \/ Disconnected

ServerActs ==
    /\ ServerStep
    /\ phase # "ended"
    /\ UNCHANGED <<transport, requests, diagnostics, selection, edits, control>>

Next ==
    \/ SessionStep
    \/ WriterWrites
    \/ ServerActs
    \/ Deadline
    \/ Crash

Spec == Init /\ [][Next]_vars

\* Both threads run, and the server reads and answers whenever nothing keeps it
\* from writing.  Deadlines need not pass.
FairSpec ==
    /\ Spec
    /\ WF_vars(SessionStep)
    /\ WF_vars(WriterWrites)
    /\ WF_vars(ServerActs /\ toServer' # toServer /\ Len(toClient) < ReaderRoom)
    /\ WF_vars(ServerActs /\ owed' # owed /\ toServer' = toServer)

-----------------------------------------------------------------------------
(***************************************************************************)
(* Properties.                                                             *)
(***************************************************************************)

\* An edit is applied to the very text the server computed it from, although
\* the server may ask for edits at any time (apply_workspace_edit).
EditsFitTheirText ==
    [][~applying /\ applying' =>
          LET edit == Last(stack')
          IN  \A d \in edit.docs : edit.base[d] = version[d]]_vars

\* An edit that a code action carries is applied only while the diagnostics it
\* was asked for are the last that were published (code_actions, next_safe_action).
ActionIsCurrent ==
    [][~applying /\ applying' /\ phase = "apply" => query.gen = generation]_vars

\* What is acted upon, and what is reported at the end, was found in the text as
\* it is now: code actions are asked only for diagnostics of that text, also where
\* the server publishes without a version, and a residual diagnostic with a version
\* has that of the text (handle_notification, synchronize_document).
DiagnosticsFitTheText ==
    \A d \in Docs :
        /\ actionable[d] # Nothing =>
              actionable[d].base = (IF version[d] = Closed THEN 0 ELSE version[d])
        /\ residual[d] # Nothing /\ version[d] # Closed =>
              residual[d].version \in {None, version[d]}

\* Every action changes the workspace exactly once: a command that asks for two
\* edits gets one (command_edit_scope).
OneEditPerAction ==
    /\ mutations <= Cardinality(applied) + 1
    /\ phase = "search" => mutations = Cardinality(applied)

\* A server that answers each request once is never told that an answer was
\* unexpected, whatever is handled before the answer and while writing.
AnswersAreMatched == failure \notin {"mismatch", "early", "nested"}

\* Without any deadline the session ends: the session, the writer, the reader
\* and the server never wait for each other in a circle.
SessionEnds == <>(phase = "ended")
=============================================================================
