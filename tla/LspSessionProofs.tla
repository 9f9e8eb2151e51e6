------------------------- MODULE LspSessionProofs -------------------------
(***************************************************************************)
(* Proofs about LspSession, for any documents, actions, limits and faults, *)
(* and any server that answers each request once and knows the texts that  *)
(* were sent to it.  Each part rests on those before it:                   *)
(*   - SessionTypes: the type of every variable;                           *)
(*   - CourseInv: the shape of the stack in every phase, and how often the *)
(*     workspace was changed (OneEditAlways, ActionsAreCurrent);           *)
(*   - TextInv: no text on its way is newer than the session's, and no     *)
(*     publication lies about its version (DiagnosticsAlwaysFit);          *)
(*   - AnswerInv: one request at most is outstanding, at one place         *)
(*     (AnswersAlwaysMatch);                                               *)
(*   - EditInv: the newest texts arrive last, and when they have, what     *)
(*     comes back was computed from them (EditsAlwaysFit).                 *)
(* Most steps are not of the session's own course but hear, write or fail; *)
(* a few kinds (Rests, Stops, Accepts, ...) say all that those do to the   *)
(* session's state, so that each invariant is proved by kind.              *)
(***************************************************************************)
EXTENDS LspSession, FiniteSetTheorems, SequenceTheorems, WellFoundedInduction, TLAPS

Texts == [Docs -> Nat \cup {Closed}]
Based == [key: Keys, preferred: BOOLEAN, kind: Kinds, docs: SUBSET Docs, base: Texts]

\* What the session writes.
Requests ==
    [is: {"request"}, id: Nat, method: Methods \ {"resolve"}, about: {Nothing}] \cup
    [is: {"request"}, id: Nat, method: {"resolve"}, about: Based]
TextNotes == [is: {"text"}, doc: Docs, version: Nat]
Written ==
    Requests \cup TextNotes \cup [is: {"note", "exit"}] \cup [is: {"reply"}, applied: BOOLEAN]

\* What the server says.
Publications ==
    [is: {"publish"}, doc: Docs, base: Nat, version: Nat \cup {None}, problem: BOOLEAN]
Responses ==
    [is: {"response"}, id: Nat, outcome: {"result", "modified"},
     actions: SUBSET (Action \cup Based), base: Texts]
EditAsks == [is: {"edit"}, docs: SUBSET Docs, base: Texts]
Said == Publications \cup Responses \cup EditAsks \cup [is: {"ask"}]

Frames ==
    [at: {"send"}, msg: Written, queued: BOOLEAN] \cup [at: {"wait", "drain"}] \cup
    [at: {"sync"}, docs: SUBSET Docs, base: Texts] \cup
    [at: {"request"}, method: Methods \ {"resolve"}, about: {Nothing}, retries: Nat] \cup
    [at: {"request"}, method: {"resolve"}, about: Based, retries: Nat]

Phases == {"start", "negotiate", "open", "settle", "search", "query", "select", "apply",
           "command", "applied", "shutdown", "exit", "exiting", "reap", "ended"}

ServerTypes ==
    /\ toServer \in Seq(Written)
    /\ toClient \in Seq(Said)
    /\ known \in Texts
    /\ owed \in Seq(Requests)
    /\ budget \in Nat
    /\ server \in {"up", "quiet", "down"}

TransportTypes == writer \in Seq(Written) /\ deferred \in Seq(Said)

RequestTypes == nextId \in Nat \ {0} /\ pending \in Nat

DiagnosticTypes ==
    /\ version \in Texts
    /\ residual \in [Docs -> Publications \cup {Nothing}]
    /\ actionable \in [Docs -> Publications \cup {Nothing}]
    /\ published \in [Docs -> Nat \cup {None}]
    /\ generation \in Nat

SelectionTypes ==
    /\ query \in [gen: Nat, todo: {query.todo}, unresolved: SUBSET Based, ready: SUBSET Based]
    /\ chosen \in [action: Based \cup {Nothing}, before: Nat]
    /\ applied \subseteq Keys
    /\ IsFiniteSet(applied)

EditTypes ==
    /\ mutations \in Nat
    /\ scope \in {"inactive", "awaiting", "seen"}
    /\ applying \in BOOLEAN

ControlTypes == phase \in Phases /\ stack \in Seq(Frames)

SessionTypes ==
    /\ ServerTypes
    /\ TransportTypes
    /\ RequestTypes
    /\ DiagnosticTypes
    /\ SelectionTypes
    /\ EditTypes
    /\ ControlTypes

-----------------------------------------------------------------------------
(***************************************************************************)
(* Lemmas about sequences, messages and frames.                            *)
(***************************************************************************)

\* A stack that is not empty has a last frame and the ones before it.
LEMMA LastAndFront ==
    ASSUME NEW S, NEW s \in Seq(S), s # <<>>
    PROVE  /\ Len(s) \in Nat /\ Len(s) >= 1
           /\ Last(s) \in S /\ Last(s) = s[Len(s)]
           /\ Front(s) \in Seq(S) /\ Len(Front(s)) = Len(s) - 1
           /\ \A k \in 1 .. Len(s) - 1 : Front(s)[k] = s[k]
<1>1. Len(s) \in Nat /\ Len(s) >= 1
  BY EmptySeq
<1>2. Last(s) \in S /\ Last(s) = s[Len(s)]
  BY <1>1 DEF Last
<1>3. 1 \in Int /\ Len(s) - 1 \in Int /\ \A k \in 1 .. Len(s) - 1 : s[k] \in S
  BY <1>1
<1>4. /\ Front(s) \in Seq(S)
      /\ Len(Front(s)) = IF 1 <= Len(s) - 1 THEN Len(s) - 1 - 1 + 1 ELSE 0
      /\ \A k \in 1 .. Len(s) - 1 - 1 + 1 : Front(s)[k] = s[1 + k - 1]
  BY <1>3, SubSeqProperties DEF Front
<1>5. Len(Front(s)) = Len(s) - 1
  <2>1. Len(Front(s)) \in Nat
    BY <1>4
  <2>2. CASE Len(s) = 1
    BY <1>4, <2>1, <2>2
  <2>3. CASE Len(s) > 1
    BY <1>1, <1>4, <2>1, <2>3
  <2> QED
    BY <1>1, <2>2, <2>3
<1>6. \A k \in 1 .. Len(s) - 1 : Front(s)[k] = s[k]
  BY <1>1, <1>4
<1> QED
  BY <1>1, <1>2, <1>4, <1>5, <1>6

\* The first of two sequences goes first.
LEMMA HeadOfTwo ==
    ASSUME NEW S, NEW s \in Seq(S), NEW t \in Seq(S)
    PROVE  /\ s # <<>> => s \o t # <<>> /\ Head(s \o t) = Head(s)
           /\ s = <<>> => s \o t = t
<1>1. CASE s = <<>>
  BY <1>1, ConcatEmptySeq
<1>2. CASE s # <<>>
  <2>1. Len(s) >= 1 /\ Len(s) \in Nat /\ Len(t) \in Nat
    BY <1>2, EmptySeq
  <2>2. (s \o t)[1] = s[1] /\ Len(s \o t) = Len(s) + Len(t) /\ s \o t \in Seq(S)
    BY <2>1
  <2>3. s \o t # <<>>
    BY <2>1, <2>2
  <2> QED
    BY <1>2, <2>2, <2>3
<1> QED
  BY <1>1, <1>2

\* A set of naturals that is not empty has a least element.
LEMMA MinIsIn ==
    ASSUME NEW S, S \subseteq Nat, S # {}
    PROVE  Min(S) \in S
<1>1. PICK x \in S : \A y \in S : ~(<<y, x>> \in OpToRel(<, Nat))
  BY WFMin, NatLessThanWellFounded
<1>2. \A y \in S : x <= y
  <2> SUFFICES ASSUME NEW y \in S PROVE x <= y
    OBVIOUS
  <2>1. ~(y < x)
    BY <1>1 DEF OpToRel
  <2> QED
    BY <2>1
<1> QED
  BY <1>1, <1>2 DEF Min

\* The frames and messages that the session makes.
LEMMA MadeFrames ==
    /\ \A m \in Written, b \in BOOLEAN : [at |-> "send", msg |-> m, queued |-> b] \in Frames
    /\ Waiting \in Frames /\ Draining \in Frames
    /\ \A d \in SUBSET Docs, b \in Texts : Syncing(d, b) \in Frames
    /\ \A b \in BOOLEAN : Reply(b) \in Frames
    /\ \A m \in Written : Sending(m) \in Frames
BY DEF Frames, Sending, Waiting, Draining, Syncing, Reply, Written

\* The messages that the session makes.
LEMMA MadeMessages ==
    /\ \A d \in Docs, v \in Nat : [is |-> "text", doc |-> d, version |-> v] \in Written
    /\ [is |-> "note"] \in Written /\ [is |-> "exit"] \in Written
    /\ \A i \in Nat, e \in Methods \ {"resolve"} :
          [is |-> "request", id |-> i, method |-> e, about |-> Nothing] \in Requests
    /\ \A i \in Nat, a \in Based :
          [is |-> "request", id |-> i, method |-> "resolve", about |-> a] \in Requests
    /\ Requests \subseteq Written
BY DEF Written, TextNotes, Requests

\* What a frame holds.
LEMMA FrameParts ==
    ASSUME NEW f \in Frames
    PROVE  /\ f.at \in {"send", "wait", "drain", "sync", "request"}
           /\ f.at = "send" => /\ f.msg \in Written /\ f.queued \in BOOLEAN
                               /\ [f EXCEPT !.queued = TRUE] \in Frames
                               /\ [f EXCEPT !.queued = TRUE].at = "send"
                               /\ [f EXCEPT !.queued = TRUE].msg = f.msg
                               /\ [f EXCEPT !.queued = TRUE].queued
           /\ f.at = "sync" => /\ f.docs \in SUBSET Docs /\ f.base \in Texts
                               /\ \A e \in SUBSET Docs : /\ [f EXCEPT !.docs = e] \in Frames
                                                          /\ [f EXCEPT !.docs = e].at = "sync"
                                                          /\ [f EXCEPT !.docs = e].docs = e
           /\ f.at = "request" => /\ f.method \in Methods /\ f.retries \in Nat
                                  /\ f.method # "resolve" => f.about = Nothing
                                  /\ f.method = "resolve" => f.about \in Based
<1>1. CASE f \in [at: {"send"}, msg: Written, queued: BOOLEAN]
  BY <1>1 DEF Frames
<1>2. CASE f \in [at: {"sync"}, docs: SUBSET Docs, base: Texts]
  BY <1>2 DEF Frames
<1>3. CASE f \in [at: {"wait", "drain"}]
  BY <1>3
<1>4. CASE f \in [at: {"request"}, method: Methods \ {"resolve"}, about: {Nothing}, retries: Nat]
  BY <1>4
<1>5. CASE f \in [at: {"request"}, method: {"resolve"}, about: Based, retries: Nat]
  BY <1>5 DEF Methods
<1> QED
  BY <1>1, <1>2, <1>3, <1>4, <1>5 DEF Frames

\* What the server says, by kind.
LEMMA SaidParts ==
    ASSUME NEW m \in Said
    PROVE  /\ m.is \in {"publish", "response", "edit", "ask"}
           /\ m.is = "publish" => m \in Publications
           /\ m.is = "response" => m \in Responses
           /\ m.is = "edit" => m \in EditAsks
BY DEF Said, Publications, Responses, EditAsks

-----------------------------------------------------------------------------
(***************************************************************************)
(* Every step keeps the types.                                             *)
(***************************************************************************)

\* A group of variables that does not change keeps its types.
LEMMA SameTypes ==
    /\ ServerTypes /\ UNCHANGED servervars => ServerTypes'
    /\ TransportTypes /\ UNCHANGED transport => TransportTypes'
    /\ RequestTypes /\ UNCHANGED requests => RequestTypes'
    /\ DiagnosticTypes /\ UNCHANGED diagnostics => DiagnosticTypes'
    /\ SelectionTypes /\ UNCHANGED selection => SelectionTypes'
    /\ EditTypes /\ UNCHANGED edits => EditTypes'
    /\ ControlTypes /\ UNCHANGED control => ControlTypes'
<1>1. ServerTypes /\ UNCHANGED servervars => ServerTypes'
  BY DEF ServerTypes, servervars
<1>2. TransportTypes /\ UNCHANGED transport => TransportTypes'
  BY DEF TransportTypes, transport
<1>3. RequestTypes /\ UNCHANGED requests => RequestTypes'
  BY DEF RequestTypes, requests
<1>4. DiagnosticTypes /\ UNCHANGED diagnostics => DiagnosticTypes'
  BY DEF DiagnosticTypes, diagnostics
<1>5. SelectionTypes /\ UNCHANGED selection => SelectionTypes'
  BY DEF SelectionTypes, selection
<1>6. EditTypes /\ UNCHANGED edits => EditTypes'
  BY DEF EditTypes, edits
<1>7. ControlTypes /\ UNCHANGED control => ControlTypes'
  BY DEF ControlTypes, control
<1> QED
  BY <1>1, <1>2, <1>3, <1>4, <1>5, <1>6, <1>7

\* Where a failure leads.
LEMMA FailLeads ==
    ASSUME SessionTypes, NEW why, Fail(why)
    PROVE  /\ phase' \in {"shutdown", "ended"} /\ stack' = <<>>
           /\ failure' = IF failure = "none" THEN why ELSE failure
           /\ phase' = "shutdown" => writer = <<>>
           /\ phase' = "shutdown" =>
                 phase \in {"search", "query", "select", "apply", "command", "applied"}
           /\ scope' = "inactive" /\ applying' = FALSE /\ mutations' = mutations
           /\ EditTypes' /\ ControlTypes'
<1>1. /\ phase' \in {"shutdown", "ended"} /\ stack' = <<>>
      /\ failure' = IF failure = "none" THEN why ELSE failure
      /\ scope' = "inactive" /\ applying' = FALSE /\ mutations' = mutations
  BY DEF Fail
<1>2. phase' = "shutdown" =>
          /\ writer = <<>>
          /\ phase \in {"search", "query", "select", "apply", "command", "applied"}
  BY DEF Fail
<1>3. EditTypes'
  BY <1>1 DEF SessionTypes, EditTypes
<1>4. ControlTypes'
  BY <1>1 DEF ControlTypes, Phases
<1> QED
  BY <1>1, <1>2, <1>3, <1>4

\* Going on with other frames.
LEMMA GoTypes ==
    ASSUME NEW p \in Phases, NEW frames \in Seq(Frames), Go(p, frames)
    PROVE  ControlTypes'
BY DEF Go, ControlTypes

\* A frame on top of others.
LEMMA OneMoreFrame ==
    ASSUME NEW s \in Seq(Frames), NEW f \in Frames
    PROVE  /\ Append(s, f) \in Seq(Frames) /\ Append(s, f) # <<>>
           /\ Len(Append(s, f)) = Len(s) + 1 /\ Len(s) \in Nat
           /\ Append(s, f)[Len(s) + 1] = f /\ Last(Append(s, f)) = f
           /\ \A k \in 1 .. Len(s) : Append(s, f)[k] = s[k]
BY DEF Last

\* handle_notification keeps the types of what it records.
LEMMA PublishTypes ==
    ASSUME SessionTypes, NEW m \in Publications, Publish(m, stack)
    PROVE  DiagnosticTypes' /\ EditTypes' /\ ControlTypes'
<1> USE DEF SessionTypes
<1>1. CASE Fail("early") /\ UNCHANGED diagnostics
  BY <1>1, FailLeads, SameTypes
<1>2. CASE Go(phase, stack) /\ UNCHANGED <<diagnostics, edits>>
  BY <1>2, SameTypes, GoTypes DEF ControlTypes
<1>3. CASE /\ residual' = [residual EXCEPT ![m.doc] = m]
           /\ actionable' = [actionable EXCEPT ![m.doc] = IF Current(m) THEN m ELSE Nothing]
           /\ published' =
                 [published EXCEPT ![m.doc] = IF m.version = None THEN @ ELSE m.version]
           /\ generation' = generation + 1
           /\ Go(phase, stack)
           /\ UNCHANGED <<version, edits>>
  <2>1. m.doc \in Docs /\ m.version \in Nat \cup {None}
    BY DEF Publications
  <2>2. residual' \in [Docs -> Publications \cup {Nothing}]
    BY <1>3 DEF DiagnosticTypes
  <2>3. actionable' \in [Docs -> Publications \cup {Nothing}]
    <3>1. (IF Current(m) THEN m ELSE Nothing) \in Publications \cup {Nothing}
      OBVIOUS
    <3> QED
      BY <1>3, <3>1 DEF DiagnosticTypes
  <2>4. published' \in [Docs -> Nat \cup {None}]
    BY <1>3, <2>1 DEF DiagnosticTypes
  <2>5. DiagnosticTypes'
    BY <1>3, <2>2, <2>3, <2>4 DEF DiagnosticTypes
  <2> QED
    BY <1>3, <2>5, SameTypes, GoTypes DEF ControlTypes
<1> QED
  BY <1>1, <1>2, <1>3 DEF Publish

\* apply_workspace_edit begins, or fails.
LEMMA ApplyTypes ==
    ASSUME SessionTypes, NEW p \in Phases, NEW s \in {"inactive", "awaiting", "seen"},
           NEW d \in SUBSET Docs, NEW b \in Texts, NEW frames \in Seq(Frames),
           Apply(p, s, d, b, frames)
    PROVE  EditTypes' /\ ControlTypes'
<1>1. CASE /\ applying' = TRUE /\ scope' = s /\ UNCHANGED mutations
           /\ Go(p, Append(frames, Syncing(d, b)))
  <2>1. Append(frames, Syncing(d, b)) \in Seq(Frames)
    BY MadeFrames, OneMoreFrame
  <2> QED
    BY <1>1, <2>1, GoTypes DEF EditTypes, SessionTypes
<1>2. CASE Fail(IF applying THEN "nested" ELSE "apply")
  BY <1>2, FailLeads
<1> QED
  BY <1>1, <1>2 DEF Apply

\* So does every other message that handle_event takes.
LEMMA HandleTypes ==
    ASSUME SessionTypes, NEW m \in Said, Handle(m, stack)
    PROVE  DiagnosticTypes' /\ EditTypes' /\ ControlTypes'
<1>0. phase \in Phases /\ stack \in Seq(Frames)
  BY DEF SessionTypes, ControlTypes
<1>1. CASE m.is = "publish" /\ Publish(m, stack)
  BY <1>1, SaidParts, PublishTypes
<1>2. CASE (Fail("nesting") \/ Fail("mismatch")) /\ UNCHANGED diagnostics
  BY <1>2, FailLeads, SameTypes DEF SessionTypes
<1>3. CASE Go(phase, Append(stack, Reply(TRUE))) /\ UNCHANGED <<diagnostics, edits>>
  <2>1. Append(stack, Reply(TRUE)) \in Seq(Frames)
    BY <1>0, MadeFrames, OneMoreFrame
  <2> QED
    BY <1>0, <1>3, <2>1, GoTypes, SameTypes DEF SessionTypes
<1>4. CASE m.is = "edit" /\ ServeEdit(m, stack) /\ UNCHANGED diagnostics
  <2>1. /\ Append(stack, Reply(TRUE)) \in Seq(Frames)
        /\ Append(stack, Reply(FALSE)) \in Seq(Frames)
    BY <1>0, MadeFrames, OneMoreFrame
  <2>2. m.docs \in SUBSET Docs /\ m.base \in Texts
    BY <1>4, SaidParts DEF EditAsks
  <2>3. CASE /\ Go(phase, Append(stack, Reply(FALSE)))
             /\ scope' = IF Commanded THEN "seen" ELSE scope
             /\ UNCHANGED <<mutations, applying>>
    BY <1>0, <1>4, <2>1, <2>3, GoTypes, SameTypes DEF SessionTypes, EditTypes
  <2>4. CASE Apply(phase, "seen", m.docs, m.base, Append(stack, Reply(TRUE)))
    BY <1>0, <1>4, <2>1, <2>2, <2>4, ApplyTypes, SameTypes DEF SessionTypes
  <2> QED
    BY <1>4, <2>3, <2>4 DEF ServeEdit
<1> QED
  BY <1>1, <1>2, <1>3, <1>4 DEF Handle

\* Taking the next message leaves the rest.
LEMMA TakeTypes ==
    ASSUME SessionTypes, Incoming # <<>>
    PROVE  /\ Head(Incoming) \in Said
           /\ Take => ServerTypes' /\ deferred' \in Seq(Said)
           /\ deferred # <<>> => Head(Incoming) = Head(deferred)
           /\ deferred = <<>> => Head(Incoming) = Head(toClient) /\ toClient # <<>>
<1>1. deferred \in Seq(Said) /\ toClient \in Seq(Said)
  BY DEF SessionTypes, TransportTypes, ServerTypes
<1>2. /\ deferred # <<>> => Head(Incoming) = Head(deferred) /\ Head(deferred) \in Said
      /\ deferred = <<>> => Head(Incoming) = Head(toClient) /\ toClient # <<>>
                            /\ Head(toClient) \in Said
  <2>1. deferred # <<>> => Head(Incoming) = Head(deferred) /\ Head(deferred) \in Said
    BY <1>1, HeadOfTwo, HeadTailProperties DEF Incoming
  <2>2. deferred = <<>> => Incoming = toClient
    BY <1>1, HeadOfTwo DEF Incoming
  <2> QED
    BY <1>1, <2>1, <2>2, HeadTailProperties
<1>3. ASSUME Take PROVE ServerTypes' /\ deferred' \in Seq(Said)
  <2>1. CASE deferred # <<>> /\ deferred' = Tail(deferred) /\ UNCHANGED servervars
    BY <1>1, <2>1, SameTypes, HeadTailProperties DEF SessionTypes
  <2>2. CASE deferred = <<>> /\ Read /\ UNCHANGED deferred
    <3>1. Tail(toClient) \in Seq(Said)
      BY <1>1, <1>2, <2>2, HeadTailProperties
    <3> QED
      BY <1>1, <2>2, <3>1 DEF Read, SessionTypes, ServerTypes
  <2> QED
    BY <1>3, <2>1, <2>2 DEF Take
<1> QED
  BY <1>2, <1>3

\* request() sends its message and waits.
LEMMA AskTypes ==
    ASSUME SessionTypes, NEW p \in Phases, NEW method \in Methods, NEW about,
           IF method = "resolve" THEN about \in Based ELSE about = Nothing,
           NEW retries \in Nat, NEW frames \in Seq(Frames),
           Ask(p, method, about, retries, frames)
    PROVE  ControlTypes' /\ RequestTypes'
<1> DEFINE f == [at |-> "request", method |-> method, about |-> about, retries |-> retries]
           m == [is |-> "request", id |-> nextId, method |-> method, about |-> about]
<1>1. f \in Frames
  BY DEF Frames
<1>2. m \in Written
  BY DEF SessionTypes, RequestTypes, Written, Requests
<1>3. Sending(m) \in Frames
  BY <1>2, MadeFrames
<1> HIDE DEF f, m
<1>4. frames \o <<f, Sending(m)>> \in Seq(Frames)
  <2>1. <<f, Sending(m)>> \in Seq(Frames)
    BY <1>1, <1>3
  <2> QED
    BY <2>1, ConcatProperties
<1>5. Go(p, frames \o <<f, Sending(m)>>)
  BY DEF Ask, f, m
<1>6. RequestTypes'
  BY DEF Ask, SessionTypes, RequestTypes
<1>7. ControlTypes'
  BY <1>4, <1>5, GoTypes
<1> QED
  BY <1>6, <1>7

\* send(): into the queue, or back to the caller.
LEMMA SendTypes == SessionTypes /\ Send => SessionTypes'
<1> SUFFICES ASSUME SessionTypes, Send PROVE SessionTypes'
  OBVIOUS
<1>1. stack \in Seq(Frames) /\ stack # <<>> /\ Last(stack).at = "send" /\ phase \in Phases
  BY DEF SessionTypes, ControlTypes, Send, In
<1>2. Last(stack) \in Frames /\ Callers \in Seq(Frames)
  BY <1>1, LastAndFront DEF Callers
<1>3. CASE /\ writer' = Append(writer, Last(stack).msg)
           /\ Go(phase, Append(Callers, [Last(stack) EXCEPT !.queued = TRUE]))
  <2>1. Last(stack).msg \in Written /\ [Last(stack) EXCEPT !.queued = TRUE] \in Frames
    BY <1>1, <1>2, FrameParts
  <2>2. Append(Callers, [Last(stack) EXCEPT !.queued = TRUE]) \in Seq(Frames)
    BY <1>2, <2>1, OneMoreFrame
  <2>3. ControlTypes'
    BY <1>1, <1>3, <2>2, GoTypes
  <2>4. TransportTypes'
    BY <1>3, <2>1 DEF Send, SessionTypes, TransportTypes
  <2> QED
    BY <2>3, <2>4, SameTypes DEF SessionTypes, Send
<1>4. CASE Go(phase, Callers) /\ UNCHANGED writer
  <2>1. TransportTypes'
    BY <1>4 DEF Send, SessionTypes, TransportTypes
  <2> QED
    BY <1>1, <1>2, <1>4, <2>1, GoTypes, SameTypes DEF SessionTypes, Send
<1> QED
  BY <1>3, <1>4 DEF Send

\* pump_during_write(): a message is handled or put aside.
LEMMA PumpTypes == SessionTypes /\ Pump => SessionTypes'
<1> SUFFICES ASSUME SessionTypes, Pump PROVE SessionTypes'
  OBVIOUS
<1>1. toClient \in Seq(Said) /\ toClient # <<>> /\ deferred \in Seq(Said)
  BY DEF SessionTypes, ServerTypes, TransportTypes, Pump, Pumping
<1>2. Head(toClient) \in Said /\ Tail(toClient) \in Seq(Said)
  BY <1>1, HeadTailProperties
<1>3. ServerTypes'
  BY <1>2 DEF Pump, Read, SessionTypes, ServerTypes
<1>4. CASE Handle(Head(toClient), stack) /\ UNCHANGED deferred
  <2>1. DiagnosticTypes' /\ EditTypes' /\ ControlTypes'
    BY <1>2, <1>4, HandleTypes
  <2>2. TransportTypes'
    BY <1>4 DEF Pump, SessionTypes, TransportTypes
  <2> QED
    BY <1>3, <2>1, <2>2, SameTypes DEF SessionTypes, Pump
<1>5. CASE /\ deferred' = Append(deferred, Head(toClient))
           /\ UNCHANGED <<diagnostics, edits, control>>
  <2>1. TransportTypes'
    BY <1>1, <1>2, <1>5 DEF Pump, SessionTypes, TransportTypes
  <2> QED
    BY <1>3, <1>5, <2>1, SameTypes DEF SessionTypes, Pump
<1>6. CASE Fail("deferred") /\ UNCHANGED <<deferred, diagnostics>>
  <2>1. TransportTypes'
    BY <1>6 DEF Pump, SessionTypes, TransportTypes
  <2> QED
    BY <1>3, <1>6, <2>1, FailLeads, SameTypes DEF SessionTypes, Pump
<1> QED
  BY <1>4, <1>5, <1>6 DEF Pump

\* The three loops that handle what comes.
LEMMA ListenTypes ==
    ASSUME SessionTypes, WaitForDiagnostics \/ DrainServerEvents \/ RequestHandles
    PROVE  SessionTypes'
<1>1. stack \in Seq(Frames) /\ stack # <<>> /\ phase \in Phases
  BY DEF SessionTypes, ControlTypes, WaitForDiagnostics, DrainServerEvents, RequestHandles, In
<1>2. Callers \in Seq(Frames)
  BY <1>1, LastAndFront DEF Callers
<1>3. UNCHANGED <<writer, requests, selection>>
  BY DEF WaitForDiagnostics, DrainServerEvents, RequestHandles
<1>4. CASE Incoming # <<>> /\ Take /\ Handle(Head(Incoming), stack)
  <2>1. ServerTypes' /\ deferred' \in Seq(Said) /\ Head(Incoming) \in Said
    BY <1>4, TakeTypes
  <2>2. DiagnosticTypes' /\ EditTypes' /\ ControlTypes'
    BY <1>4, <2>1, HandleTypes
  <2>3. TransportTypes'
    BY <1>3, <2>1 DEF SessionTypes, TransportTypes
  <2> QED
    BY <1>3, <2>1, <2>2, <2>3, SameTypes DEF SessionTypes
<1>5. CASE Go(phase, Callers) /\ UNCHANGED <<servervars, deferred, diagnostics, edits>>
  <2>1. TransportTypes'
    BY <1>3, <1>5 DEF SessionTypes, TransportTypes
  <2> QED
    BY <1>1, <1>2, <1>3, <1>5, <2>1, SameTypes, GoTypes DEF SessionTypes
<1>6. CASE /\ Incoming # <<>> /\ deferred = <<>>
           /\ Read /\ deferred' = <<Head(toClient)>>
           /\ Go(phase, Callers) /\ UNCHANGED <<diagnostics, edits>>
  <2>1. toClient \in Seq(Said) /\ toClient # <<>>
    BY <1>6, TakeTypes DEF SessionTypes, ServerTypes
  <2>2. Tail(toClient) \in Seq(Said) /\ Head(toClient) \in Said
    BY <2>1, HeadTailProperties
  <2>3. ServerTypes' /\ TransportTypes'
    BY <1>3, <1>6, <2>2 DEF Read, SessionTypes, ServerTypes, TransportTypes
  <2> QED
    BY <1>1, <1>2, <1>3, <1>6, <2>3, SameTypes, GoTypes DEF SessionTypes
<1> QED
  BY <1>4, <1>5, <1>6 DEF WaitForDiagnostics, DrainServerEvents, RequestHandles

\* The next document of an edit takes its text.
LEMMA SynchronizeTypes == SessionTypes /\ Synchronize => SessionTypes'
<1> SUFFICES ASSUME SessionTypes, Synchronize PROVE SessionTypes'
  OBVIOUS
<1>1. stack \in Seq(Frames) /\ stack # <<>> /\ Last(stack).at = "sync" /\ phase \in Phases
  BY DEF SessionTypes, ControlTypes, Synchronize, In
<1>2. Last(stack) \in Frames /\ Callers \in Seq(Frames)
  BY <1>1, LastAndFront DEF Callers
<1>3. CASE Last(stack).docs # {}
  <2> DEFINE d == Min(Last(stack).docs)
             rest == [Last(stack) EXCEPT !.docs = Last(stack).docs \ {d}]
             note == [is |-> "text", doc |-> d, version |-> version'[d]]
  <2>1. Last(stack).docs \subseteq Docs
    BY <1>1, <1>2, FrameParts
  <2>2. d \in Last(stack).docs
    BY <1>3, <2>1, MinIsIn, ServerAssumption
  <2>3. /\ version' = [version EXCEPT ![d] = version[d] + 1]
        /\ residual' = [residual EXCEPT ![d] = Nothing]
        /\ actionable' = [actionable EXCEPT ![d] = Nothing]
        /\ generation' = generation + 1
        /\ Go(phase, Callers \o <<rest, Draining, Sending(note)>>)
        /\ UNCHANGED <<published, edits>>
    BY <1>3 DEF Synchronize
  <2>4. d \in Docs /\ rest \in Frames
    BY <1>1, <1>2, <2>1, <2>2, FrameParts
  <2> HIDE DEF d, rest
  <2>5. DiagnosticTypes'
    BY <2>3, <2>4 DEF SessionTypes, DiagnosticTypes, Texts, Closed
  <2>6. version'[d] \in Nat
    BY <2>3, <2>4 DEF SessionTypes, DiagnosticTypes, Texts, Closed
  <2>7. Sending(note) \in Frames
    BY <2>4, <2>6, MadeFrames, MadeMessages
  <2> HIDE DEF note
  <2>8. <<rest, Draining, Sending(note)>> \in Seq(Frames)
    BY <2>4, <2>7, MadeFrames
  <2>9. ControlTypes'
    BY <1>1, <1>2, <2>3, <2>8, GoTypes, ConcatProperties
  <2> QED
    BY <2>3, <2>5, <2>9, SameTypes DEF SessionTypes, Synchronize
<1>4. CASE /\ mutations' = mutations + 1 /\ applying' = FALSE
           /\ Go(phase, Callers) /\ UNCHANGED <<diagnostics, scope>>
  <2>1. EditTypes'
    <3>1. mutations' \in Nat /\ scope' \in {"inactive", "awaiting", "seen"}
      BY <1>4 DEF SessionTypes, EditTypes
    <3>2. applying' \in BOOLEAN
      BY <1>4, Zenon
    <3> QED
      BY <3>1, <3>2 DEF EditTypes
  <2> QED
    BY <1>1, <1>2, <1>4, <2>1, GoTypes, SameTypes DEF SessionTypes, Synchronize
<1> QED
  BY <1>3, <1>4 DEF Synchronize

\* The response that request() waited for.
LEMMA AnsweredTypes ==
    ASSUME SessionTypes, NEW outcome, Answered(outcome), Take
    PROVE  /\ stack \in Seq(Frames) /\ stack # <<>> /\ Last(stack) \in Frames
           /\ Last(stack).at = "request" /\ Callers \in Seq(Frames)
           /\ Head(Incoming) \in Responses
           /\ ServerTypes' /\ deferred' \in Seq(Said)
<1>1. stack \in Seq(Frames) /\ stack # <<>> /\ Last(stack).at = "request"
  BY DEF SessionTypes, ControlTypes, Answered, In
<1>2. Last(stack) \in Frames /\ Callers \in Seq(Frames)
  BY <1>1, LastAndFront DEF Callers
<1>3. Incoming # <<>> /\ Head(Incoming).is = "response"
  BY DEF Answered
<1>4. ServerTypes' /\ deferred' \in Seq(Said) /\ Head(Incoming) \in Said
  BY <1>3, TakeTypes
<1> QED
  BY <1>1, <1>2, <1>3, <1>4, SaidParts

\* request() asks again, or gives up.
LEMMA RetryTypes == SessionTypes /\ Retry => SessionTypes'
<1> SUFFICES ASSUME SessionTypes, Retry PROVE SessionTypes'
  OBVIOUS
<1> DEFINE f == Last(stack)
<1>1. /\ f \in Frames /\ f.at = "request" /\ Callers \in Seq(Frames)
      /\ ServerTypes' /\ deferred' \in Seq(Said)
  BY AnsweredTypes DEF Retry
<1>2. UNCHANGED <<writer, diagnostics, selection>>
  BY DEF Retry
<1>3. TransportTypes'
  BY <1>1, <1>2 DEF SessionTypes, TransportTypes
<1>4. CASE Ask(phase, f.method, f.about, f.retries + 1, Callers) /\ UNCHANGED edits
  <2> HIDE DEF f
  <2>0. /\ f.method \in Methods /\ f.retries \in Nat
        /\ f.method = "resolve" => f.about \in Based
        /\ f.method # "resolve" => f.about = Nothing
    BY <1>1, FrameParts
  <2>1. /\ f.method \in Methods /\ f.retries + 1 \in Nat
        /\ IF f.method = "resolve" THEN f.about \in Based ELSE f.about = Nothing
    BY <2>0
  <2>2. ControlTypes' /\ RequestTypes'
    BY <1>1, <1>4, <2>1, AskTypes DEF SessionTypes, ControlTypes
  <2> QED
    BY <1>1, <1>2, <1>3, <1>4, <2>2, SameTypes DEF SessionTypes
<1>5. CASE pending' = 0 /\ Fail("modified") /\ UNCHANGED nextId
  <2>1. RequestTypes'
    BY <1>5 DEF SessionTypes, RequestTypes
  <2> QED
    BY <1>1, <1>2, <1>3, <1>5, <2>1, FailLeads, SameTypes DEF SessionTypes
<1> QED
  BY <1>4, <1>5 DEF Retry

\* request() returns the result.
LEMMA ResultTypes ==
    ASSUME SessionTypes, NEW method, NEW p \in Phases, NEW frames \in Seq(Frames),
           Result(method, p, frames)
    PROVE  /\ ServerTypes' /\ TransportTypes' /\ RequestTypes' /\ DiagnosticTypes'
           /\ ControlTypes'
           /\ Head(Incoming) \in Responses
           /\ UNCHANGED <<mutations, applying>>
<1>1. ServerTypes' /\ deferred' \in Seq(Said) /\ Head(Incoming) \in Responses
  BY AnsweredTypes DEF Result
<1>2. UNCHANGED <<writer, nextId, diagnostics, mutations, applying>> /\ pending' = 0
  BY DEF Result
<1>3. TransportTypes' /\ RequestTypes'
  BY <1>1, <1>2 DEF SessionTypes, TransportTypes, RequestTypes
<1>4. ControlTypes'
  BY GoTypes DEF Result
<1> QED
  BY <1>1, <1>2, <1>3, <1>4, SameTypes DEF SessionTypes

\* A session that waits for nothing.
LEMMA EmptyStack == <<>> \in Seq(Frames)
OBVIOUS

\* A request that is the first frame.
LEMMA FirstAskTypes ==
    ASSUME SessionTypes, NEW p \in Phases, NEW method \in Methods, NEW about,
           IF method = "resolve" THEN about \in Based ELSE about = Nothing,
           Ask(p, method, about, 0, <<>>)
    PROVE  ControlTypes' /\ RequestTypes'
BY AskTypes, EmptyStack

\* The steps of the course, one by one: negotiate().
LEMMA NegotiateTypes == SessionTypes /\ Negotiate => SessionTypes'
<1> SUFFICES ASSUME SessionTypes, Negotiate PROVE SessionTypes'
  OBVIOUS
<1>1. CASE Ask("negotiate", "initialize", Nothing, 0, <<>>) /\ SettingUp /\ UNCHANGED diagnostics
  <2>1. ControlTypes' /\ RequestTypes'
    BY <1>1, FirstAskTypes DEF Phases, Methods
  <2> QED
    BY <1>1, <2>1, SameTypes DEF SessionTypes, SettingUp
<1>2. CASE /\ Result("initialize", "open", <<Sending([is |-> "note"])>>)
           /\ UNCHANGED <<selection, scope>>
  <2>1. <<Sending([is |-> "note"])>> \in Seq(Frames)
    BY MadeFrames, MadeMessages
  <2>2. /\ ServerTypes' /\ TransportTypes' /\ RequestTypes' /\ DiagnosticTypes'
        /\ ControlTypes' /\ UNCHANGED <<mutations, applying>>
    BY <1>2, <2>1, ResultTypes DEF Phases
  <2>3. EditTypes'
    BY <1>2, <2>2 DEF SessionTypes, EditTypes
  <2> QED
    BY <1>2, <2>2, <2>3, SameTypes DEF SessionTypes
<1> QED
  BY <1>1, <1>2 DEF Negotiate

\* initialize() opens the documents.
LEMMA OpenTypes == SessionTypes /\ OpenDocuments => SessionTypes'
<1> SUFFICES ASSUME SessionTypes, OpenDocuments PROVE SessionTypes'
  OBVIOUS
<1>1. UNCHANGED <<servervars, transport, selection, edits, requests>>
  BY DEF OpenDocuments, SettingUp
<1>2. CASE \E d \in Docs : version[d] = Closed /\ Idle("open") /\ phase' = "open"
  <2> DEFINE d == Min({e \in Docs : version[e] = Closed})
             note == [is |-> "text", doc |-> d, version |-> 0]
  <2>1. d \in Docs
    BY <1>2, MinIsIn, ServerAssumption
  <2>2. /\ version' = [version EXCEPT ![d] = 0]
        /\ Go("open", <<Draining, Sending(note)>>)
        /\ UNCHANGED <<residual, actionable, published, generation>>
    BY <1>2 DEF OpenDocuments, Go
  <2> HIDE DEF d
  <2>3. DiagnosticTypes'
    BY <2>1, <2>2 DEF SessionTypes, DiagnosticTypes, Texts
  <2>4. <<Draining, Sending(note)>> \in Seq(Frames)
    <3>1. Sending(note) \in Frames
      BY <2>1, MadeFrames, MadeMessages
    <3> HIDE DEF note
    <3> QED
      BY <3>1, MadeFrames
  <2> HIDE DEF note
  <2>5. ControlTypes'
    BY <2>2, <2>4, GoTypes DEF Phases
  <2> QED
    BY <1>1, <2>3, <2>5, SameTypes DEF SessionTypes
<1>3. CASE /\ Go("settle", <<Waiting>>) \/ Go("search", <<>>)
           /\ UNCHANGED <<version, residual, actionable, published, generation>>
  <2>1. <<Waiting>> \in Seq(Frames)
    BY MadeFrames
  <2>2. ControlTypes'
    BY <1>3, <2>1, GoTypes, EmptyStack DEF Phases
  <2> QED
    BY <1>1, <1>3, <2>2, SameTypes DEF SessionTypes, diagnostics
<1> QED
  BY <1>2, <1>3 DEF OpenDocuments, Go

\* next_safe_action() collects the documents to ask about.
LEMMA SearchTypes == SessionTypes /\ Search => SessionTypes'
<1> SUFFICES ASSUME SessionTypes, Search PROVE SessionTypes'
  OBVIOUS
<1>1. PICK todo : query' = [gen |-> generation, todo |-> todo, unresolved |-> {}, ready |-> {}]
  BY DEF Search
<1>2. /\ Go("query", <<>>)
      /\ UNCHANGED <<servervars, transport, requests, diagnostics, chosen, applied, edits>>
  BY DEF Search
<1>3. generation \in Nat
  BY DEF SessionTypes, DiagnosticTypes
<1>4. SelectionTypes'
  BY <1>1, <1>2, <1>3 DEF SessionTypes, SelectionTypes
<1>5. ControlTypes'
  BY <1>2, GoTypes, EmptyStack DEF Phases
<1> QED
  BY <1>2, <1>4, <1>5, SameTypes DEF SessionTypes

\* It asks for actions.
LEMMA QueryTypes == SessionTypes /\ QueryActions => SessionTypes'
<1> SUFFICES ASSUME SessionTypes, QueryActions PROVE SessionTypes'
  OBVIOUS
<1>1. /\ Ask("query", "codeAction", Nothing, 0, <<>>)
      /\ query' = [query EXCEPT !.todo = Tail(query.todo)]
      /\ UNCHANGED <<servervars, transport, diagnostics, chosen, applied, edits>>
  BY DEF QueryActions
<1>2. ControlTypes' /\ RequestTypes'
  BY <1>1, FirstAskTypes DEF Phases, Methods
<1>3. SelectionTypes'
  BY <1>1 DEF SessionTypes, SelectionTypes
<1> QED
  BY <1>1, <1>2, <1>3, SameTypes DEF SessionTypes

\* The actions are offered, with the texts they were computed from.
LEMMA OfferedTypes == SessionTypes /\ Offered => SessionTypes'
<1> SUFFICES ASSUME SessionTypes, Offered PROVE SessionTypes'
  OBVIOUS
<1> DEFINE based == {[key |-> a.key, preferred |-> a.preferred, kind |-> a.kind,
                      docs |-> a.docs, base |-> Head(Incoming).base] :
                         a \in Head(Incoming).actions}
<1>1. PICK p \in {"search", "select"} :
         \/ /\ Result("codeAction", p, <<>>)
            /\ query' = [query EXCEPT
                           !.unresolved = {a \in based : a.kind = "unresolved"},
                           !.ready = {a \in based : a.kind # "unresolved"}]
            /\ UNCHANGED <<chosen, applied, scope>>
         \/ /\ Result("resolve", p, <<>>)
            /\ query' = [query EXCEPT !.ready = query.ready \cup based]
            /\ UNCHANGED <<chosen, applied, scope>>
  BY DEF Offered
<1>2. /\ ServerTypes' /\ TransportTypes' /\ RequestTypes' /\ DiagnosticTypes'
      /\ ControlTypes' /\ UNCHANGED <<mutations, applying>>
      /\ Head(Incoming) \in Responses
  BY <1>1, ResultTypes, EmptyStack DEF Phases
<1>3. based \subseteq Based
  <2>1. Head(Incoming).base \in Texts /\ Head(Incoming).actions \subseteq Action \cup Based
    BY <1>2 DEF Responses
  <2>2. \A a \in Action \cup Based :
            a.key \in Keys /\ a.preferred \in BOOLEAN /\ a.kind \in Kinds /\ a.docs \in SUBSET Docs
    BY DEF Action, Based
  <2> QED
    BY <2>1, <2>2 DEF Based
<1> HIDE DEF based
<1>4. SelectionTypes'
  BY <1>1, <1>3 DEF SessionTypes, SelectionTypes
<1>5. EditTypes'
  BY <1>1, <1>2 DEF SessionTypes, EditTypes
<1> QED
  BY <1>2, <1>4, <1>5 DEF SessionTypes

\* An action without an edit is resolved.
LEMMA ResolveTypes == SessionTypes /\ Resolve => SessionTypes'
<1> SUFFICES ASSUME SessionTypes, Resolve PROVE SessionTypes'
  OBVIOUS
<1>1. PICK a \in query.unresolved :
         /\ Ask("select", "resolve", a, 0, <<>>)
         /\ query' = [query EXCEPT !.unresolved = query.unresolved \ {a}]
  BY DEF Resolve
<1>2. UNCHANGED <<servervars, transport, diagnostics, chosen, applied, edits>>
  BY DEF Resolve
<1>3. a \in Based
  BY DEF SessionTypes, SelectionTypes
<1>4. ControlTypes' /\ RequestTypes'
  BY <1>1, <1>3, FirstAskTypes DEF Phases, Methods
<1>5. SelectionTypes'
  BY <1>1, <1>2 DEF SessionTypes, SelectionTypes
<1> QED
  BY <1>2, <1>4, <1>5, SameTypes DEF SessionTypes

\* The action that is chosen is one of those that were found.
LEMMA UnambiguousIsReady == \A a \in Unambiguous : a \in query.ready /\ a.key \notin applied
BY DEF Unambiguous, Candidates

\* An action is chosen, or the search goes on or fails.
LEMMA SelectTypes ==
    ASSUME SessionTypes, Select
    PROVE  /\ SessionTypes'
           /\ \/ phase' \in {"shutdown", "ended", "query"} /\ UNCHANGED chosen
              \/ phase' = "apply" /\ chosen'.action \in Based
<1>1. UNCHANGED <<servervars, transport, requests, diagnostics, query, applied>>
  BY DEF Select
<1>2. CASE (Fail("repeated") \/ Fail("iterations")) /\ UNCHANGED chosen
  <2>1. EditTypes' /\ ControlTypes' /\ phase' \in {"shutdown", "ended"}
    BY <1>2, FailLeads
  <2> QED
    BY <1>1, <1>2, <2>1, SameTypes DEF SessionTypes, selection
<1>3. CASE /\ \E a \in Unambiguous : chosen' = [action |-> a, before |-> mutations]
           /\ Go("apply", <<>>)
           /\ UNCHANGED edits
  <2>1. PICK a \in Based : chosen' = [action |-> a, before |-> mutations]
    BY <1>3, UnambiguousIsReady DEF SessionTypes, SelectionTypes
  <2>2. SelectionTypes'
    BY <1>1, <2>1 DEF SessionTypes, SelectionTypes, EditTypes
  <2>3. ControlTypes' /\ phase' = "apply"
    BY <1>3, GoTypes, EmptyStack DEF Phases, Go
  <2> QED
    BY <1>1, <1>3, <2>1, <2>2, <2>3, SameTypes DEF SessionTypes
<1>4. CASE Go("query", <<>>) /\ UNCHANGED <<chosen, edits>>
  <2>1. ControlTypes' /\ phase' = "query"
    BY <1>4, GoTypes, EmptyStack DEF Phases, Go
  <2> QED
    BY <1>1, <1>4, <2>1, SameTypes DEF SessionTypes, selection
<1> QED
  BY <1>2, <1>3, <1>4 DEF Select

\* While an action is applied there is one.
ChosenIsAction == phase \in {"apply", "command", "applied"} => chosen.action \in Based

\* apply_action() with an edit.
LEMMA ApplyEditTypes == SessionTypes /\ ChosenIsAction /\ ApplyEdit => SessionTypes'
<1> SUFFICES ASSUME SessionTypes, ChosenIsAction, ApplyEdit PROVE SessionTypes'
  OBVIOUS
<1>1. /\ Apply("applied", scope, chosen.action.docs, chosen.action.base, <<>>)
      /\ UNCHANGED <<servervars, transport, requests, diagnostics, selection>>
      /\ phase = "apply"
  BY DEF ApplyEdit, Idle
<1>2. chosen.action.docs \in SUBSET Docs /\ chosen.action.base \in Texts
  BY <1>1 DEF ChosenIsAction, Based
<1>3. scope \in {"inactive", "awaiting", "seen"}
  BY DEF SessionTypes, EditTypes
<1>4. EditTypes' /\ ControlTypes'
  BY <1>1, <1>2, <1>3, ApplyTypes, EmptyStack DEF Phases
<1> QED
  BY <1>1, <1>4, SameTypes DEF SessionTypes

\* apply_action() with a command.
LEMMA CommandTypes == SessionTypes /\ ExecuteCommand => SessionTypes'
<1> SUFFICES ASSUME SessionTypes, ExecuteCommand PROVE SessionTypes'
  OBVIOUS
<1>1. CASE /\ scope' = "awaiting"
           /\ Ask("command", "command", Nothing, 0, <<>>)
           /\ UNCHANGED <<servervars, transport, diagnostics, mutations, applying>>
  <2>1. ControlTypes' /\ RequestTypes'
    BY <1>1, FirstAskTypes DEF Phases, Methods
  <2>2. EditTypes'
    BY <1>1 DEF SessionTypes, EditTypes
  <2> QED
    BY <1>1, <2>1, <2>2, SameTypes DEF SessionTypes, ExecuteCommand
<1>2. CASE Result("command", "applied", <<>>) /\ scope' = "inactive"
  <2>1. /\ ServerTypes' /\ TransportTypes' /\ RequestTypes' /\ DiagnosticTypes'
        /\ ControlTypes' /\ UNCHANGED <<mutations, applying>>
    BY <1>2, ResultTypes, EmptyStack DEF Phases
  <2>2. EditTypes'
    BY <1>2, <2>1 DEF SessionTypes, EditTypes
  <2> QED
    BY <2>1, <2>2, SameTypes DEF SessionTypes, ExecuteCommand
<1> QED
  BY <1>1, <1>2 DEF ExecuteCommand

\* run() takes the action for applied.
LEMMA AppliedTypes == SessionTypes /\ ChosenIsAction /\ Applied => SessionTypes'
<1> SUFFICES ASSUME SessionTypes, ChosenIsAction, Applied PROVE SessionTypes'
  OBVIOUS
<1>1. /\ UNCHANGED <<servervars, transport, requests, diagnostics, query, chosen>>
      /\ phase = "applied"
  BY DEF Applied, Idle
<1>2. CASE Fail("unchanged") /\ UNCHANGED applied
  <2>1. EditTypes' /\ ControlTypes'
    BY <1>2, FailLeads
  <2> QED
    BY <1>1, <1>2, <2>1, SameTypes DEF SessionTypes, selection
<1>3. CASE /\ applied' = applied \cup {chosen.action.key}
           /\ Go("search", <<Waiting>>)
           /\ UNCHANGED edits
  <2>1. chosen.action.key \in Keys
    BY <1>1 DEF ChosenIsAction, Based
  <2>2. applied' \subseteq Keys /\ IsFiniteSet(applied')
    BY <1>3, <2>1, FS_AddElement DEF SessionTypes, SelectionTypes
  <2>3. SelectionTypes'
    BY <1>1, <2>2 DEF SessionTypes, SelectionTypes
  <2>4. <<Waiting>> \in Seq(Frames)
    BY MadeFrames
  <2>5. ControlTypes'
    BY <1>3, <2>4, GoTypes DEF Phases
  <2> QED
    BY <1>1, <1>3, <2>3, <2>5, SameTypes DEF SessionTypes
<1> QED
  BY <1>2, <1>3 DEF Applied

\* The ways to the end.
LEMMA EndingTypes ==
    ASSUME SessionTypes, Converged \/ Shutdown \/ NotifyExit \/ Reap \/ Disconnected
    PROVE  SessionTypes'
<1>1. CASE Converged \/ Reap
  <2>1. Go("search", <<>>) \/ Go("shutdown", <<>>) \/ Go("ended", <<>>)
    BY <1>1 DEF Converged, Reap
  <2>2. ControlTypes'
    BY <2>1, GoTypes, EmptyStack DEF Phases
  <2> QED
    BY <1>1, <2>2, SameTypes DEF SessionTypes, Converged, Reap, SettingUp
<1>2. CASE Shutdown
  <2>1. CASE Ask("shutdown", "shutdown", Nothing, 0, <<>>) /\ SettingUp /\ UNCHANGED diagnostics
    <3>1. ControlTypes' /\ RequestTypes'
      BY <2>1, FirstAskTypes DEF Phases, Methods
    <3> QED
      BY <2>1, <3>1, SameTypes DEF SessionTypes, SettingUp
  <2>2. CASE Result("shutdown", "exit", <<>>) /\ UNCHANGED <<selection, scope>>
    <3>1. /\ ServerTypes' /\ TransportTypes' /\ RequestTypes' /\ DiagnosticTypes'
          /\ ControlTypes' /\ UNCHANGED <<mutations, applying>>
      BY <2>2, ResultTypes, EmptyStack DEF Phases
    <3>2. EditTypes'
      BY <2>2, <3>1 DEF SessionTypes, EditTypes
    <3> QED
      BY <2>2, <3>1, <3>2, SameTypes DEF SessionTypes
  <2> QED
    BY <1>2, <2>1, <2>2 DEF Shutdown
<1>3. CASE NotifyExit
  <2>1. /\ UNCHANGED <<servervars, deferred, requests, diagnostics, selection, edits>>
        /\ Go("exiting", <<>>) \/ Go("reap", <<>>)
        /\ writer' = writer \/ writer' = Append(writer, [is |-> "exit"])
    BY <1>3 DEF NotifyExit
  <2>2. TransportTypes'
    BY <2>1, MadeMessages DEF SessionTypes, TransportTypes
  <2>3. ControlTypes'
    BY <2>1, GoTypes, EmptyStack DEF Phases
  <2> QED
    BY <2>1, <2>2, <2>3, SameTypes DEF SessionTypes
<1>4. CASE Disconnected
  BY <1>4, FailLeads, SameTypes DEF Disconnected, SessionTypes
<1> QED
  BY <1>1, <1>2, <1>3, <1>4

\* write_messages().
LEMMA WriterTypes == SessionTypes /\ WriterWrites => SessionTypes'
<1> SUFFICES ASSUME SessionTypes, WriterWrites PROVE SessionTypes'
  OBVIOUS
<1>1. Head(writer) \in Written /\ Tail(writer) \in Seq(Written)
  BY HeadTailProperties DEF SessionTypes, TransportTypes, WriterWrites
<1>2. ServerTypes'
  BY <1>1 DEF WriterWrites, SessionTypes, ServerTypes
<1>3. TransportTypes'
  BY <1>1 DEF WriterWrites, SessionTypes, TransportTypes
<1> QED
  BY <1>2, <1>3, SameTypes DEF SessionTypes, WriterWrites

\* A message of the server goes into its pipe.
LEMMA WriteTypes ==
    ASSUME SessionTypes, NEW m \in Said, Write(m)
    PROVE  toClient' \in Seq(Said)
BY DEF Write, SessionTypes, ServerTypes

\* The server keeps the types of the pipes.
LEMMA ServerTypesKept == SessionTypes /\ ServerStep => ServerTypes'
<1> SUFFICES ASSUME SessionTypes, ServerStep PROVE ServerTypes'
  OBVIOUS
<1> USE DEF SessionTypes, ServerTypes
<1>1. CASE ServerReads
  <2> DEFINE m == Head(toServer)
  <2>1. m \in Written /\ Tail(toServer) \in Seq(Written)
    BY <1>1, HeadTailProperties DEF ServerReads
  <2>2. m.is = "text" => m.doc \in Docs /\ m.version \in Nat
    BY <2>1 DEF Written, TextNotes, Requests
  <2>3. m.is = "request" => m \in Requests
    BY <2>1 DEF Written, TextNotes, Requests
  <2>4. /\ toServer' = Tail(toServer)
        /\ known' = IF m.is = "text" THEN [known EXCEPT ![m.doc] = m.version] ELSE known
        /\ owed' = IF m.is = "request" THEN Append(owed, m) ELSE owed
        /\ server' = IF m.is = "exit" THEN "down" ELSE server
        /\ UNCHANGED <<toClient, budget>>
    BY <1>1 DEF ServerReads
  <2> HIDE DEF m
  <2>5. known' \in Texts
    BY <2>2, <2>4 DEF Texts
  <2>6. owed' \in Seq(Requests)
    BY <2>3, <2>4
  <2> QED
    BY <2>1, <2>4, <2>5, <2>6
<1>2. CASE ServerAnswers
  <2> DEFINE r == Head(owed)
  <2>1. r \in Requests /\ Tail(owed) \in Seq(Requests)
    BY <1>2, HeadTailProperties DEF ServerAnswers
  <2>2. \A offered \in Offers(r) : offered \subseteq Action \cup Based
    <3>1. r.method = "resolve" => r.about \in Based
      BY <2>1 DEF Requests
    <3>2. \A a \in Based : [a EXCEPT !.kind = "edit"] \in Based
      BY DEF Based, Kinds
    <3> QED
      BY <3>1, <3>2, ServerAssumption DEF Offers
  <2>3. \A o \in {"result", "modified"}, a \in SUBSET (Action \cup Based) : Response(o, a) \in Said
    BY <2>1 DEF Response, Said, Responses, Requests
  <2> HIDE DEF r
  <2>4. toClient' \in Seq(Said)
    <3>1. CASE \E offered \in Offers(r) : Write(Response("result", offered))
      BY <2>2, <2>3, <3>1, WriteTypes
    <3>2. CASE Write(Response("modified", {}))
      BY <2>3, <3>2, WriteTypes
    <3> QED
      BY <1>2, <3>1, <3>2 DEF ServerAnswers, r
  <2>5. budget' \in Nat /\ server' \in {"up", "quiet", "down"}
    BY <1>2 DEF ServerAnswers
  <2> QED
    BY <1>2, <2>1, <2>4, <2>5 DEF ServerAnswers, r
<1>3. ASSUME NEW m \in Said, Unasked(m) PROVE ServerTypes'
  <2>1. toClient' \in Seq(Said)
    BY <1>3, WriteTypes DEF Unasked
  <2> QED
    BY <1>3, <2>1 DEF Unasked
<1>4. CASE \E d \in Docs : ServerPublishes(d)
  <2>1. PICK d \in Docs : ServerPublishes(d)
    BY <1>4
  <2>2. PICK base \in 0 .. known[d] \cup {0}, problem \in BOOLEAN :
           \E v \in {base, None} : Unasked(Publication(d, base, v, problem))
    BY <2>1 DEF ServerPublishes
  <2>3. base \in Nat
    BY DEF Texts, Closed
  <2>4. \A v \in {base, None} : Publication(d, base, v, problem) \in Said
    BY <2>3 DEF Publication, Said, Publications
  <2> QED
    BY <1>3, <2>2, <2>4
<1>5. CASE ServerAsks
  <2>1. [is |-> "ask"] \in Said
    BY DEF Said
  <2> QED
    BY <1>3, <1>5, <2>1 DEF ServerAsks
<1>6. CASE \E d \in (SUBSET Docs) \ {{}} : ServerEdits(d)
  <2>1. PICK d \in SUBSET Docs : Unasked([is |-> "edit", docs |-> d, base |-> known])
    BY <1>6 DEF ServerEdits
  <2>2. [is |-> "edit", docs |-> d, base |-> known] \in Said
    BY DEF Said, EditAsks
  <2> QED
    BY <1>3, <2>1, <2>2
<1> QED
  BY <1>1, <1>2, <1>4, <1>5, <1>6 DEF ServerStep

\* A deadline passes, or the server dies.
LEMMA FaultTypes ==
    ASSUME SessionTypes, Deadline \/ Crash
    PROVE  SessionTypes'
<1>1. CASE Deadline
  <2>1. ServerTypes'
    BY <1>1 DEF Deadline, SessionTypes, ServerTypes
  <2>2. EditTypes'
    BY <1>1 DEF Deadline, SessionTypes, EditTypes
  <2>3. ControlTypes'
    BY <1>1 DEF Deadline, ControlTypes, Phases
  <2> QED
    BY <1>1, <2>1, <2>2, <2>3, SameTypes DEF Deadline, SessionTypes
<1>2. CASE Crash
  <2>1. ServerTypes'
    BY <1>2 DEF Crash, SessionTypes, ServerTypes
  <2> QED
    BY <1>2, <2>1, SameTypes DEF Crash, SessionTypes
<1> QED
  BY <1>1, <1>2

\* Every variable keeps its type.
LEMMA NextTypes == SessionTypes /\ ChosenIsAction /\ [Next]_vars => SessionTypes'
<1> SUFFICES ASSUME SessionTypes, ChosenIsAction, [Next]_vars PROVE SessionTypes'
  OBVIOUS
<1>1. CASE UNCHANGED vars
  BY <1>1, SameTypes DEF SessionTypes, vars
<1>2. CASE SessionStep
  BY <1>2, SendTypes, PumpTypes, ListenTypes, SynchronizeTypes, RetryTypes, NegotiateTypes,
     OpenTypes, SearchTypes, QueryTypes, OfferedTypes, ResolveTypes, SelectTypes,
     ApplyEditTypes, CommandTypes, AppliedTypes, EndingTypes DEF SessionStep
<1>3. CASE ServerActs
  BY <1>3, ServerTypesKept, SameTypes DEF ServerActs, SessionTypes
<1> QED
  BY <1>1, <1>2, <1>3, WriterTypes, FaultTypes DEF Next

\* The types at first.
LEMMA InitTypes == Init => SessionTypes /\ ChosenIsAction
<1> SUFFICES ASSUME Init PROVE SessionTypes /\ ChosenIsAction
  OBVIOUS
<1>1. ServerTypes
  BY ServerAssumption DEF Init, ServerInit, ServerTypes, Texts
<1>2. TransportTypes /\ RequestTypes /\ ControlTypes
  BY DEF Init, TransportTypes, RequestTypes, ControlTypes, Phases
<1>3. DiagnosticTypes
  BY DEF Init, DiagnosticTypes, Texts
<1>4. SelectionTypes
  BY FS_EmptySet DEF Init, SelectionTypes
<1>5. EditTypes
  BY DEF Init, EditTypes
<1> QED
  BY <1>1, <1>2, <1>3, <1>4, <1>5 DEF SessionTypes, ChosenIsAction, Init

-----------------------------------------------------------------------------
(***************************************************************************)
(* The stack: what waits for what.                                         *)
(***************************************************************************)

\* The phases in which a request is the first frame, and its method.
Method == [negotiate |-> "initialize", query |-> "codeAction", select |-> "resolve",
           command |-> "command", shutdown |-> "shutdown"]
Asking == {"negotiate", "query", "select", "command", "shutdown"}

\* The phases in which nothing waits.
Bare == {"start", "apply", "exit", "exiting", "reap", "ended"}

Sends(f, kind) == f.at = "send" /\ f.msg.is = kind

\* Requests and waits are first frames; a request's message is sent right above it;
\* one edit is synchronized at a time, and its texts are sent above it.
Shape(p, s, a) ==
    /\ \A k \in 2 .. Len(s) : s[k].at # "request" /\ s[k].at # "wait"
    /\ \A k \in 1 .. Len(s) : Sends(s[k], "request") => k = 2 /\ s[1].at = "request"
    /\ \A k \in 1 .. Len(s) : Sends(s[k], "text") =>
          p = "open" \/ \E j \in 1 .. k - 1 : s[j].at = "sync"
    /\ p \in Bare => s = <<>>
    /\ p \in {"negotiate", "command"} => s # <<>>
    /\ s # <<>> => (s[1].at = "request" <=> p \in Asking)
    /\ s # <<>> /\ p \in Asking => s[1].method = Method[p]
    /\ \A j, k \in 1 .. Len(s) : s[j].at = "sync" /\ s[k].at = "sync" => j = k
    /\ a <=> \E k \in 1 .. Len(s) : s[k].at = "sync"
    /\ p = "applied" /\ s # <<>> => s[1].at = "sync"

\* The last frame that neither asks nor synchronizes is done.
LEMMA ShapeWithoutLast ==
    ASSUME NEW p, NEW a \in BOOLEAN, NEW s \in Seq(Frames), s # <<>>, Shape(p, s, a),
           Last(s).at \notin {"request", "sync"}
    PROVE  Shape(p, Front(s), a)
<1> DEFINE t == Front(s)
           n == Len(s)
<1>1. /\ n \in Nat /\ n >= 1 /\ Last(s) = s[n]
      /\ t \in Seq(Frames) /\ Len(t) = n - 1
      /\ \A k \in 1 .. n - 1 : t[k] = s[k]
  BY LastAndFront
<1> HIDE DEF t, n
<1>2. t # <<>> => n > 1 /\ t[1] = s[1]
  BY <1>1, EmptySeq
<1>3. n > 1 => t # <<>>
  BY <1>1
<1>4. /\ \A k \in 2 .. n - 1 : t[k].at # "request" /\ t[k].at # "wait"
      /\ \A k \in 1 .. n - 1 : Sends(t[k], "request") => k = 2 /\ t[1].at = "request"
  BY <1>1 DEF Shape, n
<1>5. \A k \in 1 .. n - 1 : Sends(t[k], "text") =>
          p = "open" \/ \E j \in 1 .. k - 1 : t[j].at = "sync"
  BY <1>1 DEF Shape, n
<1>6. /\ p \in Bare => t = <<>>
      /\ t # <<>> => (t[1].at = "request" <=> p \in Asking)
      /\ t # <<>> /\ p \in Asking => t[1].method = Method[p]
      /\ p = "applied" /\ t # <<>> => t[1].at = "sync"
  BY <1>2 DEF Shape
<1>7. p \in {"negotiate", "command"} => t # <<>>
  BY <1>1, <1>3 DEF Shape, Asking
<1>8. \A j, k \in 1 .. n - 1 : t[j].at = "sync" /\ t[k].at = "sync" => j = k
  BY <1>1 DEF Shape, n
<1>9. a <=> \E k \in 1 .. n - 1 : t[k].at = "sync"
  <2>1. a <=> \E k \in 1 .. n : s[k].at = "sync"
    BY DEF Shape, n
  <2>2. (\E k \in 1 .. n : s[k].at = "sync") <=> \E k \in 1 .. n - 1 : s[k].at = "sync"
    BY <1>1
  <2> QED
    BY <1>1, <2>1, <2>2
<1> QED
  BY <1>1, <1>4, <1>5, <1>6, <1>7, <1>8, <1>9 DEF Shape, t

\* The edit is synchronized.
LEMMA ShapeWithoutSync ==
    ASSUME NEW p, NEW s \in Seq(Frames), s # <<>>, Shape(p, s, TRUE), Last(s).at = "sync"
    PROVE  Shape(p, Front(s), FALSE)
<1> DEFINE t == Front(s)
           n == Len(s)
<1>1. /\ n \in Nat /\ n >= 1 /\ Last(s) = s[n]
      /\ t \in Seq(Frames) /\ Len(t) = n - 1
      /\ \A k \in 1 .. n - 1 : t[k] = s[k]
  BY LastAndFront
<1> HIDE DEF t, n
<1>2. t # <<>> => n > 1 /\ t[1] = s[1]
  BY <1>1, EmptySeq
<1>3. n > 1 => t # <<>>
  BY <1>1
<1>4. \A k \in 1 .. n - 1 : t[k].at # "sync"
  BY <1>1 DEF Shape, n
<1>5. /\ \A k \in 2 .. n - 1 : t[k].at # "request" /\ t[k].at # "wait"
      /\ \A k \in 1 .. n - 1 : Sends(t[k], "request") => k = 2 /\ t[1].at = "request"
  BY <1>1 DEF Shape, n
<1>6. \A k \in 1 .. n - 1 : Sends(t[k], "text") =>
          p = "open" \/ \E j \in 1 .. k - 1 : t[j].at = "sync"
  BY <1>1 DEF Shape, n
<1>7. /\ p \in Bare => t = <<>>
      /\ t # <<>> => (t[1].at = "request" <=> p \in Asking)
      /\ t # <<>> /\ p \in Asking => t[1].method = Method[p]
  BY <1>2 DEF Shape
<1>8. p \in {"negotiate", "command"} => t # <<>>
  BY <1>1, <1>3 DEF Shape, Asking
<1>9. p = "applied" => t = <<>>
  BY <1>1, <1>2, <1>4 DEF Shape, n
<1> QED
  BY <1>1, <1>4, <1>5, <1>6, <1>7, <1>8, <1>9 DEF Shape, t

\* A reply, or an edit with its reply, goes on top.
LEMMA ShapeWithMore ==
    ASSUME NEW p, NEW a \in BOOLEAN, NEW s \in Seq(Frames), s # <<>>, Shape(p, s, a),
           NEW f \in Frames, ~Sends(f, "request"),
           Sends(f, "text") => p = "open" \/ a,
           f.at \notin {"request", "wait"}, f.at = "sync" => ~a
    PROVE  /\ f.at # "sync" => Shape(p, Append(s, f), a)
           /\ f.at = "sync" => Shape(p, Append(s, f), TRUE)
<1> DEFINE t == Append(s, f)
           n == Len(s)
<1>1. /\ n \in Nat /\ n >= 1
      /\ t \in Seq(Frames) /\ Len(t) = n + 1 /\ t[n + 1] = f /\ t # <<>>
      /\ \A k \in 1 .. n : t[k] = s[k]
  BY LastAndFront, OneMoreFrame
<1> HIDE DEF t, n
<1>2. t[1] = s[1]
  BY <1>1
<1>3. /\ \A k \in 2 .. n + 1 : t[k].at # "request" /\ t[k].at # "wait"
      /\ \A k \in 1 .. n + 1 : Sends(t[k], "request") => k = 2 /\ t[1].at = "request"
  BY <1>1 DEF Shape, n
<1>4. \A k \in 1 .. n + 1 : Sends(t[k], "text") =>
          p = "open" \/ \E j \in 1 .. k - 1 : t[j].at = "sync"
  <2>1. a <=> \E k \in 1 .. n : s[k].at = "sync"
    BY DEF Shape, n
  <2>2. \A k \in 1 .. n : Sends(t[k], "text") =>
            p = "open" \/ \E j \in 1 .. k - 1 : t[j].at = "sync"
    BY <1>1 DEF Shape, n
  <2>3. Sends(f, "text") => p = "open" \/ \E j \in 1 .. n : t[j].at = "sync"
    BY <1>1, <2>1
  <2> QED
    BY <1>1, <2>2, <2>3
<1>5. /\ p \notin Bare
      /\ t[1].at = "request" <=> p \in Asking
      /\ p \in Asking => t[1].method = Method[p]
      /\ p = "applied" => t[1].at = "sync"
  BY <1>2 DEF Shape
<1>6. \A j, k \in 1 .. n + 1 : t[j].at = "sync" /\ t[k].at = "sync" => j = k
  <2>1. \A j, k \in 1 .. n : t[j].at = "sync" /\ t[k].at = "sync" => j = k
    BY <1>1 DEF Shape, n
  <2>2. f.at = "sync" => \A k \in 1 .. n : t[k].at # "sync"
    BY <1>1 DEF Shape, n
  <2> QED
    BY <1>1, <2>1, <2>2
<1>7. /\ f.at # "sync" => (a <=> \E k \in 1 .. n + 1 : t[k].at = "sync")
      /\ f.at = "sync" => \E k \in 1 .. n + 1 : t[k].at = "sync"
  <2>1. a <=> \E k \in 1 .. n : t[k].at = "sync"
    BY <1>1 DEF Shape, n
  <2> QED
    BY <1>1, <2>1
<1>8. CASE f.at # "sync"
  BY <1>1, <1>3, <1>4, <1>5, <1>6, <1>7, <1>8 DEF Shape, t
<1>9. CASE f.at = "sync"
  BY <1>1, <1>3, <1>4, <1>5, <1>6, <1>7, <1>9 DEF Shape, t
<1> QED
  BY <1>8, <1>9

\* A frame changes, but not what it does.
LEMMA ShapeOfSame ==
    ASSUME NEW p, NEW a \in BOOLEAN, NEW s \in Seq(Frames), NEW t \in Seq(Frames),
           Len(t) = Len(s), Shape(p, s, a),
           \A k \in 1 .. Len(s) : /\ t[k].at = s[k].at
                                  /\ s[k].at = "send" => t[k].msg = s[k].msg
                                  /\ s[k].at = "request" => t[k].method = s[k].method
    PROVE  Shape(p, t, a)
<1>1. Len(s) \in Nat /\ (t = <<>> <=> s = <<>>) /\ (s # <<>> => Len(s) >= 1)
  BY EmptySeq
<1>2. s # <<>> => /\ t[1].at = s[1].at
                  /\ s[1].at = "request" => t[1].method = s[1].method
  BY <1>1
<1>3. \A k \in 1 .. Len(s) : /\ Sends(t[k], "request") <=> Sends(s[k], "request")
                             /\ Sends(t[k], "text") <=> Sends(s[k], "text")
  BY DEF Sends
<1>4. /\ \A k \in 2 .. Len(t) : t[k].at # "request" /\ t[k].at # "wait"
      /\ \A k \in 1 .. Len(t) : Sends(t[k], "request") => k = 2 /\ t[1].at = "request"
  BY <1>1, <1>2, <1>3 DEF Shape
<1>5. \A k \in 1 .. Len(t) : Sends(t[k], "text") =>
          p = "open" \/ \E j \in 1 .. k - 1 : t[j].at = "sync"
  BY <1>1, <1>3 DEF Shape
<1>6. /\ \A j, k \in 1 .. Len(t) : t[j].at = "sync" /\ t[k].at = "sync" => j = k
      /\ a <=> \E k \in 1 .. Len(t) : t[k].at = "sync"
  BY <1>1 DEF Shape
<1>7. /\ p \in Bare => t = <<>>
      /\ p \in {"negotiate", "command"} => t # <<>>
      /\ t # <<>> => (t[1].at = "request" <=> p \in Asking)
      /\ t # <<>> /\ p \in Asking => t[1].method = Method[p]
      /\ p = "applied" /\ t # <<>> => t[1].at = "sync"
  BY <1>1, <1>2 DEF Shape
<1> QED
  BY <1>4, <1>5, <1>6, <1>7 DEF Shape

-----------------------------------------------------------------------------
(***************************************************************************)
(* What a step does that is none of the session's own course: what it      *)
(* hears, what it writes and how it fails.                                 *)
(***************************************************************************)
Rests == UNCHANGED <<requests, diagnostics, selection, edits, control>>

Stops ==
    /\ phase' \in {"shutdown", "ended"} /\ stack' = <<>>
    /\ scope' = "inactive" /\ applying' = FALSE
    /\ failure' # "none"
    /\ failure' = "nested" => failure = "nested" \/ (applying /\ Commanded)
    /\ UNCHANGED <<mutations, diagnostics, selection>>

Pops ==
    /\ stack # <<>> /\ Last(stack).at \in {"send", "wait", "drain"}
    /\ Last(stack).at = "send" => Last(stack).queued
    /\ Go(phase, Callers)
    /\ UNCHANGED <<requests, diagnostics, selection, edits>>

Queues ==
    /\ In("send")
    /\ Go(phase, Append(Callers, [Last(stack) EXCEPT !.queued = TRUE]))
    /\ UNCHANGED <<requests, diagnostics, selection, edits>>

Accepts ==
    /\ stack # <<>>
    /\ generation' = generation + 1
    /\ UNCHANGED <<version, requests, selection, edits, control>>

Replies ==
    /\ stack # <<>>
    /\ \E ok \in BOOLEAN : Go(phase, Append(stack, Reply(ok)))
    /\ scope' = scope \/ (Commanded /\ scope' = "seen")
    /\ UNCHANGED <<mutations, applying, requests, diagnostics, selection>>

Edits ==
    /\ stack # <<>>
    /\ Commanded /\ ~applying
    /\ applying' = TRUE /\ scope' = "seen"
    /\ \E d \in SUBSET Docs, b \in Texts :
          Go(phase, Append(Append(stack, Reply(TRUE)), Syncing(d, b)))
    /\ UNCHANGED <<mutations, requests, diagnostics, selection>>

AsksAgain ==
    /\ In("request")
    /\ Ask(phase, Last(stack).method, Last(stack).about, Last(stack).retries + 1, Callers)
    /\ UNCHANGED <<diagnostics, selection, edits>>

\* The error of a failing step.
LEMMA FailStops ==
    ASSUME SessionTypes, NEW why, Fail(why), why # "none",
           why = "nested" => applying /\ Commanded,
           UNCHANGED <<diagnostics, selection>>
    PROVE  Stops
<1>1. /\ phase' \in {"shutdown", "ended"} /\ stack' = <<>>
      /\ failure' = IF failure = "none" THEN why ELSE failure
      /\ scope' = "inactive" /\ applying' = FALSE /\ mutations' = mutations
  BY FailLeads
<1> QED
  BY <1>1 DEF Stops

\* What handling a message comes to.
LEMMA HandleKinds ==
    ASSUME SessionTypes, NEW m \in Said, Handle(m, stack), stack # <<>>,
           UNCHANGED <<requests, selection>>
    PROVE  Rests \/ Stops \/ Accepts \/ Replies \/ Edits
<1>1. CASE m.is = "publish" /\ Publish(m, stack)
  <2>1. CASE Fail("early") /\ UNCHANGED diagnostics
    BY <2>1, FailStops
  <2>2. CASE Go(phase, stack) /\ UNCHANGED <<diagnostics, edits>>
    BY <2>2 DEF Rests, Go, control
  <2>3. CASE generation' = generation + 1 /\ Go(phase, stack) /\ UNCHANGED <<version, edits>>
    BY <2>3 DEF Accepts, Go, control
  <2> QED
    BY <1>1, <2>1, <2>2, <2>3 DEF Publish
<1>2. CASE (Fail("nesting") \/ Fail("mismatch")) /\ UNCHANGED diagnostics
  <2>1. ASSUME Fail("nesting") PROVE Stops
    BY <1>2, <2>1, FailStops
  <2>2. ASSUME Fail("mismatch") PROVE Stops
    BY <1>2, <2>2, FailStops
  <2> QED
    BY <1>2, <2>1, <2>2
<1>3. CASE Go(phase, Append(stack, Reply(TRUE))) /\ UNCHANGED <<diagnostics, edits>>
  <2>1. TRUE \in BOOLEAN
    OBVIOUS
  <2> QED
    BY <1>3, <2>1 DEF Replies, edits
<1>4. CASE m.is = "edit" /\ ServeEdit(m, stack) /\ UNCHANGED diagnostics
  <2>1. m.docs \in SUBSET Docs /\ m.base \in Texts
    BY <1>4, SaidParts DEF EditAsks
  <2>2. CASE /\ Go(phase, Append(stack, Reply(FALSE)))
             /\ scope' = IF Commanded THEN "seen" ELSE scope
             /\ UNCHANGED <<mutations, applying>>
    <3>1. FALSE \in BOOLEAN
      OBVIOUS
    <3> QED
      BY <1>4, <2>2, <3>1 DEF Replies
  <2>3. CASE Commanded /\ Apply(phase, "seen", m.docs, m.base, Append(stack, Reply(TRUE)))
    <3>1. CASE /\ ~applying /\ applying' = TRUE /\ scope' = "seen"
               /\ Go(phase, Append(Append(stack, Reply(TRUE)), Syncing(m.docs, m.base)))
               /\ UNCHANGED mutations
      BY <1>4, <2>1, <2>3, <3>1 DEF Edits
    <3>2. CASE Fail(IF applying THEN "nested" ELSE "apply")
      <4>1. CASE applying
        <5>1. Fail("nested")
          BY <3>2, <4>1
        <5> QED
          BY <1>4, <2>3, <4>1, <5>1, FailStops
      <4>2. CASE ~applying
        <5>1. Fail("apply")
          BY <3>2, <4>2
        <5> QED
          BY <1>4, <5>1, FailStops
      <4> QED
        BY <4>1, <4>2
    <3> QED
      BY <2>3, <3>1, <3>2 DEF Apply
  <2> QED
    BY <1>4, <2>2, <2>3 DEF ServeEdit
<1> QED
  BY <1>1, <1>2, <1>3, <1>4 DEF Handle

Hearing ==
    \/ Send \/ Pump \/ WaitForDiagnostics \/ DrainServerEvents \/ RequestHandles \/ Retry
    \/ Disconnected \/ Deadline \/ Crash \/ WriterWrites \/ ServerActs \/ UNCHANGED vars

\* What the steps come to that are not of the session's own course.
LEMMA HearingKinds ==
    ASSUME SessionTypes, Hearing
    PROVE  Rests \/ Stops \/ Accepts \/ Replies \/ Edits \/ Pops \/ (Send /\ Queues) \/ AsksAgain
<1>1. CASE Send
  BY <1>1 DEF Send, Pops, Queues, In
<1>2. CASE Pump
  <2>1. Head(toClient) \in Said /\ stack # <<>>
    <3>1. toClient \in Seq(Said) /\ toClient # <<>>
      BY <1>2 DEF Pump, Pumping, SessionTypes, ServerTypes
    <3> QED
      BY <1>2, <3>1, HeadTailProperties DEF Pump, Pumping, In
  <2>2. CASE Handle(Head(toClient), stack)
    BY <1>2, <2>1, <2>2, HandleKinds DEF Pump
  <2>3. CASE UNCHANGED <<diagnostics, edits, control>>
    BY <1>2, <2>3 DEF Pump, Rests
  <2>4. CASE Fail("deferred") /\ UNCHANGED <<deferred, diagnostics>>
    BY <1>2, <2>4, FailStops DEF Pump
  <2> QED
    BY <1>2, <2>2, <2>3, <2>4 DEF Pump
<1>3. CASE WaitForDiagnostics \/ DrainServerEvents \/ RequestHandles
  <2>1. UNCHANGED <<writer, requests, selection>> /\ stack # <<>>
    BY <1>3 DEF WaitForDiagnostics, DrainServerEvents, RequestHandles, In
  <2>2. CASE Incoming # <<>> /\ Handle(Head(Incoming), stack)
    BY <2>1, <2>2, TakeTypes, HandleKinds
  <2>3. CASE /\ Last(stack).at \in {"wait", "drain"}
             /\ Go(phase, Callers) /\ UNCHANGED <<diagnostics, edits>>
    BY <2>1, <2>3 DEF Pops
  <2> QED
    BY <1>3, <2>2, <2>3 DEF WaitForDiagnostics, DrainServerEvents, RequestHandles, In
<1>4. CASE Retry
  <2>1. CASE /\ Ask(phase, Last(stack).method, Last(stack).about, Last(stack).retries + 1, Callers)
             /\ UNCHANGED edits
    BY <1>4, <2>1 DEF Retry, AsksAgain, Answered
  <2>2. CASE Fail("modified")
    BY <1>4, <2>2, FailStops DEF Retry
  <2> QED
    BY <1>4, <2>1, <2>2 DEF Retry
<1>5. CASE Disconnected
  BY <1>5, FailStops DEF Disconnected
<1>6. CASE Deadline
  <2>1. /\ phase' = "ended" /\ stack' = <<>> /\ scope' = "inactive" /\ applying' = FALSE
        /\ failure' = IF failure = "none" THEN "deadline" ELSE failure
        /\ UNCHANGED <<mutations, diagnostics, selection>>
    BY <1>6 DEF Deadline
  <2> QED
    BY <2>1 DEF Stops
<1>7. CASE Crash \/ WriterWrites \/ ServerActs \/ UNCHANGED vars
  BY <1>7 DEF Crash, WriterWrites, ServerActs, vars, Rests
<1> QED
  BY <1>1, <1>2, <1>3, <1>4, <1>5, <1>6, <1>7 DEF Hearing

-----------------------------------------------------------------------------
(***************************************************************************)
(* The session's course: actions are chosen from current diagnostics, and  *)
(* each changes the workspace once.                                        *)
(***************************************************************************)
StackShape == Shape(phase, stack, applying)

QueryIsCurrent ==
    phase \in {"select", "apply"} /\ stack = <<>> => query.gen = generation

Before == {"start", "negotiate", "open", "settle", "search", "query", "select", "apply"}

\* How many changes there are beside those of the actions that are done.
Progress ==
    /\ phase \in Before => mutations = Cardinality(applied)
    /\ phase \in {"apply", "command", "applied"} =>
          chosen.before = Cardinality(applied) /\ chosen.action.key \notin applied
    /\ scope = "awaiting" => ~applying /\ mutations = Cardinality(applied)
    /\ scope # "inactive" <=> phase = "command"
    /\ applying => phase \in {"command", "applied"} /\ mutations = Cardinality(applied)
    /\ mutations \in {Cardinality(applied), Cardinality(applied) + 1}

CourseInv ==
    /\ ChosenIsAction
    /\ StackShape
    /\ QueryIsCurrent
    /\ Progress
    /\ failure # "nested"

\* Each kind of step keeps the course: nothing of the session changes.
LEMMA RestsKeeps ==
    ASSUME SessionTypes, CourseInv, Rests
    PROVE  CourseInv'
<1>1. UNCHANGED <<phase, stack, failure, applying, scope, mutations, applied, chosen,
                  query, generation>>
  BY DEF Rests, control, edits, selection, diagnostics
<1>2. StackShape'
  BY <1>1 DEF CourseInv, StackShape
<1>3. Progress'
  BY <1>1 DEF CourseInv, Progress
<1> QED
  BY <1>1, <1>2, <1>3 DEF CourseInv, ChosenIsAction, QueryIsCurrent

\* The empty stack, wherever nothing has to wait.
LEMMA ShapeOfNothing ==
    ASSUME NEW p, p \notin {"negotiate", "command"}
    PROVE  Shape(p, <<>>, FALSE)
BY DEF Shape

\* The session fails.
LEMMA StopsKeeps ==
    ASSUME SessionTypes, CourseInv, Stops
    PROVE  CourseInv'
<1>1. /\ phase' \in {"shutdown", "ended"} /\ stack' = <<>>
      /\ scope' = "inactive" /\ applying' = FALSE
      /\ failure' = "nested" => applying /\ Commanded
      /\ mutations' = mutations /\ applied' = applied
  BY DEF Stops, selection, CourseInv
<1>2. StackShape'
  BY <1>1, ShapeOfNothing DEF StackShape
<1>3. Progress'
  BY <1>1 DEF CourseInv, Progress, Before
<1>4. failure' # "nested"
  BY <1>1 DEF CourseInv, Progress, Commanded
<1> QED
  BY <1>1, <1>2, <1>3, <1>4 DEF CourseInv, ChosenIsAction, QueryIsCurrent

\* A publication is accepted: nothing was chosen, or somebody waits and it is not idle.
LEMMA AcceptsKeeps ==
    ASSUME SessionTypes, CourseInv, Accepts
    PROVE  CourseInv'
<1>1. /\ UNCHANGED <<phase, stack, failure, applying, scope, mutations, applied, chosen, query>>
      /\ stack # <<>>
  BY DEF Accepts, control, edits, selection
<1>2. StackShape'
  BY <1>1 DEF CourseInv, StackShape
<1>3. Progress'
  BY <1>1 DEF CourseInv, Progress
<1> QED
  BY <1>1, <1>2, <1>3 DEF CourseInv, ChosenIsAction, QueryIsCurrent

\* A request of the server is answered.
LEMMA RepliesKeeps ==
    ASSUME SessionTypes, CourseInv, Replies
    PROVE  CourseInv'
<1>1. PICK ok \in BOOLEAN : Go(phase, Append(stack, Reply(ok)))
  BY DEF Replies
<1>2. /\ UNCHANGED <<phase, failure, applying, mutations, applied, chosen, query, generation>>
      /\ stack # <<>> /\ stack' = Append(stack, Reply(ok))
      /\ scope' = scope \/ (scope = "awaiting" /\ scope' = "seen")
      /\ stack \in Seq(Frames) /\ applying \in BOOLEAN /\ Reply(ok) \in Frames
  BY <1>1, MadeFrames DEF Replies, Go, selection, diagnostics, Commanded, SessionTypes,
     ControlTypes, EditTypes
<1>3. StackShape'
  <2>1. /\ Reply(ok).at = "send" /\ Reply(ok).msg.is = "reply"
    BY DEF Reply, Sending
  <2>2. Shape(phase, Append(stack, Reply(ok)), applying)
    BY <1>2, <2>1, ShapeWithMore DEF Sends, CourseInv, StackShape
  <2> QED
    BY <1>2, <2>2 DEF StackShape
<1>4. Progress'
  BY <1>2 DEF CourseInv, Progress
<1>5. stack' # <<>>
  BY <1>2, OneMoreFrame
<1> QED
  BY <1>2, <1>3, <1>4, <1>5 DEF CourseInv, ChosenIsAction, QueryIsCurrent

\* The one edit of a command is applied.
LEMMA EditsKeeps ==
    ASSUME SessionTypes, CourseInv, Edits
    PROVE  CourseInv'
<1>1. PICK d \in SUBSET Docs, b \in Texts :
         Go(phase, Append(Append(stack, Reply(TRUE)), Syncing(d, b)))
  BY DEF Edits
<1> DEFINE s == Append(stack, Reply(TRUE))
           f == Syncing(d, b)
<1>2. /\ UNCHANGED <<phase, failure, mutations, applied, chosen, query, generation>>
      /\ stack # <<>> /\ stack' = Append(s, f)
      /\ scope = "awaiting" /\ scope' = "seen" /\ applying = FALSE /\ applying' = TRUE
      /\ stack \in Seq(Frames) /\ Reply(TRUE) \in Frames /\ f \in Frames
  BY <1>1, MadeFrames DEF Edits, Go, selection, diagnostics, Commanded, SessionTypes,
     ControlTypes, EditTypes
<1>3. /\ Reply(TRUE).at = "send" /\ Reply(TRUE).msg.is = "reply" /\ f.at = "sync"
  BY DEF Reply, Sending, Syncing
<1> HIDE DEF f
<1>4. s \in Seq(Frames) /\ s # <<>> /\ Append(s, f) # <<>>
  BY <1>2, OneMoreFrame
<1>5. StackShape'
  <2>1. Shape(phase, s, applying)
    BY <1>2, <1>3, ShapeWithMore DEF Sends, CourseInv, StackShape
  <2>2. Shape(phase, s, FALSE)
    BY <1>2, <2>1
  <2> HIDE DEF s
  <2>3. Shape(phase, Append(s, f), TRUE)
    BY <1>2, <1>3, <1>4, <2>2, ShapeWithMore DEF Sends
  <2> QED
    BY <1>2, <2>3 DEF StackShape
<1>6. Progress'
  BY <1>2 DEF CourseInv, Progress
<1> QED
  BY <1>2, <1>4, <1>5, <1>6 DEF CourseInv, ChosenIsAction, QueryIsCurrent

\* A wait is over.
LEMMA PopsKeeps ==
    ASSUME SessionTypes, CourseInv, Pops
    PROVE  CourseInv'
<1>1. /\ UNCHANGED <<phase, failure, applying, scope, mutations, applied, chosen, query, generation>>
      /\ stack # <<>> /\ stack' = Front(stack)
      /\ Last(stack).at \in {"send", "wait", "drain"}
      /\ stack \in Seq(Frames) /\ applying \in BOOLEAN
  BY DEF Pops, Go, selection, diagnostics, edits, Callers, SessionTypes, ControlTypes, EditTypes
<1>2. Shape(phase, Front(stack), applying)
  BY <1>1, ShapeWithoutLast DEF CourseInv, StackShape
<1>3. Progress'
  BY <1>1 DEF CourseInv, Progress
<1>4. phase \in {"select", "apply"} => stack' # <<>>
  <2>1. SUFFICES ASSUME phase \in {"select", "apply"}, stack' = <<>> PROVE FALSE
    OBVIOUS
  <2>2. Len(stack) = 1 /\ Last(stack) = stack[1]
    <3>1. Len(stack) \in Nat /\ Len(Front(stack)) = Len(stack) - 1
      BY <1>1, LastAndFront
    <3>2. Len(Front(stack)) = 0
      BY <1>1, <2>1
    <3>3. Len(stack) = 1
      BY <3>1, <3>2
    <3>4. Last(stack) = stack[Len(stack)]
      BY <1>1, LastAndFront
    <3> QED
      BY <3>3, <3>4
  <2>3. stack[1].at = "request"
    BY <1>1, <2>1 DEF CourseInv, StackShape, Shape, Asking, Bare
  <2> QED
    BY <1>1, <2>2, <2>3
<1> QED
  BY <1>1, <1>2, <1>3, <1>4 DEF CourseInv, ChosenIsAction, QueryIsCurrent, StackShape

\* A message is queued.
LEMMA QueuesKeeps ==
    ASSUME SessionTypes, CourseInv, Queues
    PROVE  CourseInv'
<1> DEFINE f == [Last(stack) EXCEPT !.queued = TRUE]
<1>1. /\ UNCHANGED <<phase, failure, applying, scope, mutations, applied, chosen, query, generation>>
      /\ stack # <<>> /\ stack' = Append(Front(stack), f)
      /\ Last(stack).at = "send"
      /\ stack \in Seq(Frames) /\ applying \in BOOLEAN
  BY DEF Queues, In, Go, selection, diagnostics, edits, Callers, SessionTypes, ControlTypes,
     EditTypes
<1>2. f \in Frames /\ f.at = "send" /\ f.msg = Last(stack).msg
  BY <1>1, LastAndFront, FrameParts
<1> HIDE DEF f
<1>3. /\ Front(stack) \in Seq(Frames) /\ Len(Front(stack)) = Len(stack) - 1 /\ Len(stack) \in Nat
      /\ Last(stack) = stack[Len(stack)]
      /\ \A k \in 1 .. Len(stack) - 1 : Front(stack)[k] = stack[k]
  BY <1>1, LastAndFront
<1>4. /\ stack' \in Seq(Frames) /\ Len(stack') = Len(stack) /\ stack' # <<>>
      /\ stack'[Len(stack)] = f
      /\ \A k \in 1 .. Len(stack) - 1 : stack'[k] = stack[k]
  <2> HIDE DEF f
  <2> DEFINE t == Front(stack)
  <2>1. /\ Append(t, f) \in Seq(Frames) /\ Append(t, f) # <<>>
        /\ Len(Append(t, f)) = Len(t) + 1
        /\ Append(t, f)[Len(t) + 1] = f
        /\ \A k \in 1 .. Len(t) : Append(t, f)[k] = t[k]
    BY <1>2, <1>3, OneMoreFrame
  <2> HIDE DEF t
  <2>2. Len(t) = Len(stack) - 1 /\ stack' = Append(t, f) /\ Len(t) + 1 = Len(stack)
    BY <1>1, <1>3 DEF t
  <2>3. \A k \in 1 .. Len(stack) - 1 : t[k] = stack[k]
    BY <1>3 DEF t
  <2> QED
    BY <2>1, <2>2, <2>3
<1>5. StackShape'
  <2>1. \A k \in 1 .. Len(stack) : /\ stack'[k].at = stack[k].at
                                   /\ stack[k].at = "send" => stack'[k].msg = stack[k].msg
                                   /\ stack[k].at = "request" => stack'[k].method = stack[k].method
    BY <1>1, <1>2, <1>3, <1>4
  <2>2. Shape(phase, stack, applying)
    BY DEF CourseInv, StackShape
  <2> DEFINE t == stack'
  <2>3. /\ t \in Seq(Frames) /\ Len(t) = Len(stack)
        /\ \A k \in 1 .. Len(stack) : /\ t[k].at = stack[k].at
                                      /\ stack[k].at = "send" => t[k].msg = stack[k].msg
                                      /\ stack[k].at = "request" => t[k].method = stack[k].method
    BY <1>4, <2>1
  <2> HIDE DEF t
  <2>4. Shape(phase, t, applying)
    BY <1>1, <2>2, <2>3, ShapeOfSame
  <2> QED
    BY <1>1, <2>4 DEF StackShape, t
<1>6. Progress'
  BY <1>1 DEF CourseInv, Progress
<1> QED
  BY <1>1, <1>4, <1>5, <1>6 DEF CourseInv, ChosenIsAction, QueryIsCurrent

\* A request waits alone.
LEMMA RequestIsAlone ==
    ASSUME SessionTypes, StackShape, In("request")
    PROVE  /\ stack # <<>> /\ Callers = <<>> /\ Len(stack) = 1 /\ Last(stack) = stack[1]
           /\ stack[1] \in Frames
           /\ stack[1].at = "request" /\ phase \in Asking /\ stack[1].method = Method[phase]
           /\ applying = FALSE
<1>1. stack \in Seq(Frames) /\ stack # <<>> /\ Last(stack).at = "request" /\ applying \in BOOLEAN
  BY DEF In, SessionTypes, ControlTypes, EditTypes
<1>2. Len(stack) \in Nat /\ Len(stack) >= 1 /\ Len(Front(stack)) = Len(stack) - 1
  BY <1>1, LastAndFront
<1>3. Last(stack) = stack[Len(stack)] /\ Front(stack) \in Seq(Frames) /\ Last(stack) \in Frames
  BY <1>1, LastAndFront
<1>4. ~(Len(stack) >= 2)
  <2>1. SUFFICES ASSUME Len(stack) >= 2 PROVE FALSE
    OBVIOUS
  <2>2. Len(stack) \in 2 .. Len(stack)
    BY <1>2, <2>1
  <2>3. stack[Len(stack)].at # "request"
    BY <2>2 DEF StackShape, Shape
  <2> QED
    BY <1>1, <1>3, <2>3
<1>5. Len(stack) = 1
  BY <1>2, <1>4
<1>6. Len(Front(stack)) = 0
  BY <1>2, <1>5
<1>7. Callers = <<>>
  BY <1>3, <1>6, EmptySeq DEF Callers
<1>8. /\ stack[1].at = "request" /\ phase \in Asking /\ stack[1].method = Method[phase]
  BY <1>1, <1>3, <1>5 DEF StackShape, Shape
<1>9. applying = FALSE
  <2>1. applying <=> \E k \in 1 .. Len(stack) : stack[k].at = "sync"
    BY DEF StackShape, Shape
  <2>2. ~ \E k \in 1 .. Len(stack) : stack[k].at = "sync"
    BY <1>5, <1>8
  <2> QED
    BY <1>1, <2>1, <2>2
<1> QED
  BY <1>1, <1>3, <1>5, <1>7, <1>8, <1>9

\* What asking leaves on the stack.
LEMMA AskShape ==
    ASSUME SessionTypes, NEW p \in Asking, NEW about, NEW retries,
           Ask(p, Method[p], about, retries, <<>>)
    PROVE  /\ phase' = p /\ failure' = failure /\ stack' # <<>>
           /\ pending' = nextId /\ nextId' = nextId + 1
           /\ Len(stack') = 2
           /\ stack'[1] = [at |-> "request", method |-> Method[p], about |-> about,
                           retries |-> retries]
           /\ stack'[2] = Sending([is |-> "request", id |-> nextId, method |-> Method[p],
                                   about |-> about])
           /\ Shape(p, stack', FALSE)
<1> DEFINE f == [at |-> "request", method |-> Method[p], about |-> about, retries |-> retries]
           m == [is |-> "request", id |-> nextId, method |-> Method[p], about |-> about]
<1>1. /\ stack' = <<>> \o <<f, Sending(m)>> /\ phase' = p /\ failure' = failure
      /\ pending' = nextId /\ nextId' = nextId + 1
  BY DEF Ask, Go
<1>2. /\ f.at = "request" /\ f.method = Method[p]
      /\ Sending(m).at = "send" /\ Sending(m).msg.is = "request"
  BY DEF Sending
<1> DEFINE S == {f, Sending(m)}
<1>3. stack' = <<f, Sending(m)>>
  <2> HIDE DEF f, m
  <2>1. <<f, Sending(m)>> \in Seq(S)
    BY DEF S
  <2> QED
    BY <1>1, <2>1, ConcatEmptySeq
<1> HIDE DEF f, m
<1>4. stack' # <<>> /\ Len(stack') = 2 /\ stack'[1] = f /\ stack'[2] = Sending(m)
  BY <1>3
<1>5. Shape(p, stack', FALSE)
  BY <1>2, <1>4 DEF Shape, Sends, Asking, Bare
<1> QED
  BY <1>1, <1>4, <1>5 DEF f, m

\* A request is repeated.
LEMMA AsksAgainKeeps ==
    ASSUME SessionTypes, CourseInv, AsksAgain
    PROVE  CourseInv'
<1>1. /\ Callers = <<>> /\ phase \in Asking /\ Last(stack).method = Method[phase]
      /\ applying = FALSE
  BY RequestIsAlone DEF AsksAgain, CourseInv
<1>2. /\ Ask(phase, Method[phase], Last(stack).about, Last(stack).retries + 1, <<>>)
      /\ UNCHANGED <<diagnostics, selection, edits>>
  BY <1>1 DEF AsksAgain
<1>3. phase' = phase /\ failure' = failure /\ stack' # <<>> /\ Shape(phase, stack', FALSE)
  BY <1>1, <1>2, AskShape
<1>4. UNCHANGED <<applying, scope, mutations, applied, chosen, query, generation>>
  BY <1>2 DEF edits, selection, diagnostics
<1>5. StackShape'
  BY <1>1, <1>3, <1>4 DEF StackShape
<1>6. Progress'
  BY <1>3, <1>4 DEF CourseInv, Progress
<1> QED
  BY <1>3, <1>4, <1>5, <1>6 DEF CourseInv, ChosenIsAction, QueryIsCurrent

\* Whatever is heard keeps the course.
LEMMA HearingKeeps ==
    ASSUME SessionTypes, CourseInv, Hearing
    PROVE  CourseInv'
BY HearingKinds, RestsKeeps, StopsKeeps, AcceptsKeeps, RepliesKeeps, EditsKeeps, PopsKeeps,
   QueuesKeeps, AsksAgainKeeps

\* The answer to the request of a phase ends the phase.
LEMMA ResultEnds ==
    ASSUME SessionTypes, CourseInv, NEW method, NEW p, NEW frames, Result(method, p, frames)
    PROVE  /\ phase \in Asking /\ method = Method[phase] /\ applying = FALSE
           /\ phase' = p /\ stack' = frames /\ failure' = failure
           /\ UNCHANGED <<diagnostics, mutations, applying>>
<1>1. In("request") /\ Last(stack).method = method
  BY DEF Result, Answered
<1>2. phase \in Asking /\ Last(stack).method = Method[phase] /\ applying = FALSE
  BY <1>1, RequestIsAlone DEF CourseInv
<1> QED
  BY <1>1, <1>2 DEF Result, Go

\* A step from a phase before the actions to another, or to a request.
LEMMA EarlyKeeps ==
    ASSUME SessionTypes, CourseInv,
           phase \in Before \ {"apply"}, phase' \in Before \ {"select", "apply"},
           failure' = failure, Shape(phase', stack', FALSE),
           UNCHANGED <<chosen, applied, edits>>
    PROVE  CourseInv'
<1>1. UNCHANGED <<applying, scope, mutations, applied, chosen>>
  BY DEF edits
<1>2. applying = FALSE
  <2>1. ~applying
    BY DEF CourseInv, Progress, Before
  <2> QED
    BY <2>1 DEF SessionTypes, EditTypes
<1>3. StackShape'
  BY <1>1, <1>2 DEF StackShape
<1>4. scope = "inactive" /\ mutations = Cardinality(applied)
  BY DEF CourseInv, Progress, Before
<1>5. phase' \in Before /\ phase' \notin {"select", "apply", "command", "applied"}
  BY DEF Before
<1>6. Progress'
  BY <1>1, <1>2, <1>4, <1>5 DEF Progress
<1> QED
  BY <1>1, <1>3, <1>5, <1>6 DEF CourseInv, ChosenIsAction, QueryIsCurrent

\* The steps until actions are asked for.
LEMMA SetOutKeeps ==
    ASSUME SessionTypes, CourseInv, Negotiate \/ OpenDocuments \/ Search \/ QueryActions
    PROVE  CourseInv'
<1>1. CASE Negotiate
  <2>1. CASE Idle("start") /\ Ask("negotiate", "initialize", Nothing, 0, <<>>) /\ SettingUp
    <3>1. "negotiate" \in Asking /\ Method["negotiate"] = "initialize"
      BY DEF Asking, Method
    <3>2. phase' = "negotiate" /\ failure' = failure /\ Shape("negotiate", stack', FALSE)
      BY <2>1, <3>1, AskShape
    <3> QED
      BY <2>1, <3>2, EarlyKeeps DEF Idle, Before, SettingUp, selection
  <2>2. CASE /\ Result("initialize", "open", <<Sending([is |-> "note"])>>)
             /\ UNCHANGED <<selection, scope>>
    <3>1. /\ phase \in Asking /\ Method[phase] = "initialize"
          /\ phase' = "open" /\ failure' = failure /\ UNCHANGED <<mutations, applying>>
          /\ stack' = <<Sending([is |-> "note"])>>
      BY <2>2, ResultEnds
    <3>2. phase = "negotiate"
      BY <3>1 DEF Asking, Method
    <3>3. Shape("open", <<Sending([is |-> "note"])>>, FALSE)
      BY DEF Shape, Sends, Sending, Asking, Bare
    <3> QED
      BY <2>2, <3>1, <3>2, <3>3, EarlyKeeps DEF Before, selection, edits
  <2> QED
    BY <1>1, <2>1, <2>2 DEF Negotiate
<1>2. CASE OpenDocuments
  <2>1. /\ phase \in {"open", "settle"} /\ UNCHANGED <<chosen, applied, edits>>
    BY <1>2 DEF OpenDocuments, Idle, SettingUp, selection
  <2>2. \/ \E note : /\ Go("open", <<Draining, Sending(note)>>)
                     /\ note.is = "text"
        \/ Go("settle", <<Waiting>>)
        \/ Go("search", <<>>)
    BY <1>2 DEF OpenDocuments
  <2>3. ASSUME NEW note, note.is = "text" PROVE Shape("open", <<Draining, Sending(note)>>, FALSE)
    BY <2>3 DEF Shape, Sends, Sending, Draining, Asking, Bare
  <2>4. Shape("settle", <<Waiting>>, FALSE) /\ Shape("search", <<>>, FALSE)
    BY DEF Shape, Sends, Waiting, Asking, Bare
  <2>5. phase' \in {"open", "settle", "search"} /\ failure' = failure /\ Shape(phase', stack', FALSE)
    BY <2>2, <2>3, <2>4 DEF Go
  <2> QED
    BY <2>1, <2>5, EarlyKeeps DEF Before
<1>3. CASE Search
  <2>1. /\ phase = "search" /\ Go("query", <<>>) /\ UNCHANGED <<chosen, applied, edits>>
    BY <1>3 DEF Search, Idle
  <2>2. Shape("query", <<>>, FALSE)
    BY ShapeOfNothing
  <2> QED
    BY <2>1, <2>2, EarlyKeeps DEF Before, Go
<1>4. CASE QueryActions
  <2>1. /\ phase = "query" /\ Ask("query", "codeAction", Nothing, 0, <<>>)
        /\ UNCHANGED <<chosen, applied, edits>>
    BY <1>4 DEF QueryActions, Idle
  <2>2. "query" \in Asking /\ Method["query"] = "codeAction"
    BY DEF Asking, Method
  <2>3. phase' = "query" /\ failure' = failure /\ Shape("query", stack', FALSE)
    BY <2>1, <2>2, AskShape
  <2> QED
    BY <2>1, <2>3, EarlyKeeps DEF Before
<1> QED
  BY <1>1, <1>2, <1>3, <1>4

\* Actions are only taken from an answer that is not outdated.
LEMMA OfferedKeeps == SessionTypes /\ CourseInv /\ Offered => CourseInv'
<1> SUFFICES ASSUME SessionTypes, CourseInv, Offered PROVE CourseInv'
  OBVIOUS
<1>1. PICK p \in {"search", "select"} :
         /\ p = IF Outdated THEN "search" ELSE "select"
         /\ Result("codeAction", p, <<>>) \/ Result("resolve", p, <<>>)
         /\ query'.gen = query.gen
         /\ UNCHANGED <<chosen, applied, scope>>
  BY DEF Offered, SessionTypes, SelectionTypes
<1>2. /\ phase \in Asking /\ Method[phase] \in {"codeAction", "resolve"}
      /\ phase' = p /\ stack' = <<>> /\ failure' = failure
      /\ UNCHANGED <<diagnostics, mutations, applying>> /\ applying = FALSE
  BY <1>1, ResultEnds
<1>3. phase \in {"query", "select"}
  BY <1>2 DEF Asking, Method
<1>4. Shape(p, <<>>, FALSE)
  BY ShapeOfNothing
<1>5. StackShape'
  BY <1>2, <1>4 DEF StackShape
<1>6. Progress'
  BY <1>1, <1>2, <1>3 DEF CourseInv, Progress, Before
<1>7. QueryIsCurrent'
  BY <1>1, <1>2 DEF QueryIsCurrent, Outdated, diagnostics
<1> QED
  BY <1>1, <1>2, <1>5, <1>6, <1>7 DEF CourseInv, ChosenIsAction

\* Resolving them starts from there.
LEMMA ResolveKeeps == SessionTypes /\ CourseInv /\ Resolve => CourseInv'
<1> SUFFICES ASSUME SessionTypes, CourseInv, Resolve PROVE CourseInv'
  OBVIOUS
<1>1. /\ phase = "select" /\ \E a : Ask("select", "resolve", a, 0, <<>>)
      /\ UNCHANGED <<chosen, applied, edits>>
  BY DEF Resolve, Idle
<1>2. "select" \in Asking /\ Method["select"] = "resolve"
  BY DEF Asking, Method
<1>3. phase' = "select" /\ failure' = failure /\ stack' # <<>> /\ Shape("select", stack', FALSE)
  BY <1>1, <1>2, AskShape
<1>4. UNCHANGED <<applying, scope, mutations>>
  BY <1>1 DEF edits
<1>5. applying = FALSE
  <2>1. ~applying
    BY <1>1 DEF CourseInv, Progress
  <2> QED
    BY <2>1 DEF SessionTypes, EditTypes
<1>6. StackShape'
  BY <1>3, <1>4, <1>5 DEF StackShape
<1>7. Progress'
  BY <1>1, <1>3, <1>4 DEF CourseInv, Progress, Before
<1> QED
  BY <1>1, <1>3, <1>6, <1>7 DEF CourseInv, ChosenIsAction, QueryIsCurrent

\* The action that is chosen was not applied before.
LEMMA SelectKeeps == SessionTypes /\ CourseInv /\ Select => CourseInv'
<1> SUFFICES ASSUME SessionTypes, CourseInv, Select PROVE CourseInv'
  OBVIOUS
<1>1. /\ phase = "select" /\ stack = <<>>
      /\ UNCHANGED <<servervars, transport, requests, diagnostics, query, applied>>
  BY DEF Select, Idle
<1>2. ~applying /\ applying \in BOOLEAN /\ scope = "inactive" /\ mutations = Cardinality(applied)
  BY <1>1 DEF CourseInv, Progress, Before, SessionTypes, EditTypes
<1>3. CASE (Fail("repeated") \/ Fail("iterations")) /\ UNCHANGED chosen
  <2>1. UNCHANGED <<diagnostics, selection>>
    BY <1>1, <1>3 DEF selection
  <2>2. Stops
    BY <1>3, <2>1, FailStops
  <2> QED
    BY <2>2, StopsKeeps
<1>4. CASE /\ \E a \in Unambiguous : chosen' = [action |-> a, before |-> mutations]
           /\ Go("apply", <<>>)
           /\ UNCHANGED edits
  <2>1. PICK a \in Unambiguous : chosen' = [action |-> a, before |-> mutations]
    BY <1>4
  <2>2. /\ chosen'.action = a /\ chosen'.before = mutations
        /\ a \in Based /\ a.key \notin applied
    BY <2>1, UnambiguousIsReady DEF SessionTypes, SelectionTypes
  <2>3. /\ phase' = "apply" /\ stack' = <<>> /\ failure' = failure
        /\ UNCHANGED <<applying, scope, mutations, applied, query, generation>>
    BY <1>1, <1>4 DEF Go, edits, diagnostics
  <2>4. StackShape'
    <3>1. Shape("apply", <<>>, FALSE)
      BY ShapeOfNothing
    <3>2. applying' = FALSE
      BY <1>2, <2>3
    <3> QED
      BY <2>3, <3>1, <3>2 DEF StackShape
  <2>5. Progress'
    BY <1>1, <1>2, <2>2, <2>3 DEF CourseInv, Progress, Before
  <2>6. QueryIsCurrent'
    BY <1>1, <2>3 DEF CourseInv, QueryIsCurrent
  <2> QED
    BY <2>2, <2>3, <2>4, <2>5, <2>6 DEF CourseInv, ChosenIsAction
<1>5. CASE Go("query", <<>>) /\ UNCHANGED <<chosen, edits>>
  <2>1. Shape("query", <<>>, FALSE)
    BY ShapeOfNothing
  <2> QED
    BY <1>1, <1>5, <2>1, EarlyKeeps DEF Before, Go
<1> QED
  BY <1>3, <1>4, <1>5 DEF Select

\* Its edit is the one change it makes.
LEMMA ApplyEditKeeps == SessionTypes /\ CourseInv /\ ApplyEdit => CourseInv'
<1> SUFFICES ASSUME SessionTypes, CourseInv, ApplyEdit PROVE CourseInv'
  OBVIOUS
<1>1. /\ phase = "apply" /\ stack = <<>>
      /\ Apply("applied", scope, chosen.action.docs, chosen.action.base, <<>>)
      /\ UNCHANGED <<servervars, transport, requests, diagnostics, selection>>
  BY DEF ApplyEdit, Idle
<1>2. ~applying /\ scope = "inactive" /\ mutations = Cardinality(applied)
  BY <1>1 DEF CourseInv, Progress, Before
<1>3. CASE Fail(IF applying THEN "nested" ELSE "apply")
  <2>1. Fail("apply")
    BY <1>2, <1>3
  <2> QED
    BY <1>1, <2>1, FailStops, StopsKeeps
<1>4. CASE /\ applying' = TRUE /\ scope' = scope /\ UNCHANGED mutations
           /\ Go("applied", Append(<<>>, Syncing(chosen.action.docs, chosen.action.base)))
  <2> DEFINE f == Syncing(chosen.action.docs, chosen.action.base)
  <2>1. f.at = "sync"
    BY DEF Syncing
  <2> HIDE DEF f
  <2>2. phase' = "applied" /\ failure' = failure /\ stack' = Append(<<>>, f)
    BY <1>4 DEF Go, f
  <2>3. Append(<<>>, f) = <<f>>
    OBVIOUS
  <2>4. Shape("applied", <<f>>, TRUE)
    BY <2>1 DEF Shape, Sends, Asking, Bare
  <2>5. StackShape'
    BY <1>4, <2>2, <2>3, <2>4 DEF StackShape
  <2>6. UNCHANGED <<applied, chosen>>
    BY <1>1 DEF selection
  <2>7. Progress'
    BY <1>1, <1>2, <1>4, <2>2, <2>6 DEF CourseInv, Progress, Before
  <2> QED
    BY <1>1, <2>2, <2>5, <2>6, <2>7 DEF CourseInv, ChosenIsAction, QueryIsCurrent
<1> QED
  BY <1>1, <1>3, <1>4 DEF Apply

\* A command is awaited with no change made yet, and done when it is answered.
LEMMA CommandKeeps == SessionTypes /\ CourseInv /\ ExecuteCommand => CourseInv'
<1> SUFFICES ASSUME SessionTypes, CourseInv, ExecuteCommand PROVE CourseInv'
  OBVIOUS
<1>0. UNCHANGED <<applied, chosen>>
  BY DEF ExecuteCommand, selection
<1>1. CASE /\ Idle("apply") /\ scope' = "awaiting"
           /\ Ask("command", "command", Nothing, 0, <<>>)
           /\ UNCHANGED <<mutations, applying>>
  <2>1. phase = "apply" /\ ~applying /\ mutations = Cardinality(applied)
    BY <1>1 DEF Idle, CourseInv, Progress, Before
  <2>2. "command" \in Asking /\ Method["command"] = "command"
    BY DEF Asking, Method
  <2>3. phase' = "command" /\ failure' = failure /\ Shape("command", stack', FALSE)
    BY <1>1, <2>2, AskShape
  <2>4. applying' = FALSE
    BY <1>1, <2>1 DEF SessionTypes, EditTypes
  <2>5. StackShape'
    BY <2>3, <2>4 DEF StackShape
  <2>6. Progress'
    BY <1>0, <1>1, <2>1, <2>3 DEF CourseInv, Progress, Before
  <2> QED
    BY <1>0, <2>1, <2>3, <2>5, <2>6 DEF CourseInv, ChosenIsAction, QueryIsCurrent
<1>2. CASE Result("command", "applied", <<>>) /\ scope' = "inactive"
  <2>1. /\ phase \in Asking /\ Method[phase] = "command" /\ applying = FALSE
        /\ phase' = "applied" /\ stack' = <<>> /\ failure' = failure
        /\ UNCHANGED <<mutations, applying>>
    BY <1>2, ResultEnds
  <2>2. phase = "command"
    BY <2>1 DEF Asking, Method
  <2>3. Shape("applied", <<>>, FALSE)
    BY ShapeOfNothing
  <2>4. StackShape'
    BY <2>1, <2>3 DEF StackShape
  <2>5. Progress'
    BY <1>0, <1>2, <2>1, <2>2 DEF CourseInv, Progress, Before
  <2> QED
    BY <1>0, <2>1, <2>2, <2>4, <2>5 DEF CourseInv, ChosenIsAction, QueryIsCurrent
<1> QED
  BY <1>1, <1>2 DEF ExecuteCommand

\* An action counts when it has changed something.
LEMMA AppliedKeeps == SessionTypes /\ CourseInv /\ Applied => CourseInv'
<1> SUFFICES ASSUME SessionTypes, CourseInv, Applied PROVE CourseInv'
  OBVIOUS
<1>1. /\ phase = "applied" /\ stack = <<>>
      /\ UNCHANGED <<servervars, transport, requests, diagnostics, query, chosen>>
  BY DEF Applied, Idle
<1>2. CASE Fail("unchanged") /\ UNCHANGED applied
  <2>1. Stops
    BY <1>1, <1>2, FailStops DEF selection
  <2> QED
    BY <2>1, StopsKeeps
<1>3. CASE /\ mutations # chosen.before
           /\ applied' = applied \cup {chosen.action.key}
           /\ Go("search", <<Waiting>>)
           /\ UNCHANGED edits
  <2>1. ~ \E k \in 1 .. Len(stack) : stack[k].at = "sync"
    BY <1>1
  <2>2. applying = FALSE
    BY <2>1 DEF CourseInv, StackShape, Shape, SessionTypes, EditTypes
  <2>3. scope = "inactive" /\ mutations = Cardinality(applied) + 1
    BY <1>1, <1>3 DEF CourseInv, Progress
  <2>4. Cardinality(applied') = Cardinality(applied) + 1
    BY <1>1, <1>3, FS_AddElement DEF CourseInv, Progress, SessionTypes, SelectionTypes
  <2>5. Cardinality(applied) \in Nat
    BY FS_CardinalityType DEF SessionTypes, SelectionTypes
  <2>6. /\ phase' = "search" /\ stack' = <<Waiting>> /\ failure' = failure
        /\ UNCHANGED <<mutations, scope, applying>>
    BY <1>3 DEF Go, edits
  <2>7. Shape("search", <<Waiting>>, FALSE)
    BY DEF Shape, Sends, Waiting, Asking, Bare
  <2>8. StackShape'
    BY <2>2, <2>6, <2>7 DEF StackShape
  <2>9. Progress'
    <3>1. mutations' = Cardinality(applied')
      BY <2>3, <2>4, <2>6
    <3> QED
      BY <2>2, <2>3, <2>6, <3>1 DEF Progress
  <2> QED
    BY <2>6, <2>8, <2>9 DEF CourseInv, ChosenIsAction, QueryIsCurrent
<1> QED
  BY <1>2, <1>3 DEF Applied

\* A text that is sent goes on top of the synchronization it belongs to.
LEMMA SynchronizeKeeps == SessionTypes /\ CourseInv /\ Synchronize => CourseInv'
<1> SUFFICES ASSUME SessionTypes, CourseInv, Synchronize PROVE CourseInv'
  OBVIOUS
<1>1. /\ stack \in Seq(Frames) /\ stack # <<>> /\ Last(stack).at = "sync"
      /\ UNCHANGED selection /\ applying \in BOOLEAN
  BY DEF SessionTypes, ControlTypes, EditTypes, Synchronize, In
<1>2. /\ Len(stack) \in Nat /\ Len(stack) >= 1 /\ Last(stack) = stack[Len(stack)]
      /\ Last(stack) \in Frames /\ Callers \in Seq(Frames)
  BY <1>1, LastAndFront DEF Callers
<1>3. /\ Len(Callers) = Len(stack) - 1
      /\ \A k \in 1 .. Len(stack) - 1 : Callers[k] = stack[k]
  BY <1>1, LastAndFront DEF Callers
<1>4. applying = TRUE
  <2>1. \E k \in 1 .. Len(stack) : stack[k].at = "sync"
    BY <1>1, <1>2
  <2> QED
    BY <1>1, <2>1 DEF CourseInv, StackShape, Shape
<1>5. phase \in {"command", "applied"} /\ mutations = Cardinality(applied)
  BY <1>4 DEF CourseInv, Progress
<1>6. UNCHANGED <<applied, chosen, query>>
  BY <1>1 DEF selection
<1>7. CASE Last(stack).docs # {}
  <2> DEFINE d == Min(Last(stack).docs)
             rest == [Last(stack) EXCEPT !.docs = Last(stack).docs \ {d}]
             note == [is |-> "text", doc |-> d, version |-> version'[d]]
             s == Append(Callers, rest)
             t == Append(s, Draining)
             u == Append(t, Sending(note))
  <2>1. d \in Last(stack).docs /\ Last(stack).docs \subseteq Docs
    BY <1>1, <1>2, <1>7, FrameParts, MinIsIn, ServerAssumption
  <2>2. /\ Go(phase, Callers \o <<rest, Draining, Sending(note)>>)
        /\ version' = [version EXCEPT ![d] = version[d] + 1]
        /\ UNCHANGED edits
    BY <1>7 DEF Synchronize
  <2>3. rest \in Frames /\ rest.at = "sync"
    <3>1. Last(stack) \in Frames /\ Last(stack).at = "sync"
      BY <1>1, <1>2
    <3>2. Last(stack).docs \ {d} \in SUBSET Docs
      BY <2>1
    <3> HIDE DEF d
    <3> QED
      BY <3>1, <3>2, FrameParts
  <2>4. note \in Written
    <3>1. version'[d] \in Nat
      BY <2>1, <2>2 DEF SessionTypes, DiagnosticTypes, Texts, Closed
    <3> QED
      BY <2>1, <3>1, MadeMessages
  <2>5. note.is = "text"
    OBVIOUS
  <2> HIDE DEF d, rest, note
  <2>6. /\ Draining \in Frames /\ Draining.at = "drain"
        /\ Sending(note) \in Frames /\ Sending(note).at = "send" /\ Sending(note).msg = note
    BY <2>4, MadeFrames DEF Draining, Sending
  <2>7. stack' = u
    <3>1. stack' = Callers \o <<rest, Draining, Sending(note)>>
      BY <2>2 DEF Go
    <3> QED
      BY <1>2, <2>3, <2>6, <3>1
  <2>8. s \in Seq(Frames) /\ s # <<>> /\ Len(s) = Len(stack) /\ s[Len(stack)] = rest
        /\ \A k \in 1 .. Len(stack) - 1 : s[k] = stack[k]
    BY <1>2, <1>3, <2>3, OneMoreFrame
  <2>9. Shape(phase, stack, TRUE)
    BY <1>4 DEF CourseInv, StackShape
  <2> HIDE DEF s
  <2>10. Shape(phase, s, TRUE)
    <3>1. \A k \in 1 .. Len(stack) : /\ s[k].at = stack[k].at
                                     /\ stack[k].at = "send" => s[k].msg = stack[k].msg
                                     /\ stack[k].at = "request" => s[k].method = stack[k].method
      BY <1>1, <1>2, <2>3, <2>8
    <3> QED
      BY <1>1, <2>8, <2>9, <3>1, ShapeOfSame
  <2>11. Shape(phase, t, TRUE) /\ t \in Seq(Frames) /\ t # <<>>
    BY <2>6, <2>8, <2>10, ShapeWithMore, OneMoreFrame DEF Sends
  <2> HIDE DEF t
  <2>12. Shape(phase, u, TRUE) /\ u # <<>>
    BY <2>5, <2>6, <2>11, ShapeWithMore, OneMoreFrame DEF Sends
  <2>13. /\ UNCHANGED <<phase, failure, mutations, scope, applying>>
    BY <2>2 DEF Go, edits
  <2>14. StackShape'
    BY <1>4, <2>7, <2>12, <2>13 DEF StackShape
  <2>15. Progress'
    BY <1>6, <2>13 DEF CourseInv, Progress
  <2> QED
    BY <1>5, <1>6, <2>13, <2>14, <2>15 DEF CourseInv, ChosenIsAction, QueryIsCurrent
<1>8. CASE /\ mutations' = mutations + 1 /\ applying' = FALSE
           /\ Go(phase, Callers) /\ UNCHANGED <<diagnostics, scope>>
  <2>1. Shape(phase, Front(stack), FALSE)
    BY <1>1, <1>4, ShapeWithoutSync DEF CourseInv, StackShape
  <2>2. phase' = phase /\ stack' = Front(stack) /\ failure' = failure
    BY <1>8 DEF Go, Callers
  <2>3. StackShape'
    BY <1>8, <2>1, <2>2 DEF StackShape
  <2>4. Progress'
    <3>1. scope # "awaiting" /\ Cardinality(applied) \in Nat
      BY <1>4, FS_CardinalityType DEF CourseInv, Progress, SessionTypes, SelectionTypes
    <3>2. mutations' = Cardinality(applied) + 1
      BY <1>5, <1>8
    <3> QED
      BY <1>5, <1>6, <1>8, <2>2, <3>1, <3>2 DEF CourseInv, Progress, Before
  <2> QED
    BY <1>5, <1>6, <2>2, <2>3, <2>4 DEF CourseInv, ChosenIsAction, QueryIsCurrent
<1> QED
  BY <1>7, <1>8 DEF Synchronize

\* The end changes nothing.
LEMMA EndingKeeps ==
    ASSUME SessionTypes, CourseInv, Converged \/ Shutdown \/ NotifyExit \/ Reap
    PROVE  CourseInv'
<1>1. /\ scope = scope' /\ UNCHANGED <<mutations, applying, selection>>
      /\ phase \in {"query", "shutdown", "exit", "exiting", "reap"}
      /\ phase' \in {"search", "shutdown", "exit", "exiting", "reap", "ended"}
      /\ phase' = "search" => phase = "query"
      /\ failure' = failure
      /\ Shape(phase', stack', FALSE)
  <2>1. CASE Converged \/ NotifyExit \/ Reap
    <3>1. /\ stack' = <<>>
          /\ phase' \in {"search", "shutdown", "exiting", "reap", "ended"}
          /\ phase' = "search" => phase = "query"
          /\ phase \in {"query", "exit", "exiting", "reap"} /\ failure' = failure
          /\ UNCHANGED <<selection, edits>>
      BY <2>1 DEF Converged, NotifyExit, Reap, Idle, Go, SettingUp
    <3>2. Shape(phase', <<>>, FALSE)
      BY <3>1, ShapeOfNothing
    <3> QED
      BY <3>1, <3>2 DEF edits
  <2>2. CASE Idle("shutdown") /\ Ask("shutdown", "shutdown", Nothing, 0, <<>>) /\ SettingUp
    <3>1. "shutdown" \in Asking /\ Method["shutdown"] = "shutdown"
      BY DEF Asking, Method
    <3>2. phase' = "shutdown" /\ failure' = failure /\ Shape("shutdown", stack', FALSE)
      BY <2>2, <3>1, AskShape
    <3> QED
      BY <2>2, <3>2 DEF Idle, SettingUp, edits
  <2>3. CASE Result("shutdown", "exit", <<>>) /\ UNCHANGED <<selection, scope>>
    <3>1. /\ phase \in Asking /\ Method[phase] = "shutdown"
          /\ phase' = "exit" /\ failure' = failure /\ UNCHANGED <<mutations, applying>>
          /\ stack' = <<>>
      BY <2>3, ResultEnds
    <3>2. phase = "shutdown"
      BY <3>1 DEF Asking, Method
    <3>3. Shape("exit", <<>>, FALSE)
      BY ShapeOfNothing
    <3> QED
      BY <2>3, <3>1, <3>2, <3>3
  <2> QED
    BY <2>1, <2>2, <2>3 DEF Shutdown
<1>2. UNCHANGED <<applied, chosen, query>>
  BY <1>1 DEF selection
<1>3. applying = FALSE
  <2>1. ~applying
    BY <1>1 DEF CourseInv, Progress
  <2> QED
    BY <2>1 DEF SessionTypes, EditTypes
<1>4. StackShape'
  BY <1>1, <1>3 DEF StackShape
<1>5. Progress'
  BY <1>1, <1>2, <1>3 DEF CourseInv, Progress, Before
<1> QED
  BY <1>1, <1>2, <1>4, <1>5 DEF CourseInv, ChosenIsAction, QueryIsCurrent

\* The course at first.
LEMMA InitCourse == Init => CourseInv
<1> SUFFICES ASSUME Init PROVE CourseInv
  OBVIOUS
<1>1. Shape("start", <<>>, FALSE)
  BY ShapeOfNothing
<1>2. Cardinality(applied) = 0
  BY FS_EmptySet DEF Init
<1> QED
  BY <1>1, <1>2 DEF Init, CourseInv, ChosenIsAction, StackShape, QueryIsCurrent, Progress

\* Every step keeps the types and the course.
LEMMA NextCourse ==
    SessionTypes /\ CourseInv /\ [Next]_vars => SessionTypes' /\ CourseInv'
<1> SUFFICES ASSUME SessionTypes, CourseInv, [Next]_vars PROVE SessionTypes' /\ CourseInv'
  OBVIOUS
<1>1. SessionTypes'
  BY NextTypes DEF CourseInv
<1>2. \/ Hearing \/ Synchronize \/ Negotiate \/ OpenDocuments \/ Search \/ QueryActions
      \/ Offered \/ Resolve \/ Select \/ ApplyEdit \/ ExecuteCommand \/ Applied
      \/ Converged \/ Shutdown \/ NotifyExit \/ Reap
  BY DEF Next, SessionStep, Hearing
<1>3. CourseInv'
  BY <1>2, HearingKeeps, SynchronizeKeeps, SetOutKeeps, OfferedKeeps, ResolveKeeps,
     SelectKeeps, ApplyEditKeeps, CommandKeeps, AppliedKeeps, EndingKeeps
<1> QED
  BY <1>1, <1>3

\* What is always true of a session: types, stack and course.
THEOREM SessionInvariant == Spec => [](SessionTypes /\ CourseInv)
<1>1. Init => SessionTypes /\ CourseInv
  BY InitTypes, InitCourse
<1> QED
  BY <1>1, NextCourse, PTL DEF Spec

\* Every action changes the workspace once, however many edits its command asks for.
THEOREM OneEditAlways == Spec => []OneEditPerAction
<1>1. SessionTypes /\ CourseInv => OneEditPerAction
  <2> SUFFICES ASSUME SessionTypes, CourseInv PROVE OneEditPerAction
    OBVIOUS
  <2>1. Cardinality(applied) \in Nat
    BY FS_CardinalityType DEF SessionTypes, SelectionTypes
  <2>2. /\ mutations \in {Cardinality(applied), Cardinality(applied) + 1}
        /\ phase = "search" => mutations = Cardinality(applied)
    BY DEF CourseInv, Progress, Before
  <2>3. mutations <= Cardinality(applied) + 1
    BY <2>1, <2>2
  <2> QED
    BY <2>2, <2>3 DEF OneEditPerAction
<1> QED
  BY <1>1, SessionInvariant, PTL

\* The diagnostics an edit was asked for are the last that were published when it
\* is applied.
THEOREM ActionsAreCurrent == Spec => ActionIsCurrent
<1>1. CourseInv => (phase = "apply" => query.gen = generation)
  BY DEF CourseInv, StackShape, Shape, Bare, QueryIsCurrent
<1>2. CourseInv => (~applying /\ applying' /\ phase = "apply" => query.gen = generation)
  BY <1>1
<1> QED
  BY <1>2, SessionInvariant, PTL DEF ActionIsCurrent

-----------------------------------------------------------------------------
(***************************************************************************)
(* Texts in flight: nothing on its way is newer than the text the session  *)
(* has, and what the server reports says of which text it is.              *)
(***************************************************************************)
Limit(v, d) == IF v[d] = Closed THEN 0 ELSE v[d]

Fits(m, v) ==
    /\ m.is = "text" => m.version <= v[m.doc]
    /\ m.is = "publish" => m.version \in {m.base, None} /\ m.base <= Limit(v, m.doc)

FitAll(s, v) == \A k \in 1 .. Len(s) : Fits(s[k], v)
FitFrames(s, v) == \A k \in 1 .. Len(s) : s[k].at = "send" => Fits(s[k].msg, v)

TextsInFlight ==
    /\ \A d \in Docs : known[d] <= version[d]
    /\ FitAll(toServer, version) /\ FitAll(writer, version)
    /\ FitAll(toClient, version) /\ FitAll(deferred, version)
    /\ FitFrames(stack, version)

TextsReported ==
    /\ \A d \in Docs :
          /\ actionable[d] # Nothing => actionable[d].base = Limit(version, d)
          /\ residual[d] # Nothing => residual[d].version \in {None, Limit(version, d)}
    /\ failure # "early"

TextInv == TextsInFlight /\ TextsReported

\* One message more, or one less, and they still fit.
LEMMA FitMore ==
    ASSUME NEW S, NEW s \in Seq(S), NEW m \in S, NEW v, FitAll(s, v), Fits(m, v)
    PROVE  FitAll(Append(s, m), v)
BY DEF FitAll

\* One message less.
LEMMA FitLess ==
    ASSUME NEW S, NEW s \in Seq(S), NEW v, FitAll(s, v), s # <<>>
    PROVE  FitAll(Tail(s), v) /\ Fits(Head(s), v)
<1>1. Len(s) \in Nat /\ Len(s) >= 1
  BY EmptySeq
<1>2. Len(Tail(s)) = Len(s) - 1 /\ \A k \in 1 .. Len(s) - 1 : Tail(s)[k] = s[k + 1]
  BY <1>1
<1>3. Head(s) = s[1]
  OBVIOUS
<1> QED
  BY <1>1, <1>2, <1>3 DEF FitAll

\* What fits a text fits a later one.
LEMMA FitLater ==
    ASSUME NEW v \in Texts, NEW w \in Texts, \A d \in Docs : v[d] <= w[d]
    PROVE  /\ \A m \in Said \cup Written : Fits(m, v) => Fits(m, w)
           /\ \A s \in Seq(Said) : FitAll(s, v) => FitAll(s, w)
           /\ \A s \in Seq(Written) : FitAll(s, v) => FitAll(s, w)
           /\ \A s \in Seq(Frames) : FitFrames(s, v) => FitFrames(s, w)
<1>1. \A d \in Docs : Limit(v, d) <= Limit(w, d) /\ Limit(v, d) \in Int /\ Limit(w, d) \in Int
                      /\ v[d] \in Int /\ w[d] \in Int
  BY DEF Limit, Texts, Closed
<1>2. ASSUME NEW m \in Said \cup Written, Fits(m, v) PROVE Fits(m, w)
  <2>1. m.is = "text" => m.doc \in Docs /\ m.version \in Nat
    BY DEF Said, Written, Publications, Responses, EditAsks, Requests, TextNotes
  <2>2. m.is = "publish" => m.doc \in Docs /\ m.base \in Nat
    BY DEF Said, Written, Publications, Responses, EditAsks, Requests, TextNotes
  <2>3. m.is = "text" => m.version <= w[m.doc]
    BY <1>1, <1>2, <2>1 DEF Fits
  <2>4. m.is = "publish" => m.version \in {m.base, None} /\ m.base <= Limit(w, m.doc)
    BY <1>1, <1>2, <2>2 DEF Fits
  <2> QED
    BY <2>3, <2>4 DEF Fits
<1>3. ASSUME NEW s \in Seq(Said), FitAll(s, v) PROVE FitAll(s, w)
  <2> SUFFICES ASSUME NEW k \in 1 .. Len(s) PROVE Fits(s[k], w)
    BY DEF FitAll
  <2>1. s[k] \in Said \cup Written
    <3>1. s[k] \in Said
      OBVIOUS
    <3> QED
      BY <3>1
  <2>2. Fits(s[k], v)
    BY <1>3 DEF FitAll
  <2> QED
    BY <1>2, <2>1, <2>2
<1>4. \A s \in Seq(Written) : FitAll(s, v) => FitAll(s, w)
  BY <1>2 DEF FitAll
<1>5. ASSUME NEW s \in Seq(Frames), FitFrames(s, v) PROVE FitFrames(s, w)
  <2> SUFFICES ASSUME NEW k \in 1 .. Len(s), s[k].at = "send" PROVE Fits(s[k].msg, w)
    BY DEF FitFrames
  <2>1. s[k] \in Frames
    OBVIOUS
  <2>2. s[k].msg \in Said \cup Written
    BY <2>1, FrameParts
  <2>3. Fits(s[k].msg, v)
    BY <1>5 DEF FitFrames
  <2> QED
    BY <1>2, <2>2, <2>3
<1> QED
  BY <1>2, <1>3, <1>4, <1>5

\* A publication is never of a text that is yet to come; what is accepted is of
\* the text as it is.
LEMMA PublishFits ==
    ASSUME SessionTypes, TextsReported, NEW m \in Publications, Fits(m, version),
           Publish(m, stack)
    PROVE  TextsReported' /\ UNCHANGED version
<1> DEFINE d == m.doc
<1>1. /\ d \in Docs /\ m.base \in Nat /\ m.version \in {m.base, None}
      /\ m.base <= Limit(version, d) /\ version[d] \in Nat \cup {Closed}
  BY DEF Publications, Fits, SessionTypes, DiagnosticTypes, Texts
<1>2. ~(version[d] # Closed /\ m.version > version[d])
  BY <1>1 DEF Limit, None, Closed
<1>3. CASE Go(phase, stack) /\ UNCHANGED <<diagnostics, edits>>
  BY <1>3 DEF Go, TextsReported, diagnostics
<1>4. CASE /\ ~Late(m)
           /\ residual' = [residual EXCEPT ![d] = m]
           /\ actionable' = [actionable EXCEPT ![d] = IF Current(m) THEN m ELSE Nothing]
           /\ Go(phase, stack)
           /\ UNCHANGED <<version, edits>>
  <2>1. m.version \in {None, Limit(version, d)}
    <3>1. CASE m.version = None
      BY <3>1
    <3>2. CASE m.version # None
      <4>1. m.version = m.base /\ ~(m.base < version[d])
        BY <1>1, <1>4, <3>2 DEF Late
      <4> QED
        BY <1>1, <4>1 DEF Limit, Closed
    <3> QED
      BY <3>1, <3>2
  <2>2. Current(m) => m.base = Limit(version, d)
    <3>1. CASE m.version = None
      BY <1>1, <3>1 DEF Current, Limit, None, Closed
    <3>2. CASE m.version # None
      BY <1>1, <3>2 DEF Current, Limit, None, Closed
    <3> QED
      BY <3>1, <3>2
  <2> HIDE DEF d
  <2>3. /\ residual \in [Docs -> Publications \cup {Nothing}]
        /\ actionable \in [Docs -> Publications \cup {Nothing}]
    BY DEF SessionTypes, DiagnosticTypes
  <2>4. ASSUME NEW e \in Docs
        PROVE  /\ actionable'[e] # Nothing => actionable'[e].base = Limit(version, e)
               /\ residual'[e] # Nothing => residual'[e].version \in {None, Limit(version, e)}
    <3>1. CASE e = d
      BY <1>1, <1>4, <2>1, <2>2, <2>3, <3>1
    <3>2. CASE e # d
      BY <1>1, <1>4, <2>3, <3>2 DEF TextsReported
    <3> QED
      BY <3>1, <3>2
  <2> QED
    BY <1>4, <2>4 DEF Go, TextsReported
<1> QED
  BY <1>2, <1>3, <1>4 DEF Publish, diagnostics

\* Nothing that is handled changes what is reported but a publication.
LEMMA HandleFits ==
    ASSUME SessionTypes, TextsReported, NEW m \in Said, Fits(m, version), Handle(m, stack)
    PROVE  TextsReported'
<1>1. CASE m.is = "publish" /\ Publish(m, stack)
  BY <1>1, SaidParts, PublishFits
<1>2. ASSUME NEW why, why # "early", Fail(why), UNCHANGED diagnostics PROVE TextsReported'
  BY <1>2 DEF Fail, TextsReported, diagnostics
<1>3. ASSUME failure' = failure, UNCHANGED diagnostics PROVE TextsReported'
  BY <1>3 DEF TextsReported, diagnostics
<1>4. CASE (Fail("nesting") \/ Fail("mismatch")) /\ UNCHANGED diagnostics
  BY <1>2, <1>4
<1>5. CASE Go(phase, Append(stack, Reply(TRUE))) /\ UNCHANGED <<diagnostics, edits>>
  BY <1>3, <1>5 DEF Go
<1>6. CASE ServeEdit(m, stack) /\ UNCHANGED diagnostics
  <2>1. CASE Go(phase, Append(stack, Reply(FALSE)))
    BY <1>3, <1>6, <2>1 DEF Go
  <2>2. CASE Apply(phase, "seen", m.docs, m.base, Append(stack, Reply(TRUE)))
    <3>1. CASE Go(phase, Append(Append(stack, Reply(TRUE)), Syncing(m.docs, m.base)))
      BY <1>3, <1>6, <3>1 DEF Go
    <3>2. CASE Fail(IF applying THEN "nested" ELSE "apply")
      <4>1. (IF applying THEN "nested" ELSE "apply") # "early"
        OBVIOUS
      <4> QED
        BY <1>2, <1>6, <3>2, <4>1
    <3> QED
      BY <2>2, <3>1, <3>2 DEF Apply
  <2> QED
    BY <1>6, <2>1, <2>2 DEF ServeEdit
<1> QED
  BY <1>1, <1>4, <1>5, <1>6 DEF Handle

\* What is taken fitted, and what is left still does.
LEMMA TakeFits ==
    ASSUME SessionTypes, TextsInFlight, Incoming # <<>>
    PROVE  /\ Fits(Head(Incoming), version)
           /\ Take => /\ FitAll(toClient', version) /\ FitAll(deferred', version)
                      /\ UNCHANGED <<toServer, known>>
<1>1. deferred \in Seq(Said) /\ toClient \in Seq(Said)
  BY DEF SessionTypes, TransportTypes, ServerTypes
<1>2. FitAll(toClient, version) /\ FitAll(deferred, version)
  BY DEF TextsInFlight
<1>3. /\ deferred # <<>> => FitAll(Tail(deferred), version) /\ Fits(Head(deferred), version)
      /\ toClient # <<>> => FitAll(Tail(toClient), version) /\ Fits(Head(toClient), version)
  BY <1>1, <1>2, FitLess
<1>4. Fits(Head(Incoming), version)
  BY <1>3, TakeTypes
<1>5. ASSUME Take
      PROVE  /\ FitAll(toClient', version) /\ FitAll(deferred', version)
             /\ UNCHANGED <<toServer, known>>
  <2>1. CASE deferred # <<>> /\ deferred' = Tail(deferred) /\ UNCHANGED servervars
    BY <1>2, <1>3, <2>1 DEF servervars
  <2>2. CASE deferred = <<>> /\ Read /\ UNCHANGED deferred
    BY <1>2, <1>3, <2>2, TakeTypes DEF Read
  <2> QED
    BY <1>5, <2>1, <2>2 DEF Take
<1> QED
  BY <1>4, <1>5

\* Frames that send no text fit any.
LEMMA FitFramesLess ==
    ASSUME NEW v, NEW s \in Seq(Frames), s # <<>>, FitFrames(s, v)
    PROVE  /\ FitFrames(Front(s), v)
           /\ Last(s).at = "send" => Fits(Last(s).msg, v)
<1>1. /\ Len(s) \in Nat /\ Len(s) >= 1 /\ Last(s) = s[Len(s)]
      /\ Len(Front(s)) = Len(s) - 1
      /\ \A k \in 1 .. Len(s) - 1 : Front(s)[k] = s[k]
  BY LastAndFront
<1>2. Len(s) \in 1 .. Len(s) /\ \A k \in 1 .. Len(s) - 1 : k \in 1 .. Len(s)
  BY <1>1
<1> QED
  BY <1>1, <1>2 DEF FitFrames

\* One frame more.
LEMMA FitFramesMore ==
    ASSUME NEW v, NEW s \in Seq(Frames), NEW f \in Frames, FitFrames(s, v),
           f.at = "send" => Fits(f.msg, v)
    PROVE  FitFrames(Append(s, f), v)
BY OneMoreFrame DEF FitFrames

\* A request's frames fit.
LEMMA AskFits ==
    ASSUME SessionTypes, NEW p, NEW method, NEW about, NEW retries, NEW v,
           Ask(p, method, about, retries, <<>>)
    PROVE  FitFrames(stack', v) /\ failure' = failure
<1> DEFINE f == [at |-> "request", method |-> method, about |-> about, retries |-> retries]
           m == [is |-> "request", id |-> nextId, method |-> method, about |-> about]
<1>1. stack' = <<>> \o <<f, Sending(m)>> /\ failure' = failure
  BY DEF Ask, Go
<1>2. f.at = "request" /\ Sending(m).msg.is = "request"
  BY DEF Sending
<1> DEFINE S == {f, Sending(m)}
<1>3. stack' = <<f, Sending(m)>>
  <2> HIDE DEF f, m
  <2>1. <<f, Sending(m)>> \in Seq(S)
    BY DEF S
  <2> QED
    BY <1>1, <2>1, ConcatEmptySeq
<1>4. Fits(Sending(m).msg, v)
  BY <1>2 DEF Fits
<1> HIDE DEF f, m
<1>5. Len(stack') = 2 /\ stack'[1] = f /\ stack'[2] = Sending(m)
  BY <1>3
<1>6. /\ stack'[1].at # "send" /\ Fits(stack'[2].msg, v)
      /\ \A k \in 1 .. Len(stack') : k = 1 \/ k = 2
  BY <1>2, <1>4, <1>5 DEF f
<1> QED
  BY <1>1, <1>6 DEF FitFrames

\* The frames after a step that is none of the session's own course.
LEMMA HearingFrames ==
    ASSUME SessionTypes, CourseInv, FitFrames(stack, version), Hearing
    PROVE  FitFrames(stack', version')
<1>1. stack \in Seq(Frames)
  BY DEF SessionTypes, ControlTypes
<1>2. FitFrames(<<>>, version)
  BY DEF FitFrames
<1>3. ASSUME NEW b \in BOOLEAN PROVE Fits(Reply(b).msg, version) /\ Reply(b) \in Frames
  BY MadeFrames DEF Fits, Reply, Sending
<1>4. CASE Rests \/ Accepts
  BY <1>4 DEF Rests, Accepts, control, diagnostics
<1>5. CASE Stops
  BY <1>2, <1>5 DEF Stops, diagnostics
<1>6. CASE Replies
  <2>1. PICK b \in BOOLEAN : Go(phase, Append(stack, Reply(b)))
    BY <1>6 DEF Replies
  <2>2. FitFrames(Append(stack, Reply(b)), version)
    BY <1>1, <1>3, FitFramesMore
  <2> QED
    BY <1>6, <2>1, <2>2 DEF Go, Replies, diagnostics
<1>7. CASE Edits
  <2>1. PICK d \in SUBSET Docs, b \in Texts :
           Go(phase, Append(Append(stack, Reply(TRUE)), Syncing(d, b)))
    BY <1>7 DEF Edits
  <2>2. TRUE \in BOOLEAN
    OBVIOUS
  <2>3. FitFrames(Append(stack, Reply(TRUE)), version) /\ Append(stack, Reply(TRUE)) \in Seq(Frames)
    BY <1>1, <1>3, <2>2, FitFramesMore, OneMoreFrame
  <2>4. Syncing(d, b) \in Frames /\ Syncing(d, b).at = "sync"
    BY MadeFrames DEF Syncing
  <2>5. FitFrames(Append(Append(stack, Reply(TRUE)), Syncing(d, b)), version)
    BY <2>3, <2>4, FitFramesMore
  <2> QED
    BY <1>7, <2>1, <2>5 DEF Go, Edits, diagnostics
<1>8. CASE Pops
  BY <1>1, <1>8, FitFramesLess DEF Pops, Go, Callers, diagnostics
<1>9. CASE Queues
  <2> DEFINE f == [Last(stack) EXCEPT !.queued = TRUE]
  <2>1. stack # <<>> /\ Last(stack).at = "send" /\ stack' = Append(Callers, f)
    BY <1>9 DEF Queues, In, Go
  <2>2. Callers \in Seq(Frames) /\ Last(stack) \in Frames
    BY <1>1, <2>1, LastAndFront DEF Callers
  <2>3. f \in Frames /\ f.msg = Last(stack).msg
    BY <2>1, <2>2, FrameParts
  <2>4. FitFrames(Callers, version) /\ Fits(f.msg, version)
    BY <1>1, <2>1, <2>3, FitFramesLess DEF Callers
  <2> HIDE DEF f
  <2>5. FitFrames(stack', version)
    BY <2>1, <2>2, <2>3, <2>4, FitFramesMore
  <2> QED
    BY <1>9, <2>5 DEF Queues, diagnostics
<1>10. CASE AsksAgain
  <2>1. Ask(phase, Last(stack).method, Last(stack).about, Last(stack).retries + 1, <<>>)
    BY <1>10, RequestIsAlone DEF AsksAgain, CourseInv
  <2>2. FitFrames(stack', version)
    BY <2>1, AskFits
  <2> QED
    BY <1>10, <2>2 DEF AsksAgain, diagnostics
<1> QED
  BY <1>4, <1>5, <1>6, <1>7, <1>8, <1>9, <1>10, HearingKinds

\* The server knows no text that was not sent to it, and reports what it knows.
LEMMA ServerFits ==
    ASSUME SessionTypes, TextsInFlight, ServerStep
    PROVE  /\ FitAll(toServer', version) /\ FitAll(toClient', version)
           /\ \A d \in Docs : known'[d] <= version[d]
<1>1. /\ toServer \in Seq(Written) /\ toClient \in Seq(Said) /\ owed \in Seq(Requests)
      /\ known \in Texts /\ version \in Texts
  BY DEF SessionTypes, ServerTypes, DiagnosticTypes
<1>2. /\ FitAll(toServer, version) /\ FitAll(toClient, version)
      /\ \A d \in Docs : known[d] <= version[d]
  BY DEF TextsInFlight
<1>3. CASE ServerReads
  <2> DEFINE m == Head(toServer)
  <2>1. toServer # <<>> /\ UNCHANGED toClient /\ toServer' = Tail(toServer)
        /\ known' = IF m.is = "text" THEN [known EXCEPT ![m.doc] = m.version] ELSE known
    BY <1>3 DEF ServerReads
  <2>2. FitAll(Tail(toServer), version) /\ Fits(m, version)
    BY <1>1, <1>2, <2>1, FitLess
  <2>3. m \in Written
    BY <1>1, <2>1, HeadTailProperties
  <2>4. m.is = "text" => m.doc \in Docs /\ m.version <= version[m.doc]
    BY <2>2, <2>3 DEF Fits, Written, TextNotes, Requests
  <2> HIDE DEF m
  <2>5. \A d \in Docs : known'[d] <= version[d]
    BY <1>1, <1>2, <2>1, <2>4 DEF Texts
  <2> QED
    BY <1>2, <2>1, <2>2, <2>5
<1>4. ASSUME NEW m \in Said, Fits(m, version), Write(m) PROVE FitAll(toClient', version)
  BY <1>1, <1>2, <1>4, FitMore DEF Write
<1>5. ASSUME NEW m \in Said, Fits(m, version), Unasked(m)
      PROVE  /\ FitAll(toServer', version) /\ FitAll(toClient', version)
             /\ \A d \in Docs : known'[d] <= version[d]
  BY <1>2, <1>4, <1>5 DEF Unasked
<1>6. CASE ServerAnswers
  <2>1. \E o, a : Write(Response(o, a))
    BY <1>6 DEF ServerAnswers
  <2>2. PICK o, a : Write(Response(o, a))
    BY <2>1
  <2>3. toClient' = Append(toClient, Response(o, a)) /\ Fits(Response(o, a), version)
    BY <2>2 DEF Write, Response, Fits
  <2>4. FitAll(toClient', version)
    <3>1. toClient \in Seq(Said \cup {Response(o, a)})
      BY <1>1
    <3> QED
      BY <1>2, <2>3, <3>1, FitMore
  <2> QED
    BY <1>2, <1>6, <2>4 DEF ServerAnswers
<1>7. CASE \E d \in Docs : ServerPublishes(d)
  <2>1. PICK d \in Docs : ServerPublishes(d)
    BY <1>7
  <2>2. PICK base \in 0 .. known[d] \cup {0}, problem \in BOOLEAN :
           \E v \in {base, None} : Unasked(Publication(d, base, v, problem))
    BY <2>1 DEF ServerPublishes
  <2>3. PICK v \in {base, None} : Unasked(Publication(d, base, v, problem))
    BY <2>2
  <2> DEFINE m == Publication(d, base, v, problem)
  <2>4. base \in Nat /\ base <= Limit(version, d)
    <3>1. /\ known[d] \in Nat \cup {Closed} /\ version[d] \in Nat \cup {Closed}
          /\ known[d] <= version[d]
      BY <1>1, <1>2 DEF Texts
    <3> QED
      BY <3>1 DEF Limit, Closed
  <2>5. m \in Said
    BY <2>4 DEF Publication, Said, Publications
  <2>6. Fits(m, version)
    BY <2>4 DEF Fits, Publication
  <2> QED
    BY <1>5, <2>3, <2>5, <2>6
<1>8. CASE ServerAsks
  <2>1. [is |-> "ask"] \in Said /\ Fits([is |-> "ask"], version)
    BY DEF Said, Fits
  <2> QED
    BY <1>5, <1>8, <2>1 DEF ServerAsks
<1>9. CASE \E d \in (SUBSET Docs) \ {{}} : ServerEdits(d)
  <2>1. PICK d \in SUBSET Docs : Unasked([is |-> "edit", docs |-> d, base |-> known])
    BY <1>9 DEF ServerEdits
  <2>2. /\ [is |-> "edit", docs |-> d, base |-> known] \in Said
        /\ Fits([is |-> "edit", docs |-> d, base |-> known], version)
    BY <1>1 DEF Said, EditAsks, Fits
  <2> QED
    BY <1>5, <2>1, <2>2
<1> QED
  BY <1>3, <1>6, <1>7, <1>8, <1>9 DEF ServerStep

\* What is heard, written or given up leaves the texts in flight in order.
LEMMA HearingFits ==
    ASSUME SessionTypes, CourseInv, TextInv, Hearing
    PROVE  TextInv'
<1>1. version' = version
  BY HearingKinds DEF Rests, Stops, Accepts, Replies, Edits, Pops, Queues, AsksAgain, diagnostics
<1>2. FitFrames(stack', version')
  BY HearingFrames DEF TextInv, TextsInFlight
<1>3. /\ toServer \in Seq(Written) /\ toClient \in Seq(Said)
      /\ writer \in Seq(Written) /\ deferred \in Seq(Said) /\ stack \in Seq(Frames)
  BY DEF SessionTypes, ServerTypes, TransportTypes, ControlTypes
<1>4. /\ FitAll(toServer, version) /\ FitAll(toClient, version)
      /\ FitAll(writer, version) /\ FitAll(deferred, version)
      /\ FitFrames(stack, version) /\ \A d \in Docs : known[d] <= version[d]
      /\ TextsReported /\ TextsInFlight
  BY DEF TextInv, TextsInFlight
<1> DEFINE Pipes == /\ FitAll(toServer', version) /\ FitAll(toClient', version)
                    /\ FitAll(writer', version) /\ FitAll(deferred', version)
                    /\ \A d \in Docs : known'[d] <= version[d]
<1>5. ASSUME UNCHANGED <<servervars, transport>> PROVE Pipes
  BY <1>4, <1>5 DEF servervars, transport
<1>6. ASSUME UNCHANGED diagnostics, failure' = failure \/ failure' # "early" PROVE TextsReported'
  BY <1>4, <1>6 DEF TextsReported, diagnostics
<1>7. ASSUME NEW why, why # "early", Fail(why), UNCHANGED diagnostics PROVE TextsReported'
  <2>1. failure' = failure \/ failure' = why
    BY <1>7 DEF Fail
  <2> QED
    BY <1>6, <1>7, <2>1
<1>8. ASSUME NEW p, NEW frames, Go(p, frames), UNCHANGED diagnostics PROVE TextsReported'
  BY <1>6, <1>8 DEF Go
<1>9. CASE Send
  <2>1. /\ stack # <<>> /\ Last(stack).at = "send"
        /\ UNCHANGED <<servervars, deferred, diagnostics>>
        /\ writer' = Append(writer, Last(stack).msg) \/ writer' = writer
        /\ \E frames : Go(phase, frames)
    BY <1>9 DEF Send, In
  <2>2. Last(stack).msg \in Written /\ Fits(Last(stack).msg, version)
    BY <1>3, <1>4, <2>1, FitFramesLess, FrameParts, LastAndFront
  <2>3. FitAll(writer', version)
    BY <1>3, <1>4, <2>1, <2>2, FitMore
  <2> QED
    BY <1>1, <1>2, <1>4, <1>8, <2>1, <2>3 DEF TextInv, TextsInFlight, servervars
<1>10. CASE Pump
  <2>1. toClient # <<>> /\ Read /\ UNCHANGED writer
    BY <1>10 DEF Pump, Pumping
  <2>2. /\ FitAll(Tail(toClient), version) /\ Fits(Head(toClient), version)
        /\ Head(toClient) \in Said
    BY <1>3, <1>4, <2>1, FitLess, HeadTailProperties
  <2>3. deferred' \in {deferred, Append(deferred, Head(toClient))}
    BY <1>10 DEF Pump
  <2>4. FitAll(deferred', version)
    BY <1>3, <1>4, <2>2, <2>3, FitMore
  <2>5. TextsReported'
    <3>1. CASE Handle(Head(toClient), stack)
      BY <1>4, <2>2, <3>1, HandleFits
    <3>2. CASE UNCHANGED <<diagnostics, control>>
      BY <1>6, <3>2 DEF control
    <3>3. CASE Fail("deferred") /\ UNCHANGED diagnostics
      BY <1>7, <3>3
    <3> QED
      BY <1>10, <3>1, <3>2, <3>3 DEF Pump
  <2> QED
    BY <1>1, <1>2, <1>4, <2>1, <2>2, <2>4, <2>5 DEF TextInv, TextsInFlight, Read
<1>11. CASE WaitForDiagnostics \/ DrainServerEvents \/ RequestHandles
  <2>1. UNCHANGED writer
    BY <1>11 DEF WaitForDiagnostics, DrainServerEvents, RequestHandles
  <2>2. CASE Incoming # <<>> /\ Take /\ Handle(Head(Incoming), stack)
    <3>1. /\ Fits(Head(Incoming), version) /\ Head(Incoming) \in Said
          /\ FitAll(toClient', version) /\ FitAll(deferred', version)
          /\ UNCHANGED <<toServer, known>>
      BY <1>4, <2>2, TakeFits, TakeTypes
    <3>2. TextsReported'
      BY <1>4, <2>2, <3>1, HandleFits
    <3> QED
      BY <1>1, <1>2, <1>4, <2>1, <3>1, <3>2 DEF TextInv, TextsInFlight
  <2>3. CASE Go(phase, Callers) /\ UNCHANGED <<servervars, deferred, diagnostics>>
    BY <1>1, <1>2, <1>4, <1>8, <2>1, <2>3 DEF TextInv, TextsInFlight, servervars
  <2>4. CASE /\ Incoming # <<>> /\ deferred = <<>> /\ Read /\ deferred' = <<Head(toClient)>>
             /\ Go(phase, Callers) /\ UNCHANGED diagnostics
    <3>1. toClient # <<>>
      BY <2>4, TakeTypes
    <3>2. FitAll(Tail(toClient), version) /\ Fits(Head(toClient), version)
      BY <1>3, <1>4, <3>1, FitLess
    <3>3. FitAll(deferred', version)
      BY <2>4, <3>2 DEF FitAll
    <3> QED
      BY <1>1, <1>2, <1>4, <1>8, <2>1, <2>4, <3>2, <3>3 DEF TextInv, TextsInFlight, Read
  <2> QED
    BY <1>11, <2>2, <2>3, <2>4 DEF WaitForDiagnostics, DrainServerEvents, RequestHandles
<1>12. CASE Retry
  <2>1. Incoming # <<>> /\ Take /\ UNCHANGED <<writer, diagnostics>>
    BY <1>12 DEF Retry, Answered
  <2>2. FitAll(toClient', version) /\ FitAll(deferred', version) /\ UNCHANGED <<toServer, known>>
    BY <1>4, <2>1, TakeFits
  <2>3. TextsReported'
    <3>1. CASE \E p, m, a, r, f : Ask(p, m, a, r, f)
      BY <1>8, <2>1, <3>1 DEF Ask
    <3>2. CASE Fail("modified")
      BY <1>7, <2>1, <3>2
    <3> QED
      BY <1>12, <3>1, <3>2 DEF Retry
  <2> QED
    BY <1>1, <1>2, <1>4, <2>1, <2>2, <2>3 DEF TextInv, TextsInFlight
<1>13. CASE Disconnected
  BY <1>1, <1>2, <1>5, <1>7, <1>13 DEF Disconnected, TextInv, TextsInFlight
<1>14. CASE Deadline \/ Crash
  <2>1. UNCHANGED <<toServer, toClient, known, transport, diagnostics>>
    BY <1>14 DEF Deadline, Crash
  <2>2. failure' = failure \/ failure' # "early"
    BY <1>14 DEF Deadline, Crash, control
  <2> QED
    BY <1>1, <1>2, <1>4, <1>6, <2>1, <2>2 DEF TextInv, TextsInFlight, transport
<1>15. CASE WriterWrites
  <2>1. /\ writer # <<>> /\ toServer' = Append(toServer, Head(writer)) /\ writer' = Tail(writer)
        /\ UNCHANGED <<toClient, known, deferred, diagnostics, control>>
    BY <1>15 DEF WriterWrites
  <2>2. /\ FitAll(Tail(writer), version) /\ Fits(Head(writer), version)
        /\ Head(writer) \in Written
    BY <1>3, <1>4, <2>1, FitLess, HeadTailProperties
  <2>3. FitAll(toServer', version)
    BY <1>3, <1>4, <2>1, <2>2, FitMore
  <2> QED
    BY <1>1, <1>2, <1>4, <1>6, <2>1, <2>2, <2>3 DEF TextInv, TextsInFlight, control
<1>16. CASE ServerActs
  <2>1. /\ FitAll(toServer', version) /\ FitAll(toClient', version)
        /\ \A d \in Docs : known'[d] <= version[d]
        /\ UNCHANGED <<writer, deferred, diagnostics, failure>>
    BY <1>4, <1>16, ServerFits DEF ServerActs, transport, control
  <2> QED
    BY <1>1, <1>2, <1>4, <1>6, <2>1 DEF TextInv, TextsInFlight
<1>17. CASE UNCHANGED vars
  BY <1>1, <1>2, <1>5, <1>6, <1>17 DEF vars, control, TextInv, TextsInFlight
<1> QED
  BY <1>9, <1>10, <1>11, <1>12, <1>13, <1>14, <1>15, <1>16, <1>17 DEF Hearing

\* A step of the session's course that makes no text and accepts no publication.
LEMMA CourseFits ==
    ASSUME SessionTypes, TextInv, UNCHANGED diagnostics, failure' = failure \/ failure' # "early",
           FitFrames(stack', version),
           \/ UNCHANGED <<servervars, transport>>
           \/ Incoming # <<>> /\ Take /\ UNCHANGED writer
    PROVE  TextInv'
<1>1. version' = version /\ TextsReported'
  BY DEF TextInv, TextsReported, diagnostics
<1>2. CASE UNCHANGED <<servervars, transport>>
  BY <1>1, <1>2 DEF TextInv, TextsInFlight, servervars, transport
<1>3. CASE Incoming # <<>> /\ Take /\ UNCHANGED writer
  <2>1. FitAll(toClient', version) /\ FitAll(deferred', version) /\ UNCHANGED <<toServer, known>>
    BY <1>3, TakeFits DEF TextInv
  <2> QED
    BY <1>1, <1>3, <2>1 DEF TextInv, TextsInFlight
<1> QED
  BY <1>2, <1>3

\* The frames that the course makes, but for those that send a text.
LEMMA CourseFrames ==
    /\ \A v : FitFrames(<<>>, v) /\ FitFrames(<<Waiting>>, v)
              /\ FitFrames(<<Sending([is |-> "note"])>>, v)
    /\ \A v, d, b : FitFrames(Append(<<>>, Syncing(d, b)), v)
BY DEF FitFrames, Waiting, Sending, Syncing, Fits

\* The steps of the course that make no text.
LEMMA CourseKeepsFits ==
    ASSUME SessionTypes, TextInv,
           \/ Negotiate \/ Search \/ QueryActions \/ Offered \/ Resolve \/ Select
           \/ ApplyEdit \/ ExecuteCommand \/ Applied \/ Converged \/ Shutdown \/ Reap
    PROVE  TextInv'
<1>1. ASSUME NEW p, NEW m, NEW a, NEW r, Ask(p, m, a, r, <<>>)
      PROVE  FitFrames(stack', version) /\ failure' = failure
  BY <1>1, AskFits
<1>2. ASSUME NEW m, NEW p, NEW frames, Result(m, p, frames), FitFrames(frames, version)
      PROVE  TextInv'
  <2>1. Incoming # <<>> /\ Take /\ UNCHANGED <<writer, diagnostics>> /\ Go(p, frames)
    BY <1>2 DEF Result, Answered
  <2> QED
    BY <1>2, <2>1, CourseFits DEF Go
<1>3. ASSUME NEW p, NEW frames, Go(p, frames), FitFrames(frames, version)
      PROVE  FitFrames(stack', version) /\ failure' = failure
  BY <1>3 DEF Go
<1>4. ASSUME NEW why, why # "early", Fail(why)
      PROVE  FitFrames(stack', version) /\ (failure' = failure \/ failure' # "early")
  BY <1>4, CourseFrames DEF Fail
<1>5. CASE Negotiate
  <2>1. CASE Ask("negotiate", "initialize", Nothing, 0, <<>>) /\ SettingUp /\ UNCHANGED diagnostics
    BY <1>1, <2>1, CourseFits DEF SettingUp
  <2>2. CASE Result("initialize", "open", <<Sending([is |-> "note"])>>)
    BY <1>2, <2>2, CourseFrames
  <2> QED
    BY <1>5, <2>1, <2>2 DEF Negotiate
<1>6. CASE Search
  BY <1>3, <1>6, CourseFits, CourseFrames DEF Search
<1>7. CASE QueryActions \/ Resolve
  <2>1. UNCHANGED <<servervars, transport, diagnostics>>
    BY <1>7 DEF QueryActions, Resolve
  <2>2. \E p, m, a : Ask(p, m, a, 0, <<>>)
    BY <1>7 DEF QueryActions, Resolve
  <2> QED
    BY <1>1, <2>1, <2>2, CourseFits
<1>8. CASE Offered
  BY <1>2, <1>8, CourseFrames DEF Offered
<1>9. CASE Select
  <2>1. UNCHANGED <<servervars, transport, diagnostics>>
    BY <1>9 DEF Select
  <2>2. Fail("repeated") \/ Fail("iterations") \/ Go("apply", <<>>) \/ Go("query", <<>>)
    BY <1>9 DEF Select
  <2>3. CASE Fail("repeated") \/ Fail("iterations")
    <3>1. "repeated" # "early" /\ "iterations" # "early"
      OBVIOUS
    <3> QED
      BY <1>4, <2>1, <2>3, <3>1, CourseFits
  <2>4. CASE Go("apply", <<>>) \/ Go("query", <<>>)
    BY <1>3, <2>1, <2>4, CourseFits, CourseFrames
  <2> QED
    BY <2>2, <2>3, <2>4
<1>10. CASE ApplyEdit
  <2>1. UNCHANGED <<servervars, transport, diagnostics>>
    BY <1>10 DEF ApplyEdit
  <2>2. CASE Go("applied", Append(<<>>, Syncing(chosen.action.docs, chosen.action.base)))
    BY <1>3, <2>1, <2>2, CourseFits, CourseFrames
  <2>3. CASE Fail(IF applying THEN "nested" ELSE "apply")
    <3>1. (IF applying THEN "nested" ELSE "apply") # "early"
      OBVIOUS
    <3> QED
      BY <1>4, <2>1, <2>3, <3>1, CourseFits
  <2> QED
    BY <1>10, <2>2, <2>3 DEF ApplyEdit, Apply
<1>11. CASE ExecuteCommand
  <2>1. CASE Ask("command", "command", Nothing, 0, <<>>)
             /\ UNCHANGED <<servervars, transport, diagnostics>>
    BY <1>1, <2>1, CourseFits
  <2>2. CASE Result("command", "applied", <<>>)
    BY <1>2, <2>2, CourseFrames
  <2> QED
    BY <1>11, <2>1, <2>2 DEF ExecuteCommand
<1>12. CASE Applied
  <2>1. UNCHANGED <<servervars, transport, diagnostics>>
    BY <1>12 DEF Applied
  <2>2. CASE Fail("unchanged")
    <3>1. "unchanged" # "early"
      OBVIOUS
    <3> QED
      BY <1>4, <2>1, <2>2, <3>1, CourseFits
  <2>3. CASE Go("search", <<Waiting>>)
    BY <1>3, <2>1, <2>3, CourseFits, CourseFrames
  <2> QED
    BY <1>12, <2>2, <2>3 DEF Applied
<1>13. CASE Converged \/ Reap
  <2>1. UNCHANGED <<servervars, transport, diagnostics>> /\ \E p : Go(p, <<>>)
    BY <1>13 DEF Converged, Reap, SettingUp
  <2> QED
    BY <1>3, <2>1, CourseFits, CourseFrames
<1>14. CASE Shutdown
  <2>1. CASE Ask("shutdown", "shutdown", Nothing, 0, <<>>) /\ SettingUp /\ UNCHANGED diagnostics
    BY <1>1, <2>1, CourseFits DEF SettingUp
  <2>2. CASE Result("shutdown", "exit", <<>>)
    BY <1>2, <2>2, CourseFrames
  <2> QED
    BY <1>14, <2>1, <2>2 DEF Shutdown
<1> QED
  BY <1>5, <1>6, <1>7, <1>8, <1>9, <1>10, <1>11, <1>12, <1>13, <1>14

\* The exit notification is no text.
LEMMA ExitFits == SessionTypes /\ TextInv /\ NotifyExit => TextInv'
<1> SUFFICES ASSUME SessionTypes, TextInv, NotifyExit PROVE TextInv'
  OBVIOUS
<1>1. /\ UNCHANGED <<servervars, deferred, diagnostics>>
      /\ Go("exiting", <<>>) \/ Go("reap", <<>>)
      /\ writer' = writer \/ writer' = Append(writer, [is |-> "exit"])
  BY DEF NotifyExit
<1>2. [is |-> "exit"] \in Written /\ Fits([is |-> "exit"], version) /\ writer \in Seq(Written)
  BY MadeMessages DEF Fits, SessionTypes, TransportTypes
<1>3. FitAll(writer', version)
  BY <1>1, <1>2, FitMore DEF TextInv, TextsInFlight
<1>4. FitFrames(stack', version) /\ failure' = failure
  BY <1>1, CourseFrames DEF Go
<1> QED
  BY <1>1, <1>3, <1>4 DEF TextInv, TextsInFlight, TextsReported, diagnostics, servervars

\* A document that is opened or changed gets a later text; what is on its way still fits.
LEMMA LaterText ==
    ASSUME SessionTypes, TextInv, SessionTypes', NEW d \in Docs,
           version' = [version EXCEPT ![d] = version[d] + 1],
           UNCHANGED <<servervars, transport, failure>>,
           \A e \in Docs \ {d} : actionable'[e] = actionable[e] /\ residual'[e] = residual[e],
           \/ /\ actionable'[d] = Nothing /\ residual'[d] = Nothing
           \/ /\ UNCHANGED <<actionable, residual>>
              /\ version[d] = Closed,
           FitFrames(stack', version')
    PROVE  TextInv'
<1>1. version \in Texts /\ version' \in Texts
  BY DEF SessionTypes, DiagnosticTypes
<1>2. \A e \in Docs : version[e] <= version'[e] /\ (e # d => version'[e] = version[e])
  BY <1>1 DEF Texts, Closed
<1>3. /\ toServer \in Seq(Written) /\ toClient \in Seq(Said)
      /\ writer \in Seq(Written) /\ deferred \in Seq(Said) /\ known \in Texts
  BY DEF SessionTypes, ServerTypes, TransportTypes
<1>4. /\ FitAll(toServer, version') /\ FitAll(writer, version')
      /\ FitAll(toClient, version') /\ FitAll(deferred, version')
  BY <1>1, <1>2, <1>3, FitLater DEF TextInv, TextsInFlight
<1>5. \A e \in Docs : known[e] <= version'[e]
  BY <1>1, <1>2, <1>3 DEF TextInv, TextsInFlight, Texts, Closed
<1>6. TextsInFlight'
  BY <1>4, <1>5 DEF TextsInFlight, servervars, transport
<1>7. \A e \in Docs \ {d} : Limit(version', e) = Limit(version, e)
  BY <1>2 DEF Limit
<1>8. version[d] = Closed => Limit(version', d) = Limit(version, d)
  BY <1>1 DEF Limit, Texts, Closed
<1>9. ASSUME NEW e \in Docs
      PROVE  /\ actionable'[e] # Nothing => actionable'[e].base = Limit(version', e)
             /\ residual'[e] # Nothing => residual'[e].version \in {None, Limit(version', e)}
  <2>1. CASE e # d
    BY <1>7, <2>1 DEF TextInv, TextsReported
  <2>2. CASE e = d
    BY <1>8, <2>2 DEF TextInv, TextsReported
  <2> QED
    BY <2>1, <2>2
<1> QED
  BY <1>6, <1>9 DEF TextInv, TextsReported

\* A document is opened with version 0.
LEMMA OpenFits == SessionTypes /\ TextInv /\ SessionTypes' /\ OpenDocuments => TextInv'
<1> SUFFICES ASSUME SessionTypes, TextInv, SessionTypes', OpenDocuments PROVE TextInv'
  OBVIOUS
<1>1. UNCHANGED <<servervars, transport, residual, actionable, published, generation>>
  BY DEF OpenDocuments, SettingUp
<1>2. CASE /\ \E d \in Docs : version[d] = Closed
           /\ LET d == Min({e \in Docs : version[e] = Closed})
              IN  /\ version' = [version EXCEPT ![d] = 0]
                  /\ Go("open", <<Draining, Sending([is |-> "text", doc |-> d, version |-> 0])>>)
  <2> DEFINE d == Min({e \in Docs : version[e] = Closed})
             note == [is |-> "text", doc |-> d, version |-> 0]
  <2>1. d \in Docs /\ version[d] = Closed
    <3>1. {e \in Docs : version[e] = Closed} \subseteq Nat
      BY ServerAssumption
    <3>2. d \in {e \in Docs : version[e] = Closed}
      BY <1>2, <3>1, MinIsIn
    <3> QED
      BY <3>2
  <2>2. /\ version' = [version EXCEPT ![d] = 0]
        /\ stack' = <<Draining, Sending(note)>> /\ failure' = failure
    BY <1>2 DEF Go
  <2> HIDE DEF d
  <2>3. version' = [version EXCEPT ![d] = version[d] + 1] /\ version'[d] = 0
    BY <2>1, <2>2 DEF SessionTypes, DiagnosticTypes, Texts, Closed
  <2>4. Fits(note, version')
    BY <2>3 DEF Fits
  <2>5. FitFrames(stack', version')
    <3>1. Sending(note).msg = note /\ Draining.at = "drain"
      BY DEF Sending, Draining
    <3> HIDE DEF note
    <3> QED
      BY <2>2, <2>4, <3>1 DEF FitFrames
  <2> QED
    BY <1>1, <2>1, <2>2, <2>3, <2>5, LaterText
<1>3. CASE UNCHANGED version /\ (Go("settle", <<Waiting>>) \/ Go("search", <<>>))
  BY <1>1, <1>3, CourseFits, CourseFrames DEF Go, diagnostics
<1> QED
  BY <1>2, <1>3 DEF OpenDocuments

\* A document is changed: what was reported of it is forgotten.
LEMMA SynchronizeFits ==
    SessionTypes /\ TextInv /\ SessionTypes' /\ Synchronize => TextInv'
<1> SUFFICES ASSUME SessionTypes, TextInv, SessionTypes', Synchronize PROVE TextInv'
  OBVIOUS
<1>1. /\ stack \in Seq(Frames) /\ stack # <<>> /\ Last(stack).at = "sync"
      /\ UNCHANGED <<servervars, transport>>
  BY DEF SessionTypes, ControlTypes, Synchronize, In
<1>2. Last(stack) \in Frames /\ Callers \in Seq(Frames)
  BY <1>1, LastAndFront DEF Callers
<1>3. FitFrames(Callers, version)
  BY <1>1, FitFramesLess DEF Callers, TextInv, TextsInFlight
<1>4. CASE Last(stack).docs # {}
  <2> DEFINE d == Min(Last(stack).docs)
             rest == [Last(stack) EXCEPT !.docs = Last(stack).docs \ {d}]
             note == [is |-> "text", doc |-> d, version |-> version'[d]]
             top == <<rest, Draining, Sending(note)>>
  <2>1. Last(stack).docs \subseteq Docs
    BY <1>1, <1>2, FrameParts
  <2>2. d \in Last(stack).docs
    BY <1>4, <2>1, MinIsIn, ServerAssumption
  <2>3. /\ version' = [version EXCEPT ![d] = version[d] + 1]
        /\ residual' = [residual EXCEPT ![d] = Nothing]
        /\ actionable' = [actionable EXCEPT ![d] = Nothing]
        /\ Go(phase, Callers \o top)
    BY <1>4 DEF Synchronize
  <2>4. d \in Docs /\ rest \in Frames /\ rest.at = "sync"
    BY <1>1, <1>2, <2>1, <2>2, FrameParts
  <2> HIDE DEF d, rest
  <2>5. version'[d] \in Nat /\ version \in Texts /\ version' \in Texts
    BY <2>3, <2>4 DEF SessionTypes, DiagnosticTypes, Texts, Closed
  <2>6. note \in Written /\ Sending(note).msg = note /\ Sending(note) \in Frames
    BY <2>4, <2>5, MadeFrames, MadeMessages DEF Sending
  <2>7. Fits(note, version')
    BY <2>5 DEF Fits
  <2>8. Draining \in Frames /\ Draining.at = "drain"
    BY MadeFrames DEF Draining
  <2> HIDE DEF note
  <2>9. \A e \in Docs : version[e] <= version'[e]
    BY <2>3, <2>4, <2>5 DEF Texts, Closed
  <2>10. FitFrames(Callers, version')
    BY <1>2, <1>3, <2>5, <2>9, FitLater
  <2>11. FitFrames(stack', version')
    <3>1. top \in Seq(Frames) /\ FitFrames(top, version')
      <4> DEFINE last == Sending(note)
      <4>1. last \in Frames /\ Fits(last.msg, version')
        BY <2>6, <2>7
      <4> HIDE DEF last
      <4>2. <<rest, Draining, last>> \in Seq(Frames)
        BY <2>4, <2>8, <4>1
      <4>3. FitFrames(<<rest, Draining, last>>, version')
        BY <2>4, <2>8, <4>1 DEF FitFrames
      <4> QED
        BY <4>2, <4>3 DEF last
    <3> HIDE DEF top
    <3>2. stack' = Callers \o top
      BY <2>3 DEF Go
    <3>3. /\ Len(stack') = Len(Callers) + Len(top) /\ Len(Callers) \in Nat
          /\ \A k \in 1 .. Len(Callers) : stack'[k] = Callers[k]
          /\ \A k \in Len(Callers) + 1 .. Len(Callers) + Len(top) :
                stack'[k] = top[k - Len(Callers)]
      BY <1>2, <3>1, <3>2
    <3> QED
      BY <2>10, <3>1, <3>3 DEF FitFrames
  <2>12. /\ \A e \in Docs \ {d} : actionable'[e] = actionable[e] /\ residual'[e] = residual[e]
         /\ actionable'[d] = Nothing /\ residual'[d] = Nothing
    BY <2>3, <2>4 DEF SessionTypes, DiagnosticTypes
  <2>13. failure' = failure
    BY <2>3 DEF Go
  <2> QED
    BY <1>1, <2>3, <2>4, <2>11, <2>12, <2>13, LaterText
<1>5. CASE Go(phase, Callers) /\ UNCHANGED diagnostics
  BY <1>1, <1>3, <1>5, CourseFits DEF Go
<1> QED
  BY <1>4, <1>5 DEF Synchronize

\* What is in flight and what is reported, in every state.
THEOREM TextInvariant == Spec => []TextInv
<1>1. Init => TextInv
  <2> SUFFICES ASSUME Init PROVE TextInv
    OBVIOUS
  <2>1. \A v : FitAll(<<>>, v) /\ FitFrames(<<>>, v)
    BY DEF FitAll, FitFrames
  <2> QED
    BY <2>1 DEF Init, ServerInit, TextInv, TextsInFlight, TextsReported, Closed
<1>2. SessionTypes /\ SessionTypes' /\ CourseInv /\ TextInv /\ [Next]_vars => TextInv'
  <2> SUFFICES ASSUME SessionTypes, SessionTypes', CourseInv, TextInv, [Next]_vars
               PROVE  TextInv'
    OBVIOUS
  <2>1. \/ Hearing \/ Synchronize \/ Negotiate \/ OpenDocuments \/ Search \/ QueryActions
        \/ Offered \/ Resolve \/ Select \/ ApplyEdit \/ ExecuteCommand \/ Applied
        \/ Converged \/ Shutdown \/ NotifyExit \/ Reap
    BY DEF Next, SessionStep, Hearing
  <2> QED
    BY <2>1, HearingFits, SynchronizeFits, OpenFits, CourseKeepsFits, ExitFits
<1> QED
  BY <1>1, <1>2, SessionInvariant, PTL DEF Spec

\* Code actions are asked for, and diagnostics are reported, only for the text as
\* it is, although the server publishes late, repeatedly and without a version.
THEOREM DiagnosticsAlwaysFit == Spec => []DiagnosticsFitTheText
<1>1. TextInv => DiagnosticsFitTheText
  BY DEF TextInv, TextsReported, Limit, DiagnosticsFitTheText
<1> QED
  BY <1>1, TextInvariant, PTL

-----------------------------------------------------------------------------
(***************************************************************************)
(* One request at a time: it is on the stack and not sent yet, or on its   *)
(* way to the server, or with the server, or its answer is on its way      *)
(* back, and at all those places together there is no more than one.       *)
(***************************************************************************)
Mine(m) == m.is \in {"request", "response"}

Clear(s) == \A i \in 1 .. Len(s) : ~Mine(s[i])
Sole(s, id) ==
    /\ \A i \in 1 .. Len(s) : Mine(s[i]) => s[i].id = id
    /\ \A i, j \in 1 .. Len(s) : Mine(s[i]) /\ Mine(s[j]) => i = j

Asks(s) == s # <<>> /\ s[1].at = "request"
Unsent(s) == Len(s) >= 2 /\ Sends(s[2], "request") /\ ~s[2].queued

Places == {"nowhere", "frame", "writer", "toServer", "owed", "toClient", "deferred"}

\* If anything is outstanding at all, it is at place.
OnlyAt(place) ==
    /\ place # "frame" => ~Unsent(stack)
    /\ place # "writer" => Clear(writer)
    /\ place # "toServer" => Clear(toServer)
    /\ place # "owed" => Clear(owed)
    /\ place # "toClient" => Clear(toClient)
    /\ place # "deferred" => Clear(deferred)

AllOfThis ==
    /\ Sole(writer, pending) /\ Sole(toServer, pending) /\ Sole(owed, pending)
    /\ Sole(toClient, pending) /\ Sole(deferred, pending)
    /\ Unsent(stack) => stack[2].msg.id = pending

OneOutstanding ==
    /\ \E place \in Places : OnlyAt(place) /\ (pending = 0 => place = "nowhere")
    /\ AllOfThis
    /\ pending # 0 <=> Asks(stack)

AnswerInv == (failure = "none" => OneOutstanding) /\ failure # "mismatch"

\* Requests and answers in a sequence that grows or shrinks at its ends.
LEMMA ClearMore ==
    ASSUME NEW S, NEW s \in Seq(S), NEW m \in S
    PROVE  /\ Clear(s) /\ ~Mine(m) => Clear(Append(s, m))
           /\ \A id : Sole(s, id) /\ ~Mine(m) => Sole(Append(s, m), id)
           /\ Clear(s) => Sole(Append(s, m), m.id)
<1>1. /\ Len(s) \in Nat /\ Len(Append(s, m)) = Len(s) + 1
      /\ Append(s, m)[Len(s) + 1] = m
      /\ \A k \in 1 .. Len(s) : Append(s, m)[k] = s[k]
      /\ \A k \in 1 .. Len(s) + 1 : k \in 1 .. Len(s) \/ k = Len(s) + 1
  OBVIOUS
<1> DEFINE t == Append(s, m)
           n == Len(s)
<1> HIDE DEF t, n
<1>2. Clear(s) /\ ~Mine(m) => Clear(t)
  BY <1>1 DEF Clear, t, n
<1>3. ASSUME NEW id, Sole(s, id), ~Mine(m) PROVE Sole(t, id)
  BY <1>1, <1>3 DEF Sole, t, n
<1>4. Clear(s) => Sole(t, m.id)
  BY <1>1 DEF Clear, Sole, t, n
<1> QED
  BY <1>2, <1>3, <1>4 DEF t

\* The first message is gone.
LEMMA ClearLess ==
    ASSUME NEW S, NEW s \in Seq(S), s # <<>>
    PROVE  /\ Clear(s) => Clear(Tail(s)) /\ ~Mine(Head(s))
           /\ \A id : Sole(s, id) =>
                 /\ Sole(Tail(s), id)
                 /\ Mine(Head(s)) => Clear(Tail(s)) /\ Head(s).id = id
<1>1. Len(s) \in Nat /\ Len(s) >= 1
  BY EmptySeq
<1>2. /\ Len(Tail(s)) = Len(s) - 1 /\ Head(s) = s[1]
      /\ \A k \in 1 .. Len(s) - 1 : Tail(s)[k] = s[k + 1]
  BY <1>1
<1>3. /\ 1 \in 1 .. Len(s)
      /\ \A k \in 1 .. Len(s) - 1 : k + 1 \in 1 .. Len(s) /\ k + 1 # 1
      /\ \A j, k \in 1 .. Len(s) - 1 : j + 1 = k + 1 => j = k
  BY <1>1
<1>4. Clear(s) => Clear(Tail(s)) /\ ~Mine(Head(s))
  BY <1>2, <1>3 DEF Clear
<1>5. ASSUME NEW id, Sole(s, id)
      PROVE  /\ Sole(Tail(s), id)
             /\ Mine(Head(s)) => Clear(Tail(s)) /\ Head(s).id = id
  <2>1. Sole(Tail(s), id)
    BY <1>2, <1>3, <1>5 DEF Sole
  <2>2. Mine(Head(s)) => Clear(Tail(s)) /\ Head(s).id = id
    BY <1>2, <1>3, <1>5 DEF Sole, Clear
  <2> QED
    BY <2>1, <2>2
<1> QED
  BY <1>4, <1>5

\* None is at most one.
LEMMA ClearIsSole == \A s, id : Clear(s) => Sole(s, id)
BY DEF Clear, Sole

\* Nothing is sent at first.
LEMMA NothingIsClear == Clear(<<>>)
BY DEF Clear

\* The stack asks what it asked, and sends no request that it did not.
SameAsk(s, t) ==
    /\ Asks(t) <=> Asks(s)
    /\ Unsent(t) => Unsent(s) /\ t[2].msg = s[2].msg

\* A frame on top, or off the top, that is no request.
LEMMA SameAskMore ==
    ASSUME NEW s \in Seq(Frames), s # <<>>, NEW f \in Frames, ~Sends(f, "request")
    PROVE  SameAsk(s, Append(s, f))
<1> DEFINE t == Append(s, f)
<1>1. /\ Len(s) \in Nat /\ Len(s) >= 1 /\ t # <<>>
      /\ Len(t) = Len(s) + 1 /\ t[Len(s) + 1] = f
      /\ \A k \in 1 .. Len(s) : t[k] = s[k]
  BY LastAndFront, OneMoreFrame
<1> HIDE DEF t
<1>2. t[1] = s[1]
  BY <1>1
<1>3. CASE Len(s) >= 2
  <2>1. t[2] = s[2]
    BY <1>1, <1>3
  <2> QED
    BY <1>1, <1>2, <1>3, <2>1 DEF SameAsk, Asks, Unsent
<1>4. CASE Len(s) = 1
  <2>1. t[2] = f
    BY <1>1, <1>4
  <2> QED
    BY <1>1, <1>2, <2>1 DEF SameAsk, Asks, Unsent
<1> QED
  BY <1>1, <1>3, <1>4 DEF t

\* One frame less.
LEMMA SameAskLess ==
    ASSUME NEW s \in Seq(Frames), s # <<>>, Last(s).at # "request"
    PROVE  SameAsk(s, Front(s))
<1> DEFINE t == Front(s)
<1>1. /\ Len(s) \in Nat /\ Len(s) >= 1 /\ Last(s) = s[Len(s)]
      /\ t \in Seq(Frames) /\ Len(t) = Len(s) - 1
      /\ \A k \in 1 .. Len(s) - 1 : t[k] = s[k]
  BY LastAndFront
<1> HIDE DEF t
<1>2. CASE Len(s) = 1
  <2>1. Len(t) = 0 /\ s[1].at # "request"
    BY <1>1, <1>2
  <2>2. t = <<>>
    BY <1>1, <2>1, EmptySeq
  <2> QED
    BY <2>1, <2>2 DEF SameAsk, Asks, Unsent, t
<1>3. CASE Len(s) >= 2
  <2>1. t[1] = s[1] /\ t # <<>>
    BY <1>1, <1>3
  <2>2. Len(t) >= 2 => t[2] = s[2]
    BY <1>1, <1>3
  <2> QED
    BY <1>3, <2>1, <2>2 DEF SameAsk, Asks, Unsent, t
<1> QED
  BY <1>1, <1>2, <1>3

\* The top frame is exchanged for another.
LEMMA SameAskTop ==
    ASSUME NEW s \in Seq(Frames), s # <<>>, NEW f \in Frames,
           Last(s).at # "request", f.at # "request", Sends(f, "request") => f.queued
    PROVE  /\ SameAsk(s, Append(Front(s), f)) /\ Append(Front(s), f) \in Seq(Frames)
           /\ Append(Front(s), f) # <<>>
           /\ Len(Append(Front(s), f)) = Len(s)
<1> DEFINE r == Front(s)
           t == Append(r, f)
<1>1. /\ Len(s) \in Nat /\ Len(s) >= 1 /\ Last(s) = s[Len(s)]
      /\ r \in Seq(Frames) /\ Len(r) = Len(s) - 1
      /\ \A k \in 1 .. Len(s) - 1 : r[k] = s[k]
  BY LastAndFront
<1> HIDE DEF r
<1>2. /\ t \in Seq(Frames) /\ t # <<>> /\ Len(t) = Len(r) + 1 /\ t[Len(r) + 1] = f
      /\ \A k \in 1 .. Len(r) : t[k] = r[k]
  BY <1>1, OneMoreFrame
<1> HIDE DEF t
<1>3. Len(t) = Len(s) /\ t[Len(s)] = f /\ \A k \in 1 .. Len(s) - 1 : t[k] = s[k]
  BY <1>1, <1>2
<1>4. Asks(t) <=> Asks(s)
  <2>1. CASE Len(s) = 1
    BY <1>1, <1>2, <1>3, <2>1 DEF Asks
  <2>2. CASE Len(s) >= 2
    <3>1. t[1] = s[1]
      BY <1>1, <1>3, <2>2
    <3> QED
      BY <1>2, <3>1 DEF Asks
  <2> QED
    BY <1>1, <2>1, <2>2
<1>5. Unsent(t) => Unsent(s) /\ t[2].msg = s[2].msg
  <2>1. CASE Len(s) = 2
    BY <1>3, <2>1 DEF Unsent
  <2>2. CASE Len(s) > 2
    <3>1. t[2] = s[2]
      BY <1>1, <1>3, <2>2
    <3> QED
      BY <1>3, <3>1 DEF Unsent
  <2>3. CASE Len(s) < 2
    BY <1>3, <2>3 DEF Unsent
  <2> QED
    BY <1>1, <2>1, <2>2, <2>3
<1> QED
  BY <1>2, <1>3, <1>4, <1>5 DEF SameAsk, t, r

\* A step that neither asks nor answers.
LEMMA StillOutstanding ==
    ASSUME OneOutstanding, pending' = pending, SameAsk(stack, stack'),
           Clear(writer) => Clear(writer'), Sole(writer', pending),
           Clear(toServer) => Clear(toServer'), Sole(toServer', pending),
           Clear(owed) => Clear(owed'), Sole(owed', pending),
           Clear(toClient) => Clear(toClient'), Sole(toClient', pending),
           Clear(deferred) => Clear(deferred'), Sole(deferred', pending)
    PROVE  OneOutstanding'
<1>1. PICK place \in Places : OnlyAt(place) /\ (pending = 0 => place = "nowhere")
  BY DEF OneOutstanding
<1>2. OnlyAt(place)'
  BY <1>1 DEF OnlyAt, SameAsk
<1>3. AllOfThis'
  BY DEF OneOutstanding, AllOfThis, SameAsk
<1>4. pending' # 0 <=> Asks(stack')
  BY DEF OneOutstanding, SameAsk
<1> QED
  BY <1>1, <1>2, <1>3, <1>4 DEF OneOutstanding

\* What is heard leaves the request where it is.
LEMMA HearingAsk ==
    ASSUME SessionTypes, Rests \/ Accepts \/ Replies \/ Edits \/ Pops
    PROVE  SameAsk(stack, stack') /\ UNCHANGED <<pending, failure>>
<1>1. stack \in Seq(Frames)
  BY DEF SessionTypes, ControlTypes
<1>2. ASSUME NEW b \in BOOLEAN PROVE Reply(b) \in Frames /\ ~Sends(Reply(b), "request")
  BY MadeFrames DEF Reply, Sending, Sends
<1>3. CASE Rests \/ Accepts
  BY <1>3 DEF Rests, Accepts, requests, control, SameAsk
<1>4. CASE Replies
  <2>1. PICK b \in BOOLEAN : Go(phase, Append(stack, Reply(b)))
    BY <1>4 DEF Replies
  <2>2. SameAsk(stack, Append(stack, Reply(b)))
    BY <1>1, <1>2, <1>4, SameAskMore DEF Replies
  <2> QED
    BY <1>4, <2>1, <2>2 DEF Replies, Go, requests
<1>5. CASE Edits
  <2>1. PICK d \in SUBSET Docs, b \in Texts :
           Go(phase, Append(Append(stack, Reply(TRUE)), Syncing(d, b)))
    BY <1>5 DEF Edits
  <2> DEFINE s == Append(stack, Reply(TRUE))
  <2>2. TRUE \in BOOLEAN
    OBVIOUS
  <2>3. SameAsk(stack, s) /\ s \in Seq(Frames) /\ s # <<>>
    BY <1>1, <1>2, <1>5, <2>2, SameAskMore, OneMoreFrame DEF Edits
  <2>4. Syncing(d, b) \in Frames /\ ~Sends(Syncing(d, b), "request")
    BY MadeFrames DEF Syncing, Sends
  <2> HIDE DEF s
  <2>5. SameAsk(s, Append(s, Syncing(d, b)))
    BY <2>3, <2>4, SameAskMore
  <2>6. stack' = Append(s, Syncing(d, b)) /\ UNCHANGED <<pending, failure>>
    BY <1>5, <2>1 DEF Edits, Go, requests, s
  <2> QED
    BY <2>3, <2>5, <2>6 DEF SameAsk
<1>6. CASE Pops
  <2>1. SameAsk(stack, Front(stack))
    BY <1>1, <1>6, SameAskLess DEF Pops
  <2> QED
    BY <1>6, <2>1 DEF Pops, Go, Callers, requests
<1> QED
  BY <1>3, <1>4, <1>5, <1>6

\* No answer is handled like a message of the server's own.
LEMMA HandleAsk ==
    ASSUME SessionTypes, NEW m \in Said, Handle(m, stack), stack # <<>>,
           UNCHANGED <<requests, selection>>, failure' = "none"
    PROVE  SameAsk(stack, stack') /\ UNCHANGED <<pending, failure>> /\ ~Mine(m)
<1>1. Rests \/ Accepts \/ Replies \/ Edits
  BY HandleKinds DEF Stops
<1>2. m.is # "response"
  BY DEF Handle, Fail
<1> QED
  BY <1>1, <1>2, HearingAsk, SaidParts DEF Mine

\* A message is read.
LEMMA ReadAsk ==
    ASSUME SessionTypes, OneOutstanding, toClient # <<>>, Read
    PROVE  /\ Clear(toClient) => Clear(toClient')
           /\ Sole(toClient', pending)
           /\ Mine(Head(toClient)) => /\ Clear(toClient') /\ Head(toClient).id = pending
                                      /\ OnlyAt("toClient")
                                      /\ pending # 0
           /\ UNCHANGED <<toServer, owed>>
           /\ Head(toClient) \in Said /\ toClient \in Seq(Said)
<1>1. toClient \in Seq(Said)
  BY DEF SessionTypes, ServerTypes
<1>2. toClient' = Tail(toClient) /\ UNCHANGED <<toServer, owed>>
  BY DEF Read
<1>3. Sole(toClient, pending)
  BY DEF OneOutstanding, AllOfThis
<1>4. /\ Clear(toClient) => Clear(Tail(toClient)) /\ ~Mine(Head(toClient))
      /\ Sole(Tail(toClient), pending)
      /\ Mine(Head(toClient)) => Clear(Tail(toClient)) /\ Head(toClient).id = pending
  BY <1>1, <1>3, ClearLess
<1>5. PICK place \in Places : OnlyAt(place) /\ (pending = 0 => place = "nowhere")
  BY DEF OneOutstanding
<1>6. ~Clear(toClient) => place = "toClient"
  BY <1>5 DEF OnlyAt
<1> QED
  BY <1>1, <1>2, <1>4, <1>5, <1>6, HeadTailProperties

\* A message is taken.
LEMMA TakeAsk ==
    ASSUME SessionTypes, OneOutstanding, Incoming # <<>>, Take
    PROVE  /\ Clear(toClient) => Clear(toClient')
           /\ Clear(deferred) => Clear(deferred')
           /\ Sole(toClient', pending) /\ Sole(deferred', pending)
           /\ Mine(Head(Incoming)) =>
                 /\ Clear(toClient') /\ Clear(deferred') /\ Clear(writer) /\ Clear(toServer)
                 /\ Clear(owed) /\ ~Unsent(stack)
           /\ UNCHANGED <<toServer, owed>>
<1>1. CASE deferred # <<>> /\ deferred' = Tail(deferred) /\ UNCHANGED servervars
  <2>1. deferred \in Seq(Said) /\ Sole(deferred, pending) /\ Sole(toClient, pending)
    BY DEF SessionTypes, TransportTypes, OneOutstanding, AllOfThis
  <2>2. /\ Clear(deferred) => Clear(Tail(deferred)) /\ ~Mine(Head(deferred))
        /\ Sole(Tail(deferred), pending)
        /\ Mine(Head(deferred)) => Clear(Tail(deferred))
    BY <1>1, <2>1, ClearLess
  <2>3. PICK place \in Places : OnlyAt(place)
    BY DEF OneOutstanding
  <2>4. ~Clear(deferred) => place = "deferred"
    BY <2>3 DEF OnlyAt
  <2>5. Head(Incoming) = Head(deferred)
    BY <1>1, TakeTypes
  <2> QED
    BY <1>1, <2>1, <2>2, <2>3, <2>4, <2>5 DEF OnlyAt, servervars
<1>2. CASE deferred = <<>> /\ Read /\ UNCHANGED deferred
  <2>1. Head(Incoming) = Head(toClient) /\ toClient # <<>> /\ Clear(deferred)
    BY <1>2, TakeTypes, NothingIsClear
  <2>2. /\ Clear(toClient) => Clear(toClient')
        /\ Sole(toClient', pending)
        /\ Mine(Head(toClient)) => Clear(toClient') /\ OnlyAt("toClient")
        /\ UNCHANGED <<toServer, owed>>
    BY <1>2, <2>1, ReadAsk
  <2> QED
    BY <1>2, <2>1, <2>2, ClearIsSole DEF OnlyAt
<1> QED
  BY <1>1, <1>2 DEF Take

\* The session asks when nothing is outstanding.
LEMMA AskIsOutstanding ==
    ASSUME SessionTypes, NEW p \in Asking, NEW about, NEW retries,
           Ask(p, Method[p], about, retries, <<>>),
           Clear(writer'), Clear(toServer'), Clear(owed'), Clear(toClient'), Clear(deferred')
    PROVE  OneOutstanding' /\ failure' = failure
<1>1. /\ stack' # <<>> /\ pending' = nextId /\ failure' = failure
      /\ stack'[1] = [at |-> "request", method |-> Method[p], about |-> about,
                      retries |-> retries]
      /\ stack'[2] = Sending([is |-> "request", id |-> nextId, method |-> Method[p],
                              about |-> about])
  BY AskShape
<1>2. stack'[1].at = "request" /\ stack'[2].msg.id = nextId
  BY <1>1 DEF Sending
<1>3. pending' # 0 /\ Asks(stack')
  BY <1>1, <1>2 DEF SessionTypes, RequestTypes, Asks
<1>4. OnlyAt("frame")'
  BY DEF OnlyAt
<1>5. AllOfThis'
  BY <1>1, <1>2, ClearIsSole DEF AllOfThis
<1> QED
  BY <1>1, <1>3, <1>4, <1>5 DEF OneOutstanding, Places

\* Sending: a request goes from the stack to the writer.
LEMMA SendAnswers ==
    ASSUME SessionTypes, CourseInv, OneOutstanding, Send
    PROVE  OneOutstanding'
<1>1. /\ stack \in Seq(Frames) /\ stack # <<>> /\ Last(stack).at = "send"
      /\ writer \in Seq(Written)
      /\ UNCHANGED <<servervars, deferred, requests>>
  BY DEF SessionTypes, ControlTypes, TransportTypes, Send, In
<1>2. UNCHANGED <<toServer, owed, toClient, deferred, pending>>
  BY <1>1 DEF servervars, requests
<1>3. /\ Len(stack) \in Nat /\ Len(stack) >= 1 /\ Last(stack) = stack[Len(stack)]
      /\ Last(stack) \in Frames
  BY <1>1, LastAndFront
<1>4. AllOfThis
  BY DEF OneOutstanding
<1>5. CASE /\ ~Last(stack).queued
           /\ writer' = Append(writer, Last(stack).msg)
           /\ Go(phase, Append(Callers, [Last(stack) EXCEPT !.queued = TRUE]))
  <2> DEFINE m == Last(stack).msg
             f == [Last(stack) EXCEPT !.queued = TRUE]
  <2>1. m \in Written /\ f \in Frames /\ f.at = "send" /\ f.msg = m /\ f.queued
    BY <1>1, <1>3, FrameParts
  <2>2. stack' = Append(Front(stack), f)
    BY <1>5 DEF Go, Callers
  <2> HIDE DEF f
  <2>3. SameAsk(stack, stack') /\ Len(stack') = Len(stack) /\ stack' \in Seq(Frames) /\ stack' # <<>>
        /\ stack'[Len(stack)] = f
    <3>1. SameAsk(stack, stack') /\ Len(stack') = Len(stack) /\ stack' \in Seq(Frames) /\ stack' # <<>>
      BY <1>1, <2>1, <2>2, SameAskTop
    <3>2. Last(stack') = f
      BY <1>1, <2>1, <2>2, LastAndFront, OneMoreFrame
    <3>3. Last(stack') = stack'[Len(stack')]
      BY <3>1, LastAndFront
    <3> QED
      BY <3>1, <3>2, <3>3
  <2>4. CASE Mine(m)
    <3>1. m.is = "request"
      BY <2>1, <2>4 DEF Mine, Written, Requests, TextNotes
    <3>2. Len(stack) = 2
      <4>1. Len(stack) \in 1 .. Len(stack) /\ Sends(stack[Len(stack)], "request")
        BY <1>1, <1>3, <3>1 DEF Sends
      <4> QED
        BY <4>1 DEF CourseInv, StackShape, Shape
    <3>3. Unsent(stack) /\ stack[2].msg = m
      BY <1>1, <1>3, <1>5, <3>1, <3>2 DEF Unsent, Sends
    <3>4. PICK place \in Places : OnlyAt(place) /\ (pending = 0 => place = "nowhere")
      BY DEF OneOutstanding
    <3>5. place = "frame" /\ pending # 0
      BY <3>3, <3>4 DEF OnlyAt
    <3>6. Clear(writer) /\ Clear(toServer) /\ Clear(owed) /\ Clear(toClient) /\ Clear(deferred)
      BY <3>4, <3>5 DEF OnlyAt
    <3>7. ~Unsent(stack')
      BY <2>1, <2>3, <3>2 DEF Unsent
    <3>8. Sole(writer', pending)
      <4>1. m.id = pending
        BY <1>4, <3>3 DEF AllOfThis
      <4> QED
        BY <1>1, <1>5, <2>1, <3>6, <4>1, ClearMore
    <3>9. OnlyAt("writer")'
      BY <1>2, <3>6, <3>7 DEF OnlyAt
    <3>10. AllOfThis'
      BY <1>2, <1>4, <3>7, <3>8 DEF AllOfThis
    <3>11. pending' # 0 <=> Asks(stack')
      BY <1>2, <2>3 DEF OneOutstanding, SameAsk
    <3> QED
      BY <1>2, <3>5, <3>9, <3>10, <3>11 DEF OneOutstanding, Places
  <2>5. CASE ~Mine(m)
    <3>1. (Clear(writer) => Clear(writer')) /\ Sole(writer', pending)
      BY <1>1, <1>4, <1>5, <2>1, <2>5, ClearMore DEF AllOfThis
    <3> QED
      BY <1>2, <1>4, <2>3, <3>1, StillOutstanding DEF AllOfThis
  <2> QED
    BY <2>4, <2>5
<1>6. CASE Go(phase, Callers) /\ UNCHANGED writer
  <2>1. SameAsk(stack, stack')
    BY <1>1, <1>6, SameAskLess DEF Go, Callers
  <2> QED
    BY <1>2, <1>4, <1>6, <2>1, StillOutstanding DEF AllOfThis
<1> QED
  BY <1>5, <1>6 DEF Send

\* What is put aside goes from the pipe to the deferred events.
LEMMA PutAsideAnswers ==
    ASSUME SessionTypes, OneOutstanding, toClient # <<>>, Read,
           UNCHANGED <<writer, pending>>, SameAsk(stack, stack'),
           \/ deferred' = Append(deferred, Head(toClient))
           \/ deferred = <<>> /\ deferred' = <<Head(toClient)>>
    PROVE  OneOutstanding'
<1>1. /\ Clear(toClient) => Clear(toClient')
      /\ Sole(toClient', pending)
      /\ Mine(Head(toClient)) => /\ Clear(toClient') /\ Head(toClient).id = pending
                                 /\ OnlyAt("toClient") /\ pending # 0
      /\ UNCHANGED <<toServer, owed>>
      /\ Head(toClient) \in Said /\ deferred \in Seq(Said)
  BY ReadAsk DEF SessionTypes, TransportTypes
<1>2. deferred' = Append(deferred, Head(toClient))
  <2> DEFINE h == Head(toClient)
  <2>1. Append(<<>>, h) = <<h>>
    <3> HIDE DEF h
    <3>1. Append(<<>>, h) \in Seq({h}) /\ <<h>> \in Seq({h})
      OBVIOUS
    <3>2. Len(Append(<<>>, h)) = 1 /\ Len(<<h>>) = 1 /\ Append(<<>>, h)[1] = h /\ <<h>>[1] = h
      OBVIOUS
    <3> QED
      BY <3>1, <3>2, SeqEqual
  <2> QED
    BY <2>1
<1>3. AllOfThis
  BY DEF OneOutstanding
<1>4. CASE ~Mine(Head(toClient))
  <2>1. (Clear(deferred) => Clear(deferred')) /\ Sole(deferred', pending)
    BY <1>1, <1>2, <1>3, <1>4, ClearMore DEF AllOfThis
  <2> QED
    BY <1>1, <1>3, <2>1, StillOutstanding DEF AllOfThis
<1>5. CASE Mine(Head(toClient))
  <2>1. /\ Clear(toClient') /\ Clear(deferred) /\ Clear(writer) /\ Clear(toServer) /\ Clear(owed)
        /\ ~Unsent(stack) /\ pending # 0
    BY <1>1, <1>5 DEF OnlyAt
  <2>2. Sole(deferred', pending)
    BY <1>1, <1>2, <1>5, <2>1, ClearMore
  <2>3. OnlyAt("deferred")'
    BY <1>1, <2>1 DEF OnlyAt, SameAsk
  <2>4. AllOfThis'
    BY <1>1, <2>1, <2>2, ClearIsSole DEF AllOfThis, SameAsk
  <2>5. pending' # 0 <=> Asks(stack')
    BY DEF OneOutstanding, SameAsk
  <2> QED
    BY <2>1, <2>3, <2>4, <2>5 DEF OneOutstanding, Places
<1> QED
  BY <1>4, <1>5

\* The writer writes: a request goes from the writer into the pipe.
LEMMA WriterAnswers ==
    ASSUME SessionTypes, OneOutstanding, WriterWrites
    PROVE  OneOutstanding'
<1>1. /\ writer # <<>> /\ toServer' = Append(toServer, Head(writer)) /\ writer' = Tail(writer)
      /\ UNCHANGED <<toClient, owed, deferred, requests, control>>
  BY DEF WriterWrites
<1>2. /\ writer \in Seq(Written) /\ toServer \in Seq(Written)
  BY DEF SessionTypes, ServerTypes, TransportTypes
<1>3. Head(writer) \in Written /\ AllOfThis /\ UNCHANGED <<pending, stack>>
  BY <1>1, <1>2, HeadTailProperties DEF OneOutstanding, requests, control
<1>4. SameAsk(stack, stack')
  BY <1>3 DEF SameAsk
<1>5. /\ Clear(writer) => Clear(writer') /\ ~Mine(Head(writer))
      /\ Sole(writer', pending)
      /\ Mine(Head(writer)) => Clear(writer') /\ Head(writer).id = pending
  BY <1>1, <1>2, <1>3, ClearLess DEF AllOfThis
<1>6. CASE ~Mine(Head(writer))
  <2>1. (Clear(toServer) => Clear(toServer')) /\ Sole(toServer', pending)
    BY <1>1, <1>2, <1>3, <1>6, ClearMore DEF AllOfThis
  <2> QED
    BY <1>1, <1>3, <1>4, <1>5, <2>1, StillOutstanding DEF AllOfThis
<1>7. CASE Mine(Head(writer))
  <2>1. PICK place \in Places : OnlyAt(place) /\ (pending = 0 => place = "nowhere")
    BY DEF OneOutstanding
  <2>2. place = "writer" /\ pending # 0
    BY <1>5, <1>7, <2>1 DEF OnlyAt
  <2>3. /\ Clear(toServer) /\ Clear(owed) /\ Clear(toClient) /\ Clear(deferred) /\ ~Unsent(stack)
    BY <2>1, <2>2 DEF OnlyAt
  <2>4. Sole(toServer', pending) /\ Clear(writer')
    BY <1>1, <1>2, <1>3, <1>5, <1>7, <2>3, ClearMore
  <2>5. OnlyAt("toServer")'
    BY <1>1, <1>3, <2>3, <2>4 DEF OnlyAt
  <2>6. AllOfThis'
    BY <1>1, <1>3, <1>5, <2>3, <2>4 DEF AllOfThis
  <2> QED
    BY <1>3, <2>2, <2>5, <2>6 DEF OneOutstanding, Places
<1> QED
  BY <1>6, <1>7

\* The server: a request goes from the pipe to what it owes, and an answer to it
\* into the other pipe; nothing else that it says is an answer.
LEMMA ServerStepAnswers ==
    ASSUME SessionTypes, OneOutstanding, ServerStep, UNCHANGED <<transport, requests, control>>
    PROVE  OneOutstanding'
<1>1. /\ toServer \in Seq(Written) /\ toClient \in Seq(Said) /\ owed \in Seq(Requests)
      /\ AllOfThis /\ UNCHANGED <<writer, deferred, pending, stack>>
  BY DEF SessionTypes, ServerTypes, OneOutstanding, transport, requests, control
<1>2. SameAsk(stack, stack')
  BY <1>1 DEF SameAsk
<1>3. PICK place \in Places : OnlyAt(place) /\ (pending = 0 => place = "nowhere")
  BY DEF OneOutstanding
<1>4. CASE ServerReads
  <2> DEFINE m == Head(toServer)
  <2>1. /\ toServer # <<>> /\ toServer' = Tail(toServer) /\ UNCHANGED toClient
        /\ owed' = IF m.is = "request" THEN Append(owed, m) ELSE owed
    BY <1>4 DEF ServerReads
  <2>2. /\ Clear(toServer) => Clear(toServer') /\ ~Mine(m)
        /\ Sole(toServer', pending)
        /\ Mine(m) => Clear(toServer') /\ m.id = pending
    BY <1>1, <2>1, ClearLess DEF AllOfThis
  <2>3. m \in Written
    BY <1>1, <2>1, HeadTailProperties
  <2> HIDE DEF m
  <2>4. CASE m.is # "request"
    BY <1>1, <1>2, <2>1, <2>2, <2>4, StillOutstanding DEF AllOfThis
  <2>5. CASE m.is = "request"
    <3>1. Mine(m) /\ m \in Requests /\ owed' = Append(owed, m)
      BY <2>1, <2>3, <2>5 DEF Mine, Written, TextNotes
    <3>2. place = "toServer" /\ pending # 0
      BY <1>3, <2>2, <3>1 DEF OnlyAt
    <3>3. /\ Clear(owed) /\ Clear(writer) /\ Clear(toClient) /\ Clear(deferred) /\ ~Unsent(stack)
      BY <1>3, <3>2 DEF OnlyAt
    <3>4. Sole(owed', pending) /\ Clear(toServer')
      BY <1>1, <2>2, <3>1, <3>3, ClearMore
    <3>5. OnlyAt("owed")'
      BY <1>1, <2>1, <3>3, <3>4 DEF OnlyAt
    <3>6. AllOfThis'
      BY <1>1, <2>1, <2>2, <3>3, <3>4 DEF AllOfThis
    <3>7. pending' # 0 <=> Asks(stack')
      BY <1>1 DEF OneOutstanding
    <3> QED
      BY <1>1, <3>2, <3>5, <3>6, <3>7 DEF OneOutstanding, Places
  <2> QED
    BY <2>4, <2>5
<1>5. CASE ServerAnswers
  <2> DEFINE r == Head(owed)
  <2>1. /\ owed # <<>> /\ owed' = Tail(owed) /\ UNCHANGED toServer
        /\ \E o, a : Write(Response(o, a))
    BY <1>5 DEF ServerAnswers
  <2>2. PICK o, a : Write(Response(o, a))
    BY <2>1
  <2> DEFINE m == Response(o, a)
  <2>3. toClient' = Append(toClient, m) /\ Mine(m) /\ m.id = r.id
    BY <2>2 DEF Write, Response, Mine
  <2>4. r \in Requests
    BY <1>1, <2>1, HeadTailProperties
  <2>5. Mine(r)
    BY <2>4 DEF Mine, Requests
  <2> HIDE DEF r
  <2>6. Clear(owed') /\ r.id = pending /\ ~Clear(owed)
    BY <1>1, <2>1, <2>5, ClearLess DEF AllOfThis, r
  <2>7. place = "owed" /\ pending # 0
    BY <1>3, <2>6 DEF OnlyAt
  <2>8. /\ Clear(toServer) /\ Clear(writer) /\ Clear(toClient) /\ Clear(deferred) /\ ~Unsent(stack)
    BY <1>3, <2>7 DEF OnlyAt
  <2> HIDE DEF m
  <2>9. Sole(toClient', pending)
    <3>1. toClient \in Seq(Said \cup {m})
      BY <1>1
    <3> QED
      BY <2>3, <2>6, <2>8, <3>1, ClearMore
  <2>10. OnlyAt("toClient")'
    BY <1>1, <2>1, <2>6, <2>8 DEF OnlyAt
  <2>11. AllOfThis'
    BY <1>1, <2>1, <2>6, <2>8, <2>9, ClearIsSole DEF AllOfThis
  <2>12. pending' # 0 <=> Asks(stack')
    BY <1>1 DEF OneOutstanding
  <2> QED
    BY <1>1, <2>7, <2>10, <2>11, <2>12 DEF OneOutstanding, Places
<1>6. ASSUME NEW m \in Said, ~Mine(m), Unasked(m) PROVE OneOutstanding'
  <2>1. toClient' = Append(toClient, m) /\ UNCHANGED <<toServer, owed>>
    BY <1>6 DEF Unasked, Write
  <2>2. (Clear(toClient) => Clear(toClient')) /\ Sole(toClient', pending)
    BY <1>1, <1>6, <2>1, ClearMore DEF AllOfThis
  <2> QED
    BY <1>1, <1>2, <2>1, <2>2, StillOutstanding DEF AllOfThis
<1>7. CASE \E d \in Docs : ServerPublishes(d)
  <2>1. PICK d \in Docs : ServerPublishes(d)
    BY <1>7
  <2>2. PICK base \in 0 .. known[d] \cup {0}, problem \in BOOLEAN :
           \E v \in {base, None} : Unasked(Publication(d, base, v, problem))
    BY <2>1 DEF ServerPublishes
  <2>3. PICK v \in {base, None} : Unasked(Publication(d, base, v, problem))
    BY <2>2
  <2>4. base \in Nat
    BY DEF SessionTypes, ServerTypes, Texts, Closed
  <2>5. Publication(d, base, v, problem) \in Said /\ ~Mine(Publication(d, base, v, problem))
    BY <2>4 DEF Publication, Said, Publications, Mine
  <2> QED
    BY <1>6, <2>3, <2>5
<1>8. CASE ServerAsks
  <2>1. [is |-> "ask"] \in Said /\ ~Mine([is |-> "ask"])
    BY DEF Said, Mine
  <2> QED
    BY <1>6, <1>8, <2>1 DEF ServerAsks
<1>9. CASE \E d \in (SUBSET Docs) \ {{}} : ServerEdits(d)
  <2>1. PICK d \in SUBSET Docs : Unasked([is |-> "edit", docs |-> d, base |-> known])
    BY <1>9 DEF ServerEdits
  <2>2. /\ [is |-> "edit", docs |-> d, base |-> known] \in Said
        /\ ~Mine([is |-> "edit", docs |-> d, base |-> known])
    BY DEF SessionTypes, ServerTypes, Said, EditAsks, Mine
  <2> QED
    BY <1>6, <2>1, <2>2
<1> QED
  BY <1>4, <1>5, <1>7, <1>8, <1>9 DEF ServerStep

\* Hearing: whatever fails, fails; the rest leaves at most one request outstanding.
LEMMA HearingAnswers ==
    ASSUME SessionTypes, CourseInv, OneOutstanding, Hearing, failure' = "none"
    PROVE  OneOutstanding'
<1>1. AllOfThis
  BY DEF OneOutstanding
<1>2. ASSUME NEW why, why # "none", Fail(why) PROVE FALSE
  BY <1>2 DEF Fail
<1>3. CASE Send
  BY <1>3, SendAnswers
<1>4. CASE Pump
  <2>1. /\ toClient # <<>> /\ stack # <<>> /\ Read
        /\ UNCHANGED <<writer, requests, selection>>
    BY <1>4 DEF Pump, Pumping, In
  <2>2. CASE Handle(Head(toClient), stack) /\ UNCHANGED deferred
    <3>1. /\ Clear(toClient) => Clear(toClient')
          /\ Sole(toClient', pending)
          /\ UNCHANGED <<toServer, owed>>
          /\ Head(toClient) \in Said
      BY <2>1, ReadAsk
    <3>2. SameAsk(stack, stack') /\ UNCHANGED pending
      BY <2>1, <2>2, <3>1, HandleAsk
    <3> QED
      BY <1>1, <2>1, <2>2, <3>1, <3>2, StillOutstanding DEF AllOfThis
  <2>3. CASE /\ deferred' = Append(deferred, Head(toClient))
             /\ UNCHANGED <<diagnostics, edits, control>>
    <3>1. SameAsk(stack, stack') /\ UNCHANGED pending
      BY <2>1, <2>3 DEF SameAsk, control, requests
    <3> QED
      BY <2>1, <2>3, <3>1, PutAsideAnswers
  <2> QED
    BY <1>2, <1>4, <2>2, <2>3 DEF Pump
<1>5. CASE WaitForDiagnostics \/ DrainServerEvents \/ RequestHandles
  <2>1. UNCHANGED <<writer, requests, selection>> /\ stack # <<>> /\ stack \in Seq(Frames)
    BY <1>5 DEF WaitForDiagnostics, DrainServerEvents, RequestHandles, In, SessionTypes, ControlTypes
  <2>2. CASE Incoming # <<>> /\ Take /\ Handle(Head(Incoming), stack)
    <3>1. /\ Clear(toClient) => Clear(toClient')
          /\ Clear(deferred) => Clear(deferred')
          /\ Sole(toClient', pending) /\ Sole(deferred', pending)
          /\ UNCHANGED <<toServer, owed>>
      BY <2>2, TakeAsk
    <3>2. SameAsk(stack, stack') /\ UNCHANGED pending
      BY <2>1, <2>2, TakeTypes, HandleAsk
    <3> QED
      BY <1>1, <2>1, <3>1, <3>2, StillOutstanding DEF AllOfThis
  <2>3. ASSUME Last(stack).at \in {"wait", "drain"}, Go(phase, Callers)
        PROVE  SameAsk(stack, stack') /\ UNCHANGED pending
    <3>1. Last(stack).at # "request"
      BY <2>3
    <3> QED
      BY <2>1, <2>3, <3>1, SameAskLess DEF Go, Callers, requests
  <2>4. CASE /\ Last(stack).at \in {"wait", "drain"}
             /\ Go(phase, Callers) /\ UNCHANGED <<servervars, deferred>>
    BY <1>1, <2>1, <2>3, <2>4, StillOutstanding DEF AllOfThis, servervars
  <2>5. CASE /\ Last(stack).at = "drain" /\ Incoming # <<>> /\ deferred = <<>> /\ Read
             /\ deferred' = <<Head(toClient)>> /\ Go(phase, Callers)
    <3>1. toClient # <<>>
      BY <2>5, TakeTypes
    <3> QED
      BY <2>1, <2>3, <2>5, <3>1, PutAsideAnswers
  <2> QED
    BY <1>5, <2>2, <2>4, <2>5 DEF WaitForDiagnostics, DrainServerEvents, RequestHandles, In
<1>6. CASE Retry
  <2>1. /\ In("request") /\ Incoming # <<>> /\ Take /\ UNCHANGED writer
        /\ Head(Incoming).is = "response"
    BY <1>6 DEF Retry, Answered
  <2>2. /\ Callers = <<>> /\ phase \in Asking /\ Last(stack).method = Method[phase]
    BY <2>1, RequestIsAlone DEF CourseInv
  <2>3. Ask(phase, Method[phase], Last(stack).about, Last(stack).retries + 1, <<>>)
    BY <1>2, <1>6, <2>2 DEF Retry
  <2>4. /\ Clear(toClient') /\ Clear(deferred') /\ Clear(writer) /\ Clear(toServer) /\ Clear(owed)
        /\ UNCHANGED <<toServer, owed>>
    BY <2>1, TakeAsk DEF Mine
  <2> QED
    BY <2>1, <2>2, <2>3, <2>4, AskIsOutstanding
<1>7. CASE Disconnected
  BY <1>2, <1>7 DEF Disconnected
<1>8. CASE Deadline
  BY <1>8 DEF Deadline
<1>9. CASE Crash \/ UNCHANGED vars
  <2>1. UNCHANGED <<toServer, toClient, owed, writer, deferred, pending, stack>>
    BY <1>9 DEF Crash, vars, servervars, transport, requests, control
  <2> QED
    BY <1>1, <2>1, StillOutstanding DEF AllOfThis, SameAsk
<1>10. CASE WriterWrites
  BY <1>10, WriterAnswers
<1>11. CASE ServerActs
  BY <1>11, ServerStepAnswers DEF ServerActs
<1> QED
  BY <1>3, <1>4, <1>5, <1>6, <1>7, <1>8, <1>9, <1>10, <1>11 DEF Hearing

\* An idle session has nothing outstanding.
LEMMA IdleIsClear ==
    ASSUME OneOutstanding, stack = <<>>
    PROVE  /\ pending = 0 /\ Clear(writer) /\ Clear(toServer) /\ Clear(owed)
           /\ Clear(toClient) /\ Clear(deferred)
<1>1. pending = 0
  BY DEF OneOutstanding, Asks
<1>2. OnlyAt("nowhere")
  BY <1>1 DEF OneOutstanding
<1> QED
  BY <1>1, <1>2 DEF OnlyAt

\* With nothing pending, and nothing of a request anywhere, nothing is outstanding.
LEMMA ClearIsOutstanding ==
    ASSUME pending' = 0, ~Asks(stack'), ~Unsent(stack'),
           Clear(writer'), Clear(toServer'), Clear(owed'), Clear(toClient'), Clear(deferred')
    PROVE  OneOutstanding'
<1>1. OnlyAt("nowhere")'
  BY DEF OnlyAt
<1>2. AllOfThis'
  BY ClearIsSole DEF AllOfThis
<1> QED
  BY <1>1, <1>2 DEF OneOutstanding, Places

\* Frames that ask for nothing.
Silent(s) == ~Asks(s) /\ ~Unsent(s)

\* The frames that the course makes, but for requests.
LEMMA SilentFrames ==
    /\ Silent(<<>>) /\ Silent(<<Waiting>>) /\ Silent(<<Sending([is |-> "note"])>>)
    /\ \A d, b : Silent(Append(<<>>, Syncing(d, b)))
    /\ \A note : note.is = "text" => Silent(<<Draining, Sending(note)>>)
BY DEF Silent, Asks, Unsent, Sends, Waiting, Sending, Syncing, Draining

\* The course asks when nothing is outstanding, and takes its answer whole.
LEMMA CourseAnswers ==
    ASSUME SessionTypes, CourseInv, OneOutstanding, failure' = "none",
           \/ Negotiate \/ OpenDocuments \/ Search \/ QueryActions \/ Offered \/ Resolve \/ Select
           \/ ApplyEdit \/ ExecuteCommand \/ Applied \/ Converged \/ Shutdown \/ Reap \/ NotifyExit
    PROVE  OneOutstanding'
<1>1. ASSUME stack = <<>>, NEW p \in Asking, NEW about, Ask(p, Method[p], about, 0, <<>>),
             UNCHANGED <<servervars, transport>>
      PROVE  OneOutstanding'
  <2>1. /\ Clear(writer') /\ Clear(toServer') /\ Clear(owed') /\ Clear(toClient')
        /\ Clear(deferred')
    BY <1>1, IdleIsClear DEF servervars, transport
  <2> QED
    BY <1>1, <2>1, AskIsOutstanding
<1>2. ASSUME stack = <<>>, NEW p, NEW frames, Go(p, frames), Silent(frames),
             UNCHANGED <<servervars, transport, requests>>
      PROVE  OneOutstanding'
  <2>1. /\ Clear(writer') /\ Clear(toServer') /\ Clear(owed') /\ Clear(toClient')
        /\ Clear(deferred') /\ pending' = 0 /\ stack' = frames
    BY <1>2, IdleIsClear DEF servervars, transport, requests, Go
  <2> QED
    BY <1>2, <2>1, ClearIsOutstanding DEF Silent
<1>3. ASSUME NEW m, NEW p, NEW frames, Result(m, p, frames), Silent(frames)
      PROVE  OneOutstanding'
  <2>1. /\ Incoming # <<>> /\ Take /\ Head(Incoming).is = "response" /\ UNCHANGED writer
        /\ pending' = 0 /\ stack' = frames
    BY <1>3 DEF Result, Answered, Go
  <2>2. /\ Clear(toClient') /\ Clear(deferred') /\ Clear(writer) /\ Clear(toServer) /\ Clear(owed)
        /\ UNCHANGED <<toServer, owed>>
    BY <2>1, TakeAsk DEF Mine
  <2> QED
    BY <1>3, <2>1, <2>2, ClearIsOutstanding DEF Silent
<1>4. ASSUME NEW why, why # "none", Fail(why) PROVE FALSE
  BY <1>4 DEF Fail
<1>5. Asking = {"negotiate", "query", "select", "command", "shutdown"}
      /\ Method["negotiate"] = "initialize" /\ Method["query"] = "codeAction"
      /\ Method["select"] = "resolve" /\ Method["command"] = "command"
      /\ Method["shutdown"] = "shutdown"
  BY DEF Asking, Method
<1>6. CASE Negotiate
  <2>1. CASE Idle("start") /\ Ask("negotiate", "initialize", Nothing, 0, <<>>) /\ SettingUp
    BY <1>1, <1>5, <2>1 DEF Idle, SettingUp
  <2>2. CASE Result("initialize", "open", <<Sending([is |-> "note"])>>)
    BY <1>3, <2>2, SilentFrames
  <2> QED
    BY <1>6, <2>1, <2>2 DEF Negotiate
<1>7. CASE OpenDocuments
  <2>1. stack = <<>> /\ UNCHANGED <<servervars, transport, requests>>
    BY <1>7 DEF OpenDocuments, Idle, SettingUp
  <2>2. \/ \E note : /\ Go("open", <<Draining, Sending(note)>>)
                     /\ note.is = "text"
        \/ Go("settle", <<Waiting>>)
        \/ Go("search", <<>>)
    BY <1>7 DEF OpenDocuments
  <2> QED
    BY <1>2, <2>1, <2>2, SilentFrames
<1>8. CASE Search
  BY <1>2, <1>8, SilentFrames DEF Search, Idle
<1>9. CASE QueryActions
  BY <1>1, <1>5, <1>9 DEF QueryActions, Idle
<1>10. CASE Offered
  BY <1>3, <1>10, SilentFrames DEF Offered
<1>11. CASE Resolve
  <2>1. stack = <<>> /\ UNCHANGED <<servervars, transport>> /\ \E a : Ask("select", "resolve", a, 0, <<>>)
    BY <1>11 DEF Resolve, Idle
  <2> QED
    BY <1>1, <1>5, <2>1
<1>12. CASE Select
  <2>1. stack = <<>> /\ UNCHANGED <<servervars, transport, requests>>
    BY <1>12 DEF Select, Idle
  <2>2. Fail("repeated") \/ Fail("iterations") \/ Go("apply", <<>>) \/ Go("query", <<>>)
    BY <1>12 DEF Select
  <2> QED
    BY <1>2, <1>4, <2>1, <2>2, SilentFrames
<1>13. CASE ApplyEdit
  <2>1. stack = <<>> /\ UNCHANGED <<servervars, transport, requests>>
    BY <1>13 DEF ApplyEdit, Idle
  <2>2. CASE Go("applied", Append(<<>>, Syncing(chosen.action.docs, chosen.action.base)))
    BY <1>2, <2>1, <2>2, SilentFrames
  <2>3. CASE Fail(IF applying THEN "nested" ELSE "apply")
    <3>1. (IF applying THEN "nested" ELSE "apply") # "none"
      OBVIOUS
    <3> QED
      BY <1>4, <2>3, <3>1
  <2> QED
    BY <1>13, <2>2, <2>3 DEF ApplyEdit, Apply
<1>14. CASE ExecuteCommand
  <2>1. CASE Idle("apply") /\ Ask("command", "command", Nothing, 0, <<>>)
             /\ UNCHANGED <<servervars, transport>>
    BY <1>1, <1>5, <2>1 DEF Idle
  <2>2. CASE Result("command", "applied", <<>>)
    BY <1>3, <2>2, SilentFrames
  <2> QED
    BY <1>14, <2>1, <2>2 DEF ExecuteCommand
<1>15. CASE Applied
  <2>1. stack = <<>> /\ UNCHANGED <<servervars, transport, requests>>
    BY <1>15 DEF Applied, Idle
  <2>2. Fail("unchanged") \/ Go("search", <<Waiting>>)
    BY <1>15 DEF Applied
  <2> QED
    BY <1>2, <1>4, <2>1, <2>2, SilentFrames
<1>16. CASE Converged \/ Reap
  <2>1. /\ stack = <<>> /\ UNCHANGED <<servervars, transport, requests>>
        /\ \E p : Go(p, <<>>)
    BY <1>16 DEF Converged, Reap, Idle, SettingUp
  <2> QED
    BY <1>2, <2>1, SilentFrames
<1>17. CASE Shutdown
  <2>1. CASE Idle("shutdown") /\ Ask("shutdown", "shutdown", Nothing, 0, <<>>) /\ SettingUp
    BY <1>1, <1>5, <2>1 DEF Idle, SettingUp
  <2>2. CASE Result("shutdown", "exit", <<>>)
    BY <1>3, <2>2, SilentFrames
  <2> QED
    BY <1>17, <2>1, <2>2 DEF Shutdown
<1>18. CASE NotifyExit
  <2>1. /\ stack = <<>> /\ UNCHANGED <<servervars, deferred, requests>>
        /\ Go("exiting", <<>>) \/ Go("reap", <<>>)
        /\ writer' = writer \/ writer' = Append(writer, [is |-> "exit"])
    BY <1>18 DEF NotifyExit, Idle
  <2>2. /\ Clear(writer) /\ Clear(toServer') /\ Clear(owed') /\ Clear(toClient')
        /\ Clear(deferred') /\ pending' = 0 /\ stack' = <<>>
    BY <2>1, IdleIsClear DEF servervars, requests, Go
  <2>3. Clear(writer')
    <3>1. [is |-> "exit"] \in Written /\ ~Mine([is |-> "exit"]) /\ writer \in Seq(Written)
      BY MadeMessages DEF Mine, SessionTypes, TransportTypes
    <3> QED
      BY <2>1, <2>2, <3>1, ClearMore
  <2> QED
    BY <2>2, <2>3, SilentFrames, ClearIsOutstanding DEF Silent
<1> QED
  BY <1>6, <1>7, <1>8, <1>9, <1>10, <1>11, <1>12, <1>13, <1>14, <1>15, <1>16, <1>17, <1>18

\* An edit is synchronized while the request waits below.
LEMMA SynchronizeAnswers ==
    ASSUME SessionTypes, OneOutstanding, Synchronize
    PROVE  OneOutstanding'
<1>1. /\ stack \in Seq(Frames) /\ stack # <<>> /\ Last(stack).at = "sync"
      /\ UNCHANGED <<toServer, owed, toClient, writer, deferred, pending>>
  BY DEF SessionTypes, ControlTypes, Synchronize, In, servervars, transport, requests
<1>2. Last(stack) \in Frames /\ Callers \in Seq(Frames) /\ Last(stack).at # "request"
  BY <1>1, LastAndFront DEF Callers
<1>3. SameAsk(stack, stack')
  <2>1. CASE Last(stack).docs # {}
    <3> DEFINE d == Min(Last(stack).docs)
               rest == [Last(stack) EXCEPT !.docs = Last(stack).docs \ {d}]
               note == [is |-> "text", doc |-> d, version |-> version'[d]]
               last == Sending(note)
               s == Append(Callers, rest)
               t == Append(s, Draining)
    <3>1. Last(stack).docs \subseteq Docs
      BY <1>1, <1>2, FrameParts
    <3>2. d \in Docs
      BY <2>1, <3>1, MinIsIn, ServerAssumption
    <3>3. Last(stack).docs \ {d} \in SUBSET Docs
      BY <3>1
    <3>4. /\ version' = [version EXCEPT ![d] = version[d] + 1]
          /\ stack' = Callers \o <<rest, Draining, last>>
      BY <2>1 DEF Synchronize, Go
    <3> HIDE DEF d
    <3>5. version'[d] \in Nat
      BY <3>2, <3>4 DEF SessionTypes, DiagnosticTypes, Texts, Closed
    <3>6. last \in Frames /\ ~Sends(last, "request")
      BY <3>2, <3>5, MadeFrames, MadeMessages DEF Sends, Sending
    <3>7. rest \in Frames /\ rest.at = "sync"
      BY <1>1, <1>2, <3>3, FrameParts
    <3>8. Draining \in Frames /\ Draining.at = "drain"
      BY MadeFrames DEF Draining
    <3> HIDE DEF rest, note, last
    <3>9. stack' = Append(t, last)
      BY <1>2, <3>4, <3>6, <3>7, <3>8
    <3>10. SameAsk(stack, s) /\ s \in Seq(Frames) /\ s # <<>>
      BY <1>1, <1>2, <3>7, SameAskTop DEF Sends, Callers
    <3> HIDE DEF s
    <3>11. SameAsk(s, t) /\ t \in Seq(Frames) /\ t # <<>>
      BY <3>8, <3>10, SameAskMore, OneMoreFrame DEF Sends
    <3> HIDE DEF t
    <3>12. SameAsk(t, stack')
      BY <3>6, <3>9, <3>11, SameAskMore
    <3> QED
      BY <3>10, <3>11, <3>12 DEF SameAsk
  <2>2. CASE Go(phase, Callers)
    BY <1>1, <1>2, <2>2, SameAskLess DEF Go, Callers
  <2> QED
    BY <2>1, <2>2 DEF Synchronize
<1> QED
  BY <1>1, <1>3, StillOutstanding DEF OneOutstanding, AllOfThis

\* Only the first error counts, and it is not an answer that does not match.
Matched == failure' = failure \/ (failure = "none" /\ failure' \notin {"none", "mismatch"})

\* No message of the server is a mismatch but an answer.
LEMMA HandleMatched ==
    ASSUME NEW m, NEW frames, Handle(m, frames), failure = "none" => m.is # "response"
    PROVE  Matched
<1>1. ASSUME NEW why, why \notin {"none", "mismatch"}, Fail(why) PROVE Matched
  BY <1>1 DEF Fail, Matched
<1>2. ASSUME NEW p, NEW f, Go(p, f) PROVE Matched
  BY <1>2 DEF Go, Matched
<1>3. CASE Publish(m, frames)
  <2>1. Fail("early") \/ Go(phase, frames)
    BY <1>3 DEF Publish
  <2> QED
    BY <1>1, <1>2, <2>1
<1>4. CASE Fail("nesting")
  BY <1>1, <1>4
<1>5. CASE Go(phase, Append(frames, Reply(TRUE)))
  BY <1>2, <1>5
<1>6. CASE ServeEdit(m, frames)
  <2>1. CASE Go(phase, Append(frames, Reply(FALSE)))
    BY <1>2, <2>1
  <2>2. CASE Apply(phase, "seen", m.docs, m.base, Append(frames, Reply(TRUE)))
    <3>1. CASE Go(phase, Append(Append(frames, Reply(TRUE)), Syncing(m.docs, m.base)))
      BY <1>2, <3>1
    <3>2. CASE Fail(IF applying THEN "nested" ELSE "apply")
      <4>1. (IF applying THEN "nested" ELSE "apply") \notin {"none", "mismatch"}
        OBVIOUS
      <4> QED
        BY <1>1, <3>2, <4>1
    <3> QED
      BY <2>2, <3>1, <3>2 DEF Apply
  <2> QED
    BY <1>6, <2>1, <2>2 DEF ServeEdit
<1>7. CASE m.is = "response" /\ Fail("mismatch")
  <2>1. failure # "none"
    BY <1>7
  <2> QED
    BY <1>7, <2>1 DEF Fail, Matched
<1> QED
  BY <1>3, <1>4, <1>5, <1>6, <1>7 DEF Handle

\* The message that is taken is no answer if none is awaited, and the one that is
\* awaited otherwise.
LEMMA AnswersWanted ==
    ASSUME SessionTypes, CourseInv, OneOutstanding, Incoming # <<>>
    PROVE  /\ Head(Incoming) \in Said
           /\ Head(Incoming).is = "response" =>
                 /\ Head(Incoming).id = pending
                 /\ Head(Incoming).outcome \in {"result", "modified"}
                 /\ pending # 0
<1>1. /\ deferred \in Seq(Said) /\ toClient \in Seq(Said)
      /\ Sole(deferred, pending) /\ Sole(toClient, pending)
  BY DEF SessionTypes, TransportTypes, ServerTypes, OneOutstanding, AllOfThis
<1>2. Head(Incoming) \in Said
  BY TakeTypes
<1>3. ASSUME Mine(Head(Incoming))
      PROVE  Head(Incoming).id = pending /\ (~Clear(deferred) \/ ~Clear(toClient))
  <2>1. CASE deferred # <<>>
    <3>1. Head(Incoming) = Head(deferred)
      BY <2>1, TakeTypes
    <3> QED
      BY <1>1, <1>3, <2>1, <3>1, ClearLess
  <2>2. CASE deferred = <<>>
    <3>1. Head(Incoming) = Head(toClient) /\ toClient # <<>>
      BY <2>2, TakeTypes
    <3> QED
      BY <1>1, <1>3, <3>1, ClearLess
  <2> QED
    BY <2>1, <2>2
<1>4. pending = 0 => Clear(deferred) /\ Clear(toClient)
  BY DEF OneOutstanding, OnlyAt
<1> QED
  BY <1>2, <1>3, <1>4, SaidParts DEF Mine, Responses

\* A wait is the only frame there is, and awaits no answer.
LEMMA WaitAwaitsNothing ==
    ASSUME SessionTypes, CourseInv, OneOutstanding, In("wait")
    PROVE  pending = 0
<1>1. stack \in Seq(Frames) /\ stack # <<>> /\ Last(stack).at = "wait"
  BY DEF In, SessionTypes, ControlTypes
<1>2. Len(stack) \in Nat /\ Len(stack) >= 1 /\ Last(stack) = stack[Len(stack)]
  BY <1>1, LastAndFront
<1>3. ~(Len(stack) >= 2)
  <2> SUFFICES ASSUME Len(stack) >= 2 PROVE FALSE
    OBVIOUS
  <2>1. Len(stack) \in 2 .. Len(stack)
    BY <1>2
  <2> QED
    BY <1>1, <1>2, <2>1 DEF CourseInv, StackShape, Shape
<1>4. stack[1].at = "wait"
  <2>1. Len(stack) = 1
    BY <1>2, <1>3
  <2> QED
    BY <1>1, <1>2, <2>1
<1> QED
  BY <1>1, <1>4 DEF OneOutstanding, Asks

\* What is heard is no mismatch.
LEMMA HearingMatches ==
    ASSUME SessionTypes, CourseInv, failure = "none" => OneOutstanding, Hearing
    PROVE  Matched
<1>1. ASSUME NEW why, why \notin {"none", "mismatch"}, Fail(why) PROVE Matched
  BY <1>1 DEF Fail, Matched
<1>2. ASSUME NEW p, NEW f, Go(p, f) PROVE Matched
  BY <1>2 DEF Go, Matched
<1>3. failure = "none" /\ Incoming # <<>> /\ Head(Incoming).is = "response" =>
          /\ Head(Incoming).id = pending
          /\ Head(Incoming).outcome \in {"result", "modified"} /\ pending # 0
  BY AnswersWanted
<1>4. CASE Send
  BY <1>2, <1>4 DEF Send
<1>5. CASE Pump
  <2>1. toClient # <<>> /\ toClient \in Seq(Said)
    BY <1>5 DEF Pump, Pumping, SessionTypes, ServerTypes
  <2>2. CASE ~PutAside(Head(toClient)) /\ Handle(Head(toClient), stack)
    <3>1. ASSUME failure = "none" PROVE Head(toClient).is # "response"
      <4>1. pending = 0 => Clear(toClient)
        BY <3>1 DEF OneOutstanding, OnlyAt
      <4>2. Clear(toClient) => ~Mine(Head(toClient))
        BY <2>1, ClearLess
      <4> QED
        BY <2>2, <4>1, <4>2 DEF PutAside, Mine
    <3> QED
      BY <2>2, <3>1, HandleMatched
  <2>3. CASE UNCHANGED control
    BY <2>3 DEF control, Matched
  <2>4. CASE Fail("deferred")
    BY <1>1, <2>4
  <2> QED
    BY <1>5, <2>2, <2>3, <2>4 DEF Pump
<1>6. CASE WaitForDiagnostics
  <2>1. CASE Incoming # <<>> /\ Handle(Head(Incoming), stack)
    <3>1. failure = "none" => pending = 0
      BY <1>6, WaitAwaitsNothing DEF WaitForDiagnostics
    <3> QED
      BY <1>3, <2>1, <3>1, HandleMatched
  <2> QED
    BY <1>2, <1>6, <2>1 DEF WaitForDiagnostics
<1>7. CASE DrainServerEvents
  <2>1. CASE /\ Incoming # <<>> /\ Handle(Head(Incoming), stack)
             /\ ~(Incoming # <<>> /\ Head(Incoming).is = "response" /\ pending # 0)
    BY <1>3, <2>1, HandleMatched
  <2> QED
    BY <1>2, <1>7, <2>1 DEF DrainServerEvents
<1>8. CASE RequestHandles
  <2>1. /\ In("request") /\ Incoming # <<>> /\ Handle(Head(Incoming), stack)
        /\ ~\E outcome \in {"result", "modified"} : Answered(outcome)
    BY <1>8 DEF RequestHandles
  <2>2. failure = "none" => Head(Incoming).is # "response"
    BY <1>3, <2>1 DEF Answered
  <2> QED
    BY <2>1, <2>2, HandleMatched
<1>9. CASE Retry
  <2>1. CASE \E p, m, a, r, f : Ask(p, m, a, r, f)
    BY <1>2, <2>1 DEF Ask
  <2>2. CASE Fail("modified")
    BY <1>1, <2>2
  <2> QED
    BY <1>9, <2>1, <2>2 DEF Retry
<1>10. CASE Disconnected
  BY <1>1, <1>10 DEF Disconnected
<1>11. CASE Deadline
  BY <1>11 DEF Deadline, Matched
<1>12. CASE Crash \/ WriterWrites \/ ServerActs \/ UNCHANGED vars
  BY <1>12 DEF Crash, WriterWrites, ServerActs, vars, control, Matched
<1> QED
  BY <1>4, <1>5, <1>6, <1>7, <1>8, <1>9, <1>10, <1>11, <1>12 DEF Hearing

\* Nor does the course meet one.
LEMMA CourseMatches ==
    ASSUME \/ Negotiate \/ OpenDocuments \/ Search \/ QueryActions \/ Offered \/ Resolve \/ Select
           \/ ApplyEdit \/ ExecuteCommand \/ Applied \/ Converged \/ Shutdown \/ Reap \/ NotifyExit
           \/ Synchronize
    PROVE  Matched
<1>1. ASSUME NEW why, why \notin {"none", "mismatch"}, Fail(why) PROVE Matched
  BY <1>1 DEF Fail, Matched
<1>2. ASSUME NEW p, NEW f, Go(p, f) PROVE Matched
  BY <1>2 DEF Go, Matched
<1>3. ASSUME NEW p, NEW m, NEW a, Ask(p, m, a, 0, <<>>) PROVE Matched
  BY <1>2, <1>3 DEF Ask
<1>4. ASSUME NEW m, NEW p, NEW f, Result(m, p, f) PROVE Matched
  BY <1>2, <1>4 DEF Result
<1>5. CASE Negotiate \/ QueryActions \/ Resolve \/ ExecuteCommand \/ Shutdown \/ Offered
  BY <1>3, <1>4, <1>5 DEF Negotiate, QueryActions, Resolve, ExecuteCommand, Shutdown, Offered
<1>6. CASE OpenDocuments \/ Search \/ Converged \/ Reap \/ NotifyExit \/ Synchronize
  BY <1>2, <1>6 DEF OpenDocuments, Search, Converged, Reap, NotifyExit, Synchronize
<1>7. CASE Select
  <2>1. Fail("repeated") \/ Fail("iterations") \/ Go("apply", <<>>) \/ Go("query", <<>>)
    BY <1>7 DEF Select
  <2> QED
    BY <1>1, <1>2, <2>1
<1>8. CASE ApplyEdit
  <2>1. CASE Fail(IF applying THEN "nested" ELSE "apply")
    <3>1. (IF applying THEN "nested" ELSE "apply") \notin {"none", "mismatch"}
      OBVIOUS
    <3> QED
      BY <1>1, <2>1, <3>1
  <2> QED
    BY <1>2, <1>8, <2>1 DEF ApplyEdit, Apply
<1>9. CASE Applied
  <2>1. Fail("unchanged") \/ Go("search", <<Waiting>>)
    BY <1>9 DEF Applied
  <2> QED
    BY <1>1, <1>2, <2>1
<1> QED
  BY <1>5, <1>6, <1>7, <1>8, <1>9

\* At most one request is outstanding, in every state before the first error.
THEOREM AnswerInvariant == Spec => []AnswerInv
<1>1. Init => AnswerInv
  <2> SUFFICES ASSUME Init PROVE AnswerInv
    OBVIOUS
  <2>1. OnlyAt("nowhere")
    BY SilentFrames, NothingIsClear DEF Init, ServerInit, OnlyAt, Silent
  <2>2. AllOfThis
    BY SilentFrames, NothingIsClear, ClearIsSole DEF Init, ServerInit, AllOfThis, Silent
  <2> QED
    BY <2>1, <2>2 DEF Init, AnswerInv, OneOutstanding, Places, Asks
<1>2. SessionTypes /\ CourseInv /\ AnswerInv /\ [Next]_vars => AnswerInv'
  <2> SUFFICES ASSUME SessionTypes, CourseInv, AnswerInv, [Next]_vars
               PROVE  AnswerInv'
    OBVIOUS
  <2>1. \/ Hearing \/ Synchronize \/ Negotiate \/ OpenDocuments \/ Search \/ QueryActions
        \/ Offered \/ Resolve \/ Select \/ ApplyEdit \/ ExecuteCommand \/ Applied
        \/ Converged \/ Shutdown \/ NotifyExit \/ Reap
    BY DEF Next, SessionStep, Hearing
  <2>2. Matched
    BY <2>1, HearingMatches, CourseMatches DEF AnswerInv
  <2>3. failure' # "mismatch" /\ (failure' = "none" => failure = "none")
    BY <2>2 DEF Matched, AnswerInv
  <2>4. failure' = "none" => OneOutstanding'
    BY <2>1, <2>3, HearingAnswers, SynchronizeAnswers, CourseAnswers DEF AnswerInv
  <2> QED
    BY <2>3, <2>4 DEF AnswerInv
<1> QED
  BY <1>1, <1>2, SessionInvariant, PTL DEF Spec

\* No answer is unexpected, no publication is of a text that is yet to come, and
\* no edit is asked for while one is applied, of a server that tells the truth.
THEOREM AnswersAlwaysMatch == Spec => []AnswersAreMatched
<1>1. CourseInv /\ TextInv /\ AnswerInv => AnswersAreMatched
  BY DEF CourseInv, TextInv, TextsReported, AnswerInv, AnswersAreMatched
<1> QED
  BY <1>1, SessionInvariant, TextInvariant, AnswerInvariant, PTL

-----------------------------------------------------------------------------
(***************************************************************************)
(* What is on its way: the texts to the server, and the edits it computed  *)
(* from them on the way back.                                              *)
(***************************************************************************)
Pipe == toServer \o writer

\* A text that waits for room in the writer's queue.
Texting(f) == f.at = "send" /\ ~f.queued /\ f.msg.is = "text"
Unwritten(s) == {s[k].msg : k \in {k \in 1 .. Len(s) : Texting(s[k])}}

IsText(m, d) == m.is = "text" /\ m.doc = d
Told(s, d) == \E i \in 1 .. Len(s) : IsText(s[i], d)

\* The last text of d in s, if there is any, has version v.
Newest(s, d, v) ==
    \A i \in 1 .. Len(s) : IsText(s[i], d) =>
        s[i].version = v \/ \E j \in i + 1 .. Len(s) : IsText(s[j], d)

Textless(s) == \A i \in 1 .. Len(s) : s[i].is # "text"
AskedLast(s) == \A i, j \in 1 .. Len(s) : i < j /\ s[i].is = "request" => s[j].is # "text"

\* Edits that were computed from the texts of versions v: all, or those of and
\* after an answer.
Carries(m) == m.is \in {"edit", "response"}
BasedOn(s, v) == \A i \in 1 .. Len(s) : Carries(s[i]) => s[i].base = v
FromAnswer(s, v) ==
    \A i, j \in 1 .. Len(s) : i <= j /\ s[i].is = "response" /\ Carries(s[j]) => s[j].base = v

\* One message more at the end.
LEMMA TextsMore ==
    ASSUME NEW S, NEW s \in Seq(S), NEW m \in S
    PROVE  /\ \A d, v : Newest(s, d, v) /\ ~IsText(m, d) => Newest(Append(s, m), d, v)
           /\ \A d : IsText(m, d) => Newest(Append(s, m), d, m.version) /\ Told(Append(s, m), d)
           /\ \A d : Told(s, d) => Told(Append(s, m), d)
           /\ Textless(s) /\ m.is # "text" => Textless(Append(s, m))
           /\ AskedLast(s) /\ m.is # "text" => AskedLast(Append(s, m))
<1>1. /\ Len(s) \in Nat /\ Len(Append(s, m)) = Len(s) + 1
      /\ Append(s, m)[Len(s) + 1] = m
      /\ \A k \in 1 .. Len(s) : Append(s, m)[k] = s[k]
      /\ \A k \in 1 .. Len(s) + 1 : k \in 1 .. Len(s) \/ k = Len(s) + 1
  OBVIOUS
<1>2. /\ \A k \in 1 .. Len(s) : k \in 1 .. Len(s) + 1 /\ Len(s) + 1 \in k + 1 .. Len(s) + 1
      /\ Len(s) + 1 \in 1 .. Len(s) + 1
      /\ \A k \in 1 .. Len(s) : \A j \in k + 1 .. Len(s) :
            j \in 1 .. Len(s) /\ j \in k + 1 .. Len(s) + 1
      /\ \A k \in 1 .. Len(s) + 1 : ~(Len(s) + 1 < k)
  BY <1>1
<1> DEFINE t == Append(s, m)
           n == Len(s)
<1> HIDE DEF t, n
<1>3. ASSUME NEW d, NEW v, Newest(s, d, v), ~IsText(m, d) PROVE Newest(t, d, v)
  <2> SUFFICES ASSUME NEW i \in 1 .. Len(t), IsText(t[i], d)
               PROVE  t[i].version = v \/ \E j \in i + 1 .. Len(t) : IsText(t[j], d)
    BY DEF Newest
  <2>1. i \in 1 .. n /\ t[i] = s[i]
    BY <1>1, <1>3 DEF t, n
  <2>2. CASE s[i].version = v
    BY <2>1, <2>2
  <2>3. CASE \E j \in i + 1 .. n : IsText(s[j], d)
    <3>1. PICK j \in i + 1 .. n : IsText(s[j], d)
      BY <2>3
    <3>2. j \in i + 1 .. Len(t) /\ t[j] = s[j]
      BY <1>1, <1>2, <2>1 DEF t, n
    <3> QED
      BY <3>1, <3>2
  <2> QED
    BY <1>3, <2>1, <2>2, <2>3 DEF Newest, n
<1>4. ASSUME NEW d, IsText(m, d) PROVE Newest(t, d, m.version) /\ Told(t, d)
  <2>1. t[n + 1] = m /\ n + 1 \in 1 .. Len(t)
    BY <1>1, <1>2 DEF t, n
  <2>2. Told(t, d)
    BY <1>4, <2>1 DEF Told
  <2>3. ASSUME NEW i \in 1 .. Len(t)
        PROVE  t[i].version = m.version \/ \E j \in i + 1 .. Len(t) : IsText(t[j], d)
    <3>1. CASE i = n + 1
      BY <2>1, <3>1
    <3>2. CASE i \in 1 .. n
      <4>1. n + 1 \in i + 1 .. Len(t)
        BY <1>1, <1>2, <3>2 DEF t, n
      <4> QED
        BY <1>4, <2>1, <4>1
    <3> QED
      BY <1>1, <3>1, <3>2 DEF t, n
  <2> QED
    BY <2>2, <2>3 DEF Newest
<1>5. ASSUME NEW d, Told(s, d) PROVE Told(t, d)
  BY <1>1, <1>2, <1>5 DEF Told, t, n
<1>6. ASSUME m.is # "text" PROVE Textless(s) => Textless(t)
  BY <1>1, <1>6 DEF Textless, t, n
<1>7. ASSUME m.is # "text", AskedLast(s) PROVE AskedLast(t)
  <2> SUFFICES ASSUME NEW i \in 1 .. Len(t), NEW j \in 1 .. Len(t), i < j, t[i].is = "request"
               PROVE  t[j].is # "text"
    BY DEF AskedLast
  <2>1. i \in 1 .. n /\ t[i] = s[i]
    BY <1>1, <1>2 DEF t, n
  <2>2. CASE j \in 1 .. n
    BY <1>1, <1>7, <2>1, <2>2 DEF AskedLast, t, n
  <2>3. CASE j = n + 1
    BY <1>1, <1>7, <2>3 DEF t, n
  <2> QED
    BY <1>1, <2>2, <2>3 DEF t, n
<1> QED
  BY <1>3, <1>4, <1>5, <1>6, <1>7 DEF t

\* The first message is gone.
LEMMA TextsLess ==
    ASSUME NEW S, NEW s \in Seq(S), s # <<>>
    PROVE  /\ \A d, v : Newest(s, d, v) =>
                 /\ Newest(Tail(s), d, v)
                 /\ IsText(Head(s), d) => Told(Tail(s), d) \/ Head(s).version = v
           /\ \A d : Told(s, d) => Told(Tail(s), d) \/ IsText(Head(s), d)
           /\ Textless(s) => Textless(Tail(s))
           /\ AskedLast(s) => AskedLast(Tail(s))
           /\ AskedLast(s) /\ Head(s).is = "request" => Textless(Tail(s))
<1>1. Len(s) \in Nat /\ Len(s) >= 1
  BY EmptySeq
<1>2. /\ Len(Tail(s)) = Len(s) - 1 /\ Head(s) = s[1]
      /\ \A k \in 1 .. Len(s) - 1 : Tail(s)[k] = s[k + 1]
  BY <1>1
<1>3. /\ 1 \in 1 .. Len(s)
      /\ \A k \in 1 .. Len(s) - 1 : k + 1 \in 1 .. Len(s) /\ 1 < k + 1
      /\ \A j, k \in 1 .. Len(s) - 1 : j < k => j + 1 < k + 1
      /\ \A j \in 1 .. Len(s) : \A k \in j + 1 .. Len(s) :
            k - 1 \in 1 .. Len(s) - 1 /\ k - 1 + 1 = k
      /\ \A j \in 1 .. Len(s) - 1 : \A k \in j + 1 + 1 .. Len(s) : k - 1 \in j + 1 .. Len(s) - 1
      /\ \A k \in 1 .. Len(s) : k = 1 \/ (k - 1 \in 1 .. Len(s) - 1 /\ k - 1 + 1 = k)
  BY <1>1
<1> DEFINE t == Tail(s)
           n == Len(s)
<1> HIDE DEF t, n
<1>4. ASSUME NEW d, NEW v, Newest(s, d, v)
      PROVE  Newest(t, d, v) /\ (IsText(Head(s), d) => Told(t, d) \/ Head(s).version = v)
  <2>1. ASSUME NEW i \in 1 .. n, IsText(s[i], d), s[i].version # v
        PROVE  \E j \in 1 .. n - 1 : j + 1 \in i + 1 .. n /\ IsText(t[j], d)
    <3>1. PICK k \in i + 1 .. n : IsText(s[k], d)
      BY <1>4, <2>1 DEF Newest, n
    <3>2. k - 1 \in 1 .. n - 1 /\ k - 1 + 1 = k
      BY <1>3 DEF n
    <3>3. t[k - 1] = s[k - 1 + 1]
      BY <1>2, <3>2 DEF t, n
    <3> QED
      BY <3>1, <3>2, <3>3
  <2>2. Newest(t, d, v)
    <3> SUFFICES ASSUME NEW i \in 1 .. n - 1, IsText(t[i], d), t[i].version # v
                 PROVE  \E j \in i + 1 .. n - 1 : IsText(t[j], d)
      BY <1>2 DEF Newest, t, n
    <3>1. i + 1 \in 1 .. n /\ t[i] = s[i + 1]
      BY <1>2, <1>3 DEF t, n
    <3>2. PICK j \in 1 .. n - 1 : j + 1 \in i + 1 + 1 .. n /\ IsText(t[j], d)
      BY <2>1, <3>1
    <3>3. j \in i + 1 .. n - 1
      BY <1>1, <3>2 DEF n
    <3> QED
      BY <3>2, <3>3
  <2>3. IsText(Head(s), d) => Told(t, d) \/ Head(s).version = v
    BY <1>2, <1>3, <2>1 DEF Told, t, n
  <2> QED
    BY <2>2, <2>3
<1>5. ASSUME NEW d, Told(s, d) PROVE Told(t, d) \/ IsText(Head(s), d)
  <2>1. PICK i \in 1 .. n : IsText(s[i], d)
    BY <1>5 DEF Told, n
  <2>2. CASE i = 1
    BY <1>2, <2>1, <2>2
  <2>3. CASE i - 1 \in 1 .. n - 1 /\ i - 1 + 1 = i
    BY <1>2, <2>1, <2>3 DEF Told, t, n
  <2> QED
    BY <1>3, <2>2, <2>3 DEF n
<1>6. Textless(s) => Textless(t)
  BY <1>2, <1>3 DEF Textless, t, n
<1>7. AskedLast(s) => AskedLast(t)
  BY <1>2, <1>3 DEF AskedLast, t, n
<1>8. AskedLast(s) /\ Head(s).is = "request" => Textless(t)
  BY <1>2, <1>3 DEF AskedLast, Textless, t, n
<1> QED
  BY <1>4, <1>5, <1>6, <1>7, <1>8 DEF t

\* An edit or an answer more.
LEMMA BasesMore ==
    ASSUME NEW S, NEW s \in Seq(S), NEW m \in S, NEW v
    PROVE  /\ BasedOn(s, v) /\ (Carries(m) => m.base = v) => BasedOn(Append(s, m), v)
           /\ FromAnswer(s, v) /\ (Carries(m) => m.base = v \/ (Clear(s) /\ m.is = "edit"))
                => FromAnswer(Append(s, m), v)
           /\ BasedOn(s, v) => FromAnswer(s, v)
           /\ Clear(s) => FromAnswer(s, v)
<1>1. /\ Len(s) \in Nat /\ Len(Append(s, m)) = Len(s) + 1
      /\ Append(s, m)[Len(s) + 1] = m
      /\ \A k \in 1 .. Len(s) : Append(s, m)[k] = s[k]
      /\ \A k \in 1 .. Len(s) + 1 : k \in 1 .. Len(s) \/ k = Len(s) + 1
      /\ \A k \in 1 .. Len(s) : ~(Len(s) + 1 <= k)
  OBVIOUS
<1> DEFINE t == Append(s, m)
           n == Len(s)
<1> HIDE DEF t, n
<1>2. BasedOn(s, v) /\ (Carries(m) => m.base = v) => BasedOn(t, v)
  BY <1>1 DEF BasedOn, t, n
<1>3. ASSUME FromAnswer(s, v), Carries(m) => m.base = v \/ (Clear(s) /\ m.is = "edit")
      PROVE  FromAnswer(t, v)
  <2> SUFFICES ASSUME NEW i \in 1 .. Len(t), NEW j \in 1 .. Len(t), i <= j,
                      t[i].is = "response", Carries(t[j])
               PROVE  t[j].base = v
    BY DEF FromAnswer
  <2>1. CASE j \in 1 .. n
    <3>1. i \in 1 .. n
      BY <1>1, <2>1 DEF t, n
    <3> QED
      BY <1>1, <1>3, <2>1, <3>1 DEF FromAnswer, t, n
  <2>2. CASE j = n + 1
    <3>1. CASE m.base = v
      BY <1>1, <2>2, <3>1 DEF t, n
    <3>2. CASE Clear(s) /\ m.is = "edit"
      BY <1>1, <2>2, <3>2 DEF Clear, Mine, t, n
    <3> QED
      BY <1>1, <1>3, <2>2, <3>1, <3>2 DEF t, n
  <2> QED
    BY <1>1, <2>1, <2>2 DEF t, n
<1> QED
  BY <1>2, <1>3 DEF BasedOn, FromAnswer, Clear, Mine, t

\* The first of the second of two sequences is gone.
LEMMA Without ==
    ASSUME NEW S, NEW s \in Seq(S), NEW t \in Seq(S), t # <<>>
    PROVE  /\ \A v : BasedOn(s \o t, v) => BasedOn(s \o Tail(t), v)
           /\ \A v : FromAnswer(s \o t, v) => FromAnswer(s \o Tail(t), v)
           /\ Clear(s \o t) => Clear(s \o Tail(t))
<1>1. Len(s) \in Nat /\ Len(t) \in Nat /\ Len(t) >= 1
  BY EmptySeq
<1>2. /\ Tail(t) \in Seq(S) /\ Len(Tail(t)) = Len(t) - 1
      /\ \A k \in 1 .. Len(t) - 1 : Tail(t)[k] = t[k + 1]
  BY <1>1
<1> DEFINE w == s \o t
           u == s \o Tail(t)
           f == [k \in 1 .. Len(u) |-> IF k <= Len(s) THEN k ELSE k + 1]
<1>3. /\ Len(w) = Len(s) + Len(t) /\ Len(u) = Len(s) + (Len(t) - 1)
      /\ \A k \in 1 .. Len(s) : w[k] = s[k] /\ u[k] = s[k]
      /\ \A k \in Len(s) + 1 .. Len(w) : w[k] = t[k - Len(s)]
      /\ \A k \in Len(s) + 1 .. Len(u) : u[k] = Tail(t)[k - Len(s)]
  BY <1>1, <1>2, ConcatProperties
<1> HIDE DEF w, u
<1>4. ASSUME NEW k \in 1 .. Len(u) PROVE f[k] \in 1 .. Len(w) /\ u[k] = w[f[k]]
  <2>1. CASE k <= Len(s)
    BY <1>1, <1>3, <2>1
  <2>2. CASE ~(k <= Len(s))
    <3>1. /\ k \in Len(s) + 1 .. Len(u) /\ k + 1 \in Len(s) + 1 .. Len(w) /\ k + 1 \in 1 .. Len(w)
          /\ k - Len(s) \in 1 .. Len(t) - 1 /\ (k - Len(s)) + 1 = (k + 1) - Len(s)
      BY <1>1, <1>3, <2>2
    <3>2. u[k] = Tail(t)[k - Len(s)] /\ w[k + 1] = t[(k + 1) - Len(s)]
      BY <1>3, <3>1
    <3>3. Tail(t)[k - Len(s)] = t[(k - Len(s)) + 1]
      BY <1>2, <3>1
    <3> QED
      BY <2>2, <3>1, <3>2, <3>3
  <2> QED
    BY <2>1, <2>2
<1>5. ASSUME NEW i \in 1 .. Len(u), NEW j \in 1 .. Len(u), i <= j PROVE f[i] <= f[j]
  BY <1>1, <1>5
<1> HIDE DEF f
<1>6. \A v : BasedOn(w, v) => BasedOn(u, v)
  BY <1>4 DEF BasedOn
<1>7. ASSUME NEW v, FromAnswer(w, v) PROVE FromAnswer(u, v)
  <2> SUFFICES ASSUME NEW i \in 1 .. Len(u), NEW j \in 1 .. Len(u), i <= j,
                      u[i].is = "response", Carries(u[j])
               PROVE  u[j].base = v
    BY DEF FromAnswer
  <2>1. /\ f[i] \in 1 .. Len(w) /\ f[j] \in 1 .. Len(w) /\ f[i] <= f[j]
        /\ u[i] = w[f[i]] /\ u[j] = w[f[j]]
    BY <1>4, <1>5
  <2> QED
    BY <1>7, <2>1 DEF FromAnswer
<1>8. Clear(w) => Clear(u)
  BY <1>4 DEF Clear
<1> QED
  BY <1>6, <1>7, <1>8 DEF u, w

\* What comes after an answer fits as it does.
LEMMA BasesAfter ==
    ASSUME NEW S, NEW s \in Seq(S), s # <<>>, NEW v
    PROVE  /\ BasedOn(s, v) => BasedOn(Tail(s), v) /\ (Carries(Head(s)) => Head(s).base = v)
           /\ FromAnswer(s, v) => FromAnswer(Tail(s), v)
           /\ FromAnswer(s, v) /\ Head(s).is = "response" =>
                 BasedOn(Tail(s), v) /\ Head(s).base = v
<1>1. Len(s) \in Nat /\ Len(s) >= 1
  BY EmptySeq
<1>2. /\ Len(Tail(s)) = Len(s) - 1 /\ Head(s) = s[1]
      /\ \A k \in 1 .. Len(s) - 1 : Tail(s)[k] = s[k + 1]
  BY <1>1
<1>3. /\ 1 \in 1 .. Len(s) /\ 1 <= 1
      /\ \A k \in 1 .. Len(s) - 1 : k + 1 \in 1 .. Len(s) /\ 1 <= k + 1
      /\ \A j, k \in 1 .. Len(s) - 1 : j <= k => j + 1 <= k + 1
  BY <1>1
<1> DEFINE t == Tail(s)
           n == Len(s)
<1> HIDE DEF t, n
<1>4. BasedOn(s, v) => BasedOn(t, v) /\ (Carries(Head(s)) => Head(s).base = v)
  BY <1>2, <1>3 DEF BasedOn, t, n
<1>5. FromAnswer(s, v) => FromAnswer(t, v)
  BY <1>2, <1>3 DEF FromAnswer, t, n
<1>6. FromAnswer(s, v) /\ Head(s).is = "response" => BasedOn(t, v) /\ Head(s).base = v
  BY <1>2, <1>3 DEF FromAnswer, BasedOn, Carries, t, n
<1> QED
  BY <1>4, <1>5, <1>6 DEF t

\* Two sequences, one after the other: the second grows.
LEMMA TwoGrow ==
    ASSUME NEW S, NEW s \in Seq(S), NEW t \in Seq(S), NEW m \in S
    PROVE  s \o Append(t, m) = Append(s \o t, m)
<1>1. Append(t, m) = t \o <<m>> /\ Append(s \o t, m) = (s \o t) \o <<m>> /\ <<m>> \in Seq(S)
  BY AppendIsConcat, ConcatProperties
<1> QED
  BY <1>1, ConcatAssociative

\* The first of them loses its first message.
LEMMA TwoShrink ==
    ASSUME NEW S, NEW s \in Seq(S), NEW t \in Seq(S), s # <<>>
    PROVE  Tail(s \o t) = Tail(s) \o t /\ Head(s \o t) = Head(s) /\ s \o t # <<>>
<1>1. Len(s) \in Nat /\ Len(s) >= 1 /\ Len(t) \in Nat
  BY EmptySeq
<1>2. /\ Tail(s) \in Seq(S) /\ Len(Tail(s)) = Len(s) - 1
      /\ \A k \in 1 .. Len(s) - 1 : Tail(s)[k] = s[k + 1]
  BY <1>1
<1> DEFINE w == s \o t
           u == Tail(s) \o t
<1>3. /\ w \in Seq(S) /\ Len(w) = Len(s) + Len(t)
      /\ \A k \in 1 .. Len(s) + Len(t) : w[k] = IF k <= Len(s) THEN s[k] ELSE t[k - Len(s)]
  BY ConcatProperties
<1>4. /\ u \in Seq(S) /\ Len(u) = (Len(s) - 1) + Len(t)
      /\ \A k \in 1 .. (Len(s) - 1) + Len(t) :
            u[k] = IF k <= Len(s) - 1 THEN Tail(s)[k] ELSE t[k - (Len(s) - 1)]
  BY <1>2, ConcatProperties
<1>5. w # <<>>
  BY HeadOfTwo
<1> HIDE DEF w, u
<1>6. /\ Tail(w) \in Seq(S) /\ Len(Tail(w)) = Len(w) - 1
      /\ \A k \in 1 .. Len(Tail(w)) : Tail(w)[k] = w[k + 1]
  BY <1>3, <1>5, HeadTailProperties
<1>7. Len(Tail(w)) = Len(u)
  BY <1>1, <1>3, <1>4, <1>6
<1>8. ASSUME NEW k \in 1 .. Len(Tail(w)) PROVE Tail(w)[k] = u[k]
  <2>1. k \in Nat /\ k + 1 \in 1 .. Len(s) + Len(t) /\ k \in 1 .. (Len(s) - 1) + Len(t)
    BY <1>1, <1>3, <1>6
  <2>2. CASE k <= Len(s) - 1
    <3>1. k + 1 <= Len(s) /\ k \in 1 .. Len(s) - 1
      BY <1>1, <2>1, <2>2
    <3> QED
      BY <1>2, <1>3, <1>4, <1>6, <2>1, <2>2, <3>1
  <2>3. CASE ~(k <= Len(s) - 1)
    <3>1. ~(k + 1 <= Len(s)) /\ k + 1 - Len(s) = k - (Len(s) - 1)
      BY <1>1, <2>1, <2>3
    <3>2. w[k + 1] = t[k + 1 - Len(s)]
      BY <1>3, <2>1, <3>1
    <3>3. u[k] = t[k - (Len(s) - 1)]
      BY <1>4, <2>1, <2>3
    <3>4. Tail(w)[k] = w[k + 1]
      BY <1>6
    <3> HIDE DEF w, u
    <3> QED
      BY <3>1, <3>2, <3>3, <3>4
  <2> QED
    BY <2>2, <2>3
<1>9. Tail(w) = u
  BY <1>4, <1>6, <1>7, <1>8, SeqEqual
<1> QED
  BY <1>5, <1>9, HeadOfTwo DEF w, u

\* The first message of the second goes over to the first.
LEMMA TwoMove ==
    ASSUME NEW S, NEW s \in Seq(S), NEW t \in Seq(S), t # <<>>
    PROVE  Append(s, Head(t)) \o Tail(t) = s \o t
<1>1. /\ Head(t) \in S /\ Tail(t) \in Seq(S) /\ <<Head(t)>> \in Seq(S)
      /\ Append(s, Head(t)) = s \o <<Head(t)>>
  BY HeadTailProperties, AppendIsConcat
<1>2. <<Head(t)>> \o Tail(t) = t
  <2>1. /\ <<Head(t)>> \o Tail(t) \in Seq(S) /\ Len(<<Head(t)>>) = 1
        /\ Len(<<Head(t)>> \o Tail(t)) = 1 + Len(Tail(t))
        /\ \A k \in 1 .. 1 + Len(Tail(t)) :
              (<<Head(t)>> \o Tail(t))[k] = IF k <= 1 THEN Head(t) ELSE Tail(t)[k - 1]
    BY <1>1, ConcatProperties
  <2>2. /\ Len(Tail(t)) = Len(t) - 1 /\ Len(t) \in Nat /\ Len(t) >= 1
        /\ \A k \in 1 .. Len(Tail(t)) : Tail(t)[k] = t[k + 1]
        /\ Head(t) = t[1]
    BY HeadTailProperties, EmptySeq
  <2>3. ASSUME NEW k \in 1 .. Len(t) PROVE (<<Head(t)>> \o Tail(t))[k] = t[k]
    <3>1. CASE k = 1
      BY <2>1, <2>2, <3>1
    <3>2. CASE k # 1
      <4>1. k - 1 \in 1 .. Len(Tail(t)) /\ (k - 1) + 1 = k /\ ~(k <= 1) /\ k \in 1 .. 1 + Len(Tail(t))
        BY <2>2, <3>2
      <4> QED
        BY <2>1, <2>2, <4>1
    <3> QED
      BY <3>1, <3>2
  <2>4. Len(<<Head(t)>> \o Tail(t)) = Len(t)
    BY <2>1, <2>2
  <2> QED
    BY <2>1, <2>3, <2>4, SeqEqual
<1> QED
  BY <1>1, <1>2, ConcatAssociative

\* A stack is what its last frame was called by, and that frame.
LEMMA OnTop ==
    ASSUME NEW s \in Seq(Frames), s # <<>>
    PROVE  s = Append(Front(s), Last(s))
<1>1. /\ Len(s) \in Nat /\ Len(s) >= 1 /\ Last(s) \in Frames /\ Last(s) = s[Len(s)]
      /\ Front(s) \in Seq(Frames) /\ Len(Front(s)) = Len(s) - 1
      /\ \A k \in 1 .. Len(s) - 1 : Front(s)[k] = s[k]
  BY LastAndFront
<1> DEFINE t == Append(Front(s), Last(s))
<1>2. /\ t \in Seq(Frames) /\ Len(t) = Len(Front(s)) + 1
      /\ t[Len(Front(s)) + 1] = Last(s)
      /\ \A k \in 1 .. Len(Front(s)) : t[k] = Front(s)[k]
  BY <1>1, OneMoreFrame
<1> HIDE DEF t
<1>3. Len(t) = Len(s)
  BY <1>1, <1>2
<1>4. ASSUME NEW k \in 1 .. Len(s) PROVE s[k] = t[k]
  <2>1. CASE k = Len(s)
    BY <1>1, <1>2, <2>1
  <2>2. CASE k \in 1 .. Len(s) - 1
    BY <1>1, <1>2, <2>2
  <2> QED
    BY <1>1, <2>1, <2>2
<1>5. s = t
  BY <1>2, <1>3, <1>4, SeqEqual
<1> QED
  BY <1>5 DEF t

\* The texts that wait for room, with a frame more.
LEMMA UnwrittenMore ==
    ASSUME NEW s \in Seq(Frames), NEW f \in Frames
    PROVE  Unwritten(Append(s, f)) = Unwritten(s) \cup (IF Texting(f) THEN {f.msg} ELSE {})
<1>1. /\ Len(s) \in Nat /\ Len(Append(s, f)) = Len(s) + 1
      /\ Append(s, f)[Len(s) + 1] = f
      /\ \A k \in 1 .. Len(s) : Append(s, f)[k] = s[k]
      /\ \A k \in 1 .. Len(s) + 1 : k \in 1 .. Len(s) \/ k = Len(s) + 1
      /\ \A k \in 1 .. Len(s) : k \in 1 .. Len(s) + 1
      /\ Len(s) + 1 \in 1 .. Len(s) + 1
  BY OneMoreFrame
<1> DEFINE t == Append(s, f)
           n == Len(s)
<1> HIDE DEF t, n
<1>2. ASSUME NEW m \in Unwritten(t) PROVE m \in Unwritten(s) \/ (Texting(f) /\ m = f.msg)
  BY <1>1 DEF Unwritten, t, n
<1>3. ASSUME NEW m \in Unwritten(s) PROVE m \in Unwritten(t)
  BY <1>1 DEF Unwritten, t, n
<1>4. Texting(f) => f.msg \in Unwritten(t)
  BY <1>1 DEF Unwritten, t, n
<1>5. Unwritten(t) = Unwritten(s) \cup (IF Texting(f) THEN {f.msg} ELSE {})
  BY <1>2, <1>3, <1>4
<1> QED
  BY <1>5 DEF t

\* A frame less.
LEMMA UnwrittenLess ==
    ASSUME NEW s \in Seq(Frames), s # <<>>
    PROVE  Unwritten(s) = Unwritten(Front(s)) \cup (IF Texting(Last(s)) THEN {Last(s).msg} ELSE {})
<1>1. Front(s) \in Seq(Frames) /\ Last(s) \in Frames
  BY LastAndFront
<1>2. Unwritten(Append(Front(s), Last(s))) =
         Unwritten(Front(s)) \cup (IF Texting(Last(s)) THEN {Last(s).msg} ELSE {})
  BY <1>1, UnwrittenMore
<1> QED
  BY <1>2, OnTop

\* Nothing waits on an empty stack.
LEMMA NothingIsUnwritten == Unwritten(<<>>) = {}
BY DEF Unwritten

-----------------------------------------------------------------------------
(***************************************************************************)
(* The invariant: the newest text arrives last, and once no text is on its *)
(* way every edit that is on its way back was computed from it.            *)
(***************************************************************************)
TextsArrive ==
    /\ \A m \in Unwritten(stack) : m.version = version[m.doc]
    /\ \A d \in Docs :
          \/ \E m \in Unwritten(stack) : m.doc = d
          \/ /\ Newest(Pipe, d, version[d])
             /\ Told(Pipe, d) \/ known[d] = version[d]

\* While an edit may be applied, edits are of the texts as they are.
Settled == phase \in {"select", "apply"} \/ scope = "awaiting"
SettledFits == Settled => Textless(Pipe) /\ BasedOn(Incoming, version)

\* While the first actions are asked for, older edits may come before the answer.
QueryFits ==
    phase = "query" =>
        /\ AskedLast(Pipe)
        /\ (Clear(owed) /\ Clear(Incoming)) \/ Textless(Pipe)
        /\ FromAnswer(Incoming, version)

\* What was found, and what was chosen, is of the texts as they are.
ChoiceFits ==
    /\ phase = "select" => \A a \in query.ready \cup query.unresolved : a.base = version
    /\ phase = "apply" => chosen.action.base = version

\* After the first error there is only the end.
After == {"shutdown", "exit", "exiting", "reap", "ended"}
FailedEnds == failure # "none" => phase \in After

EditsInFlight == TextsArrive /\ SettledFits /\ QueryFits /\ ChoiceFits
EditInv == (failure = "none" => EditsInFlight) /\ FailedEnds

\* The pipes, by what happens to their parts.
LEMMA PipeParts ==
    ASSUME SessionTypes
    PROVE  /\ Pipe \in Seq(Written) /\ Incoming \in Seq(Said)
           /\ UNCHANGED <<toServer, writer>> => Pipe' = Pipe
           /\ UNCHANGED <<toClient, deferred>> => Incoming' = Incoming
           /\ WriterWrites => Pipe' = Pipe
           /\ \A m \in Written :
                 writer' = Append(writer, m) /\ toServer' = toServer => Pipe' = Append(Pipe, m)
           /\ toServer # <<>> /\ toServer' = Tail(toServer) /\ writer' = writer =>
                 Pipe # <<>> /\ Pipe' = Tail(Pipe) /\ Head(Pipe) = Head(toServer)
           /\ \A m \in Said :
                 toClient' = Append(toClient, m) /\ deferred' = deferred =>
                    Incoming' = Append(Incoming, m)
           /\ toClient # <<>> /\ toClient' = Tail(toClient) =>
                 /\ deferred' = Append(deferred, Head(toClient)) => Incoming' = Incoming
                 /\ deferred = <<>> /\ deferred' = <<Head(toClient)>> => Incoming' = Incoming
                 /\ deferred' = deferred => Incoming' = deferred \o Tail(toClient)
           /\ Take /\ Incoming # <<>> => Incoming' = Tail(Incoming)
<1>1. /\ toServer \in Seq(Written) /\ writer \in Seq(Written)
      /\ toClient \in Seq(Said) /\ deferred \in Seq(Said)
  BY DEF SessionTypes, ServerTypes, TransportTypes
<1>2. Pipe \in Seq(Written) /\ Incoming \in Seq(Said)
  BY <1>1, ConcatProperties DEF Pipe, Incoming
<1>3. /\ UNCHANGED <<toServer, writer>> => Pipe' = Pipe
      /\ UNCHANGED <<toClient, deferred>> => Incoming' = Incoming
  BY DEF Pipe, Incoming
<1>4. WriterWrites => Pipe' = Pipe
  BY <1>1, TwoMove DEF WriterWrites, Pipe
<1>5. ASSUME NEW m \in Written, writer' = Append(writer, m), toServer' = toServer
      PROVE  Pipe' = Append(Pipe, m)
  BY <1>1, <1>5, TwoGrow DEF Pipe
<1>6. ASSUME toServer # <<>>, toServer' = Tail(toServer), writer' = writer
      PROVE  Pipe # <<>> /\ Pipe' = Tail(Pipe) /\ Head(Pipe) = Head(toServer)
  BY <1>1, <1>6, TwoShrink DEF Pipe
<1>7. ASSUME NEW m \in Said, toClient' = Append(toClient, m), deferred' = deferred
      PROVE  Incoming' = Append(Incoming, m)
  BY <1>1, <1>7, TwoGrow DEF Incoming
<1>8. ASSUME toClient # <<>>, toClient' = Tail(toClient)
      PROVE  /\ deferred' = Append(deferred, Head(toClient)) => Incoming' = Incoming
             /\ deferred = <<>> /\ deferred' = <<Head(toClient)>> => Incoming' = Incoming
             /\ deferred' = deferred => Incoming' = deferred \o Tail(toClient)
  <2>1. deferred' = Append(deferred, Head(toClient)) => Incoming' = Incoming
    BY <1>1, <1>8, TwoMove DEF Incoming
  <2>2. deferred = <<>> => Append(deferred, Head(toClient)) = <<Head(toClient)>>
    OBVIOUS
  <2> QED
    BY <1>8, <2>1, <2>2 DEF Incoming
<1>9. ASSUME Take, Incoming # <<>> PROVE Incoming' = Tail(Incoming)
  <2>1. CASE deferred # <<>>
    BY <1>1, <1>9, <2>1, TwoShrink DEF Take, Incoming, servervars
  <2>2. CASE deferred = <<>>
    <3>1. toClient # <<>> /\ Incoming = toClient
      BY <1>1, <1>9, <2>2, HeadOfTwo DEF Incoming
    <3>2. toClient' = Tail(toClient) /\ deferred' = deferred
      BY <1>9, <2>2 DEF Take, Read
    <3>3. Tail(toClient) \in Seq(Said)
      BY <1>1, <3>1, HeadTailProperties
    <3>4. Incoming' = Tail(toClient)
      BY <2>2, <3>2, <3>3, ConcatEmptySeq DEF Incoming
    <3> QED
      BY <3>1, <3>4
  <2> QED
    BY <2>1, <2>2
<1> QED
  BY <1>2, <1>3, <1>4, <1>5, <1>6, <1>7, <1>8, <1>9

\* Where texts may wait: while documents are opened, and while an edit is
\* synchronized.
LEMMA NoTextWaits ==
    ASSUME SessionTypes, CourseInv, Settled \/ phase = "query"
    PROVE  Unwritten(stack) = {}
<1>1. stack \in Seq(Frames) /\ phase # "open" /\ Shape(phase, stack, applying)
  BY DEF SessionTypes, ControlTypes, CourseInv, StackShape, Progress, Settled
<1>2. applying = FALSE
  BY DEF SessionTypes, EditTypes, CourseInv, Progress, Settled
<1>3. ASSUME NEW k \in 1 .. Len(stack), stack[k].at = "send", stack[k].msg.is = "text"
      PROVE  FALSE
  <2>1. \E j \in 1 .. k - 1 : stack[j].at = "sync"
    BY <1>1, <1>3 DEF Shape, Sends
  <2>2. \A j \in 1 .. k - 1 : j \in 1 .. Len(stack)
    BY <1>1
  <2>3. \E j \in 1 .. Len(stack) : stack[j].at = "sync"
    BY <2>1, <2>2
  <2> QED
    BY <1>1, <1>2, <2>3 DEF Shape
<1> QED
  BY <1>3 DEF Unwritten, Texting

\* When no text is on its way the server knows the texts as they are.
LEMMA AllKnown ==
    ASSUME SessionTypes, TextsArrive, Unwritten(stack) = {}, Textless(Pipe)
    PROVE  known = version
<1>1. known \in [Docs -> Nat \cup {Closed}] /\ version \in [Docs -> Nat \cup {Closed}]
  BY DEF SessionTypes, ServerTypes, DiagnosticTypes, Texts
<1>2. \A d \in Docs : ~Told(Pipe, d)
  BY DEF Told, Textless, IsText
<1>3. \A d \in Docs : known[d] = version[d]
  BY <1>2 DEF TextsArrive
<1> QED
  BY <1>1, <1>3

-----------------------------------------------------------------------------
(***************************************************************************)
(* What is heard keeps it.                                                 *)
(***************************************************************************)
\* A request on the stack is no text.
LEMMA AskingIsNoText ==
    ASSUME SessionTypes, NEW p, NEW method, NEW about, NEW retries,
           Ask(p, method, about, retries, <<>>)
    PROVE  Unwritten(stack') = {}
<1> DEFINE f == [at |-> "request", method |-> method, about |-> about, retries |-> retries]
           g == Sending([is |-> "request", id |-> nextId, method |-> method, about |-> about])
<1>1. stack' = <<>> \o <<f, g>>
  BY DEF Ask, Go
<1>2. <<>> \o <<f, g>> = <<f, g>>
  OBVIOUS
<1>3. ~Texting(f) /\ ~Texting(g)
  BY DEF Texting, Sending
<1> HIDE DEF f, g
<1>4. Len(<<f, g>>) = 2 /\ <<f, g>>[1] = f /\ <<f, g>>[2] = g
  OBVIOUS
<1>5. \A k \in 1 .. Len(<<f, g>>) : ~Texting(<<f, g>>[k])
  BY <1>3, <1>4
<1> QED
  BY <1>1, <1>2, <1>5 DEF Unwritten

\* Hearing changes neither texts nor choices, nor makes it settled what was not.
LEMMA HearingStays ==
    ASSUME SessionTypes,
           Rests \/ Accepts \/ Replies \/ Edits \/ Pops \/ Queues \/ AsksAgain
    PROVE  /\ phase' = phase /\ version' = version /\ failure' = failure
           /\ Settled' => Settled
           /\ ChoiceFits => ChoiceFits'
<1>1. /\ UNCHANGED <<phase, version, failure, query, chosen>>
      /\ scope' = scope \/ scope' = "seen"
  BY DEF Rests, Accepts, Replies, Edits, Pops, Queues, AsksAgain, Ask, Go, control, diagnostics,
         selection, edits
<1> QED
  BY <1>1 DEF Settled, ChoiceFits

\* Only sending takes a text from those that wait.
LEMMA HearingUnwritten ==
    ASSUME SessionTypes, CourseInv, Rests \/ Accepts \/ Replies \/ Edits \/ Pops \/ AsksAgain
    PROVE  Unwritten(stack') = Unwritten(stack)
<1>1. stack \in Seq(Frames)
  BY DEF SessionTypes, ControlTypes
<1>2. CASE Rests \/ Accepts
  BY <1>2 DEF Rests, Accepts, control
<1>3. ASSUME NEW ok \in BOOLEAN
      PROVE  /\ Reply(ok) \in Frames /\ Append(stack, Reply(ok)) \in Seq(Frames)
             /\ Unwritten(Append(stack, Reply(ok))) = Unwritten(stack)
  <2>1. Reply(ok) \in Frames /\ ~Texting(Reply(ok))
    BY MadeFrames DEF Texting, Reply, Sending
  <2> QED
    BY <1>1, <2>1, UnwrittenMore, OneMoreFrame
<1>4. CASE Replies
  BY <1>3, <1>4 DEF Replies, Go
<1>5. CASE Edits
  <2>1. PICK d \in SUBSET Docs, b \in Texts :
           stack' = Append(Append(stack, Reply(TRUE)), Syncing(d, b))
    BY <1>5 DEF Edits, Go
  <2>2. Syncing(d, b) \in Frames /\ ~Texting(Syncing(d, b))
    BY MadeFrames DEF Texting, Syncing
  <2> QED
    BY <1>3, <2>1, <2>2, UnwrittenMore
<1>6. CASE Pops
  <2>1. stack # <<>> /\ stack' = Front(stack) /\ ~Texting(Last(stack))
    BY <1>6 DEF Pops, Go, Callers, Texting
  <2> QED
    BY <1>1, <2>1, UnwrittenLess
<1>7. CASE AsksAgain
  <2>1. /\ stack # <<>> /\ Callers = <<>> /\ Last(stack).at = "request"
        /\ Front(stack) = <<>>
    BY <1>7, RequestIsAlone DEF AsksAgain, CourseInv, Callers, In
  <2>2. Unwritten(stack) = {}
    BY <1>1, <2>1, UnwrittenLess, NothingIsUnwritten DEF Texting
  <2>3. Unwritten(stack') = {}
    BY <1>7, <2>1, AskingIsNoText DEF AsksAgain
  <2> QED
    BY <2>2, <2>3
<1> QED
  BY <1>2, <1>4, <1>5, <1>6, <1>7

\* Nothing new is on its way.
LEMMA LessInFlight ==
    ASSUME EditsInFlight, phase' = phase, version' = version, Settled' => Settled, ChoiceFits',
           Unwritten(stack') = Unwritten(stack), UNCHANGED <<known, owed>>, Pipe' = Pipe,
           \A v : BasedOn(Incoming, v) => BasedOn(Incoming', v),
           \A v : FromAnswer(Incoming, v) => FromAnswer(Incoming', v),
           Clear(Incoming) => Clear(Incoming')
    PROVE  EditsInFlight'
<1>1. TextsArrive'
  BY DEF EditsInFlight, TextsArrive
<1>2. SettledFits'
  BY DEF EditsInFlight, SettledFits
<1>3. QueryFits'
  BY DEF EditsInFlight, QueryFits
<1> QED
  BY <1>1, <1>2, <1>3 DEF EditsInFlight

\* A message goes from the stack to the writer.
LEMMA SendingEdits ==
    ASSUME SessionTypes, CourseInv, EditsInFlight, Send, Queues
    PROVE  EditsInFlight'
<1>1. stack \in Seq(Frames) /\ stack # <<>> /\ Last(stack).at = "send"
  BY DEF SessionTypes, ControlTypes, Queues, In
<1>2. Last(stack) \in Frames /\ Front(stack) \in Seq(Frames)
  BY <1>1, LastAndFront
<1> DEFINE f == [Last(stack) EXCEPT !.queued = TRUE]
           m == Last(stack).msg
<1>3. m \in Written /\ f \in Frames /\ f.at = "send" /\ f.queued = TRUE
  BY <1>1, <1>2, FrameParts
<1>4. stack' = Append(Front(stack), f)
  BY DEF Queues, Go, Callers
<1>5. UNCHANGED <<phase, version, known, owed, toServer, toClient, deferred, query, chosen, scope>>
  BY DEF Send, Go, Queues, servervars, diagnostics, selection, edits
<1>6. Incoming' = Incoming /\ (Settled' => Settled) /\ ChoiceFits'
  BY <1>5, HearingStays, PipeParts DEF EditsInFlight
<1>7. /\ Unwritten(stack') = Unwritten(Front(stack))
      /\ Unwritten(stack) = Unwritten(Front(stack)) \cup (IF Texting(Last(stack)) THEN {m} ELSE {})
  <2>1. Unwritten(stack') = Unwritten(Front(stack)) \cup (IF Texting(f) THEN {f.msg} ELSE {})
    BY <1>2, <1>3, <1>4, UnwrittenMore
  <2>2. ~Texting(f)
    BY <1>3 DEF Texting
  <2> QED
    BY <1>1, <2>1, <2>2, UnwrittenLess
<1> HIDE DEF f, m
<1>8. CASE /\ ~Last(stack).queued
           /\ writer' = Append(writer, m)
  <2>1. Pipe' = Append(Pipe, m) /\ Pipe \in Seq(Written)
    BY <1>3, <1>5, <1>8, PipeParts
  <2>2. m.is = "text" => m \in Unwritten(stack)
    BY <1>1, <1>7, <1>8 DEF Texting, m
  <2>3. TextsArrive'
    <3>1. \A n \in Unwritten(stack') : n.version = version'[n.doc]
      BY <1>5, <1>7 DEF EditsInFlight, TextsArrive
    <3>2. ASSUME NEW d \in Docs, ~ \E n \in Unwritten(stack') : n.doc = d
          PROVE  Newest(Pipe', d, version'[d]) /\ (Told(Pipe', d) \/ known'[d] = version'[d])
      <4>1. CASE IsText(m, d)
        <5>1. m.version = version[d]
          BY <2>2, <4>1 DEF EditsInFlight, TextsArrive, IsText
        <5> QED
          BY <1>3, <1>5, <2>1, <4>1, <5>1, TextsMore
      <4>2. CASE ~IsText(m, d)
        <5>1. ~ \E n \in Unwritten(stack) : n.doc = d
          BY <1>1, <1>7, <3>2, <4>2 DEF IsText, Texting, m
        <5>2. Newest(Pipe, d, version[d]) /\ (Told(Pipe, d) \/ known[d] = version[d])
          BY <5>1 DEF EditsInFlight, TextsArrive
        <5> QED
          BY <1>3, <1>5, <2>1, <4>2, <5>2, TextsMore
      <4> QED
        BY <4>1, <4>2
    <3> QED
      BY <3>1, <3>2 DEF TextsArrive
  <2>4. Settled \/ phase = "query" => m.is # "text"
    BY <2>2, NoTextWaits
  <2>5. SettledFits'
    BY <1>3, <1>5, <1>6, <2>1, <2>4, TextsMore DEF EditsInFlight, SettledFits
  <2>6. QueryFits'
    BY <1>3, <1>5, <1>6, <2>1, <2>4, TextsMore DEF EditsInFlight, QueryFits
  <2> QED
    BY <1>6, <2>3, <2>5, <2>6 DEF EditsInFlight
<1>9. CASE Last(stack).queued /\ UNCHANGED writer
  <2>1. Pipe' = Pipe
    BY <1>5, <1>9, PipeParts
  <2>2. Unwritten(stack') = Unwritten(stack)
    BY <1>7, <1>9 DEF Texting
  <2> QED
    BY <1>5, <1>6, <2>1, <2>2, LessInFlight
<1> QED
  BY <1>8, <1>9 DEF Send, m

\* Whatever the server says, an edit in it is computed from the texts it knows, and
\* only what it owes it answers.
LEMMA ServerSays ==
    ASSUME SessionTypes, ServerStep
    PROVE  \/ ServerReads
           \/ /\ UNCHANGED <<toServer, known>>
              /\ \E m \in Said :
                    /\ toClient' = Append(toClient, m)
                    /\ Carries(m) => m.base = known
                    /\ \/ m.is # "response" /\ owed' = owed
                       \/ owed # <<>> /\ owed' = Tail(owed)
<1>1. CASE ServerAnswers
  <2> DEFINE r == Head(owed)
  <2>1. owed # <<>> /\ owed' = Tail(owed) /\ UNCHANGED <<toServer, known>>
    BY <1>1 DEF ServerAnswers
  <2>2. r \in Requests
    BY <2>1, HeadTailProperties DEF SessionTypes, ServerTypes
  <2>3. \A offered \in Offers(r) : offered \subseteq Action \cup Based
    <3>1. r.method = "resolve" => r.about \in Based
      BY <2>2 DEF Requests
    <3>2. \A a \in Based : [a EXCEPT !.kind = "edit"] \in Based
      BY DEF Based, Kinds
    <3> QED
      BY <3>1, <3>2, ServerAssumption DEF Offers
  <2>4. \A o \in {"result", "modified"}, a \in SUBSET (Action \cup Based) :
           Response(o, a) \in Said /\ Response(o, a).base = known
    BY <2>2 DEF Response, Said, Responses, Requests, SessionTypes, ServerTypes
  <2> HIDE DEF r
  <2>5. \E m \in Said : toClient' = Append(toClient, m) /\ m.base = known
    <3>1. CASE \E offered \in Offers(r) : Write(Response("result", offered))
      BY <2>3, <2>4, <3>1 DEF Write
    <3>2. CASE Write(Response("modified", {}))
      BY <2>4, <3>2 DEF Write
    <3> QED
      BY <1>1, <3>1, <3>2 DEF ServerAnswers, r
  <2> QED
    BY <2>1, <2>5
<1>2. ASSUME NEW m \in Said, Unasked(m), m.is # "response", Carries(m) => m.base = known
      PROVE  /\ UNCHANGED <<toServer, known>>
             /\ \E n \in Said :
                   /\ toClient' = Append(toClient, n)
                   /\ Carries(n) => n.base = known
                   /\ n.is # "response" /\ owed' = owed
  BY <1>2 DEF Unasked, Write
<1>3. CASE \E d \in Docs : ServerPublishes(d)
  <2>1. PICK d \in Docs : ServerPublishes(d)
    BY <1>3
  <2>2. PICK base \in 0 .. known[d] \cup {0}, problem \in BOOLEAN :
           \E v \in {base, None} : Unasked(Publication(d, base, v, problem))
    BY <2>1 DEF ServerPublishes
  <2>3. PICK v \in {base, None} : Unasked(Publication(d, base, v, problem))
    BY <2>2
  <2>4. base \in Nat
    BY DEF SessionTypes, ServerTypes, Texts, Closed
  <2>5. /\ Publication(d, base, v, problem) \in Said
        /\ Publication(d, base, v, problem).is = "publish"
    BY <2>4 DEF Publication, Said, Publications
  <2> QED
    BY <1>2, <2>3, <2>5 DEF Carries
<1>4. CASE ServerAsks
  <2>1. [is |-> "ask"] \in Said
    BY DEF Said
  <2> QED
    BY <1>2, <1>4, <2>1 DEF ServerAsks, Carries
<1>5. CASE \E d \in (SUBSET Docs) \ {{}} : ServerEdits(d)
  <2>1. PICK d \in SUBSET Docs : Unasked([is |-> "edit", docs |-> d, base |-> known])
    BY <1>5 DEF ServerEdits
  <2>2. [is |-> "edit", docs |-> d, base |-> known] \in Said
    BY DEF SessionTypes, ServerTypes, Said, EditAsks
  <2> QED
    BY <1>2, <2>1, <2>2
<1> QED
  BY <1>1, <1>3, <1>4, <1>5 DEF ServerStep

\* The server reads a text or a request, and says what it computed from the texts
\* it knows: when none is on its way, those are the texts as they are.
LEMMA ServerKeepsEdits ==
    ASSUME SessionTypes, CourseInv, EditsInFlight, ServerStep,
           UNCHANGED <<transport, diagnostics, selection, edits, control>>
    PROVE  EditsInFlight'
<1>1. /\ toServer \in Seq(Written) /\ toClient \in Seq(Said) /\ owed \in Seq(Requests)
      /\ known \in [Docs -> Nat \cup {Closed}] /\ Pipe \in Seq(Written) /\ Incoming \in Seq(Said)
  BY PipeParts DEF SessionTypes, ServerTypes, Texts
<1>2. /\ UNCHANGED <<writer, deferred, version, query, chosen, scope, phase, stack>>
      /\ ChoiceFits' /\ (Settled' <=> Settled)
  BY DEF transport, diagnostics, selection, edits, control, EditsInFlight, ChoiceFits, Settled
<1>3. CASE ServerReads
  <2> DEFINE m == Head(toServer)
  <2>1. /\ toServer # <<>> /\ toServer' = Tail(toServer) /\ UNCHANGED toClient
        /\ known' = IF m.is = "text" THEN [known EXCEPT ![m.doc] = m.version] ELSE known
        /\ owed' = IF m.is = "request" THEN Append(owed, m) ELSE owed
    BY <1>3 DEF ServerReads
  <2>2. Pipe # <<>> /\ Pipe' = Tail(Pipe) /\ Head(Pipe) = m /\ Incoming' = Incoming
    BY <1>2, <2>1, PipeParts
  <2> HIDE DEF m
  <2>3. /\ \A d, v : Newest(Pipe, d, v) =>
              Newest(Pipe', d, v) /\ (IsText(m, d) => Told(Pipe', d) \/ m.version = v)
        /\ \A d : Told(Pipe, d) => Told(Pipe', d) \/ IsText(m, d)
        /\ Textless(Pipe) => Textless(Pipe')
        /\ AskedLast(Pipe) => AskedLast(Pipe') /\ (m.is = "request" => Textless(Pipe'))
    BY <1>1, <2>2, TextsLess
  <2>4. TextsArrive'
    <3>1. ASSUME NEW d \in Docs, ~ \E n \in Unwritten(stack) : n.doc = d
          PROVE  Newest(Pipe', d, version[d]) /\ (Told(Pipe', d) \/ known'[d] = version[d])
      <4>1. Newest(Pipe, d, version[d]) /\ (Told(Pipe, d) \/ known[d] = version[d])
        BY <3>1 DEF EditsInFlight, TextsArrive
      <4>2. IsText(m, d) => known'[d] = m.version
        BY <1>1, <2>1 DEF IsText
      <4>3. ~IsText(m, d) => known'[d] = known[d]
        BY <1>1, <2>1 DEF IsText
      <4> QED
        BY <2>3, <4>1, <4>2, <4>3
    <3> QED
      BY <1>2, <3>1 DEF EditsInFlight, TextsArrive
  <2>5. SettledFits'
    BY <1>2, <2>2, <2>3 DEF EditsInFlight, SettledFits
  <2>6. QueryFits'
    BY <1>2, <2>1, <2>2, <2>3 DEF EditsInFlight, QueryFits
  <2> QED
    BY <1>2, <2>4, <2>5, <2>6 DEF EditsInFlight
<1>4. CASE /\ UNCHANGED <<toServer, known>>
           /\ \E m \in Said :
                 /\ toClient' = Append(toClient, m)
                 /\ Carries(m) => m.base = known
                 /\ \/ m.is # "response" /\ owed' = owed
                    \/ owed # <<>> /\ owed' = Tail(owed)
  <2>1. PICK m \in Said :
           /\ toClient' = Append(toClient, m)
           /\ Carries(m) => m.base = known
           /\ \/ m.is # "response" /\ owed' = owed
              \/ owed # <<>> /\ owed' = Tail(owed)
    BY <1>4
  <2>2. Pipe' = Pipe /\ Incoming' = Append(Incoming, m) /\ UNCHANGED known
    BY <1>2, <1>4, <2>1, PipeParts
  <2>3. TextsArrive'
    BY <1>2, <2>2 DEF EditsInFlight, TextsArrive
  <2>4. (Settled \/ phase = "query") /\ Textless(Pipe) => known = version
    BY NoTextWaits, AllKnown DEF EditsInFlight
  <2>5. SettledFits'
    BY <1>1, <1>2, <2>1, <2>2, <2>4, BasesMore DEF EditsInFlight, SettledFits
  <2>6. ASSUME phase = "query"
        PROVE  /\ (Clear(owed') /\ Clear(Incoming')) \/ Textless(Pipe)
               /\ FromAnswer(Incoming', version)
    <3>1. FromAnswer(Incoming, version)
      BY <2>6 DEF EditsInFlight, QueryFits
    <3>2. CASE Textless(Pipe)
      BY <1>1, <2>1, <2>2, <2>4, <2>6, <3>1, <3>2, BasesMore
    <3>3. CASE Clear(owed) /\ Clear(Incoming)
      <4>1. owed # <<>> => ~Clear(owed)
        <5>1. owed # <<>> => Head(owed) \in Requests
          BY <1>1, HeadTailProperties
        <5>2. \A r \in Requests : Mine(r)
          BY DEF Requests, Mine
        <5> QED
          BY <1>1, <5>1, <5>2, ClearLess
      <4>2. m.is # "response" /\ owed' = owed /\ ~Mine(m)
        <5>1. m.is \in {"publish", "response", "edit", "ask"}
          BY SaidParts
        <5> QED
          BY <2>1, <3>3, <4>1, <5>1 DEF Mine
      <4>3. Clear(Incoming')
        BY <1>1, <2>2, <3>3, <4>2, ClearMore
      <4>4. FromAnswer(Incoming', version)
        BY <1>1, <2>2, <3>1, <3>3, <4>2, BasesMore DEF Carries
      <4> QED
        BY <3>3, <4>2, <4>3, <4>4
    <3> QED
      BY <2>6, <3>2, <3>3 DEF EditsInFlight, QueryFits
  <2>7. QueryFits'
    BY <1>2, <2>2, <2>6 DEF EditsInFlight, QueryFits
  <2> QED
    BY <1>2, <2>3, <2>5, <2>7 DEF EditsInFlight
<1> QED
  BY <1>3, <1>4, ServerSays

\* What is heard, written or sent, and goes on without an error.
LEMMA HearingKeepsEdits ==
    ASSUME SessionTypes, CourseInv, EditsInFlight, Hearing, failure' = "none"
    PROVE  EditsInFlight'
<1>1. Rests \/ Accepts \/ Replies \/ Edits \/ Pops \/ (Send /\ Queues) \/ AsksAgain
  BY HearingKinds DEF Stops
<1>2. CASE Send /\ Queues
  BY <1>2, SendingEdits
<1>3. ASSUME ~(Send /\ Queues) PROVE EditsInFlight'
  <2>1. Rests \/ Accepts \/ Replies \/ Edits \/ Pops \/ AsksAgain
    BY <1>1, <1>3
  <2>2. /\ phase' = phase /\ version' = version /\ (Settled' => Settled) /\ ChoiceFits'
        /\ Unwritten(stack') = Unwritten(stack)
    BY <2>1, HearingStays, HearingUnwritten DEF EditsInFlight
  <2>3. /\ toServer \in Seq(Written) /\ toClient \in Seq(Said)
        /\ deferred \in Seq(Said) /\ Incoming \in Seq(Said)
    BY PipeParts DEF SessionTypes, ServerTypes, TransportTypes
  <2>4. ASSUME Pipe' = Pipe, Incoming' = Incoming, UNCHANGED <<known, owed>>
        PROVE  EditsInFlight'
    BY <2>2, <2>4, LessInFlight
  <2>5. ASSUME Incoming # <<>>, Take, UNCHANGED writer PROVE EditsInFlight'
    <3>1. UNCHANGED <<toServer, known, owed>>
      BY <2>5 DEF Take, Read, servervars
    <3>2. Pipe' = Pipe /\ Incoming' = Tail(Incoming)
      BY <2>5, <3>1, PipeParts
    <3>3. /\ \A v : BasedOn(Incoming, v) => BasedOn(Incoming', v)
          /\ \A v : FromAnswer(Incoming, v) => FromAnswer(Incoming', v)
          /\ Clear(Incoming) => Clear(Incoming')
      BY <2>3, <2>5, <3>2, BasesAfter, ClearLess
    <3> QED
      BY <2>2, <3>1, <3>2, <3>3, LessInFlight
  <2>6. CASE Send
    <3>1. UNCHANGED <<servervars, deferred, writer>>
      BY <1>3, <2>6 DEF Send, Queues
    <3> QED
      BY <2>4, <3>1, PipeParts DEF servervars
  <2>7. CASE Pump
    <3>1. toClient # <<>> /\ Read /\ UNCHANGED writer
      BY <2>7 DEF Pump, Pumping
    <3>2. UNCHANGED <<toServer, known, owed>> /\ toClient' = Tail(toClient)
      BY <3>1 DEF Read
    <3>3. Pipe' = Pipe
      BY <3>1, <3>2, PipeParts
    <3>4. CASE deferred' = Append(deferred, Head(toClient))
      <4>1. Incoming' = Incoming
        BY <3>1, <3>2, <3>4, PipeParts
      <4> QED
        BY <2>4, <3>2, <3>3, <4>1
    <3>5. CASE UNCHANGED deferred
      <4>1. Incoming' = deferred \o Tail(toClient)
        BY <3>1, <3>2, <3>5, PipeParts
      <4>2. /\ \A v : BasedOn(Incoming, v) => BasedOn(Incoming', v)
            /\ \A v : FromAnswer(Incoming, v) => FromAnswer(Incoming', v)
            /\ Clear(Incoming) => Clear(Incoming')
        BY <2>3, <3>1, <4>1, Without DEF Incoming
      <4> QED
        BY <2>2, <3>2, <3>3, <4>2, LessInFlight
    <3> QED
      BY <2>7, <3>4, <3>5 DEF Pump
  <2>8. CASE WaitForDiagnostics \/ DrainServerEvents \/ RequestHandles
    <3>1. UNCHANGED writer
      BY <2>8 DEF WaitForDiagnostics, DrainServerEvents, RequestHandles
    <3>2. CASE Incoming # <<>> /\ Take
      BY <2>5, <3>1, <3>2
    <3>3. CASE UNCHANGED <<servervars, deferred>>
      BY <2>4, <3>1, <3>3, PipeParts DEF servervars
    <3>4. CASE Incoming # <<>> /\ deferred = <<>> /\ Read /\ deferred' = <<Head(toClient)>>
      <4>1. toClient # <<>>
        BY <3>4, TakeTypes
      <4>2. UNCHANGED <<toServer, known, owed>> /\ toClient' = Tail(toClient)
        BY <3>4 DEF Read
      <4> QED
        BY <2>4, <3>1, <3>4, <4>1, <4>2, PipeParts
    <3> QED
      BY <2>8, <3>2, <3>3, <3>4 DEF WaitForDiagnostics, DrainServerEvents, RequestHandles
  <2>9. CASE Retry
    BY <2>5, <2>9 DEF Retry, Answered
  <2>10. CASE Disconnected \/ UNCHANGED vars
    BY <2>4, <2>10, PipeParts DEF Disconnected, vars, servervars, transport
  <2>11. CASE Deadline \/ Crash
    BY <2>4, <2>11, PipeParts DEF Deadline, Crash, transport
  <2>12. CASE WriterWrites
    BY <2>4, <2>12, PipeParts DEF WriterWrites
  <2>13. CASE ServerActs
    BY <2>13, ServerKeepsEdits DEF ServerActs
  <2> QED
    BY <2>6, <2>7, <2>8, <2>9, <2>10, <2>11, <2>12, <2>13 DEF Hearing
<1> QED
  BY <1>2, <1>3

-----------------------------------------------------------------------------
(***************************************************************************)
(* The session's own course keeps it.                                      *)
(***************************************************************************)

\* No text changes hands.
LEMMA ArriveStill ==
    ASSUME TextsArrive, UNCHANGED <<version, known>>, Pipe' = Pipe,
           Unwritten(stack') = Unwritten(stack)
    PROVE  TextsArrive'
BY DEF TextsArrive

\* Outside of the choice of an action and of commands only texts matter.
LEMMA Elsewhere ==
    ASSUME SessionTypes', CourseInv', TextsArrive',
           phase' \notin {"query", "select", "apply", "command"}
    PROVE  EditsInFlight'
<1>1. scope' = "inactive"
  BY DEF CourseInv, Progress
<1> QED
  BY <1>1 DEF EditsInFlight, SettledFits, Settled, QueryFits, ChoiceFits

\* Nothing that the course puts on the stack is a text, but for the documents it opens.
LEMMA CourseIsNoText ==
    /\ Unwritten(<<>>) = {}
    /\ Unwritten(<<Waiting>>) = {}
    /\ Unwritten(<<Sending([is |-> "note"])>>) = {}
    /\ \A d \in SUBSET Docs, b \in Texts : Unwritten(Append(<<>>, Syncing(d, b))) = {}
<1>1. /\ ~Texting(Waiting) /\ ~Texting(Sending([is |-> "note"]))
      /\ \A d, b : ~Texting(Syncing(d, b))
  BY DEF Texting, Waiting, Sending, Syncing
<1>2. ASSUME NEW f, ~Texting(f) PROVE Unwritten(<<f>>) = {}
  <2>1. Len(<<f>>) = 1 /\ <<f>>[1] = f
    OBVIOUS
  <2> QED
    BY <1>2, <2>1 DEF Unwritten
<1>3. \A f : Append(<<>>, f) = <<f>>
  OBVIOUS
<1> QED
  BY <1>1, <1>2, <1>3, NothingIsUnwritten

\* An answer that a result is taken from: what is left fits as it did, and no text
\* waits.
LEMMA ResultArrives ==
    ASSUME SessionTypes, CourseInv, TextsArrive, NEW method, NEW p, NEW frames,
           Result(method, p, frames), Unwritten(frames) = {}
    PROVE  /\ TextsArrive'
           /\ phase \in Asking /\ method = Method[phase] /\ phase' = p
           /\ Incoming # <<>> /\ Head(Incoming).is = "response" /\ Incoming' = Tail(Incoming)
           /\ Pipe' = Pipe /\ version' = version
<1>1. /\ phase \in Asking /\ method = Method[phase] /\ phase' = p /\ stack' = frames
      /\ UNCHANGED diagnostics
  BY ResultEnds
<1>2. /\ Incoming # <<>> /\ Take /\ Head(Incoming).is = "response" /\ UNCHANGED writer
      /\ In("request")
  BY DEF Result, Answered
<1>3. UNCHANGED <<toServer, known>>
  BY <1>2 DEF Take, Read, servervars
<1>4. Pipe' = Pipe /\ Incoming' = Tail(Incoming)
  BY <1>2, <1>3, PipeParts
<1>5. Unwritten(stack) = {}
  <2>1. /\ stack \in Seq(Frames) /\ stack # <<>> /\ Front(stack) = <<>>
        /\ Last(stack).at = "request"
    BY <1>2, RequestIsAlone DEF CourseInv, SessionTypes, ControlTypes, Callers, In
  <2> QED
    BY <2>1, UnwrittenLess, NothingIsUnwritten DEF Texting
<1>6. TextsArrive'
  BY <1>1, <1>3, <1>4, <1>5, ArriveStill DEF diagnostics
<1> QED
  BY <1>1, <1>2, <1>4, <1>6 DEF diagnostics

\* Where an idle session goes on with frames that send no text.
LEMMA IdleArrives ==
    ASSUME SessionTypes, TextsArrive, stack = <<>>, Unwritten(stack') = {},
           UNCHANGED <<servervars, transport, version>>
    PROVE  TextsArrive' /\ Pipe' = Pipe /\ Incoming' = Incoming /\ owed' = owed
<1>1. Pipe' = Pipe /\ Incoming' = Incoming /\ UNCHANGED <<known, owed>>
  BY PipeParts DEF servervars, transport
<1> QED
  BY <1>1, ArriveStill, NothingIsUnwritten

\* Two sequences without requests and answers.
LEMMA ClearTwo ==
    ASSUME NEW S, NEW s \in Seq(S), NEW t \in Seq(S), Clear(s), Clear(t)
    PROVE  Clear(s \o t)
<1>1. Len(s) \in Nat /\ Len(t) \in Nat /\ Len(s \o t) = Len(s) + Len(t)
  BY ConcatProperties
<1>2. SUFFICES ASSUME NEW k \in 1 .. Len(s) + Len(t) PROVE ~Mine((s \o t)[k])
  BY <1>1 DEF Clear
<1>3. (s \o t)[k] = IF k <= Len(s) THEN s[k] ELSE t[k - Len(s)]
  BY ConcatProperties
<1>4. k \in 1 .. Len(s) \/ (~(k <= Len(s)) /\ k - Len(s) \in 1 .. Len(t))
  BY <1>1
<1> QED
  BY <1>1, <1>3, <1>4 DEF Clear

\* The exit notification is no text.
LEMMA ExitArrives ==
    ASSUME SessionTypes, TextsArrive, NotifyExit
    PROVE  TextsArrive' /\ phase' \in {"exiting", "reap"}
<1>1. /\ stack = <<>> /\ stack' = <<>> /\ phase' \in {"exiting", "reap"}
      /\ UNCHANGED <<toServer, known, version>>
      /\ writer' = writer \/ writer' = Append(writer, [is |-> "exit"])
  BY DEF NotifyExit, Idle, Go, servervars, diagnostics
<1>2. CASE writer' = writer
  BY <1>1, <1>2, ArriveStill, PipeParts
<1>3. CASE writer' = Append(writer, [is |-> "exit"])
  <2>1. [is |-> "exit"] \in Written /\ \A d : ~IsText([is |-> "exit"], d)
    BY MadeMessages DEF IsText
  <2>2. Pipe' = Append(Pipe, [is |-> "exit"]) /\ Pipe \in Seq(Written)
    BY <1>1, <1>3, <2>1, PipeParts
  <2>3. ASSUME NEW d \in Docs
        PROVE  /\ Newest(Pipe, d, version[d]) => Newest(Pipe', d, version[d])
               /\ Told(Pipe, d) => Told(Pipe', d)
    BY <2>1, <2>2, TextsMore
  <2> QED
    BY <1>1, <2>3 DEF TextsArrive
<1> QED
  BY <1>1, <1>2, <1>3

\* A new text of a document waits to be written, and no older one does.
LEMMA NewTextArrives ==
    ASSUME SessionTypes, TextsArrive, NEW d \in Docs, NEW v \in Nat,
           version' = [version EXCEPT ![d] = v],
           UNCHANGED <<servervars, transport>>,
           Unwritten(stack) = {},
           Unwritten(stack') = {[is |-> "text", doc |-> d, version |-> v]}
    PROVE  TextsArrive'
<1> DEFINE m == [is |-> "text", doc |-> d, version |-> v]
<1>1. Pipe' = Pipe /\ known' = known
  BY PipeParts DEF servervars, transport
<1>2. version \in [Docs -> Nat \cup {Closed}]
  BY DEF SessionTypes, DiagnosticTypes, Texts
<1>3. /\ version'[d] = v
      /\ \A e \in Docs \ {d} : version'[e] = version[e]
  BY <1>2
<1>4. m.doc = d /\ m.version = v
  OBVIOUS
<1> HIDE DEF m
<1>5. \A n \in Unwritten(stack') : n = m
  BY DEF m
<1>6. m \in Unwritten(stack')
  BY DEF m
<1>7. \A n \in Unwritten(stack') : n.version = version'[n.doc]
  BY <1>3, <1>4, <1>5
<1>8. ASSUME NEW e \in Docs, e # d
      PROVE  Newest(Pipe', e, version'[e]) /\ (Told(Pipe', e) \/ known'[e] = version'[e])
  BY <1>1, <1>3, <1>8 DEF TextsArrive
<1> QED
  BY <1>4, <1>6, <1>7, <1>8 DEF TextsArrive

\* A document is opened.
LEMMA OpenArrives ==
    ASSUME SessionTypes, CourseInv, TextsArrive, OpenDocuments
    PROVE  TextsArrive' /\ phase' \in {"open", "settle", "search"}
<1>1. stack = <<>> /\ UNCHANGED <<servervars, transport>>
  BY DEF OpenDocuments, Idle, SettingUp
<1>2. CASE \/ Go("settle", <<Waiting>>) /\ UNCHANGED version
           \/ Go("search", <<>>) /\ UNCHANGED version
  <2>1. /\ Unwritten(stack') = {} /\ UNCHANGED version
        /\ phase' \in {"open", "settle", "search"}
    BY <1>2, CourseIsNoText DEF Go
  <2> QED
    BY <1>1, <2>1, IdleArrives
<1>3. CASE /\ \E d \in Docs : version[d] = Closed
           /\ LET d == Min({e \in Docs : version[e] = Closed})
              IN  /\ version' = [version EXCEPT ![d] = 0]
                  /\ Go("open", <<Draining,
                        Sending([is |-> "text", doc |-> d, version |-> 0])>>)
  <2> DEFINE d == Min({e \in Docs : version[e] = Closed})
             m == [is |-> "text", doc |-> d, version |-> 0]
  <2>1. d \in Docs
    <3>1. {e \in Docs : version[e] = Closed} \subseteq Nat
      BY ServerAssumption
    <3>2. d \in {e \in Docs : version[e] = Closed}
      BY <1>3, <3>1, MinIsIn
    <3> QED
      BY <3>2
  <2>2. /\ version' = [version EXCEPT ![d] = 0]
        /\ stack' = <<Draining, Sending(m)>> /\ phase' = "open"
    BY <1>3 DEF Go
  <2> HIDE DEF d
  <2>3. /\ ~Texting(Draining) /\ Texting(Sending(m)) /\ Sending(m).msg = m
    BY DEF Texting, Draining, Sending
  <2> DEFINE f == Sending(m)
  <2> HIDE DEF f
  <2>4. Unwritten(<<Draining, f>>) = {m}
    <3>1. /\ Len(<<Draining, f>>) = 2 /\ <<Draining, f>>[1] = Draining
          /\ <<Draining, f>>[2] = f
      OBVIOUS
    <3>2. {k \in 1 .. Len(<<Draining, f>>) : Texting(<<Draining, f>>[k])} = {2}
      BY <2>3, <3>1 DEF f
    <3>3. Unwritten(<<Draining, f>>) = {<<Draining, f>>[k].msg : k \in {2}}
      BY <3>2 DEF Unwritten
    <3> QED
      BY <2>3, <3>1, <3>3 DEF f
  <2>5. Unwritten(stack) = {} /\ Unwritten(stack') = {m}
    BY <1>1, <2>2, <2>4, NothingIsUnwritten DEF f
  <2> QED
    BY <1>1, <2>1, <2>2, <2>5, NewTextArrives
<1> QED
  BY <1>2, <1>3 DEF OpenDocuments

\* An edit's texts go out one by one, and its end changes nothing.
LEMMA SynchronizeArrives ==
    ASSUME SessionTypes, CourseInv, TextsArrive, Synchronize
    PROVE  TextsArrive' /\ phase' \in {"command", "applied"} /\ scope' # "awaiting"
<1>1. /\ stack \in Seq(Frames) /\ stack # <<>> /\ Last(stack).at = "sync"
      /\ UNCHANGED <<servervars, transport>> /\ applying \in BOOLEAN
  BY DEF SessionTypes, ControlTypes, EditTypes, Synchronize, In
<1>2. /\ Len(stack) \in Nat /\ Len(stack) >= 1 /\ Last(stack) = stack[Len(stack)]
      /\ Last(stack) \in Frames /\ Callers \in Seq(Frames)
  BY <1>1, LastAndFront DEF Callers
<1>3. applying = TRUE
  <2>1. \E k \in 1 .. Len(stack) : stack[k].at = "sync"
    BY <1>1, <1>2
  <2> QED
    BY <1>1, <2>1 DEF CourseInv, StackShape, Shape
<1>4. phase \in {"command", "applied"} /\ scope # "awaiting"
  BY <1>3 DEF CourseInv, Progress
<1>5. phase' = phase /\ scope' = scope
  BY DEF Synchronize, Go, edits
<1>6. Unwritten(stack) = {}
  <2>1. ASSUME NEW k \in 1 .. Len(stack), stack[k].at = "send", stack[k].msg.is = "text"
        PROVE  FALSE
    <3>1. PICK j \in 1 .. k - 1 : stack[j].at = "sync"
      BY <1>4, <2>1 DEF CourseInv, StackShape, Shape, Sends
    <3>2. j \in 1 .. Len(stack) /\ Len(stack) \in 1 .. Len(stack) /\ j # Len(stack)
      BY <1>2
    <3> QED
      BY <1>1, <1>2, <3>1, <3>2 DEF CourseInv, StackShape, Shape
  <2> QED
    BY <2>1 DEF Unwritten, Texting
<1>7. Unwritten(Callers) = {}
  BY <1>1, <1>6, UnwrittenLess DEF Callers
<1>8. CASE Last(stack).docs # {}
  <2> DEFINE d == Min(Last(stack).docs)
             rest == [Last(stack) EXCEPT !.docs = Last(stack).docs \ {d}]
             note == [is |-> "text", doc |-> d, version |-> version'[d]]
             s == Append(Callers, rest)
             t == Append(s, Draining)
             u == Append(t, Sending(note))
  <2>1. d \in Last(stack).docs /\ Last(stack).docs \subseteq Docs
    BY <1>1, <1>2, <1>8, FrameParts, MinIsIn, ServerAssumption
  <2>2. /\ Go(phase, Callers \o <<rest, Draining, Sending(note)>>)
        /\ version' = [version EXCEPT ![d] = version[d] + 1]
    BY <1>8 DEF Synchronize
  <2>3. version'[d] \in Nat /\ version' = [version EXCEPT ![d] = version'[d]]
    <3>1. version \in [Docs -> Nat \cup {Closed}] /\ Closed + 1 = 0
      BY DEF SessionTypes, DiagnosticTypes, Texts, Closed
    <3> HIDE DEF d
    <3>2. d \in Docs /\ version' = [version EXCEPT ![d] = version[d] + 1]
      BY <2>1, <2>2
    <3>3. version'[d] = version[d] + 1 /\ version[d] + 1 \in Nat
      BY <3>1, <3>2
    <3> QED
      BY <3>2, <3>3
  <2>4. rest \in Frames /\ rest.at = "sync"
    <3>1. Last(stack) \in Frames /\ Last(stack).at = "sync"
      BY <1>1, <1>2
    <3>2. Last(stack).docs \ {d} \in SUBSET Docs
      BY <2>1
    <3> HIDE DEF d
    <3> QED
      BY <3>1, <3>2, FrameParts
  <2>5. Draining \in Frames /\ Draining.at = "drain"
    BY MadeFrames DEF Draining
  <2>6. /\ Sending(note) \in Frames /\ Texting(Sending(note)) /\ Sending(note).msg = note
    <3>1. note \in Written
      BY <2>1, <2>3, MadeMessages
    <3> QED
      BY <3>1, MadeFrames DEF Sending, Texting
  <2> HIDE DEF d, rest, note
  <2> DEFINE f == Sending(note)
  <2> HIDE DEF f
  <2>7. Callers \o <<rest, Draining, f>> = Append(Append(Append(Callers, rest), Draining), f)
    BY <1>2, <2>4, <2>5, <2>6 DEF f
  <2>8. s \in Seq(Frames) /\ t \in Seq(Frames)
    BY <1>2, <2>4, <2>5, OneMoreFrame
  <2>9. Unwritten(s) = {}
    BY <1>2, <1>7, <2>4, UnwrittenMore DEF Texting
  <2>10. Unwritten(t) = {}
    BY <2>5, <2>8, <2>9, UnwrittenMore DEF Texting
  <2>11. Unwritten(u) = {note}
    BY <2>6, <2>8, <2>10, UnwrittenMore
  <2>12. stack' = u
    BY <2>2, <2>7 DEF Go, f
  <2> QED
    BY <1>1, <1>4, <1>5, <1>6, <2>1, <2>3, <2>11, <2>12, NewTextArrives DEF note
<1>9. CASE Last(stack).docs = {}
  <2>1. stack' = Callers /\ UNCHANGED version
    BY <1>9 DEF Synchronize, Go, diagnostics
  <2>2. UNCHANGED known /\ Pipe' = Pipe
    BY <1>1, PipeParts DEF servervars, transport
  <2> QED
    BY <1>4, <1>5, <1>6, <1>7, <2>1, <2>2, ArriveStill
<1> QED
  BY <1>8, <1>9

\* The steps of the course that lead away from the choice of an action.
LEMMA AwayArrives ==
    ASSUME SessionTypes, CourseInv, SessionTypes', CourseInv', EditsInFlight, failure' = "none",
           \/ Negotiate \/ OpenDocuments \/ ApplyEdit \/ Applied \/ Converged \/ Shutdown \/ Reap
           \/ NotifyExit \/ Result("command", "applied", <<>>)
    PROVE  EditsInFlight'
<1>1. TextsArrive
  BY DEF EditsInFlight
<1>2. ASSUME NEW why, why # "none", Fail(why) PROVE FALSE
  BY <1>2 DEF Fail
<1>3. ASSUME stack = <<>>, NEW p, NEW frames, Go(p, frames), Unwritten(frames) = {},
             UNCHANGED <<servervars, transport, version>>,
             p \notin {"query", "select", "apply", "command"}
      PROVE  EditsInFlight'
  BY <1>1, <1>3, IdleArrives, Elsewhere DEF Go
<1>4. ASSUME stack = <<>>, NEW p, NEW method, NEW about, Ask(p, method, about, 0, <<>>),
             UNCHANGED <<servervars, transport, version>>,
             p \notin {"query", "select", "apply", "command"}
      PROVE  EditsInFlight'
  <2>1. Unwritten(stack') = {} /\ phase' = p
    BY <1>4, AskingIsNoText DEF Ask, Go
  <2> QED
    BY <1>1, <1>4, <2>1, IdleArrives, Elsewhere
<1>5. ASSUME NEW method, NEW p, NEW frames, Result(method, p, frames), Unwritten(frames) = {},
             p \notin {"query", "select", "apply", "command"}
      PROVE  EditsInFlight'
  BY <1>1, <1>5, ResultArrives, Elsewhere
<1>6. CASE Negotiate
  <2>1. CASE /\ Idle("start") /\ Ask("negotiate", "initialize", Nothing, 0, <<>>)
             /\ SettingUp /\ UNCHANGED diagnostics
    BY <1>4, <2>1 DEF Idle, SettingUp, diagnostics
  <2>2. CASE Result("initialize", "open", <<Sending([is |-> "note"])>>)
    BY <1>5, <2>2, CourseIsNoText
  <2> QED
    BY <1>6, <2>1, <2>2 DEF Negotiate
<1>7. CASE OpenDocuments
  <2>1. phase' \notin {"query", "select", "apply", "command"} /\ TextsArrive'
    BY <1>1, <1>7, OpenArrives
  <2> QED
    BY <2>1, Elsewhere
<1>8. CASE ApplyEdit
  <2>1. stack = <<>> /\ UNCHANGED <<servervars, transport, version>>
    BY <1>8 DEF ApplyEdit, Idle, diagnostics
  <2>2. CASE Go("applied", Append(<<>>, Syncing(chosen.action.docs, chosen.action.base)))
    <3>1. chosen.action \in Based
      BY <1>8 DEF ApplyEdit, Idle, CourseInv, ChosenIsAction
    <3>2. chosen.action.docs \in SUBSET Docs /\ chosen.action.base \in Texts
      BY <3>1 DEF Based
    <3> QED
      BY <1>3, <2>1, <2>2, <3>2, CourseIsNoText
  <2>3. CASE Fail(IF applying THEN "nested" ELSE "apply")
    <3>1. (IF applying THEN "nested" ELSE "apply") # "none"
      OBVIOUS
    <3> QED
      BY <1>2, <2>3, <3>1
  <2> QED
    BY <1>8, <2>2, <2>3 DEF ApplyEdit, Apply
<1>9. CASE Applied
  <2>1. stack = <<>> /\ UNCHANGED <<servervars, transport, version>>
    BY <1>9 DEF Applied, Idle, diagnostics
  <2>2. Fail("unchanged") \/ Go("search", <<Waiting>>)
    BY <1>9 DEF Applied
  <2> QED
    BY <1>2, <1>3, <2>1, <2>2, CourseIsNoText
<1>10. CASE Converged \/ Reap
  <2>1. /\ stack = <<>> /\ UNCHANGED <<servervars, transport, version>>
        /\ Go("search", <<>>) \/ Go("shutdown", <<>>) \/ Go("ended", <<>>)
    BY <1>10 DEF Converged, Reap, Idle, SettingUp, diagnostics
  <2> QED
    BY <1>3, <2>1, CourseIsNoText
<1>11. CASE Shutdown
  <2>1. CASE /\ Idle("shutdown") /\ Ask("shutdown", "shutdown", Nothing, 0, <<>>)
             /\ SettingUp /\ UNCHANGED diagnostics
    BY <1>4, <2>1 DEF Idle, SettingUp, diagnostics
  <2>2. CASE Result("shutdown", "exit", <<>>)
    BY <1>5, <2>2, CourseIsNoText
  <2> QED
    BY <1>11, <2>1, <2>2 DEF Shutdown
<1>12. CASE NotifyExit
  <2>1. phase' \notin {"query", "select", "apply", "command"} /\ TextsArrive'
    BY <1>1, <1>12, ExitArrives
  <2> QED
    BY <2>1, Elsewhere
<1>13. CASE Result("command", "applied", <<>>)
  BY <1>5, <1>13, CourseIsNoText
<1> QED
  BY <1>6, <1>7, <1>8, <1>9, <1>10, <1>11, <1>12, <1>13

\* The steps by which an action is looked for, chosen and executed.
LEMMA ChoiceKeepsEdits ==
    ASSUME SessionTypes, CourseInv, SessionTypes', CourseInv', OneOutstanding, EditsInFlight,
           failure' = "none",
           \/ Search \/ QueryActions \/ Offered \/ Resolve \/ Select
           \/ Idle("apply") /\ ExecuteCommand
    PROVE  EditsInFlight'
<1>1. TextsArrive /\ SettledFits /\ QueryFits /\ ChoiceFits
  BY DEF EditsInFlight
<1>2. /\ toServer \in Seq(Written) /\ writer \in Seq(Written) /\ Pipe \in Seq(Written)
      /\ toClient \in Seq(Said) /\ deferred \in Seq(Said) /\ Incoming \in Seq(Said)
  BY PipeParts DEF SessionTypes, ServerTypes, TransportTypes
<1>3. ASSUME NEW p, p \in {"query", "select", "apply"}, phase' = p PROVE scope' = "inactive"
  BY <1>3 DEF CourseInv, Progress
<1>4. CASE Search
  <2>1. /\ stack = <<>> /\ stack' = <<>> /\ phase' = "query"
        /\ UNCHANGED <<servervars, transport, version>>
    BY <1>4 DEF Search, Idle, Go, diagnostics
  <2>2. TextsArrive' /\ Pipe' = Pipe /\ Incoming' = Incoming /\ owed' = owed
    BY <1>1, <2>1, IdleArrives, CourseIsNoText
  <2>3. /\ Clear(writer) /\ Clear(toServer) /\ Clear(owed) /\ Clear(toClient) /\ Clear(deferred)
    BY <2>1, IdleIsClear
  <2>4. Clear(Pipe) /\ Clear(Incoming)
    BY <1>2, <2>3, ClearTwo DEF Pipe, Incoming
  <2>5. AskedLast(Pipe) /\ FromAnswer(Incoming, version)
    BY <2>4 DEF AskedLast, FromAnswer, Clear, Mine
  <2>6. QueryFits'
    BY <2>1, <2>2, <2>3, <2>4, <2>5 DEF QueryFits
  <2>7. SettledFits' /\ ChoiceFits'
    BY <1>3, <2>1 DEF SettledFits, Settled, ChoiceFits
  <2> QED
    BY <2>2, <2>6, <2>7 DEF EditsInFlight
<1>5. CASE QueryActions
  <2>1. /\ stack = <<>> /\ phase = "query" /\ phase' = "query"
        /\ UNCHANGED <<servervars, transport, version>>
        /\ Unwritten(stack') = {}
    BY <1>5, AskingIsNoText DEF QueryActions, Idle, Ask, Go, diagnostics
  <2>2. TextsArrive' /\ Pipe' = Pipe /\ Incoming' = Incoming /\ owed' = owed
    BY <1>1, <2>1, IdleArrives
  <2>3. QueryFits'
    BY <1>1, <2>1, <2>2 DEF QueryFits
  <2>4. SettledFits' /\ ChoiceFits'
    BY <1>3, <2>1 DEF SettledFits, Settled, ChoiceFits
  <2> QED
    BY <2>2, <2>3, <2>4 DEF EditsInFlight
<1>6. CASE Offered
  <2> DEFINE based == {[key |-> a.key, preferred |-> a.preferred, kind |-> a.kind,
                        docs |-> a.docs, base |-> Head(Incoming).base] :
                          a \in Head(Incoming).actions}
  <2>1. PICK p \in {"search", "select"} :
           \/ /\ Result("codeAction", p, <<>>)
              /\ query' = [query EXCEPT
                             !.unresolved = {a \in based : a.kind = "unresolved"},
                             !.ready = {a \in based : a.kind # "unresolved"}]
           \/ /\ Result("resolve", p, <<>>)
              /\ query' = [query EXCEPT !.ready = query.ready \cup based]
    BY <1>6 DEF Offered
  <2>2. \A a \in based : a.base = Head(Incoming).base
    OBVIOUS
  <2> HIDE DEF based
  <2>3. PICK method \in {"codeAction", "resolve"} : Result(method, p, <<>>)
    BY <2>1
  <2>4. /\ TextsArrive'
        /\ phase \in Asking /\ method = Method[phase] /\ phase' = p
        /\ Incoming # <<>> /\ Head(Incoming).is = "response" /\ Incoming' = Tail(Incoming)
        /\ Pipe' = Pipe /\ version' = version
    BY <1>1, <2>3, ResultArrives, CourseIsNoText
  <2>5. CASE p = "search"
    BY <2>4, <2>5, Elsewhere
  <2>6. CASE p = "select"
    <3>1. (method = "codeAction" <=> phase = "query") /\ (method = "resolve" <=> phase = "select")
      BY <2>3, <2>4 DEF Asking, Method
    <3>2. ~Clear(Incoming)
      BY <1>2, <2>4, ClearLess DEF Mine
    <3>3. /\ Textless(Pipe) /\ BasedOn(Tail(Incoming), version)
          /\ Head(Incoming).base = version
      <4>1. CASE phase = "query"
        BY <1>1, <1>2, <2>4, <3>2, <4>1, BasesAfter DEF QueryFits
      <4>2. CASE phase = "select"
        BY <1>1, <1>2, <2>4, <4>2, BasesAfter DEF SettledFits, Settled, Carries
      <4> QED
        BY <2>3, <3>1, <4>1, <4>2
    <3>4. SettledFits'
      BY <2>4, <3>3 DEF SettledFits
    <3>5. QueryFits'
      BY <2>4, <2>6 DEF QueryFits
    <3>6. ChoiceFits'
      <4>1. \A a \in based : a.base = version
        BY <2>2, <3>3
      <4>2. \A u, r : /\ [query EXCEPT !.unresolved = u, !.ready = r].unresolved = u
                      /\ [query EXCEPT !.unresolved = u, !.ready = r].ready = r
                      /\ [query EXCEPT !.ready = r].unresolved = query.unresolved
                      /\ [query EXCEPT !.ready = r].ready = r
        BY DEF SessionTypes, SelectionTypes
      <4>3. \A a \in query'.ready \cup query'.unresolved : a.base = version
        <5>1. CASE /\ Result("codeAction", p, <<>>)
                   /\ query' = [query EXCEPT
                                  !.unresolved = {a \in based : a.kind = "unresolved"},
                                  !.ready = {a \in based : a.kind # "unresolved"}]
          <6>1. /\ query'.unresolved = {a \in based : a.kind = "unresolved"}
                /\ query'.ready = {a \in based : a.kind # "unresolved"}
            BY <4>2, <5>1
          <6> QED
            BY <4>1, <6>1
        <5>2. CASE /\ Result("resolve", p, <<>>)
                   /\ query' = [query EXCEPT !.ready = query.ready \cup based]
          <6>1. /\ query'.unresolved = query.unresolved
                /\ query'.ready = query.ready \cup based
            BY <4>2, <5>2
          <6>2. phase = "select"
            <7>1. phase \in Asking /\ "resolve" = Method[phase]
              BY <5>2, ResultEnds
            <7> QED
              BY <7>1 DEF Asking, Method
          <6> QED
            BY <1>1, <4>1, <6>1, <6>2 DEF ChoiceFits
        <5> QED
          BY <2>1, <5>1, <5>2
      <4> QED
        BY <2>4, <2>6, <4>3 DEF ChoiceFits
    <3> QED
      BY <2>4, <3>4, <3>5, <3>6 DEF EditsInFlight
  <2> QED
    BY <2>5, <2>6
<1>7. CASE Resolve
  <2>1. PICK a \in query.unresolved :
           /\ Ask("select", "resolve", a, 0, <<>>)
           /\ query' = [query EXCEPT !.unresolved = query.unresolved \ {a}]
    BY <1>7 DEF Resolve
  <2>2. /\ stack = <<>> /\ phase = "select" /\ phase' = "select"
        /\ UNCHANGED <<servervars, transport, version>>
        /\ Unwritten(stack') = {}
    BY <1>7, <2>1, AskingIsNoText DEF Resolve, Idle, Ask, Go, diagnostics
  <2>3. TextsArrive' /\ Pipe' = Pipe /\ Incoming' = Incoming /\ owed' = owed
    BY <1>1, <2>2, IdleArrives
  <2>4. query'.ready = query.ready /\ query'.unresolved = query.unresolved \ {a}
    BY <2>1 DEF SessionTypes, SelectionTypes
  <2>5. SettledFits' /\ QueryFits' /\ ChoiceFits'
    BY <1>1, <2>2, <2>3, <2>4 DEF SettledFits, Settled, QueryFits, ChoiceFits
  <2> QED
    BY <2>3, <2>5 DEF EditsInFlight
<1>8. CASE Select
  <2>1. stack = <<>> /\ phase = "select" /\ UNCHANGED <<servervars, transport, version>>
    BY <1>8 DEF Select, Idle, diagnostics
  <2>2. /\ Textless(Pipe) /\ BasedOn(Incoming, version)
        /\ \A a \in query.ready : a.base = version
    BY <1>1, <2>1 DEF SettledFits, Settled, ChoiceFits
  <2>3. CASE Fail("repeated") \/ Fail("iterations")
    BY <2>3 DEF Fail
  <2>4. CASE /\ \E a \in Unambiguous : chosen' = [action |-> a, before |-> mutations]
             /\ Go("apply", <<>>)
    <3>1. stack' = <<>> /\ phase' = "apply" /\ chosen'.action \in query.ready
      BY <2>4, UnambiguousIsReady DEF Go
    <3>2. TextsArrive' /\ Pipe' = Pipe /\ Incoming' = Incoming
      BY <1>1, <2>1, <3>1, IdleArrives, CourseIsNoText
    <3>3. SettledFits' /\ QueryFits' /\ ChoiceFits'
      BY <2>1, <2>2, <3>1, <3>2 DEF SettledFits, QueryFits, ChoiceFits
    <3> QED
      BY <3>2, <3>3 DEF EditsInFlight
  <2>5. CASE Go("query", <<>>)
    <3>1. stack' = <<>> /\ phase' = "query"
      BY <2>5 DEF Go
    <3>2. TextsArrive' /\ Pipe' = Pipe /\ Incoming' = Incoming
      BY <1>1, <2>1, <3>1, IdleArrives, CourseIsNoText
    <3>3. AskedLast(Pipe) /\ FromAnswer(Incoming, version)
      BY <2>2 DEF AskedLast, Textless, FromAnswer, BasedOn
    <3>4. QueryFits'
      BY <2>1, <2>2, <3>2, <3>3 DEF QueryFits
    <3>5. SettledFits' /\ ChoiceFits'
      BY <1>3, <3>1 DEF SettledFits, Settled, ChoiceFits
    <3> QED
      BY <3>2, <3>4, <3>5 DEF EditsInFlight
  <2> QED
    BY <1>8, <2>3, <2>4, <2>5 DEF Select
<1>9. CASE Idle("apply") /\ ExecuteCommand
  <2>1. CASE Ask("command", "command", Nothing, 0, <<>>) /\ UNCHANGED <<servervars, transport, diagnostics>>
    <3>1. /\ stack = <<>> /\ phase = "apply" /\ phase' = "command"
          /\ UNCHANGED <<servervars, transport, version>>
          /\ Unwritten(stack') = {}
      BY <1>9, <2>1, AskingIsNoText DEF Idle, Ask, Go, diagnostics
    <3>2. TextsArrive' /\ Pipe' = Pipe /\ Incoming' = Incoming
      BY <1>1, <3>1, IdleArrives
    <3>3. SettledFits' /\ QueryFits' /\ ChoiceFits'
      BY <1>1, <3>1, <3>2 DEF SettledFits, Settled, QueryFits, ChoiceFits
    <3> QED
      BY <3>2, <3>3 DEF EditsInFlight
  <2>2. CASE Result("command", "applied", <<>>)
    BY <1>9, <2>2 DEF Idle, Result, Answered, In
  <2> QED
    BY <1>9, <2>1, <2>2 DEF ExecuteCommand
<1> QED
  BY <1>4, <1>5, <1>6, <1>7, <1>8, <1>9

\* While an edit is synchronized only texts matter.
LEMMA SynchronizeKeepsEdits ==
    ASSUME SessionTypes, CourseInv, EditsInFlight, Synchronize
    PROVE  EditsInFlight'
<1>1. TextsArrive' /\ phase' \in {"command", "applied"} /\ scope' # "awaiting"
  BY SynchronizeArrives DEF EditsInFlight
<1> QED
  BY <1>1 DEF EditsInFlight, SettledFits, Settled, QueryFits, ChoiceFits

\* A failed session only shuts down.
LEMMA FailedKeepsEnding ==
    ASSUME SessionTypes, CourseInv, FailedEnds, [Next]_vars
    PROVE  FailedEnds'
<1>1. CASE Hearing
  <2>1. CASE Stops
    BY <2>1 DEF Stops, FailedEnds, After
  <2>2. CASE Rests \/ Accepts \/ Replies \/ Edits \/ Pops \/ Queues \/ AsksAgain
    BY <2>2, HearingStays DEF FailedEnds
  <2> QED
    BY <1>1, <2>1, <2>2, HearingKinds
<1>2. ASSUME NEW why, Fail(why) PROVE FailedEnds'
  <2>1. phase' \in {"shutdown", "ended"}
    BY <1>2, FailLeads
  <2> QED
    BY <2>1 DEF FailedEnds, After
<1>3. ASSUME NEW p, NEW frames, Go(p, frames), phase \in After => p \in After PROVE FailedEnds'
  BY <1>3 DEF Go, FailedEnds
<1>4. ASSUME NEW method, NEW p, NEW frames, Result(method, p, frames),
             method = "shutdown" => p \in After
      PROVE  FailedEnds'
  <2>1. phase \in Asking /\ method = Method[phase] /\ Go(p, frames)
    BY <1>4, ResultEnds DEF Result
  <2>2. phase \in After => method = "shutdown"
    BY <2>1 DEF Asking, Method, After
  <2> QED
    BY <1>3, <1>4, <2>1, <2>2
<1>5. CASE Negotiate \/ Shutdown
  <2>1. CASE Idle("start") /\ Ask("negotiate", "initialize", Nothing, 0, <<>>)
    BY <1>3, <2>1 DEF Idle, Ask, After
  <2>2. CASE Idle("shutdown") /\ Ask("shutdown", "shutdown", Nothing, 0, <<>>)
    BY <1>3, <2>2 DEF Idle, Ask, After
  <2>3. CASE \/ Result("initialize", "open", <<Sending([is |-> "note"])>>)
             \/ Result("shutdown", "exit", <<>>)
    BY <1>4, <2>3 DEF After
  <2> QED
    BY <1>5, <2>1, <2>2, <2>3 DEF Negotiate, Shutdown
<1>6. CASE OpenDocuments \/ Search \/ Converged \/ NotifyExit \/ Reap
  <2>1. \/ phase \notin After /\ \E p, frames : Go(p, frames)
        \/ \E p \in After : Go(p, <<>>)
    BY <1>6 DEF OpenDocuments, Search, Converged, NotifyExit, Reap, Idle, After
  <2> QED
    BY <1>3, <2>1
<1>7. CASE QueryActions \/ Resolve
  <2>1. phase \notin After /\ \E p, frames : Go(p, frames)
    BY <1>7 DEF QueryActions, Resolve, Idle, After, Ask
  <2> QED
    BY <1>3, <2>1
<1>8. CASE Offered
  BY <1>4, <1>8 DEF Offered
<1>9. CASE Select
  <2>1. phase \notin After
    BY <1>9 DEF Select, Idle, After
  <2>2. Fail("repeated") \/ Fail("iterations") \/ Go("apply", <<>>) \/ Go("query", <<>>)
    BY <1>9 DEF Select
  <2> QED
    BY <1>2, <1>3, <2>1, <2>2
<1>10. CASE ApplyEdit
  <2>1. phase \notin After
    BY <1>10 DEF ApplyEdit, Idle, After
  <2> QED
    BY <1>2, <1>3, <1>10, <2>1 DEF ApplyEdit, Apply
<1>11. CASE ExecuteCommand
  <2>1. CASE Idle("apply") /\ Ask("command", "command", Nothing, 0, <<>>)
    BY <1>3, <2>1 DEF Idle, Ask, After
  <2>2. CASE Result("command", "applied", <<>>)
    BY <1>4, <2>2
  <2> QED
    BY <1>11, <2>1, <2>2 DEF ExecuteCommand
<1>12. CASE Applied
  <2>1. phase \notin After
    BY <1>12 DEF Applied, Idle, After
  <2>2. Fail("unchanged") \/ Go("search", <<Waiting>>)
    BY <1>12 DEF Applied
  <2> QED
    BY <1>2, <1>3, <2>1, <2>2
<1>13. CASE Synchronize
  BY <1>3, <1>13 DEF Synchronize
<1> QED
  BY <1>1, <1>5, <1>6, <1>7, <1>8, <1>9, <1>10, <1>11, <1>12, <1>13
     DEF Next, SessionStep, Hearing

\* Where texts and edits are, in every state before the first error.
THEOREM EditInvariant == Spec => []EditInv
<1>1. Init => EditInv
  <2> SUFFICES ASSUME Init PROVE EditInv
    OBVIOUS
  <2>1. /\ stack = <<>> /\ toServer = <<>> /\ writer = <<>> /\ phase = "start"
        /\ scope = "inactive" /\ failure = "none" /\ known = version
    BY DEF Init, ServerInit
  <2>2. Pipe = <<>>
    BY <2>1 DEF Pipe
  <2>3. TextsArrive
    BY <2>1, <2>2, NothingIsUnwritten DEF TextsArrive, Newest
  <2> QED
    BY <2>1, <2>3 DEF EditInv, EditsInFlight, SettledFits, Settled, QueryFits, ChoiceFits, FailedEnds
<1>2. /\ SessionTypes /\ CourseInv /\ AnswerInv /\ EditInv /\ SessionTypes' /\ CourseInv'
      /\ AnswerInv' /\ [Next]_vars
      => EditInv'
  <2> SUFFICES ASSUME SessionTypes, CourseInv, AnswerInv, EditInv, SessionTypes', CourseInv',
                      [Next]_vars
               PROVE  EditInv'
    OBVIOUS
  <2>1. FailedEnds'
    BY FailedKeepsEnding DEF EditInv
  <2>2. \/ Hearing \/ Synchronize \/ Negotiate \/ OpenDocuments \/ Search \/ QueryActions
        \/ Offered \/ Resolve \/ Select \/ ApplyEdit \/ ExecuteCommand \/ Applied
        \/ Converged \/ Shutdown \/ NotifyExit \/ Reap
    BY DEF Next, SessionStep, Hearing
  <2>3. Matched
    BY <2>2, HearingMatches, CourseMatches DEF AnswerInv
  <2>4. ASSUME failure' = "none" PROVE EditsInFlight'
    <3>1. EditsInFlight /\ OneOutstanding
      BY <2>3, <2>4 DEF Matched, EditInv, AnswerInv
    <3>2. ExecuteCommand => \/ Idle("apply") /\ ExecuteCommand
                            \/ Result("command", "applied", <<>>)
      BY DEF ExecuteCommand
    <3> QED
      BY <2>2, <2>4, <3>1, <3>2, HearingKeepsEdits, SynchronizeKeepsEdits, AwayArrives,
         ChoiceKeepsEdits
  <2> QED
    BY <2>1, <2>4 DEF EditInv
<1> QED
  BY <1>1, <1>2, SessionInvariant, AnswerInvariant, PTL DEF Spec

\* An edit is applied when it is handled while a command awaits its own.
LEMMA HandleApplies ==
    ASSUME SessionTypes, NEW m \in Said, Handle(m, stack), ~applying, applying'
    PROVE  m.is = "edit" /\ Commanded /\ Last(stack') = Syncing(m.docs, m.base)
<1>1. \A why : ~Fail(why)
  BY DEF Fail
<1>2. /\ m.is = "edit" /\ ServeEdit(m, stack)
  <2>1. m.is = "publish" => ~Publish(m, stack)
    BY <1>1 DEF Publish, edits
  <2> QED
    BY <1>1, <2>1 DEF Handle, edits
<1>3. Commanded /\ Apply(phase, "seen", m.docs, m.base, Append(stack, Reply(TRUE)))
  BY <1>2 DEF ServeEdit
<1>4. stack' = Append(Append(stack, Reply(TRUE)), Syncing(m.docs, m.base))
  BY <1>1, <1>3 DEF Apply, Go
<1>5. stack \in Seq(Frames) /\ Reply(TRUE) \in Frames /\ Syncing(m.docs, m.base) \in Frames
  <2>1. m.docs \in SUBSET Docs /\ m.base \in Texts
    BY <1>2, SaidParts DEF EditAsks
  <2> QED
    BY <2>1, MadeFrames DEF SessionTypes, ControlTypes
<1>6. Last(stack') = Syncing(m.docs, m.base)
  BY <1>4, <1>5, OneMoreFrame
<1> QED
  BY <1>2, <1>3, <1>6

\* The steps that begin to apply an edit.
LEMMA WhoApplies ==
    ASSUME [Next]_vars, ~applying, applying'
    PROVE  Pump \/ WaitForDiagnostics \/ DrainServerEvents \/ RequestHandles \/ ApplyEdit
<1>1. \A why : ~Fail(why)
  BY DEF Fail
<1>2. ~UNCHANGED applying
  OBVIOUS
<1>3. ~(WriterWrites \/ ServerActs \/ Deadline \/ Crash \/ UNCHANGED vars)
  BY <1>2 DEF WriterWrites, ServerActs, Deadline, Crash, vars, edits
<1>4. ~(Send \/ Retry \/ Disconnected \/ Applied \/ Select)
  BY <1>1, <1>2 DEF Send, Retry, Disconnected, Applied, Select, edits
<1>5. ~Synchronize
  BY <1>2 DEF Synchronize, edits
<1>6. ~(Negotiate \/ OpenDocuments \/ Shutdown \/ Converged \/ Reap \/ NotifyExit)
  BY <1>2 DEF Negotiate, OpenDocuments, Shutdown, Converged, Reap, NotifyExit, SettingUp, Result,
              edits
<1>7. ~(Search \/ QueryActions \/ Offered \/ Resolve \/ ExecuteCommand)
  BY <1>2 DEF Search, QueryActions, Offered, Resolve, ExecuteCommand, Result, edits
<1> QED
  BY <1>3, <1>4, <1>5, <1>6, <1>7 DEF Next, SessionStep

\* Whatever the server asks for, and whenever: an edit is applied to the very text
\* it was computed from.
THEOREM EditsAlwaysFit == Spec => EditsFitTheirText
<1> DEFINE Fit == ~applying /\ applying' =>
                     LET edit == Last(stack')
                     IN  \A d \in edit.docs : edit.base[d] = version[d]
<1>1. SessionTypes /\ CourseInv /\ EditInv /\ [Next]_vars => Fit
  <2> SUFFICES ASSUME SessionTypes, CourseInv, EditInv, [Next]_vars, ~applying, applying'
               PROVE  \A d \in Last(stack').docs : Last(stack').base[d] = version[d]
    OBVIOUS
  <2>1. ASSUME NEW d, Last(stack') = Syncing(d, version)
        PROVE  \A e \in Last(stack').docs : Last(stack').base[e] = version[e]
    BY <2>1 DEF Syncing
  <2>2. Commanded \/ phase = "apply" => EditsInFlight
    <3>1. Commanded \/ phase = "apply" => phase \notin After
      BY DEF Commanded, CourseInv, Progress, After
    <3> QED
      BY <3>1 DEF EditInv, EditsInFlight, FailedEnds
  <2>3. CASE WaitForDiagnostics \/ DrainServerEvents \/ RequestHandles
    <3>1. Incoming # <<>> /\ Handle(Head(Incoming), stack)
      BY <2>3 DEF WaitForDiagnostics, DrainServerEvents, RequestHandles, edits
    <3>2. Head(Incoming) \in Said /\ Incoming \in Seq(Said)
      BY <3>1, TakeTypes, PipeParts
    <3>3. /\ Head(Incoming).is = "edit" /\ Commanded
          /\ Last(stack') = Syncing(Head(Incoming).docs, Head(Incoming).base)
      BY <3>1, <3>2, HandleApplies
    <3>4. BasedOn(Incoming, version)
      BY <2>2, <3>3 DEF EditsInFlight, SettledFits, Settled, Commanded
    <3>5. Head(Incoming).base = version
      BY <3>1, <3>2, <3>3, <3>4, BasesAfter DEF Carries
    <3> QED
      BY <2>1, <3>3, <3>5
  <2>4. CASE Pump
    <3>1. Head(toClient) \in Said
      BY <2>4, HeadTailProperties DEF Pump, Pumping, SessionTypes, ServerTypes
    <3>2. \A why : ~Fail(why)
      BY DEF Fail
    <3>3. ~PutAside(Head(toClient)) /\ Handle(Head(toClient), stack)
      BY <2>4, <3>2 DEF Pump, edits
    <3>4. Head(toClient).is = "edit"
      BY <3>1, <3>3, HandleApplies
    <3> QED
      BY <3>3, <3>4 DEF PutAside
  <2>5. CASE ApplyEdit
    <3>1. /\ phase = "apply"
          /\ stack' = Append(<<>>, Syncing(chosen.action.docs, chosen.action.base))
      BY <2>5 DEF ApplyEdit, Apply, Idle, Go, Fail
    <3>2. chosen.action.base = version
      BY <2>2, <3>1 DEF EditsInFlight, ChoiceFits
    <3>3. Syncing(chosen.action.docs, chosen.action.base) \in Frames
      <4>1. chosen.action \in Based
        BY <3>1 DEF CourseInv, ChosenIsAction
      <4> QED
        BY <4>1, MadeFrames DEF Based
    <3>4. Last(stack') = Syncing(chosen.action.docs, version)
      BY <3>1, <3>2, <3>3, EmptyStack, OneMoreFrame
    <3> QED
      BY <2>1, <3>4
  <2> QED
    BY <2>3, <2>4, <2>5, WhoApplies
<1>2. SessionTypes /\ CourseInv /\ EditInv /\ [Next]_vars => [Fit]_vars
  BY <1>1
<1> QED
  BY <1>2, SessionInvariant, EditInvariant, PTL DEF Spec, EditsFitTheirText
=============================================================================
