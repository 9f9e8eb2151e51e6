-------------------------- MODULE McpServerProofs --------------------------
(***************************************************************************)
(* Theorems about McpServer for any number of messages.  The flag is set   *)
(* exactly while the reading thread starts a worker or one worker is at    *)
(* work, and a worker that outlives its call belongs to an expired one.    *)
(***************************************************************************)
EXTENDS McpServer, SequenceTheorems, TLAPS

AtWork == {"running", "release", "unwind"}

\* The reading thread is at a message that was sent, or past the last one.
InputInBounds ==
    /\ Len(input) <= MaxSent
    /\ next <= Len(input) + 1
    /\ main # "read" => next <= Len(input)

\* The flag has one holder: the reading thread about to start a worker, or
\* that worker until it drops its guard.
FlagIsHeld ==
    /\ running <=> (main = "spawn" \/ \E c \in Calls : worker[c] \in AtWork)
    /\ main = "spawn" => \A c \in Calls : worker[c] \notin AtWork
    /\ \A c, e \in Calls : worker[c] \in AtWork /\ worker[e] \in AtWork => c = e
    /\ main \in {"claim", "running"} => ~running

\* Workers belong to calls the server has come to; a call that is over while
\* its worker is at work has expired.
WorkersAreKnown ==
    \A c \in Calls :
        /\ worker[c] # "none" => c < next \/ (c = next /\ main = "waiting")
        /\ worker[c] \in AtWork /\ c < next => c \in expired
        /\ channel[c] # "empty" => worker[c] = "gone"

ServerInv == TypeOK /\ InputInBounds /\ FlagIsHeld /\ WorkersAreKnown

\* The invariant holds at the beginning.
LEMMA InitServer == Init => ServerInv
<1> SUFFICES ASSUME Init PROVE ServerInv
  OBVIOUS
<1>1. input \in Seq(Kinds) /\ output \in Seq(Response)
  BY EmptySeq DEF Init
<1>2. running \in BOOLEAN
  BY DEF Init
<1>3. /\ next \in 1 .. MaxSent + 1
      /\ main \in {"read", "git", "running", "claim", "spawn", "waiting"}
  BY ServerAssumption DEF Init
<1>4. /\ worker \in [Calls -> {"none", "running", "release", "unwind", "send", "drop", "gone"}]
      /\ channel \in [Calls -> {"empty", "result", "closed"}]
      /\ expired \subseteq Calls
  BY DEF Init
<1>5. InputInBounds
  BY ServerAssumption, EmptySeq DEF Init, InputInBounds
<1>6. FlagIsHeld /\ WorkersAreKnown
  BY DEF Init, FlagIsHeld, WorkersAreKnown, AtWork
<1> QED
  BY <1>1, <1>2, <1>3, <1>4, <1>5, <1>6 DEF ServerInv, TypeOK

\* Writing a response keeps the responses and the reading position in bounds.
LEMMA ResponseType ==
  ASSUME ServerInv, next <= Len(input), NEW is \in {"result", "error", "timeout", "in-progress"},
         NEW of \in 0 .. MaxSent, Respond(is, of)
  PROVE  /\ output' \in Seq(Response)
         /\ next' \in 1 .. MaxSent + 1 /\ next' <= Len(input) + 1
         /\ main' = "read"
<1> USE ServerAssumption DEF ServerInv, TypeOK, InputInBounds, Respond
<1>1. next' \in 1 .. MaxSent + 1 /\ next' <= Len(input) + 1 /\ main' = "read" /\ next \in Calls
  BY LenProperties DEF Calls
<1>2. [to |-> next, is |-> is, of |-> of] \in Response
  BY <1>1 DEF Response
<1> QED
  BY <1>1, <1>2, AppendProperties

\* The types of the reading thread and the flag.
LEMMA StepKeepsMainTypes == ServerInv /\ [Next]_vars =>
              /\ main' \in {"read", "git", "running", "claim", "spawn", "waiting"}
              /\ running' \in BOOLEAN
<1> SUFFICES ASSUME ServerInv, [Next]_vars PROVE 
              /\ main' \in {"read", "git", "running", "claim", "spawn", "waiting"}
              /\ running' \in BOOLEAN
  OBVIOUS
<1> USE DEF ServerInv, TypeOK
<1>1. CASE UNCHANGED <<main, running>>
  BY <1>1
<1>2. CASE Notification \/ Handle \/ Replay \/ ReplayDone \/ Refuse \/ Batch \/ BatchDone
            \/ RejectMutation \/ Admit
  BY <1>2 DEF Notification, Handle, Replay, ReplayDone, Refuse, Batch, BatchDone,
     RejectMutation, Admit, Respond
<1>3. CASE Claim \/ Spawn
  BY <1>3 DEF Claim, Spawn, Respond
<1>4. CASE Receive \/ Disconnected \/ Expire
  BY <1>4 DEF Receive, Disconnected, Expire, Respond
<1>5. ASSUME NEW c \in Calls, ReleaseThenSend(c) PROVE main' \in {"read", "git", "running", "claim", "spawn", "waiting"}
              /\ running' \in BOOLEAN
  BY <1>5 DEF ReleaseThenSend
<1> QED
  BY <1>1, <1>2, <1>3, <1>4, <1>5 DEF Next, MainStep, vars, Send, WorkerDone, WorkerPanics
\* The types of workers, channels and expired calls.
LEMMA StepKeepsWorkerTypes == ServerInv /\ [Next]_vars =>
    /\ worker' \in [Calls -> {"none", "running", "release", "unwind", "send", "drop", "gone"}]
    /\ channel' \in [Calls -> {"empty", "result", "closed"}]
    /\ expired' \subseteq Calls
<1> SUFFICES ASSUME ServerInv, [Next]_vars PROVE 
    /\ worker' \in [Calls -> {"none", "running", "release", "unwind", "send", "drop", "gone"}]
    /\ channel' \in [Calls -> {"empty", "result", "closed"}]
    /\ expired' \subseteq Calls
  OBVIOUS
<1> USE DEF ServerInv, TypeOK
<1>1. CASE UNCHANGED <<worker, channel, expired>>
  BY <1>1
<1>2. CASE Spawn
  BY <1>2 DEF Spawn
<1>3. CASE Receive
  BY <1>3 DEF Receive
<1>4. CASE Expire
  <2>1. next \in Calls
    BY <1>4, ServerAssumption, LenProperties DEF Expire, InputInBounds, Calls
  <2> QED
    BY <1>4, <2>1 DEF Expire
<1>5. ASSUME NEW c \in Calls, WorkerDone(c) \/ WorkerPanics(c) \/ ReleaseThenSend(c) PROVE 
    /\ worker' \in [Calls -> {"none", "running", "release", "unwind", "send", "drop", "gone"}]
    /\ channel' \in [Calls -> {"empty", "result", "closed"}]
    /\ expired' \subseteq Calls
  BY <1>5 DEF WorkerDone, WorkerPanics, ReleaseThenSend
<1> QED
  BY <1>1, <1>2, <1>3, <1>4, <1>5 DEF Next, MainStep, vars, Send, Notification, Handle, Replay, ReplayDone,
     Refuse, Batch, BatchDone, RejectMutation, Admit, Claim, Disconnected
\* Messages and responses, and the bounds between them.
LEMMA StepKeepsSequences == ServerInv /\ [Next]_vars =>
    /\ input' \in Seq(Kinds)
    /\ output' \in Seq(Response)
    /\ next' \in 1 .. MaxSent + 1
    /\ InputInBounds'
<1> DEFINE Goal == /\ input' \in Seq(Kinds)
                   /\ output' \in Seq(Response)
                   /\ next' \in 1 .. MaxSent + 1
                   /\ InputInBounds'
<1> SUFFICES ASSUME ServerInv, [Next]_vars PROVE Goal
  OBVIOUS
<1>0. /\ input \in Seq(Kinds) /\ output \in Seq(Response)
      /\ next \in 1 .. MaxSent + 1 /\ InputInBounds
      /\ Len(input) \in Nat /\ MaxSent \in Nat
  BY LenProperties, ServerAssumption DEF ServerInv, TypeOK
<1>1. CASE UNCHANGED <<input, next, output>> /\ (main' # "read" => next <= Len(input))
  BY <1>0, <1>1 DEF InputInBounds
<1>2. ASSUME NEW kind \in Kinds, Send(kind) PROVE Goal
  BY <1>0, <1>2, AppendProperties DEF Send, InputInBounds
<1>3. CASE Notification
  BY <1>0, <1>3 DEF Notification, Reading, InputInBounds
<1>4. ASSUME NEW is \in {"result", "error", "timeout", "in-progress"},
             NEW of \in 0 .. MaxSent, next <= Len(input), Respond(is, of),
             UNCHANGED input
      PROVE  Goal
  BY <1>0, <1>4, ResponseType DEF InputInBounds
<1>5. ~(next <= Len(input)) \/ next \in 0 .. MaxSent
  BY <1>0 DEF InputInBounds
<1>6. 0 \in 0 .. MaxSent
  BY <1>0
<1>7. CASE Handle \/ Refuse \/ RejectMutation
  BY <1>4, <1>5, <1>6, <1>7 DEF Handle, Refuse, RejectMutation, Reading
<1>8. main # "read" => next <= Len(input)
  BY <1>0 DEF InputInBounds
<1>9. CASE ReplayDone \/ BatchDone \/ Claim \/ Spawn \/ Receive \/ Disconnected \/ Expire
  <2>1. next <= Len(input)
    BY <1>8, <1>9 DEF ReplayDone, BatchDone, Claim, Spawn, Receive, Disconnected, Expire
  <2>2. CASE \E is \in {"result", "error", "timeout", "in-progress"}, of \in 0 .. MaxSent : Respond(is, of)
    <3>1. UNCHANGED input
      BY <1>9 DEF ReplayDone, BatchDone, Claim, Spawn, Receive, Disconnected, Expire
    <3> QED
      BY <1>4, <2>1, <2>2, <3>1
  <2>3. CASE UNCHANGED <<input, next, output>>
    BY <1>1, <2>1, <2>3
  <2>4. next \in 0 .. MaxSent
    BY <1>5, <2>1
  <2> QED
    BY <1>6, <1>9, <2>2, <2>3, <2>4 DEF ReplayDone, BatchDone, Claim, Spawn, Receive, Disconnected, Expire
<1>10. CASE Replay \/ Batch \/ Admit
  BY <1>1, <1>10 DEF Replay, Batch, Admit, Reading
<1>11. CASE UNCHANGED <<input, next, main, output>>
  BY <1>1, <1>8, <1>11
<1> QED
  BY <1>2, <1>3, <1>7, <1>9, <1>10, <1>11
     DEF Next, MainStep, vars, WorkerDone, WorkerPanics, ReleaseThenSend

\* A worker that is at work after its call is over belongs to an expired one.
LEMMA StepKeepsWorkers == ServerInv /\ [Next]_vars => WorkersAreKnown'
<1> SUFFICES ASSUME ServerInv, [Next]_vars PROVE WorkersAreKnown'
  OBVIOUS
<1> USE DEF ServerInv, WorkersAreKnown, AtWork
<1>0. /\ next \in Nat /\ Calls \subseteq Nat
      /\ \A c \in Calls : worker[c] # "none" => c < next \/ (c = next /\ main = "waiting")
      /\ main # "read" => next \in Calls
      /\ worker \in [Calls -> {"none", "running", "release", "unwind", "send", "drop", "gone"}]
      /\ channel \in [Calls -> {"empty", "result", "closed"}]
  BY ServerAssumption, LenProperties DEF TypeOK, InputInBounds, Calls
<1>1. CASE UNCHANGED <<worker, channel, expired, next, main>>
  BY <1>1
<1>2. CASE UNCHANGED <<worker, channel, expired>> /\ main # "waiting" /\ main' # "waiting" /\ next' \in {next, next + 1}
  BY <1>0, <1>2
<1>3. CASE Spawn
  BY <1>0, <1>3 DEF Spawn, Respond
<1>4. CASE Receive
  BY <1>0, <1>4 DEF Receive, Respond
<1>5. CASE Disconnected
  BY <1>0, <1>5 DEF Disconnected, Respond
<1>6. CASE Expire
  BY <1>0, <1>6 DEF Expire, Respond
<1>7. ASSUME NEW c \in Calls, WorkerDone(c) \/ WorkerPanics(c) PROVE WorkersAreKnown'
  BY <1>0, <1>7 DEF WorkerDone, WorkerPanics
<1>8. ASSUME NEW c \in Calls, ReleaseThenSend(c) PROVE WorkersAreKnown'
  BY <1>0, <1>8 DEF ReleaseThenSend
<1>9. CASE Notification \/ Handle \/ Replay \/ ReplayDone \/ Refuse \/ Batch
  BY <1>0, <1>2, <1>9 DEF Notification, Handle, Replay, ReplayDone, Refuse, Batch, Reading, Respond
<1>10. CASE BatchDone \/ RejectMutation \/ Admit \/ Claim
  BY <1>0, <1>2, <1>10 DEF BatchDone, RejectMutation, Admit, Claim, Reading, Respond
<1>11. ASSUME NEW kind \in Kinds, Send(kind) PROVE WorkersAreKnown'
  BY <1>1, <1>11 DEF Send
<1> QED
  BY <1>1, <1>3, <1>4, <1>5, <1>6, <1>7, <1>8, <1>9, <1>10, <1>11 DEF Next, MainStep, vars

\* The flag has one holder.
LEMMA StepKeepsFlag == ServerInv /\ [Next]_vars => FlagIsHeld'
<1> SUFFICES ASSUME ServerInv, [Next]_vars PROVE FlagIsHeld'
  OBVIOUS
<1> USE DEF ServerInv, FlagIsHeld, AtWork
<1>0. /\ worker \in [Calls -> {"none", "running", "release", "unwind", "send", "drop", "gone"}]
      /\ running \in BOOLEAN
      /\ main # "read" => next \in Calls
  BY ServerAssumption, LenProperties DEF TypeOK, InputInBounds, Calls
<1>1. CASE UNCHANGED <<worker, running>> /\ main' \in {main, "read", "waiting"} /\ main # "spawn"
  BY <1>1
<1>2. CASE Replay \/ Batch \/ Admit
  BY <1>2 DEF Replay, Batch, Admit, Reading
<1>3. CASE Claim
  BY <1>0, <1>3 DEF Claim, Respond
<1>4. CASE Spawn
  BY <1>0, <1>4 DEF Spawn, Respond
<1>5. CASE UNCHANGED <<worker, running, main>>
  BY <1>5
<1>6. ASSUME NEW c \in Calls, WorkerDone(c) \/ WorkerPanics(c) PROVE FlagIsHeld'
  BY <1>0, <1>6 DEF WorkerDone, WorkerPanics
<1>7. ASSUME NEW c \in Calls, ReleaseThenSend(c) PROVE FlagIsHeld'
  BY <1>0, <1>7 DEF ReleaseThenSend
<1>8. CASE Notification \/ Handle \/ ReplayDone \/ Refuse \/ RejectMutation \/ BatchDone
  BY <1>1, <1>8 DEF Notification, Handle, ReplayDone, Refuse, RejectMutation, BatchDone,
     Reading, Respond
<1>9. CASE Receive \/ Disconnected \/ Expire
  BY <1>1, <1>9 DEF Receive, Disconnected, Expire, Respond
<1> QED
  BY <1>2, <1>3, <1>4, <1>5, <1>6, <1>7, <1>8, <1>9 DEF Next, MainStep, vars, Send
\* The invariant holds in every reachable state.
LEMMA ServerInvariant == Spec => []ServerInv
<1>1. ServerInv /\ [Next]_vars => ServerInv'
  BY StepKeepsMainTypes, StepKeepsWorkerTypes, StepKeepsSequences,
     StepKeepsWorkers, StepKeepsFlag DEF ServerInv, TypeOK
<1> QED
  BY InitServer, <1>1, PTL DEF Spec

\* The state stays within its types.
THEOREM ServerTypeCorrect == Spec => []TypeOK
<1>1. ServerInv => TypeOK
  BY DEF ServerInv
<1> QED
  BY ServerInvariant, <1>1, PTL

\* Two batches never run at the same time, whatever expires, panics or fails
\* to start.
THEOREM BatchesExclude == Spec => []OneBatchAtATime
<1>1. ServerInv => OneBatchAtATime
  BY DEF ServerInv, FlagIsHeld, OneBatchAtATime, AtWork
<1> QED
  BY ServerInvariant, <1>1, PTL

\* A client is told that a batch is in progress only after it was told that the
\* deadline of that batch had passed.
THEOREM RefusalsAreExplained == Spec => RefusedOnlyAfterTimeout
<1> DEFINE Explained ==
      \A k \in DOMAIN output' \ DOMAIN output :
          output'[k].is = "in-progress" =>
              \E c \in expired : worker[c] \in {"running", "release", "unwind"}
<1>1. ServerInv /\ [Next]_vars => [Explained]_vars
  <2> SUFFICES ASSUME ServerInv, Next PROVE Explained
    OBVIOUS
  <2>1. \A is, of : Respond(is, of) =>
          \A k \in DOMAIN output' \ DOMAIN output : output'[k].is = is
    BY DEF Respond, ServerInv, TypeOK
  <2>2. CASE Refuse
    <3>1. running /\ main = "read"
      BY <2>2 DEF Refuse, Reading
    <3>2. PICK c \in Calls : worker[c] \in AtWork
      BY <3>1 DEF ServerInv, FlagIsHeld
    <3>3. c \in expired
      BY <3>1, <3>2 DEF ServerInv, WorkersAreKnown, AtWork
    <3> QED
      BY <3>2, <3>3 DEF AtWork
  <2>3. CASE Claim
    BY <2>3 DEF Claim, ServerInv, FlagIsHeld
  <2>4. CASE Handle \/ ReplayDone \/ RejectMutation \/ BatchDone
    BY <2>1, <2>4 DEF Handle, ReplayDone, RejectMutation, BatchDone
  <2>5. CASE Spawn
    BY <2>1, <2>5 DEF Spawn
  <2>6. CASE Receive \/ Disconnected \/ Expire
    BY <2>1, <2>6 DEF Receive, Disconnected, Expire
  <2>7. CASE Notification \/ Replay \/ Batch \/ Admit
    BY <2>7 DEF Notification, Replay, Batch, Admit
  <2>8. CASE \E kind \in Kinds : Send(kind)
    BY <2>8 DEF Send
  <2>9. CASE \E c \in Calls : WorkerDone(c) \/ WorkerPanics(c) \/ ReleaseThenSend(c)
    BY <2>9 DEF WorkerDone, WorkerPanics, ReleaseThenSend
  <2> QED
    BY <2>2, <2>3, <2>4, <2>5, <2>6, <2>7, <2>8, <2>9 DEF Next, MainStep
<1> QED
  BY ServerInvariant, <1>1, PTL DEF Spec, RefusedOnlyAfterTimeout

\* What is being answered is a request.
RequestInHand == main # "read" => input[next] # "note"

\* A response to the message that is read next keeps one response for each request.
LEMMA RespondAnswersOne ==
    ASSUME ServerInv, ExactlyOneResponse, next <= Len(input), input[next] # "note",
           NEW is, NEW of, is = "result" => of = next, Respond(is, of), UNCHANGED input
    PROVE  ExactlyOneResponse'
<1> DEFINE new == [to |-> next, is |-> is, of |-> of]
<1>1. /\ output \in Seq(Response) /\ input \in Seq(Kinds) /\ next \in Nat \ {0} /\ Len(output) \in Nat
  BY LenProperties, ServerAssumption DEF ServerInv, TypeOK
<1>2. /\ DOMAIN output = 1 .. Len(output) /\ DOMAIN output' = 1 .. Len(output) + 1
      /\ \A k \in 1 .. Len(output) : output'[k] = output[k]
      /\ output'[Len(output) + 1] = new
  <2>1. output \in Seq(Response \cup {new}) /\ new \in Response \cup {new}
    BY <1>1
  <2> HIDE DEF new
  <2>2. output' = Append(output, new)
    BY DEF Respond, new
  <2> QED BY <1>1, <2>1, <2>2, AppendProperties, LenProperties
<1>3. next' = next + 1
  BY DEF Respond
<1>4. Requests' = Requests \cup {next}
  <2>1. 1 .. next' - 1 = (1 .. next - 1) \cup {next}
    BY <1>1, <1>3
  <2> QED BY <2>1 DEF Requests
<1>5. {output'[k].to : k \in DOMAIN output'} = {output[k].to : k \in DOMAIN output} \cup {next}
  <2>1. DOMAIN output' = DOMAIN output \cup {Len(output) + 1}
    BY <1>1, <1>2
  <2>2. \A k \in DOMAIN output : output'[k].to = output[k].to
    BY <1>2
  <2>3. output'[Len(output) + 1].to = next
    BY <1>2
  <2> QED BY <2>1, <2>2, <2>3
<1>6. \A k \in DOMAIN output : output[k].to < next
  <2>1. \A r \in Requests : r < next
    BY <1>1 DEF Requests
  <2> QED BY <2>1 DEF ExactlyOneResponse
<1>7. ASSUME NEW j \in DOMAIN output', NEW k \in DOMAIN output', j < k
      PROVE  output'[j].to < output'[k].to
  <2>1. j \in DOMAIN output /\ output'[j] = output[j]
    BY <1>1, <1>2, <1>7
  <2>2. CASE k \in DOMAIN output
    BY <1>2, <1>7, <2>1, <2>2 DEF ExactlyOneResponse
  <2>3. CASE k = Len(output) + 1
    BY <1>2, <1>6, <2>1, <2>3
  <2> QED BY <1>1, <1>2, <2>2, <2>3
<1>8. ASSUME NEW k \in DOMAIN output', output'[k].is = "result"
      PROVE  output'[k].of = output'[k].to
  <2>1. CASE k \in DOMAIN output
    BY <1>2, <1>8, <2>1 DEF ExactlyOneResponse
  <2>2. CASE k = Len(output) + 1
    BY <1>2, <1>8, <2>2
  <2> QED BY <1>1, <1>2, <2>1, <2>2
<1> QED BY <1>4, <1>5, <1>7, <1>8 DEF ExactlyOneResponse

\* Every step keeps it: notifications are passed over, and whatever else moves on to
\* the next message answers the one in hand.
LEMMA StepAnswersOne ==
    ASSUME ServerInv, ExactlyOneResponse, RequestInHand, [Next]_vars
    PROVE  ExactlyOneResponse' /\ RequestInHand'
<1>1. /\ input \in Seq(Kinds) /\ next \in Nat \ {0} /\ Len(input) \in Nat
      /\ next <= Len(input) + 1 /\ (main # "read" => next <= Len(input))
  BY LenProperties, ServerAssumption DEF ServerInv, TypeOK, InputInBounds
<1>2. CASE UNCHANGED <<input, next, output>> /\ (main' # "read" => input[next] # "note")
  BY <1>2 DEF ExactlyOneResponse, Requests, RequestInHand
<1>3. ASSUME NEW is, NEW of, is = "result" => of = next, next <= Len(input), input[next] # "note",
             Respond(is, of), UNCHANGED input
      PROVE  ExactlyOneResponse' /\ RequestInHand'
  <2>1. ExactlyOneResponse'
    BY <1>3, RespondAnswersOne
  <2> QED BY <1>3, <2>1 DEF Respond, RequestInHand
<1>4. ASSUME NEW kind \in Kinds, Send(kind) PROVE ExactlyOneResponse' /\ RequestInHand'
  <2>1. \A k \in 1 .. Len(input) : input'[k] = input[k]
    BY <1>1, <1>4, AppendProperties DEF Send
  <2>2. Requests' = Requests
    BY <1>1, <1>4, <2>1 DEF Send, Requests
  <2>3. main # "read" => input'[next] = input[next]
    BY <1>1, <2>1
  <2> QED BY <1>4, <2>2, <2>3 DEF Send, ExactlyOneResponse, RequestInHand
<1>5. CASE Notification
  <2>1. 1 .. next' - 1 = (1 .. next - 1) \cup {next}
    BY <1>1, <1>5 DEF Notification
  <2>2. Requests' = Requests
    BY <1>5, <2>1 DEF Notification, Reading, Requests
  <2> QED BY <1>5, <2>2 DEF Notification, Reading, ExactlyOneResponse, RequestInHand
<1>6. CASE Handle \/ Refuse \/ RejectMutation
  <2>1. next <= Len(input) /\ input[next] # "note" /\ UNCHANGED input
    BY <1>6 DEF Handle, Refuse, RejectMutation, Reading
  <2> QED BY <1>3, <1>6, <2>1 DEF Handle, Refuse, RejectMutation
<1>7. CASE ReplayDone \/ BatchDone \/ Claim \/ Spawn \/ Receive \/ Disconnected \/ Expire
  <2>1. next <= Len(input) /\ input[next] # "note" /\ UNCHANGED input
    BY <1>1, <1>7 DEF RequestInHand, ReplayDone, BatchDone, Claim, Spawn, Receive, Disconnected, Expire
  <2>2. \/ UNCHANGED <<input, next, output>>
        \/ Respond("result", next) \/ Respond("error", 0)
        \/ Respond("in-progress", 0) \/ Respond("timeout", 0)
    BY <1>7 DEF ReplayDone, BatchDone, Claim, Spawn, Receive, Disconnected, Expire
  <2> QED BY <1>2, <1>3, <2>1, <2>2
<1>8. CASE Replay \/ Batch \/ Admit
  BY <1>2, <1>8 DEF Replay, Batch, Admit, Reading
<1>9. CASE UNCHANGED <<input, next, main, output>>
  BY <1>2, <1>9 DEF RequestInHand
<1> QED
  BY <1>4, <1>5, <1>6, <1>7, <1>8, <1>9
     DEF Next, MainStep, vars, WorkerDone, WorkerPanics, ReleaseThenSend

\* Every request that was read has one response, in order and its own, however late
\* the workers of expired calls are.
THEOREM RequestsAreAnsweredOnce == Spec => []ExactlyOneResponse
<1>1. Init => ExactlyOneResponse /\ RequestInHand
  BY DEF Init, ExactlyOneResponse, Requests, RequestInHand
<1>2. ServerInv /\ [Next]_vars /\ ExactlyOneResponse /\ RequestInHand => ExactlyOneResponse' /\ RequestInHand'
  BY StepAnswersOne
<1> QED
  BY <1>1, <1>2, ServerInvariant, PTL DEF Spec
=============================================================================
