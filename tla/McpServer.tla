------------------------------ MODULE McpServer ------------------------------
(***************************************************************************)
(* The MCP stdio server (crates/aifix/src/mcp.rs): one thread reads        *)
(* requests and answers them in order; a batch call with a deadline runs   *)
(* in a thread of its own, which outlives the call when the deadline       *)
(* passes first.  One flag, DEADLINE_BATCH_RUNNING, admits one such batch. *)
(* A replay of cached fixes waits for git in the reading thread itself.    *)
(***************************************************************************)
EXTENDS Naturals, Sequences

CONSTANTS
    Kinds,      \* what clients send: a subset of MessageKinds
    Panics,     \* TRUE when a worker may unwind without a result
    MaxSent     \* messages in all

MessageKinds == {"note", "call", "replay", "batch", "deadline", "mutating-deadline"}

ASSUME ServerAssumption ==
    /\ Kinds \subseteq MessageKinds
    /\ Panics \in BOOLEAN
    /\ MaxSent \in Nat

Calls == 1 .. MaxSent

VARIABLES
    input,     \* the kinds of all messages sent so far, in order
    next,      \* the message the server reads next
    main,      \* what the reading thread is doing
    running,   \* DEADLINE_BATCH_RUNNING
    worker,    \* the state of the worker thread of each call
    channel,   \* the result channel of each call
    output,    \* the responses written so far, in order
    expired    \* history: the calls whose deadline passed

vars == <<input, next, main, running, worker, channel, output, expired>>

Response == [to: Calls, is: {"result", "error", "timeout", "in-progress"}, of: 0 .. MaxSent]

TypeOK ==
    /\ input \in Seq(Kinds)
    /\ next \in 1 .. MaxSent + 1
    /\ main \in {"read", "git", "running", "claim", "spawn", "waiting"}
    /\ running \in BOOLEAN
    /\ worker \in [Calls -> {"none", "running", "release", "unwind", "send", "drop", "gone"}]
    /\ channel \in [Calls -> {"empty", "result", "closed"}]
    /\ output \in Seq(Response)
    /\ expired \subseteq Calls

Init ==
    /\ input = <<>>
    /\ next = 1
    /\ main = "read"
    /\ running = FALSE
    /\ worker = [c \in Calls |-> "none"]
    /\ channel = [c \in Calls |-> "empty"]
    /\ output = <<>>
    /\ expired = {}

\* The client writes another line.
Send(kind) ==
    /\ Len(input) < MaxSent
    /\ input' = Append(input, kind)
    /\ UNCHANGED <<next, main, running, worker, channel, output, expired>>

Reading(kinds) ==
    /\ main = "read"
    /\ next <= Len(input)
    /\ input[next] \in kinds

\* The response carries the id of the message that is read next.
RespondLate(is, of) ==
    /\ next' = next + 1
    /\ output' = Append(output, [to |-> next', is |-> is, of |-> of])
    /\ main' = "read"

\* Write the response of the message being handled and go on to the next one.
Respond(is, of) ==
    /\ output' = Append(output, [to |-> next, is |-> is, of |-> of])
    /\ next' = next + 1
    /\ main' = "read"

\* A message without an id is not answered.
Notification ==
    /\ Reading({"note"})
    /\ next' = next + 1
    /\ UNCHANGED <<input, main, running, worker, channel, output, expired>>

\* Everything that runs no other program is answered at once by the reading
\* thread; a tool that updates the cache gives up on its lock after a while.
Handle ==
    /\ Reading({"call"})
    /\ \/ Respond("result", next)
       \/ Respond("error", 0)
    /\ UNCHANGED <<input, running, worker, channel, expired>>

\* run_replay_fixes_tool: git checks and applies patches, and the reading thread
\* waits for it, whether or not a batch with a deadline goes on.
Replay ==
    /\ Reading({"replay"})
    /\ main' = "git"
    /\ UNCHANGED <<input, next, running, worker, channel, output, expired>>

ReplayDone ==
    /\ main = "git"
    /\ \/ Respond("result", next)
       \/ Respond("error", 0)
    /\ UNCHANGED <<input, running, worker, channel, expired>>

\* run_batch_tool: while a batch with a deadline runs, every batch is refused.
Refuse ==
    /\ Reading({"batch", "deadline", "mutating-deadline"})
    /\ running
    /\ Respond("in-progress", 0)
    /\ UNCHANGED <<input, running, worker, channel, expired>>

Batch ==
    /\ Reading({"batch"})
    /\ ~running
    /\ main' = "running"
    /\ UNCHANGED <<input, next, running, worker, channel, output, expired>>

BatchDone ==
    /\ main = "running"
    /\ \/ Respond("result", next)
       \/ Respond("error", 0)
    /\ UNCHANGED <<input, running, worker, channel, expired>>

\* Mutations and cache updates are not accepted together with a deadline.
RejectMutation ==
    /\ Reading({"mutating-deadline"})
    /\ ~running
    /\ Respond("error", 0)
    /\ UNCHANGED <<input, running, worker, channel, expired>>

Admit ==
    /\ Reading({"deadline"})
    /\ ~running
    /\ main' = "claim"
    /\ UNCHANGED <<input, next, running, worker, channel, output, expired>>

\* compare_exchange: between the first look and this one nothing else in this
\* process sets the flag, so it succeeds, but the code allows for the contrary.
Claim ==
    /\ main = "claim"
    /\ IF running
         THEN Respond("in-progress", 0) /\ UNCHANGED running
         ELSE running' = TRUE /\ main' = "spawn" /\ UNCHANGED <<next, output>>
    /\ UNCHANGED <<input, worker, channel, expired>>

\* The flag stays set when the thread cannot be started.
SpawnLeaking ==
    /\ main = "spawn"
    /\ \/ /\ worker' = [worker EXCEPT ![next] = "running"]
          /\ main' = "waiting"
          /\ UNCHANGED <<next, output>>
       \/ /\ Respond("error", 0)
          /\ UNCHANGED worker
    /\ UNCHANGED <<input, running, channel, expired>>

\* When the thread cannot be started its closure is dropped, and the guard in
\* it clears the flag.
Spawn ==
    /\ main = "spawn"
    /\ \/ /\ worker' = [worker EXCEPT ![next] = "running"]
          /\ main' = "waiting"
          /\ UNCHANGED <<next, output, running>>
       \/ /\ running' = FALSE
          /\ Respond("error", 0)
          /\ UNCHANGED worker
    /\ UNCHANGED <<input, channel, expired>>

\* One channel serves all calls: what an earlier call's worker left in it is
\* taken for the result of this one.
ReceiveAny ==
    /\ main = "waiting"
    /\ \E c \in Calls :
          /\ channel[c] = "result"
          /\ channel' = [channel EXCEPT ![c] = "empty"]
          /\ Respond("result", c)
    /\ UNCHANGED <<input, running, worker, expired>>

\* recv_timeout: a result, in the channel made for this call.
Receive ==
    /\ main = "waiting"
    /\ channel[next] = "result"
    /\ channel' = [channel EXCEPT ![next] = "empty"]
    /\ Respond("result", next)
    /\ UNCHANGED <<input, running, worker, expired>>

Disconnected ==
    /\ main = "waiting"
    /\ channel[next] = "closed"
    /\ Respond("error", 0)
    /\ UNCHANGED <<input, running, worker, channel, expired>>

\* The deadline's answer also frees the slot, although the batch goes on.
ExpireReleasing ==
    /\ main = "waiting"
    /\ channel[next] = "empty"
    /\ running' = FALSE
    /\ expired' = expired \cup {next}
    /\ Respond("timeout", 0)
    /\ UNCHANGED <<input, worker, channel>>

\* The reading thread gives up only when the worker has finished anyway.
ExpireLate ==
    /\ main = "waiting"
    /\ channel[next] = "empty"
    /\ worker[next] # "running"
    /\ expired' = expired \cup {next}
    /\ Respond("timeout", 0)
    /\ UNCHANGED <<input, running, worker, channel>>

\* The deadline passes; the worker is left to finish on its own.
Expire ==
    /\ main = "waiting"
    /\ channel[next] = "empty"
    /\ expired' = expired \cup {next}
    /\ Respond("timeout", 0)
    /\ UNCHANGED <<input, running, worker, channel>>

\* The batch of a worker ends.
WorkerDone(c) ==
    /\ worker[c] = "running"
    /\ worker' = [worker EXCEPT ![c] = "release"]
    /\ UNCHANGED <<input, next, main, running, channel, output, expired>>

\* A panic in the batch unwinds the worker (where panics unwind at all).
WorkerPanics(c) ==
    /\ Panics
    /\ worker[c] = "running"
    /\ worker' = [worker EXCEPT ![c] = "unwind"]
    /\ UNCHANGED <<input, next, main, running, channel, output, expired>>

\* The result is sent first and the flag is cleared next.
SendThenRelease(c) ==
    /\ \/ /\ worker[c] = "release"
          /\ channel' = [channel EXCEPT ![c] = "result"]
          /\ worker' = [worker EXCEPT ![c] = "send"]
          /\ UNCHANGED running
       \/ /\ worker[c] = "send"
          /\ running' = FALSE
          /\ worker' = [worker EXCEPT ![c] = "gone"]
          /\ UNCHANGED channel
    /\ UNCHANGED <<input, next, main, output, expired>>

\* The guard is dropped, which clears the flag, and then the result is sent;
\* nobody receives it when the deadline has passed.  A worker that unwinds
\* drops the guard and then its end of the channel.
ReleaseThenSend(c) ==
    /\ \/ /\ worker[c] \in {"release", "unwind"}
          /\ running' = FALSE
          /\ worker' = [worker EXCEPT ![c] =
                           IF worker[c] = "release" THEN "send" ELSE "drop"]
          /\ UNCHANGED channel
       \/ /\ worker[c] \in {"send", "drop"}
          /\ channel' = [channel EXCEPT ![c] =
                            IF worker[c] = "send" THEN "result" ELSE "closed"]
          /\ worker' = [worker EXCEPT ![c] = "gone"]
          /\ UNCHANGED running
    /\ UNCHANGED <<input, next, main, output, expired>>

MainStep ==
    \/ Notification \/ Handle \/ Replay \/ Refuse \/ Batch \/ RejectMutation
    \/ Admit \/ Claim \/ Spawn \/ Receive \/ Disconnected \/ Expire

Next ==
    \/ \E kind \in Kinds : Send(kind)
    \/ MainStep
    \/ ReplayDone
    \/ BatchDone
    \/ \E c \in Calls : WorkerDone(c) \/ WorkerPanics(c) \/ ReleaseThenSend(c)

Spec == Init /\ [][Next]_vars

\* Threads run and deadlines pass; the tools of a batch may never end, and
\* neither may the git of a replay, which has no deadline at all.
FairSpec ==
    /\ Spec
    /\ WF_vars(MainStep)
    /\ \A c \in Calls : WF_vars(ReleaseThenSend(c))

-----------------------------------------------------------------------------
(***************************************************************************)
(* Properties.                                                             *)
(***************************************************************************)

\* The messages read so far that ask for a response.
Requests == {k \in 1 .. next - 1 : input[k] # "note"}

\* Every request read so far has exactly one response, in the order of the
\* requests, and a response that carries a result carries its own: the late
\* result of an expired batch is never given to another call
\* (run_stdio_server: "every request receives exactly one JSON response line").
ExactlyOneResponse ==
    /\ {output[k].to : k \in DOMAIN output} = Requests
    /\ \A j, k \in DOMAIN output : j < k => output[j].to < output[k].to
    /\ \A k \in DOMAIN output : output[k].is = "result" => output[k].of = output[k].to

\* Two batches never run at once, also while the worker of an expired call is
\* still at it (DEADLINE_BATCH_RUNNING).
OneBatchAtATime ==
    /\ \A c, e \in Calls : worker[c] = "running" /\ worker[e] = "running" => c = e
    /\ main = "running" => \A c \in Calls : worker[c] # "running"

\* A batch is refused only while a worker is at work whose client was told that
\* its deadline had passed: a client that has its result may call again.
RefusedOnlyAfterTimeout ==
    [][\A k \in DOMAIN output' \ DOMAIN output :
          output'[k].is = "in-progress" =>
              \E c \in expired : worker[c] \in {"running", "release", "unwind"}]_vars

\* Every message is dealt with, although the tools of a batch may hang: only a
\* batch without a deadline and a replay, whose git has none, keep the reading
\* thread from the next message (run_batch_tool, run_replay_fixes_tool).
EveryMessageIsHandled ==
    \A k \in Calls : Len(input) >= k ~> next > k \/ main \in {"running", "git"}

\* Once the tools of a deadline-bound batch have ended the slot becomes free
\* again, whether its worker answered, was too late, panicked or never started.
SlotIsReleased ==
    running /\ main # "spawn" /\ (\A c \in Calls : worker[c] # "running") ~> ~running
=============================================================================
