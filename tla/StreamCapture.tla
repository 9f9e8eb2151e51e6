---------------------------- MODULE StreamCapture ----------------------------
(***************************************************************************)
(* run_child_captured and what run_argv does with its result (batch.rs): a  *)
(* tool writes two pipes, a thread reads each of them into memory and, when *)
(* that is not enough, into a private file; the main thread waits for the   *)
(* tool and for the readers, and then validates and parses what they have.  *)
(*                                                                         *)
(* A text is a sequence of bytes: "a" stands for ASCII, "n" for a newline,  *)
(* "L" for the first and "C" for the second byte of a longer scalar.        *)
(***************************************************************************)
EXTENDS Naturals, Sequences, FiniteSets

CONSTANTS
    Outputs,     \* what a tool may write: a text for each stream
    Retention,   \* BATCH_STREAM_RETENTION_LIMIT
    Limit,       \* max_output_bytes
    PipeRoom,    \* bytes a pipe holds
    Buffer,      \* bytes the validator looks at together
    Faults       \* what may fail, a subset of FaultPoints

Streams == {"stdout", "stderr"}
Bytes == {"a", "n", "L", "C"}
FaultPoints == {"spawn", "reader", "wait", "read", "spill", "reopen"}

ASSUME CaptureAssumption ==
    /\ Outputs \subseteq [Streams -> Seq(Bytes)]
    /\ {Retention, Limit, PipeRoom} \subseteq Nat \ {0}
    /\ Buffer \in Nat \ {0, 1}
    /\ Faults \subseteq FaultPoints

VARIABLES
    script,    \* what the tool has yet to write
    pipe,      \* written and not yet read
    written,   \* history: all that went into the pipe
    alive,     \* the processes that hold the pipes: the child, and one it has started
    reader,    \* "none", "reading", "done" or "failed"
    stream,    \* what a reader has: CapturedStream
    files,     \* streams whose spill file is on the disk
    main,      \* where run_argv is
    check,     \* the validator: bytes it has passed, and bytes it holds back
    failure,   \* the error to return, or "none"
    parsed,    \* what the parser was given
    text       \* stdout_text and stderr_text

tool == <<script, pipe, written, alive>>
readers == <<reader, stream, files>>
control == <<main, check, failure, parsed, text>>
vars == <<tool, readers, control>>

Nothing == [retained |-> <<>>, spilled |-> FALSE, spill |-> <<>>, total |-> 0]

Init ==
    /\ script \in Outputs
    /\ pipe = [s \in Streams |-> <<>>]
    /\ written = [s \in Streams |-> <<>>]
    /\ alive = {}
    /\ reader = [s \in Streams |-> "none"]
    /\ stream = [s \in Streams |-> Nothing]
    /\ files = {}
    /\ main = "spawn"
    /\ check = [passed |-> 0, held |-> 0]
    /\ failure = "none"
    /\ parsed = <<>>
    /\ text = [s \in Streams |-> <<>>]

-----------------------------------------------------------------------------
(***************************************************************************)
(* The tool.  It may end at any time; what it started may go on writing.    *)
(***************************************************************************)

Closed(s) == reader[s] \in {"done", "failed"} \/ main = "done"

\* A write to a pipe nobody will read any more is lost.
ToolWrites(s) ==
    /\ alive # {}
    /\ script[s] # <<>>
    /\ \/ /\ ~Closed(s)
          /\ Len(pipe[s]) < PipeRoom
          /\ pipe' = [pipe EXCEPT ![s] = Append(@, Head(script[s]))]
          /\ written' = [written EXCEPT ![s] = Append(@, Head(script[s]))]
       \/ /\ Closed(s)
          /\ UNCHANGED <<pipe, written>>
    /\ script' = [script EXCEPT ![s] = Tail(@)]
    /\ UNCHANGED <<alive, readers, control>>

Silent == \A s \in Streams : script[s] = <<>>

ProcessExits(p) ==
    /\ p \in alive
    /\ alive' = alive \ {p}
    /\ UNCHANGED <<script, pipe, written, readers, control>>

-----------------------------------------------------------------------------
(***************************************************************************)
(* A reader thread, read_stream_captured.                                  *)
(***************************************************************************)

\* retention_limit
InMemory == IF Retention < Limit THEN Retention ELSE Limit

\* SpillFile is dropped with whatever else the reader has.
ReaderFails(s) ==
    /\ reader' = [reader EXCEPT ![s] = "failed"]
    /\ files' = files \ {s}
    /\ UNCHANGED <<tool, stream, control>>

\* What did not fit into memory is all that is spilled.
SpillRest(c, chunk) ==
    LET room == InMemory - Len(c.retained)
    IN  [retained |-> c.retained \o SubSeq(chunk, 1, room), spilled |-> TRUE,
         spill |-> SubSeq(chunk, room + 1, Len(chunk)), total |-> c.total + Len(chunk)]

\* The first chunk that does not fit into memory starts the file with all so far.
StartSpill(c, chunk) ==
    LET room == InMemory - Len(c.retained)
    IN  [retained |-> c.retained \o SubSeq(chunk, 1, room), spilled |-> TRUE,
         spill |-> c.retained \o chunk, total |-> c.total + Len(chunk)]

Keep(c, chunk) ==
    CASE c.spilled -> [c EXCEPT !.spill = @ \o chunk, !.total = @ + Len(chunk)]
      [] ~c.spilled /\ c.total + Len(chunk) <= InMemory ->
            [c EXCEPT !.retained = @ \o chunk, !.total = @ + Len(chunk)]
      [] OTHER -> StartSpill(c, chunk)

WithinLimit(c, n) == c.total + n <= Limit

\* A reader waits until the one before it has ended.
ReadsAlone(s) ==
    /\ reader[s] = "reading"
    /\ s = "stderr" => reader["stdout"] # "reading"

Reads(s) == reader[s] = "reading"

ReadChunk(s) ==
    /\ Reads(s)
    /\ \E n \in 1 .. Len(pipe[s]) :
          LET chunk == SubSeq(pipe[s], 1, n)
              kept == Keep(stream[s], chunk)
          IN  /\ WithinLimit(stream[s], n)
              /\ pipe' = [pipe EXCEPT ![s] = SubSeq(@, n + 1, Len(@))]
              /\ stream' = [stream EXCEPT ![s] = kept]
              /\ files' = IF kept.spilled THEN files \cup {s} ELSE files
    /\ UNCHANGED <<script, written, alive, reader, control>>

\* Too much output, a read that fails, or a file that cannot be created or filled.
ReadFails(s) ==
    /\ Reads(s)
    /\ \/ "read" \in Faults
       \/ \E n \in 1 .. Len(pipe[s]) :
             \/ ~WithinLimit(stream[s], n)
             \/ "spill" \in Faults /\ Keep(stream[s], SubSeq(pipe[s], 1, n)).spilled
    /\ ReaderFails(s)

\* The end of the stream: nobody holds the other end.
EndOfStream(s) ==
    /\ Reads(s)
    /\ pipe[s] = <<>>
    /\ alive = {}
    /\ reader' = [reader EXCEPT ![s] = "done"]
    /\ UNCHANGED <<tool, stream, files, control>>

-----------------------------------------------------------------------------
(***************************************************************************)
(* run_child_captured.                                                     *)
(***************************************************************************)

Return(why) ==
    /\ main' = "done"
    /\ failure' = why
    /\ files' = {}
    /\ UNCHANGED <<check, parsed, text>>

Spawn ==
    /\ main = "spawn"
    /\ \/ /\ alive' \in {{"child"}, {"child", "descendant"}}
          /\ main' = "stdout"
          /\ UNCHANGED <<files, check, failure, parsed, text>>
       \/ /\ "spawn" \in Faults
          /\ Return("spawn")
          /\ UNCHANGED alive
    /\ UNCHANGED <<script, pipe, written, reader, stream>>

Starts(s) == reader' = [reader EXCEPT ![s] = "reading"]

\* spawn_stdout_reader, spawn_stderr_reader; without it the child is killed, the
\* pipe is closed and the other reader is waited for.
StartReader(s, next, otherwise) ==
    /\ main = s
    /\ \/ /\ Starts(s)
          /\ main' = next
          /\ UNCHANGED <<alive, failure>>
       \/ /\ "reader" \in Faults
          /\ reader' = [reader EXCEPT ![s] = "failed"]
          /\ alive' = alive \ {"child"}
          /\ failure' = "reader"
          /\ main' = otherwise
    /\ UNCHANGED <<script, pipe, written, stream, files, check, parsed, text>>

StartReaders ==
    \/ StartReader("stdout", "stderr", "drop")
    \/ StartReader("stderr", "wait", "join")

\* terminate_child kills the child and nothing the child has started.
WaitForChild ==
    /\ main = "wait"
    /\ \/ "child" \notin alive /\ UNCHANGED <<alive, failure>>
       \/ "wait" \in Faults /\ alive' = alive \ {"child"} /\ failure' = "wait"
    /\ main' = "join"
    /\ UNCHANGED <<script, pipe, written, readers, check, parsed, text>>

\* Nothing is done about the other reader when one has failed.
JoinUntilFailure ==
    \/ reader["stdout"] = "failed"
    \/ \A s \in Streams : reader[s] # "reading"

\* Both readers are waited for, whatever became of the first.
Joined == \A s \in Streams : reader[s] # "reading"

\* join_reader, twice, before either result is looked at.
JoinReaders ==
    /\ main = "join"
    /\ Joined
    /\ IF failure = "none" /\ \A s \in Streams : reader[s] = "done"
         THEN main' = "validate stdout" /\ UNCHANGED failure
         ELSE main' = "drop" /\ failure' = IF failure = "none" THEN "stream" ELSE failure
    /\ UNCHANGED <<tool, readers, check, parsed, text>>

\* The captured streams go out of scope, and their files with them.
Drop ==
    /\ main = "drop"
    /\ Return(failure)
    /\ UNCHANGED <<tool, reader, stream>>

-----------------------------------------------------------------------------
(***************************************************************************)
(* What run_argv does with the captured streams.                           *)
(***************************************************************************)

\* open_reader: the file when there is one, else what is in memory.
Complete(s) == IF stream[s].spilled THEN stream[s].spill ELSE stream[s].retained

\* from_utf8: how much of a text is whole scalars, and whether what follows is the
\* beginning of one.
Whole(t) ==
    {n \in 0 .. Len(t) :
        \A k \in 1 .. n :
            /\ t[k] = "L" => k < n /\ t[k + 1] = "C"
            /\ t[k] = "C" => k > 1 /\ t[k - 1] = "L"}
ValidUpTo(t) == CHOOSE n \in Whole(t) : \A m \in Whole(t) : m <= n
Unfinished(t) == ValidUpTo(t) + 1 = Len(t) /\ t[Len(t)] = "L"

\* A scalar that the buffer cuts in two is held back for the next read.
HeldBack(t) == Unfinished(t)

\* validate_reader_utf8 of stream s, one read at a time.
Validate(s, here, next) ==
    /\ main = here
    /\ \E n \in 0 .. Buffer - check.held :
          LET bytes == Complete(s)
              end == check.passed + check.held + n
              seen == SubSeq(bytes, check.passed + 1, end)
              good == ValidUpTo(seen)
          IN  /\ end <= Len(bytes)
              /\ n = 0 => end = Len(bytes)
              /\ \/ /\ n = 0
                    /\ check.held = 0
                    /\ main' = next
                    /\ check' = [passed |-> 0, held |-> 0]
                    /\ UNCHANGED failure
                 \/ /\ n > 0
                    /\ good = Len(seen) \/ HeldBack(seen)
                    /\ check' = [passed |-> check.passed + good, held |-> Len(seen) - good]
                    /\ UNCHANGED <<main, failure>>
                 \/ /\ \/ n = 0 /\ check.held > 0
                       \/ n > 0 /\ good < Len(seen) /\ ~HeldBack(seen)
                    /\ main' = "drop"
                    /\ failure' = "utf8"
                    /\ UNCHANGED check
    /\ UNCHANGED <<tool, readers, parsed, text>>

ValidateStreams ==
    \/ Validate("stdout", "validate stdout", "validate stderr")
    \/ Validate("stderr", "validate stderr", "parse")

\* combined_captured_reader: the last line of one stream does not run into the
\* first line of the other.
Combined(out, err) ==
    IF out # <<>> /\ err # <<>> /\ out[Len(out)] # "n" THEN out \o <<"n">> \o err
    ELSE out \o err

\* retained_utf8_string: without the scalar that the limit cuts in two.
Retained(s) == SubSeq(stream[s].retained, 1, ValidUpTo(stream[s].retained))

\* parse_captured_output and into_retained_string.
Parse ==
    /\ main = "parse"
    /\ parsed' = Combined(Complete("stdout"), Complete("stderr"))
    /\ text' = [s \in Streams |-> Retained(s)]
    /\ main' = "drop"
    /\ UNCHANGED <<tool, readers, check, failure>>

\* open_reader fails on a file that someone has removed.
ReopenFails ==
    /\ "reopen" \in Faults
    /\ main \in {"validate stdout", "validate stderr", "parse"}
    /\ files # {}
    /\ main' = "drop"
    /\ failure' = "reopen"
    /\ UNCHANGED <<tool, readers, check, parsed, text>>

MainStep ==
    \/ Spawn \/ StartReaders \/ WaitForChild \/ JoinReaders
    \/ ValidateStreams \/ Parse \/ ReopenFails \/ Drop

ReaderStep(s) == ReadChunk(s) \/ ReadFails(s) \/ EndOfStream(s)

Next ==
    \/ MainStep
    \/ \E s \in Streams : ReaderStep(s) \/ ToolWrites(s)
    \/ \E p \in alive : ProcessExits(p)

Spec == Init /\ [][Next]_vars

\* The threads run, where there is something to read or the child has ended: no
\* call has to fail.  The tool and what it has started write all they have to
\* write, when they are not blocked, and end after that.
FairSpec ==
    /\ Spec
    /\ WF_vars(MainStep /\ (main = "wait" => failure' = failure))
    /\ \A s \in Streams :
          /\ WF_vars(ReaderStep(s) /\ (pipe[s] # <<>> \/ alive = {}))
          /\ WF_vars(ToolWrites(s))
    /\ \A p \in {"child", "descendant"} : WF_vars(Silent /\ ProcessExits(p))

-----------------------------------------------------------------------------
(***************************************************************************)
(* Properties.                                                             *)
(***************************************************************************)

Valid(t) == Len(t) \in Whole(t)

Prefix(t, u) == Len(t) <= Len(u) /\ t = SubSeq(u, 1, Len(t))

\* A digest is built from all that the tool and what it started have written, valid
\* and within the limit, with every line of either stream a line of its own; what is
\* shown of it is a prefix of whole characters, short by less than one character; and
\* text is refused as malformed only when it is (run_argv).
NothingIsLost ==
    main = "done" =>
        /\ failure = "none" =>
              /\ \A s \in Streams :
                    /\ Valid(written[s])
                    /\ Len(written[s]) <= Limit
                    /\ stream[s].total = Len(written[s])
                    /\ Prefix(text[s], written[s])
                    /\ Valid(text[s])
                    /\ Len(text[s]) + 1 >= Len(written[s]) \/ Len(text[s]) + 1 >= Retention
              /\ \E gap \in {<<>>, <<"n">>} :
                    /\ parsed = written["stdout"] \o gap \o written["stderr"]
                    /\ LET out == written["stdout"] \o gap
                       IN  out = <<>> \/ written["stderr"] = <<>> \/ out[Len(out)] = "n"
        /\ failure = "utf8" => \E s \in Streams : ~Valid(written[s])

\* What a run holds is bounded, in memory and on the disk, and when it returns no
\* thread of it is left and no file (SpillFile, join_reader).
NothingIsLeft ==
    /\ \A s \in Streams : Len(stream[s].retained) <= Retention /\ Len(stream[s].spill) <= Limit
    /\ main = "done" => files = {} /\ \A s \in Streams : reader[s] # "reading"

\* The run ends: the tool never waits for a reader that waits for the tool, and a
\* reader that fails leaves nobody blocked (run_child_captured).
CaptureEnds == <>(main = "done")
=============================================================================
