# A TLA+ model of aifix

aifix normalizes the diagnostics of compilers, linters and language servers for
coding agents.  It **edits source files** that users edit too, it keeps a
**cache file** that several agents share, it holds a **session with a language
server** that talks back at any moment, it **runs tools** that write more than
fits anywhere, and it **answers an agent** while those tools may hang.  Between
these parts stand pure functions that decide which edits are safe, what a tool's
output says and which setting counts.  This directory models all of these, checks
them with TLC and proves the properties that matter most with TLAPS.

All paths below are relative to `crates/aifix/src/` unless they start otherwise.

## 1. The system

| component | source | state | operations | with whom it interacts |
|---|---|---|---|---|
| Atomic source replacement | `lsp_fix.rs` 3138-3771 | a target path, a temporary beside it, inodes | stage, recheck, exchange, validate what was displaced, remove it or put it back | the file system; editors that save the same path |
| Workspace-edit transactions | `lsp_fix.rs` 1127-1331, 2207-2221, 3664-3715 | opened documents, prepared changes, the journal of committed edits | prepare, stage all, exchange all, synchronize, roll back | atomic replacement; the session, which rolls back on any error |
| Language-server session | `lsp_fix.rs` 590-2290, 4150-4190 | request ids, document versions, published diagnostics with their generations, deferred events, deadlines | initialize, open, request, handle events while reading and writing, apply actions, shut down | a reader and a writer thread, the server process, workspace edits |
| Text edits and positions | `lsp_fix.rs` 2729-2953, 3092-3136 | none | resolve UTF-16 positions, order, splice, end of a document | workspace edits |
| Code-action eligibility and choice | `lsp_fix.rs` 807-1125, 2330-2726 | none | screen an action, resolve it, screen it again, sort, choose | the session; workspace edits |
| Diagnostics cache | `cache.rs` | `.aifix/diagnostics.json`, `.lock`, `.gitignore`; use counts, seen set, metrics, fixes | dedupe, record metrics, report a fix, replay fixes, guidance; lock, load, save | other aifix processes; git over the working tree |
| MCP server | `mcp.rs` | the batch slot (`DEADLINE_BATCH_RUNNING`), a worker and its channel | read, dispatch, answer; wait for a replay; admit, spawn, time out | the client; the cache and, through a replay, git; the batch runner |
| Batch runner | `batch.rs` 159-172, 404-1580 | profiles, phase failures, residual diagnostics, statuses | detect, preflight, fix, code actions, diagnose | tools as child processes; the session |
| Stream capture | `batch.rs` 1807-2446 | retained prefix, spill file, byte budget, per stream | spawn, read, spill, join, validate UTF-8, replay | the child and two reader threads |
| Diagnostic adapters | `adapter.rs` | what a line parser has seen | detect the format, parse, keep or drop spans | the batch runner, which replays a capture through them |
| Digest builder | `digest.rs` | none | dedupe, count, group, sample | every producer of diagnostics |
| Configuration | `config.rs`, `lsp_fix.rs` 162-323 | none | find the files, merge them, resolve a profile's code actions | the batch runner and the session |
| Signatures, syntax, render, explain, CLI, model, errors | the other files | none beyond their arguments | hash, format, decode arguments | called by the others |

### What is hard

* Users' editors run between any two system calls of a replacement, and some
  save by renaming, some by truncating, some in place.
* Staging, exchanging, removing and synchronizing can each fail in the middle
  of a transaction of several files; the failure path itself can fail.
* Cache calls of several processes interleave; a process can be killed while
  its lock file exists, or fail before it knows that it has one; a replay holds the lock while git runs.
* The worker of a timed-out batch goes on and finishes late; a replay waits for git
  in the thread that reads the requests.
* The language server sends requests and diagnostics while aifix waits for a
  response, or while it is writing.
* One profile of a batch fails when the others have, or have not yet, changed
  sources.
* A child fills both pipes, leaves a process behind that keeps them open, or
  writes a character across the limit of what is kept in memory.
* An action is screened before the server completes it; a detector reads a text
  that a parser then reads again; a project overrides a setting with "off".

The list, each item at its line, is under `hazards` in `PROJECT.json`.

### What makes each component correct

* *Replacement*: no save of a user is lost; the path never shows a half-written
  file; a failed call leaves the path without its text; a deleted file stays
  deleted.
* *Workspace edits*: all files of an edit change or none; a failed session
  restores every file no user touched; documents at the server are what is on
  disk.
* *Cache*: calls are atomic; a diagnostic is reported once and never silenced;
  only the fix cached now is applied; nobody waits for ever for the lock; the lock is
  freed, also by a call that fails once it holds it.
* *MCP server*: one response per request, in order and its own; one batch at a
  time; a refusal has a reason the client knows; every message is dealt with, as far as
  the tools that have no deadline allow; the slot is freed again.
* *Session*: answers are matched to their requests; edits fit the text they are
  applied to and belong to diagnostics that are still there; what is reported
  was published for the final text; one edit per command; session, writer and
  server never wait for each other in a circle.
* *Actions and edits*: an action is applied unseen exactly if the server's last
  word on it is harmless and it is still what was offered; edits make exactly the
  text they mean, or are refused for a reason that holds - but for the one defect of
  section 6, whose extent is stated exactly.
* *Batch runner*: nothing changes before every detected profile was found able to
  do what is asked of it, nothing changes after the diagnosis, and a status says
  what happened.
* *Capture*: a digest is built from all that was written or from nothing; memory
  and disk are bounded; nothing is left behind; the run ends.
* *Adapters and digest*: no diagnostic is lost, repeated or reordered; only output
  that says so is clean, but for what stands beside cargo's records (section 6).
* *Configuration*: what the project says counts, then what the user says; an
  unusable file is reported and never skipped.

## 2. The modules

| module | what it is |
|---|---|
| `AtomicReplace` | one `atomic_replace_if_unchanged` call, system call by system call, with users acting between them |
| `AtomicReplaceProofs` | its theorems |
| `WorkspaceTransaction` | what a session promises: edits change all their files at once, failure restores all |
| `WorkspaceEdit` | `apply_workspace_edit_inner` and the two rollbacks; EXTENDS `AtomicReplace`, whose steps it calls; implements `WorkspaceTransaction` |
| `WorkspaceEditProofs` | its theorems, the refinement included |
| `CacheContents` | the cache as a value and what each operation makes of it |
| `CacheLedger` | what the cache promises: each call takes effect at once, as a whole, or not at all |
| `DiagnosticCache` | the `*_and_save` operations of several processes, lock file, load, git, save; implements `CacheLedger` |
| `DiagnosticCacheProofs` | its theorems, the refinement included |
| `McpServer` | the request loop, the batch slot and its worker |
| `McpServerProofs` | its theorems |
| `LanguageServer` | the server process as the session relies on it, and the pipes to it and from it |
| `LspSession` | one session from `initialize` to `exit`; EXTENDS `LanguageServer` |
| `LspSessionProofs` | its theorems |
| `BatchRun` | one `aifix batch` with `auto` or a named profile, tool by tool |
| `BatchRunProofs` | its theorems |
| `StreamCapture` | the child, the two readers, the main thread and the spill files of one command |
| `StreamCaptureProofs` | its theorems |
| `Containers` | sorting, filtering and tables, defined in terms a prover can expand |
| `TextEdits` | positions, edits and the end of a document, as operators |
| `ActionSafety` | the screening of code actions and the choice among them, as operators |
| `Adapters` | detection and parsing of a tool's output, line by line, as operators |
| `Digests` | deduplication, counts and groups, as operators |
| `ConfigLayers` | the files that count, the merge, and a profile's code-action settings, as operators |
| `Operators` | calls of these operators, one in a step, each with an input of a set that is a parameter; what the inputs may be; what the callers rely on |
| `OperatorProofs` | its theorems: what the operators return for every input |
| `MC*` | the instances for TLC: definitions of small sets of inputs, and symmetry; `MCOperators` gives `Operators` its small inputs |

### AtomicReplace

State: `target[f]` and `temp[f]` are directory entries (inodes), `content[i]`
the text of an inode, `kept` temporaries that stay on disk, `open` the inodes an
editor holds open for writing.  A text is a version aifix knows (`Versions`), a
user's save (`Saves`, each saved once) or `Torn` while its writer is at it.
`saved` and `live` are history: what users saved, and what of it no user has
superseded.  `step` is the point the call has reached, and its result.

| action | code |
|---|---|
| `StageCreate` | metadata check, comparison with the synchronized text, `create_new` of the temporary |
| `StageFill` | write, fsync, permissions, ACLs and attributes, verification; on failure `Discard` |
| `Recheck` | comparison and metadata immediately before the exchange |
| `Exchange` | `renameat2(RENAME_EXCHANGE)`, which fails when the path is gone |
| `ValidateDisplaced` | the displaced inode must read as expected, and the path must open |
| `RemoveDisplaced` | `remove_file` of the displaced inode |
| `Restore` | validation failed: exchange back; the temporary stays |
| `UndoExchange` | removal failed: exchange back and then `Discard` |
| `Discard` | `with_temporary_cleanup` |
| `RenameSave`, `OpenTruncating`, `OpenForUpdate`, `WriteInPlace`, `UserDelete` | what editors and users do, between any two of the above |

Each metadata, ACL or ownership check is one fault point (`"metadata"`,
`"stage"`): which attribute differs tells no property apart.  Restoring onto a
path that is gone is a failed exchange, as in the code.  `op.inode` is the inode
that the call has staged, from `StageCreate` to its return, also when the call
fails: `FailureIsUndone` compares it with what is at the path in the end.  That an
exchange was undone is therefore checked, and not that the call forgot about it.

### WorkspaceEdit

The same file-system state, plus `docs` (what the server has), `prepared` with
`pos` (the loop over the changes of the edit in progress), `journal`
(`committed_edits`), `undo` (changes still to be rolled back) and `reported`
(files named in the error).  The phases are those of the function: stage,
commit, synchronize; cleanup and undo on failure.  The staging call returns at
`staged` and the replacing call continues there, which is how the code splits
`stage_atomic_replacement` from `replace_staged_if_unchanged`; a rollback runs
both in one (`with_workspace_rollback`).  `SessionFails` stands for everything
that ends a session between two edits: it is always possible and always leads
into `rollback_committed_edits`.

### CacheContents, CacheLedger, DiagnosticCache

A diagnostic stands for its stable signature.  `Lookups` is nondeterministic
where the code ranks candidates by syntax fingerprints: an exact fix wins,
otherwise any fix of the family that was recorded with a fingerprint may be
found, or none.  `Skipped` is the rule that approximate matches are never
applied.  A patch is a value that the working tree contains or does not contain,
and `git apply` refuses one that it contains.

`pc[w]` is the point a process has reached in `with_cache_lock`: `acquire`
(`create_new` in a loop of `Retries` attempts, 500 in the code), `load`,
`change`, `git` (one step per patch), `save`, `ignore`, `rename`, `unlock`,
`answer`.  Fault points: the lock directory and the lock file (`AcquireFails`), the
owner line, a refused request, the load, git, the ignore file, the save, the removal
of the lock file, a kill.  A lock file that no process will remove is `Stale` when its
owner was killed or could not remove it, and `Leaked` when its owner failed to write
the owner line and returned before there was a `CacheLock` to drop.

### McpServer

`main` is the reading thread, `worker[c]` and `channel[c]` the thread and the
channel of the deadline-bound call `c`, `running` the flag.  The tools' results
are `result` or `error`.  Two tools keep the reading thread busy for as long as other
programs take: a batch without a deadline (`main = "running"`, until `BatchDone`) and
`aifix_replay_fixes`, which waits for git (`main = "git"`, from `Replay` to
`ReplayDone`).  All others are one step, `Handle`; those that use the cache give up on
its lock after a counted number of attempts.  A worker drops its guard and then sends
(`ReleaseThenSend`).  `Panics` says whether a batch may unwind; the release
profile aborts instead (`Cargo.toml`), tests and debug builds unwind.

### LanguageServer, LspSession

`LanguageServer` is external: it handles what it reads in order, answers each
request once, knows only text it has read, and sends up to `Budget` messages
nobody asked for (publications of this or an earlier version, with or without
the version, requests, edits, ContentModified answers).  `toServer` and
`toClient` are the pipes, `toClient` with the reader thread and its channel of
one message.

The session is one thread whose functions call each other while they wait:
`request` waits for an answer and handles what comes before it; handling a
request of the server sends a reply; sending waits for the writer thread and
reads meanwhile; what it reads may have to be answered as well.  `stack` holds
the functions that wait, innermost last: `send`, `request`, `wait`
(`wait_for_diagnostics`), `drain` (`drain_server_events`), `sync` (the loop of
`apply_workspace_edit_inner` that tells the server).  `phase` is the point of the
session's own course (`initialize`, `run`, `shutdown`).  A document's text is its
version; the other variables are the fields of the struct under their names or
shorter ones: `pending`, `deferred`, `version` (`documents`), `residual`
(`diagnostics`), `actionable` (`actionable_diagnostics` and
`diagnostic_versions`), `published`, `generation`, `mutations`, `scope`,
`applying`; `query`, `chosen` and `applied` are locals of `run` and
`next_safe_action`.

| action | code |
|---|---|
| `Send`, `Pump` | `send`, and `pump_during_write` with `defer_event` |
| `WriterWrites` | the writer thread, `write_messages` |
| `WaitForDiagnostics`, `DrainServerEvents` | the functions of those names |
| `RequestHandles`, `Retry`, and `Result` in the actions of the callers | `request` and the responses in `handle_event`; an answer that fits nothing fails the session |
| `Synchronize` | `synchronize_document` for each file of an edit, and its end |
| `Negotiate`, `OpenDocuments` | `negotiate`, `open_document`, `initialize` |
| `Search`, `QueryActions`, `Offered`, `Resolve`, `Select`, `Converged` | `next_safe_action` and `code_actions` |
| `ApplyEdit`, `ExecuteCommand`, `Applied` | `apply_action` and the loop of `run` |
| `Shutdown`, `NotifyExit`, `Reap` | `shutdown`, `notify_exit` |
| `Deadline`, `Crash`, `Disconnected` | the session deadline (every deadline is this one), the death of the server, broken pipes |

`Handle` is `handle_event` with what it calls; it is part of every action that
receives.  Replacing the files of an edit is one step that succeeds or fails
(`"apply"`): that is `WorkspaceEdit`.  The writer thread stops at a message
whose sender has given up, so `Fail` during a write may end the session without
a `shutdown` request.  A failure inside `initialize` ends the session at once.

### BatchRun

`set[p]` is what the configuration and the directory say of a profile and is
never changed: it is the input, together with `mode` and `asked`.  The loops of
`run_auto_profile_mode` are the stages, `left` the profiles a loop has yet to come
to: `Preflight`, `Settle` (rivals for code actions, and the abort of the others),
`NativeFix`, `CodeActions`, `Diagnose`.  `run_profile_mode` has the same course for one
profile, without `Settle` and without leaving out what the profile cannot do.
`log` is history: every tool that was run, and whether it succeeded.  Whether a
directory looks like a project of a kind is the input `found`.

### StreamCapture

A text is a short sequence of bytes of four kinds, enough for lines and for
characters of two bytes.  `main` is the point `run_child_captured` and `run_argv`
have reached, `reader[s]` the thread of a pipe, `stream[s]` a `CapturedStream`,
`files` the spill files on the disk; `Drop` removes what an abandoned value
holds.  `alive` are the processes that hold the pipes: the child, and one that it
has started and may leave behind.  Spawning the child or a thread, waiting,
reading, creating or writing the spill file and reopening it can fail.
`Validate` is the loop of `validate_reader_utf8` with its carried-over bytes.

### TextEdits, ActionSafety, Adapters, Digests, ConfigLayers

Each translates its functions as operators and ends with reference definitions
that say the same in another way: the text that edits mean offset by offset; what
a harmless action is as a predicate on its last form; the lines an adapter has to
report; the diagnostics that are first of their kind; the layer a setting comes
from.  A scalar is "a", "W" (two UTF-16 units) or a line break; an action, an edit
entry and an environment are records of the fields the code looks at, each with
the values it tells apart; a line of output is one of the kinds that the adapters
tell apart.  Regular expressions, JSON decoding and the wording of diagnostics
are abstracted to those kinds.  Among them are JSON whose list of diagnostics is empty
(`clean`, and `published` for what LSP publishes), cargo's record of a failed build
(`failed`) and native JSON that quotes a cargo record (`echo`).

Two reference definitions name what the code gets wrong or leaves out, so that the
invariants can say that nothing else is: `HasMisread` (section 6, item 3), and
`IsOverlooked`, the cargo output that is read as clean although a build failed in it or
other text stands beside it.

A loop of the code is a fold whose step has a name: `NextLine` and `ScanScalar`
(the two loops of `resolve_position_offsets`), `SpliceEdit` (the loop of
`apply_text_edits`), `EndAfter` (that of `document_end_position`), and those of
the adapters and of the digest.  What the code sorts or filters is sorted or
filtered by `Containers`, which places an element by the number of those before
it.  `Operators` turns all this into a specification: `call` is one call with its
arguments, each action is one function of the code that is called from outside
(`EditText`, `ScreenAction`, `ChooseAction`, `ReadOutput`, `ReadRange`,
`FindLayers`, `ResolveProfile`, `Digest`), and each invariant compares what the
operators return for the arguments with what the reference definitions say.

## 3. The runs

| run | question | bounds |
|---|---|---|
| `replace_saves` | do saves of every style, deletions, faults and crashes ever show a torn file, leave a failed replacement in place, or resurrect a file? | 1 file, 2 calls, 2 saves, 5 inodes |
| `replace_unlink_fault` | a claim the code does not keep (section 6) | 1 call |
| `edit_transaction` | two edits of two files against a user and failing system calls: is a save lost, a failed session undone, a staged copy left? | 2 files, 2 edits, 1 save, 5 inodes |
| `edit_atomic` | is a session a sequence of atomic edits? | 2 files, 3 versions, 2 edits |
| `cache_ledger` | are all operations atomic under every fault and kills; is a diagnostic reported twice or silenced; is only the current fix applied; does every wait end, and does every call that got to work under the lock file remove it? | 2 processes, 3 calls, requests of every kind |
| `cache_ignore_torn` | a claim the code does not keep (section 6) | 1 process, 2 calls |
| `mcp_server` | answers, exclusion, refusals; liveness of the loop, also while batches hang, and of the slot | 4 messages of every kind |
| `lsp_session` | do all that is acted upon, applied and reported belong to the text as it is; is a legal message ever taken for an error; does the session end without any deadline? | 2 documents, 2 iterations, 2 unasked messages, 2 deferred events, 2 nested requests, 1 message in each pipe and queue |
| `batch_run` | is anything changed before it may be or after it should be; are the statuses true? | 3 profiles (Rust, another built-in one, a configured one) in 7 settings each |
| `stream_capture` | is output lost, cut or left over; does the capture end? | 21 pairs of texts of up to 5 bytes, 2 bytes in memory, a limit of 4, pipes of 2 |
| `operators` | do the pure algorithms agree with their reference definitions? | texts of 3 scalars with one edit, chosen texts with two; outputs of 3 lines; 3 actions; 3 diagnostics; 2 layers, 2 project candidates |
| `edits_two_lines` | a claim the code does not keep (section 6) | as `operators` |

Why these bounds are enough: the interesting races need a call and a save
between each pair of its steps, and a second save or a second call after it; two
files are needed for a transaction that fails halfway, and two edits for a
journal with an order.  Two processes exclude each other or do not, a third can
only repeat the first; two diagnostics of one family give an exact match, an
approximate match and none.  Four messages hold a batch that times out, a batch
that is refused because of it, one that is admitted again, and another call.
Inodes and saves are symmetric: nothing orders them.
In a session two documents are needed for an edit that has told the server of
one text and not of the other, two iterations for what is left over from the
first action, and two unasked messages for a publication that makes the session
act and one that comes between; pipes and queues of one message block as often
as they can.
Three profiles hold one that fails, one that is capable and one that is not, in
every order of the catalogue's loops, or two rivals for code actions and a third.
A text of five bytes exceeds the limit, crosses what is kept in memory within a
character, and needs several reads, and two bytes of pipe block the tool.  Three
lines hold a diagnostic between two lines that may spoil it, three scalars a line
break of two characters or a wide character with neighbours; three diagnostics
hold a repetition that is not adjacent.
The proofs lift the safety results of every state machine from these bounds to all
values of the constants, and those of the operators to all inputs: texts, outputs,
lists of edits, of actions and of diagnostics of any length.

Deadlock is not checked where a system may stop: when no call is left to make
every process is idle, and a call of an operator is one step.

### Fairness

* `FairSpec` of `DiagnosticCache`: each process keeps running (the operating
  system schedules it) except inside git, which is waited for without a limit,
  and except when it is killed; no system call has to fail.  `EveryWaitEnds` needs no
  more, because the attempts are counted; `LockIsReleased` says of every lock file that it is
  removed, that git never ends, or that it is stale or leaked, as defined above.
* `FairSpec` of `McpServer`: the reading thread and finished workers run, and
  deadlines pass; a batch need not end, and neither need the git of a replay
  (`ReplayDone` and `BatchDone` have no fairness).  `EveryMessageIsHandled` excepts
  the two waits of the reading thread that nothing bounds, and no other;
  `SlotIsReleased` is conditional on the worker's end.
* `FairSpec` of `LspSession`: the session thread and the writer thread run; the
  server reads, unless its own output is blocked, and answers what it has read.
  The first is the operating system's scheduling, the second what makes it a
  language server.  Deadlines need not pass and the server need not die, so that
  `SessionEnds` does not rest on them.
* `FairSpec` of `StreamCapture`: the main thread runs; a reader runs when there is
  something to read or every writer is gone; no system call has to fail.  The tool
  and what it has started write what they have to write and then end.  aifix sets
  no limit of its own to a tool's time, so that `CaptureEnds` can only be claimed
  of tools that end; it says that neither the pipes nor a failed reader keep them
  from it.
* No property assumes that users, clients or calls ever act.

## 4. The proofs

TLC checks a small instance; the theorems hold for every value of the constants
that satisfies the modules' named assumptions.

* **AtomicReplaceProofs.**  The strengthening says for each `step` what is known
  about the temporary and the target: between `filling` and `discard` the
  temporary holds `op.inode` or, after the exchange, what was displaced; an
  inode has one name; an unfinished text has either a writer in `open` or is the
  temporary being filled.  For `FailureUndone` (`StagedPlace`): before the exchange the
  temporary is the staged inode, and an inode has one name; after it the temporary is
  another one, so that exchanging back puts another one at the path.
  `TypeCorrect`, `PathIsWhole`, `FailureUndone`,
  `SavesSurvive` and `DeletedStaysDeleted` follow.  `SavesSurvive` assumes
  `"update" \notin Styles` and `"unlink" \notin Faults`: without the
  second the property is false, as `replace_unlink_fault` shows, and without the
  first there is the window that section 6 names.
* **DiagnosticCacheProofs.**  The invariant ties every process between `load`
  and `unlock` to the lock file, what it has in memory to the file it loaded
  (nobody else writes the file while the lock is held), and what it has found to
  the lookup's candidates.  From it: types, exclusion, `ReportedOnce`,
  `NotSilenced`, `AppliesCurrentFix`, and the refinement `CallsAreAtomic`, one
  step at a time: only `Rename` maps to
  a step of the ledger that changes it.  `NotSilenced` admits one loss, a process
  killed after its save and before its answer, and holds it to the diagnostics
  that process had been asked about; its proof needs that everything a process is
  about to report was in its request (`FreshIsAsked`), which its kill leaves true.
* **WorkspaceEditProofs.**  The proof follows one sequence through a session,
  `Done`: the journal, the changes of the edit in progress that have been
  exchanged, and what is left of them while they are undone.  Each change begins
  with the text that the one before it gave the same file (`Linked`), so that
  undoing from the last one leads back to where every file started.  The
  invariant adds where the calls are in each phase, which files have a temporary
  and when it is a complete copy, that a file nobody touched has no writer, and
  who is to blame for a failure (a user or a failed system call).  From it:
  `FailedSessionRestores`, `DocumentsMatchDisk`, `StagedBeforeExchange` and
  `NoStagedCopyLeft`, for any users and faults.  `NoSaveLost` of whole sessions
  needs the two assumptions it needs for one call.  That a session implements
  `WorkspaceTransaction` is proved under `Styles = {}` and `Faults = {}`, where the
  specification promises it: with nobody in between, each exchange succeeds, and
  the last one, or the last undoing, is the step that counts.
* **LspSessionProofs.**  Five invariants, each on top of those before it.
  `SessionTypes`.  `CourseInv`: which functions may wait on top of which in every
  phase, and what they have in their hands; with it `OneEditPerAction` and
  `ActionIsCurrent`.  `TextInv`: nothing on its way, in a pipe, in the deferral
  queue or in a waiting function, speaks of a text newer than the session's, and a
  publication with a version is true; with it `DiagnosticsFitTheText`.
  `AnswerInv`: before the first error there is one request outstanding at most, at one
  place - waiting to be written, on its way, owed, or answered and not yet
  handled; with it `AnswersAreMatched`.  `EditInv`: of the texts on their way the
  newest of each document arrives last and is the session's; an answer is computed
  from texts the request did not overtake; and once no text is on its way every
  edit that comes back was computed from the texts as they are.  Since the server
  reads in order and answers what it has read, that is so whenever the session applies
  an edit: `EditsFitTheirText`.  The properties hold for any server within
  `ServerAssumption`, of any `Budget`, and for pipes, queues and nesting of any
  size.  Of the session's many ways to hear, write and fail, only a few kinds
  matter to the invariants (`Rests`, `Stops`, `Accepts` and so on); each kind is
  treated once.
* **BatchRunProofs.**  Each conjunct ties the log, the failures or the statuses to
  the stage and to the profiles its loop has still to come to: what the log may
  hold by now, that a failed preflight has become a failure of all by the time
  `Settle` is over, that statuses are in the order of the catalogue and repeat
  what was logged.  From it: `MutationsArePrepared`, `NothingChangesAfterwards`
  and `StatusesAreHonest`, for any catalogue and any settings.
* **StreamCaptureProofs.**  What a reader has taken, together with what its pipe
  still holds, is what was written; what it has taken is in one piece, the
  beginning in memory and all of it in the spill file; the validator has passed
  whole characters only and holds back less than one; and which threads and files
  exist follows from the point `main` has reached.  From it: `NothingIsLost` and
  `NothingIsLeft`.
* **McpServerProofs.**  The flag has one holder - the reading thread about to
  spawn, or one worker that has not dropped its guard - and a worker that
  outlives its call belongs to an expired one.  From it: types, exclusion of
  batches, and that refusals are explained.  `ExactlyOneResponse` needs besides that what the
  reading thread has in hand is a request, and that only it answers.
* **OperatorProofs.**  The four invariants of `Operators`, for every set of inputs
  of the stated types.  Most of the algorithms fold a step over a sequence, and no
  library theorem about folds is within reach of the provers.  They are therefore
  followed as *traces*: the fold is the last of the states that the steps lead
  through (`FoldTrace`, from which there is a lemma for each fold: `UnitsFold`,
  `EditsFold`, `EndFold` and so on), and what holds at the start and is kept by
  every step holds at the end (`TraceInduction`).  What each step keeps is stated
  and proved by itself, as for an action.
  * `ActionsTheorem` (`OnlySafeActions`) rests on `VerdictsAreSafe`: the tests of an
    edit, which stop at the first that fails, let it pass exactly if every entry is
    harmless (`EditsAreScreened`); and on `ChoicesAreClear`: sorting actions by key
    puts equal keys beside each other, so that what removes neighbours and looks at
    the first ones finds the preferred action or a reason for taking none.
  * `SettingsTheorem` (`ProjectSettingsWin`) rests on `ProjectAlwaysWins` and
    `ActionsAreAlwaysConsistent`: what a merge makes of a setting is found for one
    profile, and then for a layer.
  * `OutputTheorem` (`OutputIsReported`) rests on `ReportsAreWhole`, `SpansAlwaysFit`
    and `DigestsAreFair`.  For each adapter the invariant of its fold says what has
    been reported of the lines read so far and what is still open; for the digest,
    that what has been kept, counted and grouped are the diagnostics so far that are
    the first of their kind, in order.  A reading that succeeds and reports nothing is
    traced back to the kinds of lines that allow it.
  * `EditsTheorem` (`EditsMakeTheirText`) rests on three results.
    `AllAreResolved`: the scan of a line knows at each scalar the units before it
    (`Between`), and has resolved the positions up to there to the one offset whose
    position they are; the lines before it are done.  A scan that gets to the end of
    its line has misread none of a later line (`ScanMissesNone`), and if no line has,
    the characters of all positions ascend (`UnitsAscend`), so that none is misread for
    any other (`NoneIsMisread`); a scan that stops has met one.  This makes the
    condition `HasMisread` exact.  `SpliceIs`: after the first j
    edits in order the text made so far is what is expected of every place up to the
    last edit (`Part`), and no two of them overlap; texts that start at one place are
    put in in the order of the list, which is why the sort has to be stable.
    `EndsAreSound`: the end after o scalars is the position of o, except
    between a carriage return and its line feed.  `NamedAreInOrder` joins
    positions and offsets: they have the same order, so that edits may stand in one
    list exactly if the spliced ranges are disjoint (`CompatibleIsDisjoint`).

The named assumptions are those of the modules: finite sets of actors, numbers
that are naturals, limits that leave room for one element.  Those of `Operators`
(`TextAssumption`, `ActionAssumption`, `OutputAssumption`, `SettingAssumption`) say
that the inputs have their types, without a bound on any length or number;
`Unset` is none of the values it stands beside, and the entries of a `changes`
object have different documents, because it is a map.  Where a theorem needs
more it says so, as above.

Only model-checked: liveness (`EveryWaitEnds`, `LockIsReleased`,
`EveryMessageIsHandled`, `SlotIsReleased`, `SessionEnds`, `CaptureEnds`), because
fairness and ENABLED are outside the prover's reach.  Every invariant and every
other action or refinement property of a passing run is proved.

## 5. Not modelled, and why

* Cache schema migration, signatures, syntax fingerprints, rendering,
  explanations: pure conversions whose results are model values here.
* Argument decoding and command-line wiring: no state.
* In the adapters: JSON schemas, regular expressions and the texts and fields of a
  diagnostic other than its span.  In the batch runner: the heuristics that look
  for `Cargo.toml`, `tsconfig.json` and the like.  In the configuration: TOML
  decoding and the validation of names.
* In a session: byte limits, the counter of server messages, malformed messages
  and error responses other than ContentModified.  Each ends the session with an
  error, as a mismatched id does.  The choice among actions is by key here; what
  makes an action eligible is `ActionSafety`.  A server that writes after it has answered
  `shutdown` is not modelled: `notify_exit` and the wait for the exit read
  nothing, and only the deadline would end them.
* Windows: replacement is refused there before anything is staged.
* Power loss: `fsync` is part of staging, but the model has no volatile disk
  state; a crash here is a killed process.
* The other tools of the MCP server run in the reading thread while a timed-out
  worker may still be reading the project; that overlap is by design and only
  the batch slot is modelled.

## 6. Where code and text disagree

1. `replace_unlink_fault`: after a failed removal the temporary is deleted
   without a comparison and may be a user's save (`lsp_fix.rs:3596`, against
   docs/ADR.md:420).
2. `cache_ignore_torn`: an empty `.gitignore` counts as written
   (`cache.rs:1350-1354`, against ARCHITECTURE.md:79).
3. `edits_two_lines`: while `resolve_position_offsets` scans a line it compares
   the character of the next unresolved position with the units of that line, even
   when that position is on a later one (`lsp_fix.rs:2875`).  A single edit from
   (0,1) to (1,0), or two edits on two lines, is refused as splitting a surrogate
   pair, against `lsp_fix.rs:2728`.  No wrong text is made: an
   offered action is passed over (`lsp_fix.rs:1056`), and such an edit of a command
   is refused.  How far this goes is `HasMisread`: the edits name two positions, one on
   an earlier line than the other, and the later one's character is smaller, or is in
   the middle of a wide character of the earlier line.  `EditsMakeTheirText` says,
   and `EditsTheorem` proves, that every list of edits with such positions is refused
   and that no other list that fits the text and itself is.

Without a run of its own, because it would say no more than this paragraph: an
edit the server sends by itself while `executeCommand` is on its way is applied as
the command's edit, and the command's own edit is then refused
(`lsp_fix.rs:1775`, against README.md:63 of the repository).  The protocol gives
the session no means to tell the two apart; `EditsFitTheirText` shows that even
then the edit fits the text it is applied to.

Behaviour that surprised us and contradicts no text: `fix_argv = []` on a profile
other than Rust counts as a native fix (`batch.rs:1469`) and then fails the
preflight of all profiles; `"edit": null` beside an allowed command passes the
screening of payloads and then fails the session (`lsp_fix.rs:948`);
`dedup_by` removes equal actions only where they are neighbours after sorting by
key (`lsp_fix.rs:971`), so that two different actions of one key may keep a third
one twice, which makes the choice ambiguous and never wrong.

Of cargo's output, a failed build's record (`build-finished` with `success` false)
counts as any other record (`adapter.rs:492`), and text beside the records is passed
over (`adapter.rs:413`): output that holds these and no compiler message is read as
clean.  A digest or a list that is empty is read as clean whatever the digest's counts
say (`adapter.rs:335-347`, `1228-1240`).  Native JSON on one line that quotes a cargo
record looks like cargo's to the detection, and `auto` refuses it; under its own name,
`aifix`, it is read.

Known limits that follow from the design and contradict no text: an editor that
holds the displaced inode open can write it between validation and removal
(`lsp_fix.rs:3592`); a second save between a failed validation and the exchange
back is set aside under the temporary's name, where it is kept and reported
(`lsp_fix.rs:3580-3584`); a replay that fails after it applied a patch leaves the
patch in the tree and nothing in the cache (`cache.rs:1831`); a call that cannot
write its owner line leaves the lock file behind for ever, because there is no guard
yet to remove it (`cache.rs:1397-1401`), and from then on every call gives up after
its last attempt, as after a kill; and while a replay's git runs, the MCP server reads
nothing, for which there is no deadline (`mcp.rs:889`).

## 7. The plan

Modelled in this order, the most important behaviour first: replacement, edit
transactions, cache, MCP server, session, batch runner, capture, and the pure
algorithms.  What is left:

1. `CacheContents`: that a replay and a dedupe leave what they do not name as it
   was, for any cache.
2. The composition of `LspSession` with `WorkspaceEdit`, which share only the
   outcome of an edit.
