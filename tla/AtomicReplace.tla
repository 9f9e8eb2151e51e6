--------------------------- MODULE AtomicReplace ---------------------------
(***************************************************************************)
(* One call of atomic_replace_if_unchanged (crates/aifix/src/lsp_fix.rs):  *)
(* stage a replacement beside a source file, exchange the two names        *)
(* atomically, validate what the exchange displaced, and then remove it or *)
(* put it back - while editors keep saving the same file.                  *)
(*                                                                         *)
(* A path names an inode and an inode has a text.  What matters about a    *)
(* text is who wrote it: aifix read or wrote it (Versions), a user saved   *)
(* it (Saves), or its writer is not finished (Torn).                       *)
(***************************************************************************)
EXTENDS Naturals, FiniteSets

CONSTANTS
    Files,      \* the source paths
    Inodes,     \* the identities a directory entry can refer to
    NoInode,    \* "no such directory entry"
    Versions,   \* texts aifix synchronized with the server or computed
    Base,       \* the text every file starts with
    Saves,      \* texts users save; each is saved once
    Torn,       \* the text of a file whose writer is not finished
    Styles,     \* what users do: subset of {"rename", "truncate", "update", "delete"}
    Faults,     \* what may go wrong, a subset of FaultPoints
    MaxCalls    \* how many replacements the caller asks for

FaultPoints == {"metadata", "stage", "exchange", "unlink", "crash"}

ASSUME ReplaceAssumption ==
    /\ Base \in Versions
    /\ NoInode \notin Inodes
    /\ Torn \notin Versions \cup Saves
    /\ Versions \cap Saves = {}
    /\ Styles \subseteq {"rename", "truncate", "update", "delete"}
    /\ Faults \subseteq FaultPoints
    /\ MaxCalls \in Nat

VARIABLES
    target,   \* the inode each source path names
    temp,     \* the inode the temporary name beside it names
    kept,     \* inodes of temporaries left on disk for the user
    content,  \* the text of each inode
    open,     \* inodes an editor holds open for writing in place
    saved,    \* history: the texts users have saved so far
    live,     \* history: saves that no user replaced or deleted since
    step,     \* where the call is; also its result once it has returned
    op,       \* the call's arguments and the inode it staged
    calls     \* calls made so far

fsvars == <<target, temp, kept, content, open, saved, live>>
vars == <<target, temp, kept, content, open, saved, live, step, op, calls>>

Results == {"ok", "failed", "restored", "unrestored"}
Running == {"staging", "filling", "staged", "exchange", "validate",
            "unlink", "restore", "undo", "discard"}
Contents == Versions \cup Saves \cup {Torn}
Entry == Inodes \cup {NoInode}

TypeOK ==
    /\ target \in [Files -> Entry]
    /\ temp \in [Files -> Entry]
    /\ kept \subseteq Inodes
    /\ content \in [Inodes -> Contents]
    /\ open \subseteq Inodes
    /\ saved \subseteq Saves
    /\ live \subseteq saved
    /\ step \in Results \cup Running \cup {"idle", "crashed"}
    /\ op \in [file: Files, expected: Versions, updated: Versions, inode: Entry]
    /\ calls \in 0 .. MaxCalls

(***************************************************************************)
(* The file system as both sides see it.                                   *)
(***************************************************************************)
Named == {target[f] : f \in Files} \cup {temp[f] : f \in Files} \cup kept

\* A call's own inode is not given to another file before the call returns,
\* not even once its name is removed, so that op.inode means the replacement
\* this call staged also when the call has failed.
Free == Inodes \ (Named \cup open \cup {op.inode})

Exists(f) == target[f] # NoInode

\* file_matches_expected: the path can be opened and reads as expected.
Matches(f) == Exists(f) /\ content[target[f]] = op.expected

MayFail(point) == point \in Faults

Texts(entries) == {content[i] : i \in entries \ {NoInode}}

\* renameat2(RENAME_EXCHANGE): both names must exist and trade inodes.
Swap(f) ==
    /\ target' = [target EXCEPT ![f] = temp[f]]
    /\ temp' = [temp EXCEPT ![f] = target[f]]

\* The temporary stays on disk and the call forgets its name.
Keep(f) ==
    /\ kept' = kept \cup {temp[f]}
    /\ temp' = [temp EXCEPT ![f] = NoInode]

Unlink(f) == temp' = [temp EXCEPT ![f] = NoInode]

Goto(s) == step' = s

UserUnchanged == UNCHANGED <<saved, live, open>>

Init ==
    /\ target \in [Files -> Inodes]
    /\ \A f, g \in Files : target[f] = target[g] => f = g
    /\ temp = [f \in Files |-> NoInode]
    /\ kept = {}
    /\ content = [i \in Inodes |-> IF \E f \in Files : target[f] = i
                                     THEN Base ELSE Torn]
    /\ open = {}
    /\ saved = {}
    /\ live = {}
    /\ step = "idle"
    /\ op \in [file: Files, expected: {Base}, updated: {Base}, inode: {NoInode}]
    /\ calls = 0

(***************************************************************************)
(* The call.  Each action is one of its system calls with the decision the *)
(* code takes on the outcome; users may act between any two of them.       *)
(***************************************************************************)
Call(f, expected, updated) ==
    /\ step = "idle"
    /\ calls < MaxCalls
    /\ calls' = calls + 1
    /\ op' = [file |-> f, expected |-> expected, updated |-> updated,
              inode |-> NoInode]
    /\ Goto("staging")
    /\ UNCHANGED fsvars

\* The target is a regular, singly linked file that still reads as expected:
\* create the temporary with create_new.  Otherwise nothing was created.
StageCreate(f) ==
    /\ step = "staging"
    /\ f = op.file
    /\ \/ /\ Matches(f)
          /\ \E i \in Free :
                /\ temp' = [temp EXCEPT ![f] = i]
                /\ content' = [content EXCEPT ![i] = Torn]
                /\ op' = [op EXCEPT !.inode = i]
          /\ Goto("filling")
       \/ /\ ~Matches(f) \/ MayFail("metadata")
          /\ Goto("failed")
          /\ UNCHANGED <<temp, content, op>>
    /\ UNCHANGED <<target, kept, calls>>
    /\ UserUnchanged

\* A failed write, fsync or metadata copy goes on as if it had succeeded.
StageFillIgnoringErrors(f) ==
    /\ step = "filling"
    /\ f = op.file
    /\ \/ content' = [content EXCEPT ![temp[f]] = op.updated]
       \/ MayFail("stage") /\ UNCHANGED content
    /\ Goto("staged")
    /\ UNCHANGED <<target, temp, kept, op, calls>>
    /\ UserUnchanged

\* Write, fsync, copy permissions and security metadata, verify them.
StageFill(f) ==
    /\ step = "filling"
    /\ f = op.file
    /\ \/ /\ content' = [content EXCEPT ![temp[f]] = op.updated]
          /\ Goto("staged")
       \/ /\ MayFail("stage")
          /\ Goto("discard")
          /\ UNCHANGED content
    /\ UNCHANGED <<target, temp, kept, op, calls>>
    /\ UserUnchanged

\* The last look at the path before the exchange: text, then metadata.
Recheck(f) ==
    /\ step = "staged"
    /\ f = op.file
    /\ \/ Matches(f) /\ Goto("exchange")
       \/ (~Matches(f) \/ MayFail("metadata")) /\ Goto("discard")
    /\ UNCHANGED <<target, temp, kept, content, op, calls>>
    /\ UserUnchanged

\* A plain rename over a path that is gone, instead of an error.
ExchangeOrRename(f) ==
    /\ step = "exchange"
    /\ f = op.file
    /\ Swap(f)
    /\ Goto(IF Exists(f) THEN "validate" ELSE "ok")
    /\ UNCHANGED <<kept, content, op, calls>>
    /\ UserUnchanged

Exchange(f) ==
    /\ step = "exchange"
    /\ f = op.file
    /\ \/ /\ Exists(f)
          /\ Swap(f)
          /\ Goto("validate")
       \/ /\ ~Exists(f) \/ MayFail("exchange")
          /\ Goto("discard")
          /\ UNCHANGED <<target, temp>>
    /\ UNCHANGED <<kept, content, op, calls>>
    /\ UserUnchanged

\* The displaced inode is removed without looking at its text again.
ValidateDisplacedMetadataOnly(f) ==
    /\ step = "validate"
    /\ f = op.file
    /\ \/ Exists(f) /\ Goto("unlink")
       \/ (~Exists(f) \/ MayFail("metadata")) /\ Goto("restore")
    /\ UNCHANGED <<target, temp, kept, content, op, calls>>
    /\ UserUnchanged

\* What the exchange displaced must be what was synchronized, and the path
\* must open with the displaced inode's ownership, mode and attributes.
ValidateDisplaced(f) ==
    LET displacedMatches == content[temp[f]] = op.expected /\ Exists(f)
    IN  /\ step = "validate"
        /\ f = op.file
        /\ \/ displacedMatches /\ Goto("unlink")
           \/ (~displacedMatches \/ MayFail("metadata")) /\ Goto("restore")
        /\ UNCHANGED <<target, temp, kept, content, op, calls>>
        /\ UserUnchanged

RemoveDisplaced(f) ==
    /\ step = "unlink"
    /\ f = op.file
    /\ \/ Unlink(f) /\ Goto("ok")
       \/ MayFail("unlink") /\ Goto("undo") /\ UNCHANGED temp
    /\ UNCHANGED <<target, kept, content, op, calls>>
    /\ UserUnchanged

\* The exchange back is taken for granted although the path may be gone.
RestoreUnguarded(f) ==
    /\ step = "restore"
    /\ f = op.file
    /\ temp' = [temp EXCEPT ![f] = NoInode]
    /\ target' = [target EXCEPT ![f] = temp[f]]
    /\ kept' = kept \cup {target[f]}
    /\ Goto("restored")
    /\ UNCHANGED <<content, op, calls>>
    /\ UserUnchanged

\* Validation failed: exchange back.  The temporary is retained either way.
Restore(f) ==
    /\ step = "restore"
    /\ f = op.file
    /\ temp' = [temp EXCEPT ![f] = NoInode]
    /\ \/ /\ Exists(f)
          /\ target' = [target EXCEPT ![f] = temp[f]]
          /\ kept' = kept \cup {target[f]}
          /\ Goto("restored")
       \/ /\ ~Exists(f) \/ MayFail("exchange")
          /\ kept' = kept \cup {temp[f]}
          /\ Goto("unrestored")
          /\ UNCHANGED target
    /\ UNCHANGED <<content, op, calls>>
    /\ UserUnchanged

\* The displaced inode could not be removed: the cleanup is tried again, but
\* nothing is put back.
UndoForgotten(f) ==
    /\ step = "undo"
    /\ f = op.file
    /\ Goto("discard")
    /\ UNCHANGED <<target, temp, kept, content, op, calls>>
    /\ UserUnchanged

\* The displaced inode could not be removed: exchange back and, if that
\* succeeded, remove whatever the exchange left at the temporary name.
UndoExchange(f) ==
    /\ step = "undo"
    /\ f = op.file
    /\ \/ /\ Exists(f)
          /\ Swap(f)
          /\ Goto("discard")
          /\ UNCHANGED kept
       \/ /\ ~Exists(f) \/ MayFail("exchange")
          /\ Keep(f)
          /\ Goto("unrestored")
          /\ UNCHANGED target
    /\ UNCHANGED <<content, op, calls>>
    /\ UserUnchanged

\* with_temporary_cleanup: remove the temporary; a failure only adds to the
\* error's text and leaves the temporary on disk.
Discard(f) ==
    /\ step = "discard"
    /\ f = op.file
    /\ \/ Unlink(f) /\ UNCHANGED kept
       \/ MayFail("unlink") /\ Keep(f)
    /\ Goto("failed")
    /\ UNCHANGED <<target, content, op, calls>>
    /\ UserUnchanged

Return ==
    /\ step \in Results
    /\ op' = [op EXCEPT !.inode = NoInode]
    /\ Goto("idle")
    /\ UNCHANGED <<fsvars, calls>>

\* The process is killed: every name stays as it is on disk.
Crash ==
    /\ MayFail("crash")
    /\ step \in Running
    /\ Goto("crashed")
    /\ UNCHANGED <<fsvars, op, calls>>

ReplaceStep(f) ==
    \/ StageCreate(f) \/ StageFill(f) \/ Recheck(f) \/ Exchange(f)
    \/ ValidateDisplaced(f) \/ RemoveDisplaced(f) \/ Restore(f)
    \/ UndoExchange(f) \/ Discard(f)

(***************************************************************************)
(* Users.  A save supersedes the text it overwrites; nothing else may.  A  *)
(* user who replaces or deletes a file that another has open for writing   *)
(* in place supersedes that writer too: its text will reach no name.       *)
(***************************************************************************)
Superseded(i) == IF i = NoInode THEN {} ELSE {content[i]}

CallUnchanged == UNCHANGED <<step, op, calls, temp, kept>>

\* Save by writing a new file and renaming it over the path.
RenameSave(f, s) ==
    /\ "rename" \in Styles
    /\ s \notin saved
    /\ \E i \in Free :
          /\ content' = [content EXCEPT ![i] = s]
          /\ target' = [target EXCEPT ![f] = i]
    /\ saved' = saved \cup {s}
    /\ live' = (live \ Superseded(target[f])) \cup {s}
    /\ open' = open \ {target[f]}
    /\ CallUnchanged

\* Begin a save in place: open with O_TRUNC, so the old text is gone at once.
OpenTruncating(f) ==
    /\ "truncate" \in Styles
    /\ Exists(f)
    /\ target[f] \notin open
    /\ content' = [content EXCEPT ![target[f]] = Torn]
    /\ open' = open \cup {target[f]}
    /\ live' = live \ Superseded(target[f])
    /\ UNCHANGED <<target, saved>>
    /\ CallUnchanged

\* Begin a save in place that keeps the old text until it is written.
OpenForUpdate(f) ==
    /\ "update" \in Styles
    /\ Exists(f)
    /\ open' = open \cup {target[f]}
    /\ UNCHANGED <<target, content, saved, live>>
    /\ CallUnchanged

\* The in-place writer finishes, wherever its inode is named by now.
WriteInPlace(i, s) ==
    /\ i \in open
    /\ s \notin saved
    /\ content' = [content EXCEPT ![i] = s]
    /\ open' = open \ {i}
    /\ saved' = saved \cup {s}
    /\ live' = (live \ Superseded(i)) \cup {s}
    /\ UNCHANGED target
    /\ CallUnchanged

UserDelete(f) ==
    /\ "delete" \in Styles
    /\ Exists(f)
    /\ target' = [target EXCEPT ![f] = NoInode]
    /\ live' = live \ Superseded(target[f])
    /\ open' = open \ {target[f]}
    /\ UNCHANGED <<content, saved>>
    /\ CallUnchanged

UserStep ==
    \/ \E f \in Files :
          \/ OpenTruncating(f) \/ OpenForUpdate(f) \/ UserDelete(f)
          \/ \E s \in Saves : RenameSave(f, s)
    \/ \E i \in Inodes, s \in Saves : WriteInPlace(i, s)

Next ==
    \/ \E f \in Files, e, u \in Versions : e # u /\ Call(f, e, u)
    \/ \E f \in Files : ReplaceStep(f)
    \/ Return
    \/ Crash
    \/ UserStep

Spec == Init /\ [][Next]_vars

-----------------------------------------------------------------------------
(***************************************************************************)
(* Properties.                                                             *)
(***************************************************************************)

\* Every text a user saved, and that no user has overwritten or deleted since,
\* is on disk under the path or under a temporary name - at every moment, also
\* if aifix is killed there.  replace_staged_if_unchanged_with removes a
\* displaced inode only once it has proved that no save is in it.
NoSaveLost ==
    live \subseteq Texts(Named)

\* A reader of the path never sees a replacement that aifix has not finished
\* writing: an unfinished text under the path has an editor that is writing it.
\* (Staging writes and syncs the temporary before any exchange.)
NeverHalfWritten ==
    \A f \in Files :
        Exists(f) /\ content[target[f]] = Torn => target[f] \in open

\* A call that has failed, and whose error does not say that the restoration
\* failed, has not left its replacement at the path - whichever of its steps
\* failed, whatever users did meanwhile, and however the replacement went into
\* the path and out again (replace_staged_if_unchanged_with exchanges back
\* after a failed validation and after a failed removal).
FailureIsUndone ==
    step \in {"failed", "restored"} /\ Exists(op.file) =>
        target[op.file] # op.inode

\* A source the user deleted stays deleted: no step of a call, and no
\* restoration, brings the path back (RENAME_EXCHANGE needs both names).
NeverResurrects ==
    [][step' # step => \A f \in Files : ~Exists(f) => ~Exists(f)']_vars
=============================================================================
