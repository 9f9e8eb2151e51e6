--------------------------- MODULE WorkspaceEdit ---------------------------
(***************************************************************************)
(* The workspace-edit transactions of one language-server session          *)
(* (LspSession::apply_workspace_edit_inner and rollback_committed_edits in *)
(* crates/aifix/src/lsp_fix.rs), composed with AtomicReplace: every file   *)
(* is staged, then every staged file is exchanged in turn, then every      *)
(* document is synchronized with the server.  Any failure rolls back what  *)
(* this edit replaced and then what the session's earlier edits replaced.  *)
(*                                                                         *)
(* Files are numbers so that a workspace edit visits them in URI order.    *)
(***************************************************************************)
EXTENDS AtomicReplace, Sequences, SequencesExt

CONSTANT MaxEdits    \* how many workspace edits the session applies

ASSUME EditAssumption == Files \subseteq Nat /\ IsFiniteSet(Files) /\ MaxEdits \in Nat

VARIABLES
    phase,      \* what the session is doing
    docs,       \* the text each opened document has at the server
    prepared,   \* the changes of the edit in progress, in URI order
    pos,        \* the change the current loop is at
    journal,    \* the changes of the edits that were committed
    undo,       \* changes still to be rolled back, last one first
    reported,   \* files the session's error says it could not restore
    mutations,  \* edits committed
    touched     \* history: files a user has saved, opened or deleted

evars == <<phase, docs, prepared, pos, journal, undo, reported, mutations, touched>>
allvars == <<vars, evars>>

EditInit ==
    /\ Init
    /\ phase = "run"
    /\ docs = [f \in Files |-> Base]
    /\ prepared = <<>>
    /\ pos = 1
    /\ journal = <<>>
    /\ undo = <<>>
    /\ reported = {}
    /\ mutations = 0
    /\ touched = {}

Text(f) == IF Exists(f) THEN content[target[f]] ELSE Torn

\* Begin one replacement (or its staging) for a change.
Enter(c, expected, updated, s) ==
    /\ step = "idle"
    /\ op' = [file |-> c.file, expected |-> expected, updated |-> updated,
              inode |-> temp[c.file]]
    /\ Goto(s)
    /\ UNCHANGED <<fsvars, calls>>

\* The call in progress has returned one of the results.
Leave(results) ==
    /\ step \in results
    /\ Goto("idle")
    /\ UNCHANGED <<fsvars, op, calls>>

(***************************************************************************)
(* One workspace edit.                                                     *)
(***************************************************************************)

\* Every target is opened and reads as its document does; unchanged documents
\* are skipped and an edit that changes nothing prepares nothing.
Prepare(changed, updated) ==
    /\ phase = "run"
    /\ step = "idle"
    /\ mutations < MaxEdits
    /\ \A f \in changed : Text(f) = docs[f] /\ updated[f] # docs[f]
    /\ \E order \in [1 .. Cardinality(changed) -> changed] :
          /\ \A j, k \in DOMAIN order : j < k => order[j] < order[k]
          /\ prepared' = [k \in DOMAIN order |->
                             [file |-> order[k], expected |-> docs[order[k]],
                              updated |-> updated[order[k]]]]
    /\ phase' = "stage"
    /\ pos' = 1
    /\ UNCHANGED <<vars, docs, journal, undo, reported, mutations, touched>>

StageNext ==
    /\ phase = "stage"
    /\ Enter(prepared[pos], prepared[pos].expected, prepared[pos].updated, "staging")
    /\ UNCHANGED evars

\* A change is exchanged as soon as it is staged, before the others are.
StagedCommitEach ==
    /\ phase = "stage"
    /\ Leave({"staged"})
    /\ phase' = "commit"
    /\ UNCHANGED <<docs, prepared, pos, journal, undo, reported, mutations, touched>>

\* Only when every change is staged does the first exchange begin.
Staged ==
    /\ phase = "stage"
    /\ Leave({"staged"})
    /\ IF pos < Len(prepared)
         THEN pos' = pos + 1 /\ UNCHANGED phase
         ELSE pos' = 1 /\ phase' = "commit"
    /\ UNCHANGED <<docs, prepared, journal, undo, reported, mutations, touched>>

StageFailed ==
    /\ phase = "stage"
    /\ Leave({"failed"})
    /\ phase' = "cleanup"
    /\ undo' = <<>>
    /\ UNCHANGED <<docs, prepared, pos, journal, reported, mutations, touched>>

CommitNext ==
    /\ phase = "commit"
    /\ Enter(prepared[pos], prepared[pos].expected, prepared[pos].updated, "staged")
    /\ UNCHANGED evars

Committed ==
    /\ phase = "commit"
    /\ Leave({"ok"})
    /\ IF pos < Len(prepared)
         THEN pos' = pos + 1 /\ UNCHANGED phase
         ELSE pos' = 1 /\ phase' = "sync"
    /\ UNCHANGED <<docs, prepared, journal, undo, reported, mutations, touched>>

\* The change that failed is taken for the only one that was replaced.
CommitFailedKeepingEarlier ==
    /\ phase = "commit"
    /\ Leave({"failed", "restored", "unrestored"})
    /\ phase' = "cleanup"
    /\ undo' = <<>>
    /\ reported' = IF step = "unrestored" THEN reported \cup {op.file} ELSE reported
    /\ UNCHANGED <<docs, prepared, pos, journal, mutations, touched>>

\* A replacement failed: the changes before it are to be rolled back.  Its own
\* error names the file when the exchange could not be undone.
CommitFailed ==
    /\ phase = "commit"
    /\ Leave({"failed", "restored", "unrestored"})
    /\ phase' = "cleanup"
    /\ undo' = SubSeq(prepared, 1, pos - 1)
    /\ reported' = IF step = "unrestored" THEN reported \cup {op.file} ELSE reported
    /\ UNCHANGED <<docs, prepared, pos, journal, mutations, touched>>

\* The staged copies of the remaining changes are left where they are.
CleanupForgotten ==
    /\ phase = "cleanup"
    /\ phase' = "undo"
    /\ UNCHANGED <<vars, docs, prepared, pos, journal, undo, reported, mutations, touched>>

\* with_staged_cleanup: remove every temporary the edit still holds; one that
\* cannot be removed stays and is named in the error.
CleanupStaged ==
    /\ phase = "cleanup"
    /\ temp' = [f \in Files |-> NoInode]
    /\ \E stuck \in SUBSET {temp[f] : f \in Files} :
          /\ NoInode \notin stuck
          /\ stuck # {} => MayFail("unlink")
          /\ kept' = kept \cup stuck
    /\ phase' = "undo"
    /\ UNCHANGED <<target, content, open, saved, live, step, op, calls>>
    /\ UNCHANGED <<docs, prepared, pos, journal, undo, reported, mutations, touched>>

\* Only the last document of an edit takes its new text.
SynchronizeLastOnly ==
    LET c == prepared[pos]
        told == IF pos < Len(prepared) THEN docs ELSE [docs EXCEPT ![c.file] = c.updated]
    IN  /\ phase = "sync"
        /\ docs' = told
        /\ IF pos < Len(prepared)
             THEN /\ pos' = pos + 1
                  /\ UNCHANGED <<phase, journal, mutations>>
             ELSE /\ pos' = 1
                  /\ phase' = "run"
                  /\ journal' = journal \o prepared
                  /\ mutations' = mutations + 1
        /\ UNCHANGED <<vars, prepared, undo, reported, touched>>

\* synchronize_document, then drain_server_events: the document's text and
\* version change before the server is told, so an error can come before or
\* after.  After the last document the edit joins the journal.
Synchronize ==
    LET c == prepared[pos]
        told == [docs EXCEPT ![c.file] = c.updated]
    IN  /\ phase = "sync"
        /\ \/ /\ docs' = told
              /\ IF pos < Len(prepared)
                   THEN /\ pos' = pos + 1
                        /\ UNCHANGED <<phase, journal, mutations>>
                   ELSE /\ pos' = 1
                        /\ phase' = "run"
                        /\ journal' = journal \o prepared
                        /\ mutations' = mutations + 1
              /\ UNCHANGED undo
           \/ /\ docs' \in {docs, told}
              /\ phase' = "undo"
              /\ undo' = prepared
              /\ UNCHANGED <<pos, journal, mutations>>
        /\ UNCHANGED <<vars, prepared, reported, touched>>

(***************************************************************************)
(* Rolling back.                                                           *)
(***************************************************************************)

\* The journal is rolled back in the order the changes were made.
UndoOldestFirst ==
    /\ phase = "undo"
    /\ undo # <<>>
    /\ Enter(Head(undo), Head(undo).updated, Head(undo).expected, "staging")
    /\ undo' = Append(Tail(undo), Head(undo))
    /\ UNCHANGED <<phase, docs, prepared, pos, journal, reported, mutations, touched>>

\* with_workspace_rollback: the latest change first, updated back to expected.
UndoNext ==
    /\ phase = "undo"
    /\ undo # <<>>
    /\ Enter(Last(undo), Last(undo).updated, Last(undo).expected, "staging")
    /\ UNCHANGED evars

\* A file that could not be restored is named; the others are still tried.
Undone ==
    /\ phase = "undo"
    /\ Leave(Results)
    /\ undo' = Front(undo)
    /\ reported' = IF step = "ok" THEN reported ELSE reported \cup {op.file}
    /\ UNCHANGED <<phase, docs, prepared, pos, journal, mutations, touched>>

\* The edit's own rollback is over.  Its error ends the session, which rolls
\* back the journal of its earlier edits and then returns the error.
UndoFinished ==
    /\ phase = "undo"
    /\ step = "idle"
    /\ undo = <<>>
    /\ undo' = journal
    /\ journal' = <<>>
    /\ phase' = IF journal = <<>> THEN "failed" ELSE "undo"
    /\ UNCHANGED <<vars, docs, prepared, pos, reported, mutations, touched>>

\* No action is left to apply and the server has shut down.
Finish ==
    /\ phase = "run"
    /\ phase' = "ok"
    /\ UNCHANGED <<vars, docs, prepared, pos, journal, undo, reported, mutations, touched>>

\* The session fails between two edits: a stale target, a protocol error, a
\* deadline, an action that repeats, a server that does not shut down cleanly.
SessionFails ==
    /\ phase = "run"
    /\ phase' = IF journal = <<>> THEN "failed" ELSE "undo"
    /\ undo' = journal
    /\ journal' = <<>>
    /\ UNCHANGED <<vars, docs, prepared, pos, reported, mutations, touched>>

SessionCrash ==
    /\ MayFail("crash")
    /\ phase \notin {"ok", "failed", "crashed"}
    /\ phase' = "crashed"
    /\ Goto("crashed")
    /\ UNCHANGED <<fsvars, op, calls>>
    /\ UNCHANGED <<docs, prepared, pos, journal, undo, reported, mutations, touched>>

\* The steps of the replacement in progress; a staging call returns once the
\* temporary is complete, a replacing call goes on from there.
Replacing ==
    /\ step = "staged" => phase # "stage"
    /\ \E f \in Files : ReplaceStep(f)
    /\ UNCHANGED evars

User ==
    /\ UserStep
    /\ touched' = touched \cup {f \in Files : target'[f] # target[f] \/ target'[f] \in open'}
    /\ UNCHANGED <<phase, docs, prepared, pos, journal, undo, reported, mutations>>

EditNext ==
    \/ \E changed \in (SUBSET Files) \ {{}}, updated \in [Files -> Versions] :
          Prepare(changed, updated)
    \/ StageNext \/ Staged \/ StageFailed
    \/ CommitNext \/ Committed \/ CommitFailed
    \/ CleanupStaged \/ Synchronize
    \/ UndoNext \/ Undone \/ UndoFinished
    \/ Finish \/ SessionFails \/ SessionCrash
    \/ Replacing
    \/ User

EditSpec == EditInit /\ [][EditNext]_allvars

-----------------------------------------------------------------------------
(***************************************************************************)
(* Properties.                                                             *)
(***************************************************************************)

\* A failed session leaves every file as it found it, except where a user
\* wrote it and except a file its error names.  Without a user or a failing
\* system call there is no such exception (rollback_committed_edits).
FailedSessionRestores ==
    phase = "failed" =>
        \A f \in Files :
            \/ Text(f) = Base
            \/ f \in touched /\ (Text(f) \notin Versions \/ f \in reported)
            \/ f \in reported /\ Faults # {}

\* Between two edits the server's documents are what is on disk, file by file,
\* unless a user changed the file meanwhile: apply_workspace_edit_inner never
\* returns with one file of an edit replaced and another not.
DocumentsMatchDisk ==
    phase \in {"run", "ok"} => \A f \in Files : Text(f) = docs[f] \/ f \in touched

\* No exchange begins while a file of the same edit is not staged yet, so a
\* staging failure never needs a rollback.
StagedBeforeExchange ==
    phase = "commit" =>
        \A k \in pos + 1 .. Len(prepared) :
            /\ temp[prepared[k].file] # NoInode
            /\ content[temp[prepared[k].file]] = prepared[k].updated

\* However a session ends, it holds no staged copy any more: each was
\* exchanged, removed, or left behind by name.
NoStagedCopyLeft ==
    phase \in {"ok", "failed"} => \A f \in Files : temp[f] = NoInode

\* The text the committed edits give each file.
JournalText ==
    [f \in Files |->
        LET mine == {k \in DOMAIN journal : journal[k].file = f}
        IN  IF mine = {} THEN Base ELSE journal[Max(mine)].updated]

\* The point of no return: nothing is left to do but to undo everything.
Failing == phase = "undo" /\ journal = <<>>

Atomic == INSTANCE WorkspaceTransaction WITH
    source  <- IF phase \in {"ok", "failed"} THEN [f \in Files |-> Text(f)]
               ELSE IF Failing THEN [f \in Files |-> Base]
               ELSE JournalText,
    outcome <- IF phase = "ok" THEN "ok"
               ELSE IF Failing \/ phase = "failed" THEN "failed"
               ELSE "running"

\* Seen from outside, with neither users nor failing system calls, an edit
\* changes all of its files at once and a failed session changes none: staging,
\* exchanging and rolling back implement WorkspaceTransaction.
EditsAreAtomic == Atomic!Spec
=============================================================================
