------------------------ MODULE WorkspaceEditProofs ------------------------
(***************************************************************************)
(* Proofs about WorkspaceEdit, for any number of files, edits and users, and *)
(* for any system call that fails.                                          *)
(*                                                                         *)
(* The argument follows one sequence through the session: the changes that   *)
(* have been exchanged and not been undone.  Each begins with the text that  *)
(* the one before it gave the file, so that undoing them from the last one   *)
(* leads back to the text every file started with.                          *)
(***************************************************************************)
EXTENDS WorkspaceEdit, FiniteSetTheorems, SequenceTheorems,
        WellFoundedInduction, TLAPS

Change == [file: Files, expected: Versions, updated: Versions]

Editing == {"stage", "commit", "sync"}
Quiet == {"run", "sync", "cleanup", "ok", "failed"}
Phases == Editing \cup Quiet \cup {"undo", "crashed"}

\* The steps of a call at which a temporary name exists, and those after the
\* exchange, until it is undone.
Holding == {"filling", "staged", "exchange", "validate", "unlink", "restore",
            "undo", "discard"}
Exchanged == {"validate", "unlink", "restore", "undo", "ok", "unrestored"}
Displaced == {"validate", "unlink", "restore", "undo"}

EditTypes ==
    /\ TypeOK
    /\ phase \in Phases
    /\ docs \in [Files -> Versions]
    /\ prepared \in Seq(Change)
    /\ journal \in Seq(Change)
    /\ undo \in Seq(Change)
    /\ pos \in Nat
    /\ reported \subseteq Files
    /\ touched \subseteq Files

\* Where the calls are, in each phase.
StepFollowsPhase ==
    /\ phase \in Quiet => step = "idle"
    /\ phase = "stage" => step \in {"idle", "staging", "filling", "staged", "discard", "failed"}
    /\ phase = "commit" => step # "staging" /\ step # "filling"
    /\ step # "crashed"
    /\ phase \in Editing => pos \in 1 .. Len(prepared)
    /\ phase \in {"stage", "commit"} /\ step # "idle" =>
          op.file = prepared[pos].file /\ op.expected = prepared[pos].expected
          /\ op.updated = prepared[pos].updated
    /\ phase = "undo" /\ step # "idle" =>
          undo # <<>> /\ op.file = Last(undo).file /\ op.expected = Last(undo).updated
          /\ op.updated = Last(undo).expected

\* The changes of one edit are of different files, and begin with the documents.
PreparedFromDocs ==
    /\ phase \in Editing =>
          \A j, k \in 1 .. Len(prepared) : prepared[j].file = prepared[k].file => j = k
    /\ phase \in {"stage", "commit"} =>
          \A k \in 1 .. Len(prepared) : prepared[k].expected = docs[prepared[k].file]

\* An inode has one name.
NamesDistinct ==
    /\ \A f, g \in Files : Exists(f) /\ target[f] = target[g] => f = g
    /\ \A f, g \in Files : temp[f] # NoInode /\ temp[f] = temp[g] => f = g
    /\ \A f, g \in Files : temp[f] # NoInode => temp[f] # target[g]
    /\ \A f \in Files : Exists(f) => target[f] \notin kept
    /\ \A f \in Files : temp[f] # NoInode => temp[f] \notin kept

\* A complete replacement that no user can write.
StagedCopy(c) ==
    temp[c.file] # NoInode /\ content[temp[c.file]] = c.updated /\ temp[c.file] \notin open

\* Which files have a temporary, and where it is a complete replacement.
TempsFollowPhase ==
    /\ step \in Holding => temp[op.file] # NoInode
    /\ step \in {"filling", "staged", "exchange"} => temp[op.file] \notin open
    /\ step \in {"staged", "exchange"} => content[temp[op.file]] = op.updated
    /\ phase = "stage" =>
          /\ \A k \in 1 .. pos - 1 : StagedCopy(prepared[k])
          /\ \A f \in Files : temp[f] # NoInode =>
                (\E k \in 1 .. pos - 1 : f = prepared[k].file) \/ (f = op.file /\ step \in Holding)
    /\ phase = "commit" =>
          /\ \A k \in pos + 1 .. Len(prepared) : StagedCopy(prepared[k])
          /\ step = "idle" => StagedCopy(prepared[pos])
          /\ \A f \in Files : temp[f] # NoInode =>
                \/ \E k \in pos + 1 .. Len(prepared) : f = prepared[k].file
                \/ f = prepared[pos].file /\ step \in Holding \cup {"idle"}
    /\ phase = "undo" => \A f \in Files : temp[f] # NoInode => f = op.file /\ step \in Holding
    /\ phase \in {"run", "sync", "ok", "failed"} => \A f \in Files : temp[f] = NoInode

\* A file that no user has touched has no writer and is there.
UntouchedIsAlone ==
    \A f \in Files \ touched :
        /\ Exists(f) /\ target[f] \notin open
        /\ temp[f] # NoInode => temp[f] \notin open

\* The text that the first n changes of s give the file f.
Gives(s, n, f, v) ==
    \/ v = Base /\ \A k \in 1 .. n : s[k].file # f
    \/ \E k \in 1 .. n :
          /\ s[k].file = f /\ v = s[k].updated
          /\ \A j \in k + 1 .. n : s[j].file # f

\* Each change begins with the text the ones before it gave the file.
Linked(s) ==
    \A k \in 1 .. Len(s), v \in Versions : Gives(s, k - 1, s[k].file, v) => v = s[k].expected

\* The changes that were exchanged and that nobody has undone, and the text they give.
Done == journal \o (CASE phase = "commit" -> SubSeq(prepared, 1, pos - 1)
                      [] phase = "sync" -> prepared
                      [] phase \in {"cleanup", "undo"} -> undo
                      [] OTHER -> <<>>)

Now(f, v) == Gives(Done, Len(Done), f, v)

\* A file has the text it should have, unless its user has written it or the
\* session's error names it.
Fine(f, t, v) == t = v \/ (f \in touched /\ t \notin Versions) \/ f \in reported

\* An unfinished or deleted file of a user counts as the user's text.
TextsAreFine ==
    \A f \in Files :
        IF f = op.file /\ step \in Exchanged
          THEN /\ Fine(f, Text(f), op.updated)
               /\ step \in Displaced => Fine(f, content[temp[f]], op.expected)
          ELSE \A v \in Versions : Now(f, v) => Fine(f, Text(f), v)

\* The server's documents follow the edits that were committed, and the one whose
\* documents are being synchronized.
Told(f) == Gives(journal, Len(journal), f, docs[f])
Telling(f) == Gives(Done, Len(journal) + pos - 1, f, docs[f])

DocsFollowEdits ==
    /\ phase \in {"run", "ok", "stage", "commit"} => \A f \in Files : Told(f)
    /\ phase = "sync" => \A f \in Files : Telling(f)

\* A call fails, and a file is named, only where a user or the system is to blame.
Blamed(f) == f \in touched \/ Faults # {}

FailuresAreBlamed ==
    /\ \A f \in reported : Blamed(f)
    /\ phase \in {"run", "ok"} \cup Editing => reported = {}
    /\ step \in {"discard", "failed", "restore", "restored", "undo", "unrestored"} =>
          Blamed(op.file)

SessionInv ==
    /\ StepFollowsPhase
    /\ PreparedFromDocs
    /\ NamesDistinct
    /\ TempsFollowPhase
    /\ UntouchedIsAlone
    /\ Linked(Done)
    /\ TextsAreFine
    /\ DocsFollowEdits
    /\ FailuresAreBlamed
    /\ phase = "failed" => Done = <<>>

EditInv == EditTypes /\ IF phase = "crashed" THEN step = "crashed" ELSE SessionInv

-----------------------------------------------------------------------------
(***************************************************************************)
(* Sequences of changes.                                                   *)
(***************************************************************************)

\* What the first n changes give depends on these changes only.
LEMMA GivesAgree ==
    ASSUME NEW s, NEW t, NEW n \in Nat, \A k \in 1 .. n : s[k] = t[k], NEW f, NEW v
    PROVE  Gives(s, n, f, v) <=> Gives(t, n, f, v)
<1>1. \A k \in 1 .. n : \A j \in k + 1 .. n : s[j] = t[j]
  OBVIOUS
<1> QED
  BY <1>1 DEF Gives

\* They give a file one text.
LEMMA GivesOne ==
    ASSUME NEW s, NEW n \in Nat, NEW f, NEW v, NEW w, Gives(s, n, f, v), Gives(s, n, f, w)
    PROVE  v = w
<1>1. CASE \A k \in 1 .. n : s[k].file # f
  BY <1>1 DEF Gives
<1>2. CASE ~(\A k \in 1 .. n : s[k].file # f)
  <2>1. PICK k \in 1 .. n :
           s[k].file = f /\ v = s[k].updated /\ \A j \in k + 1 .. n : s[j].file # f
    BY <1>2 DEF Gives
  <2>2. PICK l \in 1 .. n :
           s[l].file = f /\ w = s[l].updated /\ \A j \in l + 1 .. n : s[j].file # f
    BY <1>2 DEF Gives
  <2>3. ~(k < l) /\ ~(l < k)
    BY <2>1, <2>2
  <2>4. k = l
    BY <2>3
  <2> QED
    BY <2>1, <2>2, <2>4
<1> QED
  BY <1>1, <1>2

\* One more change gives its file its text.
LEMMA GivesNext ==
    ASSUME NEW s, NEW n \in Nat, NEW f, NEW v
    PROVE  Gives(s, n + 1, f, v) <=> IF s[n + 1].file = f THEN v = s[n + 1].updated
                                                        ELSE Gives(s, n, f, v)
<1>1. \A k \in 1 .. n + 1 : k \in 1 .. n \/ k = n + 1
  OBVIOUS
<1>2. ASSUME s[n + 1].file = f PROVE Gives(s, n + 1, f, v) <=> v = s[n + 1].updated
  <2>1. ASSUME Gives(s, n + 1, f, v) PROVE v = s[n + 1].updated
    <3>1. PICK k \in 1 .. n + 1 :
             s[k].file = f /\ v = s[k].updated /\ \A j \in k + 1 .. n + 1 : s[j].file # f
      BY <1>2, <2>1 DEF Gives
    <3>2. k = n + 1
      BY <1>2, <3>1
    <3> QED
      BY <3>1, <3>2
  <2>2. ASSUME v = s[n + 1].updated PROVE Gives(s, n + 1, f, v)
    BY <1>2, <2>2 DEF Gives
  <2> QED
    BY <2>1, <2>2
<1>3. ASSUME s[n + 1].file # f PROVE Gives(s, n + 1, f, v) <=> Gives(s, n, f, v)
  <2>1. ASSUME Gives(s, n + 1, f, v) PROVE Gives(s, n, f, v)
    <3>1. CASE \A k \in 1 .. n + 1 : s[k].file # f
      BY <2>1, <3>1 DEF Gives
    <3>2. CASE ~(\A k \in 1 .. n + 1 : s[k].file # f)
      <4>1. PICK k \in 1 .. n + 1 :
               s[k].file = f /\ v = s[k].updated /\ \A j \in k + 1 .. n + 1 : s[j].file # f
        BY <2>1, <3>2 DEF Gives
      <4>2. k \in 1 .. n /\ \A j \in k + 1 .. n : s[j].file # f
        BY <1>1, <1>3, <4>1
      <4> QED
        BY <4>1, <4>2 DEF Gives
    <3> QED
      BY <3>1, <3>2
  <2>2. ASSUME Gives(s, n, f, v) PROVE Gives(s, n + 1, f, v)
    <3>1. CASE \A k \in 1 .. n : s[k].file # f
      <4>1. v = Base
        BY <2>2, <3>1 DEF Gives
      <4>2. \A k \in 1 .. n + 1 : s[k].file # f
        BY <1>1, <1>3, <3>1
      <4> QED
        BY <4>1, <4>2 DEF Gives
    <3>2. CASE ~(\A k \in 1 .. n : s[k].file # f)
      <4>1. PICK k \in 1 .. n :
               s[k].file = f /\ v = s[k].updated /\ \A j \in k + 1 .. n : s[j].file # f
        BY <2>2, <3>2 DEF Gives
      <4>2. k \in 1 .. n + 1 /\ \A j \in k + 1 .. n + 1 : s[j].file # f
        BY <1>3, <4>1
      <4> QED
        BY <4>1, <4>2 DEF Gives
    <3> QED
      BY <3>1, <3>2
  <2> QED
    BY <2>1, <2>2
<1> QED
  BY <1>2, <1>3

\* Changes of other files give a file nothing.
LEMMA GivesNothing ==
    ASSUME NEW s, NEW n \in Nat, NEW m \in Nat, n <= m, NEW f, NEW v,
           \A k \in n + 1 .. m : s[k].file # f, Gives(s, n, f, v)
    PROVE  Gives(s, m, f, v)
<1>1. \A k \in 1 .. m : k \in 1 .. n \/ k \in n + 1 .. m
  OBVIOUS
<1>2. CASE \A k \in 1 .. n : s[k].file # f
  <2>1. v = Base
    BY <1>2 DEF Gives
  <2>2. \A k \in 1 .. m : s[k].file # f
    BY <1>1, <1>2
  <2> QED
    BY <2>1, <2>2 DEF Gives
<1>3. CASE ~(\A k \in 1 .. n : s[k].file # f)
  <2>1. PICK k \in 1 .. n :
           s[k].file = f /\ v = s[k].updated /\ \A j \in k + 1 .. n : s[j].file # f
    BY <1>3 DEF Gives
  <2>2. k \in 1 .. m /\ \A j \in k + 1 .. m : s[j].file # f
    BY <1>1, <2>1
  <2> QED
    BY <2>1, <2>2 DEF Gives
<1> QED
  BY <1>2, <1>3

\* One more change at the end of a sequence.
LEMMA GivesAppend ==
    ASSUME NEW s \in Seq(Change), NEW c \in Change, NEW f, NEW v
    PROVE  Gives(Append(s, c), Len(Append(s, c)), f, v)
              <=> IF c.file = f THEN v = c.updated ELSE Gives(s, Len(s), f, v)
<1> DEFINE t == Append(s, c)
<1>1. /\ Len(s) \in Nat /\ Len(t) = Len(s) + 1
      /\ t[Len(s) + 1] = c
      /\ \A k \in 1 .. Len(s) : t[k] = s[k]
  OBVIOUS
<1> HIDE DEF t
<1>2. Gives(t, Len(s) + 1, f, v) <=> IF t[Len(s) + 1].file = f THEN v = t[Len(s) + 1].updated
                                                            ELSE Gives(t, Len(s), f, v)
  BY <1>1, GivesNext
<1>3. Gives(t, Len(s), f, v) <=> Gives(s, Len(s), f, v)
  BY <1>1, GivesAgree
<1>4. Gives(t, Len(t), f, v) <=> IF c.file = f THEN v = c.updated ELSE Gives(s, Len(s), f, v)
  BY <1>1, <1>2, <1>3
<1> QED
  BY <1>4 DEF t

\* A change that begins with the text its file has keeps a sequence linked.
LEMMA LinkedAppend ==
    ASSUME NEW s \in Seq(Change), NEW c \in Change, Linked(s),
           Gives(s, Len(s), c.file, c.expected)
    PROVE  Linked(Append(s, c))
<1> DEFINE t == Append(s, c)
<1>1. /\ Len(s) \in Nat /\ Len(t) = Len(s) + 1
      /\ t[Len(s) + 1] = c
      /\ \A k \in 1 .. Len(s) : t[k] = s[k]
  OBVIOUS
<1> HIDE DEF t
<1>2. ASSUME NEW k \in 1 .. Len(t), NEW v \in Versions, Gives(t, k - 1, t[k].file, v)
      PROVE  v = t[k].expected
  <2>1. k - 1 \in Nat /\ \A j \in 1 .. k - 1 : t[j] = s[j]
    BY <1>1
  <2>2. Gives(s, k - 1, t[k].file, v)
    BY <1>2, <2>1, GivesAgree
  <2>3. CASE k = Len(s) + 1
    BY <1>1, <2>2, <2>3, GivesOne
  <2>4. CASE k \in 1 .. Len(s)
    BY <1>1, <2>2, <2>4 DEF Linked
  <2> QED
    BY <1>1, <2>3, <2>4
<1>3. Linked(t)
  BY <1>2 DEF Linked
<1> QED
  BY <1>3 DEF t

\* Without its last change a linked sequence is linked, and gives the last
\* change's file the text that change began with.
LEMMA LinkedBefore ==
    ASSUME NEW s \in Seq(Change), NEW c \in Change, Linked(Append(s, c))
    PROVE  /\ Linked(s)
           /\ \A v \in Versions : Gives(s, Len(s), c.file, v) => v = c.expected
<1> DEFINE t == Append(s, c)
<1>1. /\ Len(s) \in Nat /\ Len(t) = Len(s) + 1
      /\ t[Len(s) + 1] = c
      /\ \A k \in 1 .. Len(s) : t[k] = s[k]
  OBVIOUS
<1>0. Linked(t)
  OBVIOUS
<1> HIDE DEF t
<1>2. ASSUME NEW k \in 1 .. Len(s), NEW v \in Versions, Gives(s, k - 1, s[k].file, v)
      PROVE  v = s[k].expected
  <2>1. k - 1 \in Nat /\ k \in 1 .. Len(t) /\ \A j \in 1 .. k - 1 : s[j] = t[j]
    BY <1>1
  <2>2. Gives(t, k - 1, t[k].file, v)
    BY <1>1, <1>2, <2>1, GivesAgree
  <2> QED
    BY <1>0, <1>1, <2>1, <2>2 DEF Linked
<1>3. ASSUME NEW v \in Versions, Gives(s, Len(s), c.file, v) PROVE v = c.expected
  <2>1. Gives(t, Len(s), t[Len(s) + 1].file, v)
    BY <1>1, <1>3, GivesAgree
  <2>2. Len(s) + 1 \in 1 .. Len(t) /\ (Len(s) + 1) - 1 = Len(s)
    BY <1>1
  <2>3. Gives(t, (Len(s) + 1) - 1, t[Len(s) + 1].file, v)
    BY <2>1, <2>2
  <2> QED
    BY <1>0, <1>1, <2>2, <2>3 DEF Linked
<1> QED
  BY <1>2, <1>3 DEF Linked

-----------------------------------------------------------------------------
(***************************************************************************)
(* The changes that stand, after a step.                                   *)
(***************************************************************************)
LEMMA LinkedThen ==
    ASSUME NEW t, Done' = t, Linked(t)
    PROVE  Linked(Done)'
BY DEF Linked, Gives

\* The text a file should have, after the step.
LEMMA NowThen ==
    ASSUME NEW t, Done' = t, NEW f, NEW v
    PROVE  Now(f, v)' <=> Gives(t, Len(t), f, v)
BY DEF Now, Gives

\* The text a call expects is the one its file should have.
LEMMA ExpectedNow ==
    ASSUME EditTypes, StepFollowsPhase, PreparedFromDocs, DocsFollowEdits,
           step # "idle", phase # "crashed"
    PROVE  phase \in {"stage", "commit", "undo"} /\ Now(op.file, op.expected)
<1>1. phase \in {"stage", "commit", "undo"}
  BY DEF EditTypes, StepFollowsPhase, Phases, Editing, Quiet
<1>2. CASE phase = "stage"
  <2>1. op.expected = docs[op.file] /\ op.file \in Files
    BY <1>2 DEF EditTypes, TypeOK, StepFollowsPhase, PreparedFromDocs, Editing
  <2>2. Done = journal
    BY <1>2 DEF Done, EditTypes
  <2>3. Told(op.file)
    BY <1>2, <2>1 DEF DocsFollowEdits
  <2> QED
    BY <1>2, <2>1, <2>2, <2>3 DEF Told, Now
<1>3. CASE phase = "commit"
  <2>1. /\ op.expected = docs[op.file] /\ op.file \in Files
        /\ op.file = prepared[pos].file /\ pos \in 1 .. Len(prepared)
    BY <1>3 DEF EditTypes, TypeOK, StepFollowsPhase, PreparedFromDocs, Editing
  <2>2. Told(op.file)
    BY <1>3, <2>1 DEF DocsFollowEdits
  <2>3. /\ Len(journal) \in Nat /\ Len(Done) = Len(journal) + (pos - 1)
        /\ \A k \in 1 .. Len(journal) : Done[k] = journal[k]
        /\ \A k \in Len(journal) + 1 .. Len(Done) : Done[k] = prepared[k - Len(journal)]
    BY <1>3, <2>1 DEF Done, EditTypes
  <2>4. \A k \in Len(journal) + 1 .. Len(Done) : Done[k].file # op.file
    <3>1. \A j, k \in 1 .. Len(prepared) : prepared[j].file = prepared[k].file => j = k
      BY <1>3 DEF PreparedFromDocs, Editing
    <3>2. Len(prepared) \in Nat
      BY DEF EditTypes
    <3> SUFFICES ASSUME NEW k \in Len(journal) + 1 .. Len(Done) PROVE Done[k].file # op.file
      OBVIOUS
    <3>3. k - Len(journal) \in 1 .. Len(prepared) /\ k - Len(journal) # pos
      BY <2>1, <2>3, <3>2
    <3> QED
      BY <2>1, <2>3, <3>1, <3>3
  <2>5. Gives(Done, Len(journal), op.file, op.expected)
    BY <2>1, <2>2, <2>3, GivesAgree DEF Told
  <2>6. Len(Done) \in Nat /\ Len(journal) <= Len(Done)
    BY <2>1, <2>3
  <2>7. Gives(Done, Len(Done), op.file, op.expected)
    BY <2>3, <2>4, <2>5, <2>6, GivesNothing
  <2> QED
    BY <1>3, <2>7 DEF Now
<1>4. CASE phase = "undo"
  <2>1. undo # <<>> /\ op.file = Last(undo).file /\ op.expected = Last(undo).updated
    BY <1>4 DEF StepFollowsPhase
  <2>2. Done = journal \o undo
    BY <1>4 DEF Done
  <2>3. Len(Done) \in Nat \ {0} /\ Done[Len(Done)] = Last(undo)
    BY <2>1, <2>2 DEF EditTypes, Last
  <2> QED
    BY <1>4, <2>1, <2>3 DEF Now, Gives
<1> QED
  BY <1>1, <1>2, <1>3, <1>4
-----------------------------------------------------------------------------
(***************************************************************************)
(* The steps of a replacement.                                             *)
(***************************************************************************)

\* A step of a call keeps the types.
LEMMA CallTypes ==
    ASSUME TypeOK, NEW f \in Files, ReplaceStep(f), step \in Holding => temp[f] # NoInode
    PROVE  TypeOK'
<1> USE ReplaceAssumption DEF TypeOK, Contents, Entry, Results, Running, UserUnchanged, Goto
<1>1. CASE StageCreate(f)
  BY <1>1 DEF StageCreate, Free
<1>2. CASE StageFill(f)
  BY <1>2 DEF StageFill
<1>3. CASE Recheck(f)
  BY <1>3 DEF Recheck
<1>4. CASE Exchange(f)
  BY <1>4 DEF Exchange, Swap
<1>5. CASE ValidateDisplaced(f)
  BY <1>5 DEF ValidateDisplaced
<1>6. CASE RemoveDisplaced(f)
  BY <1>6 DEF RemoveDisplaced, Unlink
<1>7. CASE Restore(f)
  BY <1>7 DEF Restore, Exists, Holding
<1>8. CASE UndoExchange(f)
  BY <1>8 DEF UndoExchange, Swap, Keep, Holding
<1>9. CASE Discard(f)
  BY <1>9 DEF Discard, Unlink, Keep, Holding
<1> QED
  BY <1>1, <1>2, <1>3, <1>4, <1>5, <1>6, <1>7, <1>8, <1>9 DEF ReplaceStep

\* Where a step of a call leads, and what it leaves alone.
LEMMA CallMoves ==
    ASSUME TypeOK, NEW f \in Files, ReplaceStep(f)
    PROVE  /\ f = op.file /\ step \in Running
           /\ op'.file = f /\ op'.expected = op.expected /\ op'.updated = op.updated
           /\ open' = open
           /\ \A g \in Files : g # f => target'[g] = target[g] /\ temp'[g] = temp[g]
           /\ step = "staging" => step' \in {"filling", "failed"}
           /\ step = "filling" => step' \in {"staged", "discard"}
           /\ step = "staged" => step' \in {"exchange", "discard"}
           /\ step = "exchange" => step' \in {"validate", "discard"}
           /\ step = "validate" => step' \in {"unlink", "restore"}
           /\ step = "unlink" => step' \in {"ok", "undo"}
           /\ step = "restore" => step' \in {"restored", "unrestored"}
           /\ step = "undo" => step' \in {"discard", "unrestored"}
           /\ step = "discard" => step' = "failed"
<1> USE DEF TypeOK, Running, UserUnchanged, Goto
<1>1. CASE StageCreate(f)
  BY <1>1 DEF StageCreate
<1>2. CASE StageFill(f)
  BY <1>2 DEF StageFill
<1>3. CASE Recheck(f)
  BY <1>3 DEF Recheck
<1>4. CASE Exchange(f)
  BY <1>4 DEF Exchange, Swap
<1>5. CASE ValidateDisplaced(f)
  BY <1>5 DEF ValidateDisplaced
<1>6. CASE RemoveDisplaced(f)
  BY <1>6 DEF RemoveDisplaced, Unlink
<1>7. CASE Restore(f)
  BY <1>7 DEF Restore
<1>8. CASE UndoExchange(f)
  BY <1>8 DEF UndoExchange, Swap, Keep
<1>9. CASE Discard(f)
  BY <1>9 DEF Discard, Unlink, Keep
<1> QED
  BY <1>1, <1>2, <1>3, <1>4, <1>5, <1>6, <1>7, <1>8, <1>9 DEF ReplaceStep

\* No step of a call gives an inode a second name.
LEMMA CallNames ==
    ASSUME TypeOK, NamesDistinct, NEW f \in Files, ReplaceStep(f),
           step \in Holding => temp[f] # NoInode
    PROVE  NamesDistinct'
<1> USE ReplaceAssumption DEF TypeOK, NamesDistinct, Entry, Exists, UserUnchanged, Goto, Holding
<1>1. CASE StageCreate(f)
  BY <1>1 DEF StageCreate, Free, Named
<1>2. CASE StageFill(f)
  BY <1>2 DEF StageFill
<1>3. CASE Recheck(f)
  BY <1>3 DEF Recheck
<1>4. CASE Exchange(f)
  BY <1>4 DEF Exchange, Swap
<1>5. CASE ValidateDisplaced(f)
  BY <1>5 DEF ValidateDisplaced
<1>6. CASE RemoveDisplaced(f)
  BY <1>6 DEF RemoveDisplaced, Unlink
<1>7. CASE Restore(f)
  BY <1>7 DEF Restore
<1>8. CASE UndoExchange(f)
  BY <1>8 DEF UndoExchange, Swap, Keep
<1>9. CASE Discard(f)
  BY <1>9 DEF Discard, Unlink, Keep
<1> QED
  BY <1>1, <1>2, <1>3, <1>4, <1>5, <1>6, <1>7, <1>8, <1>9 DEF ReplaceStep

\* What a step of a call does to the texts.
LEMMA CallTexts ==
    ASSUME TypeOK, NamesDistinct, NEW f \in Files, ReplaceStep(f),
           step \in Holding => temp[f] # NoInode
    PROVE  /\ \A g \in Files : g # f =>
                /\ Text(g)' = Text(g)
                /\ temp[g] # NoInode => content'[temp[g]] = content[temp[g]]
           /\ \/ Text(f)' = Text(f)
              \/ step = "exchange" /\ step' = "validate"
              \/ step \in {"restore", "undo"} /\ step' # "unrestored"
           /\ step = "exchange" /\ step' = "validate" =>
                Text(f)' = content[temp[f]] /\ content'[temp'[f]] = Text(f) /\ Exists(f)
           /\ step \in {"restore", "undo"} /\ step' # "unrestored" =>
                Text(f)' = content[temp[f]]
           /\ step \in {"validate", "unlink"} /\ step' # "ok" =>
                content'[temp'[f]] = content[temp[f]]
           /\ step = "filling" /\ step' = "staged" => content'[temp'[f]] = op.updated
           /\ step = "staged" => content'[temp'[f]] = content[temp[f]]
<1> USE ReplaceAssumption DEF TypeOK, NamesDistinct, Entry, Exists, Text, UserUnchanged, Goto, Holding
<1>1. CASE StageCreate(f)
  BY <1>1 DEF StageCreate, Free, Named
<1>2. CASE StageFill(f)
  BY <1>2 DEF StageFill
<1>3. CASE Recheck(f)
  BY <1>3 DEF Recheck
<1>4. CASE Exchange(f)
  BY <1>4 DEF Exchange, Swap
<1>5. CASE ValidateDisplaced(f)
  BY <1>5 DEF ValidateDisplaced
<1>6. CASE RemoveDisplaced(f)
  BY <1>6 DEF RemoveDisplaced, Unlink
<1>7. CASE Restore(f)
  BY <1>7 DEF Restore
<1>8. CASE UndoExchange(f)
  BY <1>8 DEF UndoExchange, Swap, Keep
<1>9. CASE Discard(f)
  BY <1>9 DEF Discard, Unlink, Keep
<1> QED
  BY <1>1, <1>2, <1>3, <1>4, <1>5, <1>6, <1>7, <1>8, <1>9 DEF ReplaceStep

\* What it does to its own file's temporary.
LEMMA CallTemps ==
    ASSUME TypeOK, NEW f \in Files, ReplaceStep(f),
           step \in Holding => temp[f] # NoInode,
           step \in {"filling", "staged", "exchange"} => temp[f] \notin open
    PROVE  /\ step' \in Holding => temp'[f] # NoInode
           /\ step # "staging" /\ step' \notin Holding => temp'[f] = NoInode
           /\ step = "staging" /\ step' = "failed" => temp'[f] = temp[f]
           /\ step' \in {"filling", "staged", "exchange"} => temp'[f] \notin open
<1> USE ReplaceAssumption DEF TypeOK, Entry, Exists, UserUnchanged, Goto, Holding
<1>1. CASE StageCreate(f)
  BY <1>1 DEF StageCreate, Free, Named
<1>2. CASE StageFill(f)
  BY <1>2 DEF StageFill
<1>3. CASE Recheck(f)
  BY <1>3 DEF Recheck
<1>4. CASE Exchange(f)
  BY <1>4 DEF Exchange, Swap
<1>5. CASE ValidateDisplaced(f)
  BY <1>5 DEF ValidateDisplaced
<1>6. CASE RemoveDisplaced(f)
  BY <1>6 DEF RemoveDisplaced, Unlink
<1>7. CASE Restore(f)
  BY <1>7 DEF Restore
<1>8. CASE UndoExchange(f)
  BY <1>8 DEF UndoExchange, Swap, Keep
<1>9. CASE Discard(f)
  BY <1>9 DEF Discard, Unlink, Keep
<1> QED
  BY <1>1, <1>2, <1>3, <1>4, <1>5, <1>6, <1>7, <1>8, <1>9 DEF ReplaceStep

\* A file no user touched stays there, and without a writer.
LEMMA CallAlone ==
    ASSUME TypeOK, UntouchedIsAlone, NEW f \in Files, ReplaceStep(f), touched' = touched,
           step \in Holding => temp[f] # NoInode,
           step \in {"filling", "staged", "exchange"} => temp[f] \notin open
    PROVE  UntouchedIsAlone'
<1> USE ReplaceAssumption DEF TypeOK, Entry, Exists, UserUnchanged, Goto, Holding, UntouchedIsAlone
<1>1. CASE StageCreate(f)
  BY <1>1 DEF StageCreate, Free, Named
<1>2. CASE StageFill(f)
  BY <1>2 DEF StageFill
<1>3. CASE Recheck(f)
  BY <1>3 DEF Recheck
<1>4. CASE Exchange(f)
  BY <1>4 DEF Exchange, Swap
<1>5. CASE ValidateDisplaced(f)
  BY <1>5 DEF ValidateDisplaced
<1>6. CASE RemoveDisplaced(f)
  BY <1>6 DEF RemoveDisplaced, Unlink
<1>7. CASE Restore(f)
  BY <1>7 DEF Restore
<1>8. CASE UndoExchange(f)
  BY <1>8 DEF UndoExchange, Swap, Keep
<1>9. CASE Discard(f)
  BY <1>9 DEF Discard, Unlink, Keep
<1> QED
  BY <1>1, <1>2, <1>3, <1>4, <1>5, <1>6, <1>7, <1>8, <1>9 DEF ReplaceStep

\* The temporaries follow the phase through a call.
LEMMA CallTempsFollow ==
    ASSUME EditTypes, StepFollowsPhase, PreparedFromDocs, NamesDistinct, TempsFollowPhase,
           phase # "crashed", NEW f \in Files, ReplaceStep(f), step = "staged" => phase # "stage",
           UNCHANGED evars
    PROVE  TempsFollowPhase'
<1>1. /\ f = op.file /\ step \in Running /\ step # "idle"
      /\ op'.file = f /\ op'.updated = op.updated
      /\ open' = open
      /\ \A g \in Files : g # f => temp'[g] = temp[g]
      /\ step' \in {"filling", "staged", "exchange", "validate", "unlink", "restore", "undo",
                    "discard", "ok", "failed", "restored", "unrestored"}
      /\ step' = "staged" => step = "filling"
      /\ step' = "exchange" => step = "staged"
      /\ step = "staging" => step' \in {"filling", "failed"}
  BY CallMoves DEF EditTypes, Running
<1>2. step \in Holding => temp[f] # NoInode
  BY <1>1 DEF TempsFollowPhase
<1>3. step \in {"filling", "staged", "exchange"} => temp[f] \notin open
  BY <1>1 DEF TempsFollowPhase
<1>4. /\ step' \in Holding => temp'[f] # NoInode
      /\ step # "staging" /\ step' \notin Holding => temp'[f] = NoInode
      /\ step = "staging" /\ step' = "failed" => temp'[f] = temp[f]
      /\ step' \in {"filling", "staged", "exchange"} => temp'[f] \notin open
  BY <1>2, <1>3, CallTemps DEF EditTypes
<1>5. /\ \A g \in Files : g # f /\ temp[g] # NoInode => content'[temp[g]] = content[temp[g]]
      /\ step = "filling" /\ step' = "staged" => content'[temp'[f]] = op.updated
      /\ step = "staged" => content'[temp'[f]] = content[temp[f]]
  BY <1>2, CallTexts DEF EditTypes
<1>6. UNCHANGED <<phase, prepared, pos>>
  BY DEF evars
<1>7. Len(prepared) \in Nat /\ \A k \in 1 .. Len(prepared) : prepared[k] \in Change
  BY DEF EditTypes
<1>9. step' \in {"staged", "exchange"} => content'[temp'[f]] = op.updated
  BY <1>1, <1>5 DEF TempsFollowPhase
<1>10. CASE phase = "stage"
  <2>1. /\ pos \in 1 .. Len(prepared) /\ f = prepared[pos].file
        /\ \A j, k \in 1 .. Len(prepared) : prepared[j].file = prepared[k].file => j = k
    BY <1>1, <1>10 DEF StepFollowsPhase, PreparedFromDocs, Editing
  <2>2. ASSUME NEW k \in 1 .. pos - 1 PROVE StagedCopy(prepared[k])'
    <3>1. k \in 1 .. Len(prepared) /\ k # pos /\ StagedCopy(prepared[k])
      BY <1>7, <1>10, <2>1 DEF TempsFollowPhase
    <3>2. prepared[k].file # f
      BY <2>1, <3>1
    <3>3. StagedCopy(prepared[k]) /\ prepared[k] \in Change
      BY <1>7, <3>1
    <3>4. temp'[prepared[k].file] = temp[prepared[k].file] /\ prepared[k].file \in Files
      BY <1>1, <3>2, <3>3 DEF Change
    <3> QED
      BY <1>1, <1>5, <1>6, <3>2, <3>3, <3>4 DEF StagedCopy
  <2>3. \A g \in Files : temp'[g] # NoInode =>
            (\E k \in 1 .. pos - 1 : g = prepared[k].file) \/ (g = f /\ step' \in Holding)
    BY <1>1, <1>4, <1>10 DEF TempsFollowPhase, Holding
  <2> QED
    BY <1>1, <1>4, <1>6, <1>9, <1>10, <2>2, <2>3 DEF TempsFollowPhase
<1>11. CASE phase = "commit"
  <2>1. /\ pos \in 1 .. Len(prepared) /\ f = prepared[pos].file
        /\ \A j, k \in 1 .. Len(prepared) : prepared[j].file = prepared[k].file => j = k
        /\ step # "staging"
    BY <1>1, <1>11 DEF StepFollowsPhase, PreparedFromDocs, Editing
  <2>2. ASSUME NEW k \in pos + 1 .. Len(prepared) PROVE StagedCopy(prepared[k])'
    <3>1. k \in 1 .. Len(prepared) /\ k # pos /\ StagedCopy(prepared[k])
      BY <1>7, <1>11, <2>1 DEF TempsFollowPhase
    <3>2. prepared[k].file # f
      BY <2>1, <3>1
    <3>3. StagedCopy(prepared[k]) /\ prepared[k] \in Change
      BY <1>7, <3>1
    <3>4. temp'[prepared[k].file] = temp[prepared[k].file] /\ prepared[k].file \in Files
      BY <1>1, <3>2, <3>3 DEF Change
    <3> QED
      BY <1>1, <1>5, <1>6, <3>2, <3>3, <3>4 DEF StagedCopy
  <2>3. \A g \in Files : temp'[g] # NoInode =>
            (\E k \in pos + 1 .. Len(prepared) : g = prepared[k].file) \/ (g = f /\ step' \in Holding)
    BY <1>1, <1>4, <1>11, <2>1 DEF TempsFollowPhase, Holding
  <2> QED
    BY <1>1, <1>4, <1>6, <1>9, <1>11, <2>1, <2>2, <2>3 DEF TempsFollowPhase
<1>12. CASE phase = "undo"
  <2>1. \A g \in Files : temp'[g] # NoInode => g = f /\ step' \in Holding
    BY <1>1, <1>4, <1>12 DEF TempsFollowPhase, Holding
  <2> QED
    BY <1>1, <1>4, <1>6, <1>9, <1>12, <2>1 DEF TempsFollowPhase
<1>13. phase \in {"stage", "commit", "undo"}
  BY <1>1 DEF EditTypes, StepFollowsPhase, Phases, Editing, Quiet
<1> QED
  BY <1>10, <1>11, <1>12, <1>13

\* A call fails only where a user or the system is to blame.
LEMMA CallBlames ==
    ASSUME EditTypes, UntouchedIsAlone, FailuresAreBlamed, NEW f \in Files, ReplaceStep(f),
           step \in {"staging", "staged"} => Fine(f, Text(f), op.expected),
           step = "validate" => Fine(f, content[temp[f]], op.expected),
           UNCHANGED evars
    PROVE  FailuresAreBlamed'
<1>0. f = op.file /\ op'.file = f /\ step # "idle"
  BY CallMoves DEF EditTypes, Running
<1>1. f \in reported => Blamed(f)
  BY DEF FailuresAreBlamed
<1>2. ~Exists(f) => Blamed(f)
  BY DEF UntouchedIsAlone, Blamed
<1>3. ASSUME NEW t \in Contents, Fine(f, t, op.expected), t # op.expected PROVE Blamed(f)
  BY <1>1, <1>3 DEF Fine, Blamed
<1>4. step' \in {"discard", "failed", "restore", "restored", "undo", "unrestored"} => Blamed(f)
  <2> USE DEF Goto, MayFail
  <2>1. CASE StageCreate(f)
    <3>1. step = "staging" /\ (step' = "failed" => ~Matches(f) \/ Faults # {})
      BY <2>1 DEF StageCreate
    <3>2. ~Matches(f) /\ Exists(f) => Blamed(f)
      BY <1>3, <3>1 DEF Matches, Text, Exists, EditTypes, TypeOK, Entry
    <3> QED
      BY <1>2, <2>1, <3>1, <3>2 DEF StageCreate, Blamed
  <2>2. CASE StageFill(f)
    BY <2>2 DEF StageFill, Blamed
  <2>3. CASE Recheck(f)
    <3>1. step = "staged" /\ (step' = "discard" => ~Matches(f) \/ Faults # {})
      BY <2>3 DEF Recheck
    <3>2. ~Matches(f) /\ Exists(f) => Blamed(f)
      BY <1>3, <3>1 DEF Matches, Text, Exists, EditTypes, TypeOK, Entry
    <3> QED
      BY <1>2, <2>3, <3>1, <3>2 DEF Recheck, Blamed
  <2>4. CASE Exchange(f)
    BY <1>2, <2>4 DEF Exchange, Blamed
  <2>5. CASE ValidateDisplaced(f)
    <3>1. /\ step = "validate"
          /\ step' = "restore" => content[temp[f]] # op.expected \/ ~Exists(f) \/ Faults # {}
          /\ step' \in {"unlink", "restore"}
      BY <2>5 DEF ValidateDisplaced
    <3>2. content[temp[f]] # op.expected => Blamed(f)
      BY <1>1, <3>1 DEF Fine, Blamed
    <3> QED
      BY <1>2, <2>5, <3>1, <3>2 DEF Blamed
  <2>6. CASE RemoveDisplaced(f)
    BY <2>6 DEF RemoveDisplaced, Blamed
  <2>7. step \in {"restore", "undo", "discard"} => Blamed(f)
    BY <1>0 DEF FailuresAreBlamed
  <2>8. Restore(f) \/ UndoExchange(f) \/ Discard(f) => step \in {"restore", "undo", "discard"}
    BY DEF Restore, UndoExchange, Discard
  <2> QED
    BY <2>1, <2>2, <2>3, <2>4, <2>5, <2>6, <2>7, <2>8 DEF ReplaceStep
<1>5. UNCHANGED <<phase, reported, touched>>
  BY DEF evars
<1> QED
  BY <1>0, <1>4, <1>5 DEF FailuresAreBlamed, Blamed

\* Every file has a text it should have, all through a call.
LEMMA CallFine ==
    ASSUME EditTypes, NamesDistinct, TextsAreFine, NEW f \in Files, ReplaceStep(f),
           Now(f, op.expected), UNCHANGED evars,
           step \in Holding => temp[f] # NoInode,
           step \in {"staged", "exchange"} => content[temp[f]] = op.updated
    PROVE  TextsAreFine'
<1>1. /\ f = op.file /\ step \in Running
      /\ op'.file = f /\ op'.expected = op.expected /\ op'.updated = op.updated
      /\ step = "staging" => step' \in {"filling", "failed"}
      /\ step = "filling" => step' \in {"staged", "discard"}
      /\ step = "staged" => step' \in {"exchange", "discard"}
      /\ step = "exchange" => step' \in {"validate", "discard"}
      /\ step = "validate" => step' \in {"unlink", "restore"}
      /\ step = "unlink" => step' \in {"ok", "undo"}
      /\ step = "restore" => step' \in {"restored", "unrestored"}
      /\ step = "undo" => step' \in {"discard", "unrestored"}
      /\ step = "discard" => step' = "failed"
  BY CallMoves DEF EditTypes
<1>2. Done' = Done
  BY DEF evars, Done
<1>3. UNCHANGED <<reported, touched>>
  BY DEF evars
<1>4. \A g \in Files, v \in Versions : Now(g, v)' <=> Now(g, v)
  BY <1>2, NowThen DEF Now
<1>5. op.expected \in Versions
  BY DEF EditTypes, TypeOK
<1>6. \A v \in Versions : Now(f, v) => v = op.expected
  <2>1. Len(Done) \in Nat
    BY DEF EditTypes, Done
  <2> QED
    BY <2>1, GivesOne DEF Now
<1>7. /\ \A g \in Files : g # f => Text(g)' = Text(g)
      /\ \/ Text(f)' = Text(f)
         \/ step = "exchange" /\ step' = "validate"
         \/ step \in {"restore", "undo"} /\ step' # "unrestored"
      /\ step = "exchange" /\ step' = "validate" =>
           Text(f)' = content[temp[f]] /\ content'[temp'[f]] = Text(f)
      /\ step \in {"restore", "undo"} /\ step' # "unrestored" => Text(f)' = content[temp[f]]
      /\ step \in {"validate", "unlink"} /\ step' # "ok" => content'[temp'[f]] = content[temp[f]]
  BY CallTexts DEF EditTypes
<1>8. ASSUME NEW g \in Files, g # f
      PROVE  \A v \in Versions : Now(g, v)' => Fine(g, Text(g), v)'
  BY <1>1, <1>3, <1>4, <1>7, <1>8 DEF TextsAreFine, Fine
<1>9. step \in Exchanged => Fine(f, Text(f), op.updated)
  BY <1>1 DEF TextsAreFine
<1>10. step \in Displaced => Fine(f, content[temp[f]], op.expected)
  BY <1>1 DEF TextsAreFine, Displaced, Exchanged
<1>11. step \notin Exchanged => Fine(f, Text(f), op.expected)
  BY <1>1, <1>5 DEF TextsAreFine
<1>12. step' \in Exchanged => Fine(f, Text(f), op.updated)'
  BY <1>1, <1>3, <1>7, <1>9 DEF Fine, Exchanged, Holding, Running
<1>13. step' \in Displaced => (f = op.file /\ Fine(f, content[temp[f]], op.expected))'
  BY <1>1, <1>3, <1>7, <1>10, <1>11 DEF Fine, Exchanged, Displaced, Running
<1>14. step' \notin Exchanged => Fine(f, Text(f), op.expected)'
  BY <1>1, <1>3, <1>7, <1>10, <1>11 DEF Fine, Exchanged, Displaced, Running
<1>15. step' \notin Exchanged => \A v \in Versions : Now(f, v)' => Fine(f, Text(f), v)'
  BY <1>1, <1>4, <1>6, <1>14 DEF Fine
<1> QED
  BY <1>1, <1>8, <1>12, <1>13, <1>15 DEF TextsAreFine

\* No step of a call breaks what holds of the session.
LEMMA CallKeeps ==
    ASSUME EditTypes, SessionInv, phase # "crashed", Replacing
    PROVE  EditTypes' /\ SessionInv'
<1> PICK f \in Files : ReplaceStep(f)
  BY DEF Replacing
<1>1. (step = "staged" => phase # "stage") /\ UNCHANGED evars
  BY DEF Replacing
<1>2. /\ StepFollowsPhase /\ PreparedFromDocs /\ NamesDistinct /\ TempsFollowPhase
      /\ UntouchedIsAlone /\ Linked(Done) /\ TextsAreFine /\ DocsFollowEdits
      /\ FailuresAreBlamed /\ (phase = "failed" => Done = <<>>)
  BY DEF SessionInv
<1>3. /\ f = op.file /\ step \in Running /\ step # "idle"
      /\ op'.file = f /\ op'.expected = op.expected /\ op'.updated = op.updated
      /\ step = "staging" => step' \in {"filling", "failed"}
      /\ step = "filling" => step' \in {"staged", "discard"}
      /\ step = "discard" => step' = "failed"
      /\ step' \in {"filling", "staged", "exchange", "validate", "unlink", "restore", "undo",
                    "discard", "ok", "failed", "restored", "unrestored"}
      /\ step' = "staged" => step = "filling"
      /\ step' = "filling" => step = "staging"
  BY CallMoves DEF EditTypes, Running
<1>4. /\ step \in Holding => temp[f] # NoInode
      /\ step \in {"filling", "staged", "exchange"} => temp[f] \notin open
      /\ step \in {"staged", "exchange"} => content[temp[f]] = op.updated
  BY <1>2, <1>3 DEF TempsFollowPhase
<1>5. phase \in {"stage", "commit", "undo"} /\ Now(f, op.expected)
  BY <1>2, <1>3, ExpectedNow
<1>6. /\ step \in {"staging", "staged"} => Fine(f, Text(f), op.expected)
      /\ step = "validate" => Fine(f, content[temp[f]], op.expected)
  BY <1>2, <1>3, <1>5 DEF TextsAreFine, Exchanged, Displaced, EditTypes, TypeOK
<1>7. UNCHANGED <<phase, docs, prepared, pos, journal, undo, reported, touched>>
  BY <1>1 DEF evars
<1>8. EditTypes'
  BY <1>4, <1>7, CallTypes DEF EditTypes
<1>9. StepFollowsPhase'
  <2>1. phase = "stage" => step' \in {"filling", "staged", "discard", "failed"}
    BY <1>1, <1>2, <1>3 DEF StepFollowsPhase, Running
  <2>2. phase = "commit" => step' # "staging" /\ step' # "filling"
    BY <1>1, <1>2, <1>3 DEF StepFollowsPhase
  <2>3. phase \in Editing => pos \in 1 .. Len(prepared)
    BY <1>2 DEF StepFollowsPhase
  <2>4. phase \in {"stage", "commit"} =>
            op'.file = prepared[pos].file /\ op'.expected = prepared[pos].expected
            /\ op'.updated = prepared[pos].updated
    BY <1>2, <1>3 DEF StepFollowsPhase
  <2>5. phase = "undo" =>
            undo # <<>> /\ op'.file = Last(undo).file /\ op'.expected = Last(undo).updated
            /\ op'.updated = Last(undo).expected
    BY <1>2, <1>3 DEF StepFollowsPhase
  <2>6. step' # "crashed" /\ phase \notin Quiet
    BY <1>3, <1>5 DEF Quiet
  <2>7. phase' = phase /\ prepared' = prepared /\ pos' = pos /\ undo' = undo
    BY <1>7
  <2> QED
    BY <2>1, <2>2, <2>3, <2>4, <2>5, <2>6, <2>7 DEF StepFollowsPhase, Last
<1>10. PreparedFromDocs'
  BY <1>2, <1>7 DEF PreparedFromDocs
<1>11. NamesDistinct'
  BY <1>2, <1>4, CallNames DEF EditTypes
<1>12. TempsFollowPhase'
  BY <1>1, <1>2, CallTempsFollow
<1>13. UntouchedIsAlone'
  BY <1>2, <1>4, <1>7, CallAlone DEF EditTypes
<1>14. Done' = Done
  BY <1>7 DEF Done
<1>15. Linked(Done)'
  BY <1>2, <1>14, LinkedThen
<1>16. TextsAreFine'
  BY <1>1, <1>2, <1>4, <1>5, CallFine
<1>17. DocsFollowEdits'
  BY <1>5, <1>2, <1>7, <1>14 DEF DocsFollowEdits, Told, Telling, Gives
<1>18. FailuresAreBlamed'
  BY <1>1, <1>2, <1>6, CallBlames
<1>19. (phase = "failed" => Done = <<>>)'
  BY <1>5, <1>7
<1> QED
  BY <1>8, <1>9, <1>10, <1>11, <1>12, <1>13, <1>15, <1>16, <1>17, <1>18, <1>19 DEF SessionInv

-----------------------------------------------------------------------------
(***************************************************************************)
(* The steps of users.                                                     *)
(***************************************************************************)

\* What another user does keeps the types and is no step of a call.
LEMMA UserTypes == TypeOK /\ UserStep => TypeOK' /\ step' = step
BY ReplaceAssumption DEF TypeOK, Contents, Entry, CallUnchanged, UserStep, OpenTruncating,
   OpenForUpdate, UserDelete, RenameSave, WriteInPlace, Exists, Free

\* What a user's step does to the names and the texts.
LEMMA UserTexts ==
    ASSUME TypeOK, NamesDistinct, UserStep
    PROVE  /\ TypeOK' /\ NamesDistinct'
           /\ UNCHANGED <<step, op, temp, kept>>
           /\ \A g \in Files : temp[g] # NoInode /\ temp[g] \notin open =>
                content'[temp[g]] = content[temp[g]] /\ temp[g] \notin open'
           /\ \A g \in Files : temp[g] # NoInode =>
                content'[temp[g]] = content[temp[g]]
                \/ (temp[g] \in open /\ content'[temp[g]] \notin Versions)
           /\ \A g \in Files :
                \/ Text(g)' = Text(g)
                \/ Text(g)' \notin Versions
                   /\ (target'[g] # target[g] \/ target'[g] \in open' \/ target[g] \in open)
<1> USE ReplaceAssumption DEF TypeOK, NamesDistinct, Contents, Entry, Exists, Text, CallUnchanged
<1>1. ASSUME NEW f \in Files, OpenTruncating(f)
      PROVE  /\ TypeOK' /\ NamesDistinct' /\ UNCHANGED <<step, op, temp, kept>>
             /\ \A g \in Files : temp[g] # NoInode =>
                  content'[temp[g]] = content[temp[g]] /\ (temp[g] \notin open => temp[g] \notin open')
             /\ \A g \in Files : Text(g)' = Text(g) \/ (Text(g)' \notin Versions /\ target'[g] \in open')
  BY <1>1 DEF OpenTruncating
<1>2. ASSUME NEW f \in Files, OpenForUpdate(f)
      PROVE  /\ TypeOK' /\ NamesDistinct' /\ UNCHANGED <<step, op, temp, kept, content>>
             /\ \A g \in Files : temp[g] # NoInode => (temp[g] \notin open => temp[g] \notin open')
             /\ \A g \in Files : Text(g)' = Text(g)
  BY <1>2 DEF OpenForUpdate
<1>3. ASSUME NEW f \in Files, UserDelete(f)
      PROVE  /\ TypeOK' /\ NamesDistinct' /\ UNCHANGED <<step, op, temp, kept, content>>
             /\ open' \subseteq open
             /\ \A g \in Files : Text(g)' = Text(g)
                                 \/ (Text(g)' \notin Versions /\ target'[g] # target[g])
  BY <1>3 DEF UserDelete
<1>4. ASSUME NEW f \in Files, NEW s \in Saves, RenameSave(f, s)
      PROVE  /\ TypeOK' /\ NamesDistinct' /\ UNCHANGED <<step, op, temp, kept>>
             /\ open' \subseteq open
             /\ \A g \in Files : temp[g] # NoInode => content'[temp[g]] = content[temp[g]]
             /\ \A g \in Files : Text(g)' = Text(g)
                                 \/ (Text(g)' \notin Versions /\ target'[g] # target[g])
  BY <1>4 DEF RenameSave, Free, Named
<1>5. ASSUME NEW i \in Inodes, NEW s \in Saves, WriteInPlace(i, s)
      PROVE  /\ TypeOK' /\ NamesDistinct' /\ UNCHANGED <<step, op, temp, kept>>
             /\ open' \subseteq open
             /\ \A g \in Files : temp[g] # NoInode =>
                  content'[temp[g]] = content[temp[g]]
                  \/ (temp[g] \in open /\ content'[temp[g]] \notin Versions)
             /\ \A g \in Files : Text(g)' = Text(g)
                                 \/ (Text(g)' \notin Versions /\ target[g] \in open)
  BY <1>5 DEF WriteInPlace
<1> HIDE DEF TypeOK, NamesDistinct, Text
<1> QED
  BY <1>1, <1>2, <1>3, <1>4, <1>5 DEF UserStep

\* No step of a user breaks what holds of the session: a file whose text it
\* changes has been touched.
LEMMA UserKeeps ==
    ASSUME EditTypes, SessionInv, phase # "crashed", User
    PROVE  EditTypes' /\ SessionInv'
<1>1. UserStep /\ UNCHANGED <<phase, docs, prepared, pos, journal, undo, reported>>
  BY DEF User
<1>2. /\ StepFollowsPhase /\ PreparedFromDocs /\ NamesDistinct /\ TempsFollowPhase
      /\ UntouchedIsAlone /\ Linked(Done) /\ TextsAreFine /\ DocsFollowEdits
      /\ FailuresAreBlamed /\ (phase = "failed" => Done = <<>>)
  BY DEF SessionInv
<1>3. /\ TypeOK' /\ NamesDistinct'
      /\ UNCHANGED <<step, op, temp, kept>>
      /\ \A g \in Files : temp[g] # NoInode /\ temp[g] \notin open =>
           content'[temp[g]] = content[temp[g]] /\ temp[g] \notin open'
      /\ \A g \in Files : temp[g] # NoInode =>
           content'[temp[g]] = content[temp[g]]
           \/ (temp[g] \in open /\ content'[temp[g]] \notin Versions)
      /\ \A g \in Files :
           \/ Text(g)' = Text(g)
           \/ Text(g)' \notin Versions
              /\ (target'[g] # target[g] \/ target'[g] \in open' \/ target[g] \in open)
  BY <1>1, <1>2, UserTexts DEF EditTypes
<1>4. /\ touched' \subseteq Files /\ touched \subseteq touched'
      /\ \A g \in Files \ touched' : target'[g] = target[g] /\ target'[g] \notin open'
  BY DEF User, EditTypes
<1>5. EditTypes'
  BY <1>1, <1>3, <1>4 DEF EditTypes
<1>6. StepFollowsPhase'
  BY <1>1, <1>2, <1>3 DEF StepFollowsPhase, Last
<1>7. PreparedFromDocs'
  BY <1>1, <1>2 DEF PreparedFromDocs
<1>8. op.file \in Files
  BY DEF EditTypes, TypeOK
<1>9. TempsFollowPhase'
  <2>1. \A k \in 1 .. Len(prepared) : prepared[k].file \in Files
    <3>1. \A k \in 1 .. Len(prepared) : prepared[k] \in Change
      BY DEF EditTypes
    <3> QED
      BY <3>1 DEF Change
  <2>2. \A k \in 1 .. Len(prepared) : StagedCopy(prepared[k]) => StagedCopy(prepared[k])'
    BY <1>1, <1>3, <2>1 DEF StagedCopy
  <2>3. pos \in Nat /\ Len(prepared) \in Nat
    BY DEF EditTypes
  <2>4. phase = "stage" \/ phase = "commit" => pos \in 1 .. Len(prepared)
    BY <1>2 DEF StepFollowsPhase, Editing
  <2>5. phase = "stage" => \A k \in 1 .. pos - 1 : StagedCopy(prepared[k])'
    BY <1>2, <2>2, <2>3, <2>4 DEF TempsFollowPhase
  <2>6. phase = "commit" =>
            /\ \A k \in pos + 1 .. Len(prepared) : StagedCopy(prepared[k])'
            /\ step = "idle" => StagedCopy(prepared[pos])'
    <3>1. ASSUME phase = "commit", step = "idle" PROVE StagedCopy(prepared[pos])'
      <4>1. StagedCopy(prepared[pos]) /\ prepared[pos].file \in Files
        BY <1>2, <2>1, <2>4, <3>1 DEF TempsFollowPhase
      <4> QED
        BY <1>1, <1>3, <4>1 DEF StagedCopy
    <3>2. ASSUME phase = "commit", NEW k \in pos + 1 .. Len(prepared)
          PROVE  StagedCopy(prepared[k])'
      <4>1. k \in 1 .. Len(prepared) /\ StagedCopy(prepared[k])
        BY <1>2, <2>3, <3>2 DEF TempsFollowPhase
      <4> QED
        BY <2>2, <4>1
    <3> QED
      BY <3>1, <3>2
  <2>7. /\ step \in Holding => temp[op.file] # NoInode
        /\ step \in {"filling", "staged", "exchange"} => temp[op.file] \notin open /\ temp[op.file] # NoInode
        /\ step \in {"staged", "exchange"} => content[temp[op.file]] = op.updated
    BY <1>2 DEF TempsFollowPhase, Holding
  <2>8. /\ step \in {"filling", "staged", "exchange"} => temp[op.file] \notin open'
        /\ step \in {"staged", "exchange"} => content'[temp[op.file]] = op.updated
    BY <1>3, <1>8, <2>7
  <2>9. phase = "stage" => \A f \in Files : temp[f] # NoInode =>
                (\E k \in 1 .. pos - 1 : f = prepared[k].file) \/ (f = op.file /\ step \in Holding)
    BY <1>2 DEF TempsFollowPhase
  <2>10. phase = "commit" => \A f \in Files : temp[f] # NoInode =>
                \/ \E k \in pos + 1 .. Len(prepared) : f = prepared[k].file
                \/ f = prepared[pos].file /\ step \in Holding \cup {"idle"}
    BY <1>2 DEF TempsFollowPhase
  <2>11. /\ phase = "undo" => \A f \in Files : temp[f] # NoInode => f = op.file /\ step \in Holding
         /\ phase \in {"run", "sync", "ok", "failed"} => \A f \in Files : temp[f] = NoInode
    BY <1>2 DEF TempsFollowPhase
  <2> QED
    BY <1>1, <1>3, <2>5, <2>6, <2>7, <2>8, <2>9, <2>10, <2>11 DEF TempsFollowPhase
<1>10. UntouchedIsAlone'
  BY <1>2, <1>3, <1>4 DEF UntouchedIsAlone, Exists
<1>11. Done' = Done
  BY <1>1 DEF Done
<1>12. Linked(Done)'
  BY <1>2, <1>11, LinkedThen
<1>13. TextsAreFine'
  <2>1. \A g \in Files : Text(g)' = Text(g) \/ (g \in touched' /\ Text(g)' \notin Versions)
    BY <1>2, <1>3, <1>4 DEF UntouchedIsAlone
  <2>2. \A g \in Files : temp[g] # NoInode =>
           content'[temp[g]] = content[temp[g]] \/ (g \in touched' /\ content'[temp[g]] \notin Versions)
    BY <1>2, <1>3, <1>4 DEF UntouchedIsAlone
  <2>3. \A g \in Files, v \in Versions : Now(g, v)' <=> Now(g, v)
    BY <1>11, NowThen DEF Now
  <2>4. step \in Displaced => temp[op.file] # NoInode
    BY <1>2 DEF TempsFollowPhase, Displaced, Holding
  <2>5. op.updated \in Versions /\ op.expected \in Versions
    BY DEF EditTypes, TypeOK
  <2>6. \A g \in Files, v \in Versions : Fine(g, Text(g), v) => Fine(g, Text(g), v)'
    BY <1>1, <1>4, <2>1 DEF Fine
  <2>7. \A g \in Files, v \in Versions : temp[g] # NoInode /\ Fine(g, content[temp[g]], v)
                                            => Fine(g, content[temp[g]], v)'
    BY <1>1, <1>3, <1>4, <2>2 DEF Fine
  <2>8. ASSUME NEW g \in Files
        PROVE  (IF g = op.file /\ step \in Exchanged
                  THEN /\ Fine(g, Text(g), op.updated)
                       /\ step \in Displaced => Fine(g, content[temp[g]], op.expected)
                  ELSE \A v \in Versions : Now(g, v) => Fine(g, Text(g), v))'
    <3>1. CASE g = op.file /\ step \in Exchanged
      <4>1. Fine(g, Text(g), op.updated) /\ (step \in Displaced => Fine(g, content[temp[g]], op.expected))
        BY <1>2, <3>1 DEF TextsAreFine
      <4>2. \A v \in Versions : v = op.updated => Fine(g, Text(g), v)'
        BY <2>6, <4>1
      <4>3. \A v \in Versions : step \in Displaced /\ v = op.expected => Fine(g, content[temp[g]], v)'
        BY <2>4, <2>7, <3>1, <4>1
      <4>4. Fine(g, Text(g), op.updated)'
        BY <1>3, <2>5, <4>2 DEF Fine
      <4>5. step \in Displaced => Fine(g, content[temp[g]], op.expected)'
        BY <1>3, <2>5, <4>3 DEF Fine
      <4> QED
        BY <1>3, <3>1, <4>4, <4>5
    <3>2. CASE ~(g = op.file /\ step \in Exchanged)
      <4>1. \A v \in Versions : Now(g, v) => Fine(g, Text(g), v)
        BY <1>2, <3>2 DEF TextsAreFine
      <4> QED
        BY <1>3, <2>3, <2>6, <3>2, <4>1
    <3> QED
      BY <3>1, <3>2
  <2> QED
    BY <2>8 DEF TextsAreFine
<1>14. DocsFollowEdits'
  BY <1>1, <1>2, <1>11 DEF DocsFollowEdits, Told, Telling, Gives
<1>15. FailuresAreBlamed'
  BY <1>1, <1>2, <1>3, <1>4 DEF FailuresAreBlamed, Blamed
<1>16. (phase = "failed" => Done = <<>>)'
  BY <1>1, <1>2, <1>11
<1> QED
  BY <1>3, <1>5, <1>6, <1>7, <1>9, <1>10, <1>12, <1>13, <1>14, <1>15, <1>16 DEF SessionInv

-----------------------------------------------------------------------------
(***************************************************************************)
(* The steps of the session.                                               *)
(***************************************************************************)

\* Files that nobody writes keep a text they should have.
LEMMA TextsStayFine ==
    ASSUME TextsAreFine, UNCHANGED <<target, content, touched>>, reported \subseteq reported',
           \A f \in Files, v \in Versions : Now(f, v)' => Now(f, v),
           step \notin Exchanged, step' \notin Exchanged
    PROVE  TextsAreFine'
<1>1. \A f \in Files : Text(f)' = Text(f)
  BY DEF Text, Exists
<1>2. \A f \in Files, v \in Versions : Fine(f, Text(f), v) => Fine(f, Text(f), v)'
  BY <1>1 DEF Fine
<1>3. \A f \in Files, v \in Versions : Now(f, v) => Fine(f, Text(f), v)
  BY DEF TextsAreFine
<1>4. \A f \in Files, v \in Versions : Now(f, v)' => Fine(f, Text(f), v)'
  BY <1>2, <1>3
<1> QED
  BY <1>4 DEF TextsAreFine

\* Between two steps of the file system its names stay apart.
LEMMA NamesStay ==
    ASSUME NamesDistinct, UntouchedIsAlone, UNCHANGED <<target, temp, kept, open, touched>>
    PROVE  NamesDistinct' /\ UntouchedIsAlone'
BY DEF NamesDistinct, UntouchedIsAlone, Exists

\* While no change is exchanged or undone, the texts the files should have stay.
LEMMA NowStays ==
    ASSUME Done' = Done
    PROVE  \A f \in Files, v \in Versions : Now(f, v)' <=> Now(f, v)
BY NowThen DEF Now

\* The invariant holds when the session begins.
LEMMA InitKeeps == EditInit => EditInv
<1> SUFFICES ASSUME EditInit PROVE EditInv
  OBVIOUS
<1> USE ReplaceAssumption
<1>1. TypeOK
  BY DEF EditInit, Init, TypeOK, Entry, Contents, Results, Running
<1>2. EditTypes
  BY <1>1 DEF EditInit, EditTypes, Phases, Quiet
<1>3. /\ phase = "run" /\ step = "idle" /\ docs = [f \in Files |-> Base]
      /\ journal = <<>> /\ reported = {} /\ open = {} /\ kept = {}
      /\ \A f \in Files : temp[f] = NoInode /\ Exists(f) /\ content[target[f]] = Base
      /\ \A f, g \in Files : target[f] = target[g] => f = g
  BY DEF EditInit, Init, Exists
<1>4. Done = <<>> /\ Len(Done) = 0
  BY <1>3 DEF Done
<1>5. StepFollowsPhase /\ PreparedFromDocs
  BY <1>3 DEF StepFollowsPhase, PreparedFromDocs, Editing, Quiet
<1>6. NamesDistinct /\ UntouchedIsAlone
  BY <1>3 DEF NamesDistinct, UntouchedIsAlone
<1>7. TempsFollowPhase
  BY <1>3 DEF TempsFollowPhase, Holding
<1>8. Linked(Done)
  BY <1>4 DEF Linked
<1>9. \A f \in Files, v \in Versions : Now(f, v) => v = Base
  BY <1>4 DEF Now, Gives
<1>10. TextsAreFine
  BY <1>3, <1>9 DEF TextsAreFine, Fine, Text, Exchanged
<1>11. DocsFollowEdits
  BY <1>3 DEF DocsFollowEdits, Told, Gives
<1>12. FailuresAreBlamed
  BY <1>3 DEF FailuresAreBlamed, Editing
<1> QED
  BY <1>2, <1>3, <1>5, <1>6, <1>7, <1>8, <1>10, <1>11, <1>12 DEF EditInv, SessionInv

\* A call begins.
LEMMA EnterRests ==
    ASSUME EditTypes, SessionInv, NEW c \in Change, NEW e \in Versions, NEW u \in Versions,
           NEW s \in {"staging", "staged"}, Enter(c, e, u, s), UNCHANGED evars
    PROVE  /\ EditTypes' /\ PreparedFromDocs' /\ NamesDistinct' /\ UntouchedIsAlone'
           /\ Linked(Done)' /\ TextsAreFine' /\ DocsFollowEdits' /\ FailuresAreBlamed'
           /\ (phase = "failed" => Done = <<>>)'
<1>1. /\ PreparedFromDocs /\ NamesDistinct
      /\ UntouchedIsAlone /\ Linked(Done) /\ TextsAreFine /\ DocsFollowEdits
      /\ FailuresAreBlamed /\ (phase = "failed" => Done = <<>>)
  BY DEF SessionInv
<1>2. /\ step = "idle" /\ step' \in {"staging", "staged"}
      /\ UNCHANGED <<target, temp, kept, content, open, saved, live, calls>>
      /\ op' = [file |-> c.file, expected |-> e, updated |-> u, inode |-> temp[c.file]]
  BY DEF Enter, Goto, fsvars
<1>3. UNCHANGED <<phase, docs, prepared, pos, journal, undo, reported, mutations, touched>>
  BY DEF evars
<1>4. op' \in [file: Files, expected: Versions, updated: Versions, inode: Entry]
  BY <1>2 DEF Change, EditTypes, TypeOK
<1>5. TypeOK'
  BY <1>2, <1>4 DEF EditTypes, TypeOK, Running
<1>6. EditTypes'
  BY <1>3, <1>5 DEF EditTypes
<1>7. PreparedFromDocs'
  BY <1>1, <1>3 DEF PreparedFromDocs
<1>8. NamesDistinct' /\ UntouchedIsAlone'
  BY <1>1, <1>2, <1>3, NamesStay
<1>9. Done' = Done
  BY <1>3 DEF Done
<1>10. Linked(Done)'
  BY <1>1, <1>9, LinkedThen
<1>11. TextsAreFine'
  BY <1>1, <1>2, <1>3, <1>9, NowStays, TextsStayFine DEF Exchanged
<1>12. DocsFollowEdits'
  BY <1>1, <1>3, <1>9 DEF DocsFollowEdits, Told, Telling, Gives
<1>13. FailuresAreBlamed'
  BY <1>1, <1>2, <1>3 DEF FailuresAreBlamed, Blamed
<1>14. (phase = "failed" => Done = <<>>)'
  BY <1>1, <1>3, <1>9
<1> QED
  BY <1>6, <1>7, <1>8, <1>10, <1>11, <1>12, <1>13, <1>14

\* Beginning to stage the next change keeps the invariant.
LEMMA StageNextKeeps ==
    ASSUME EditTypes, SessionInv, StageNext
    PROVE  EditTypes' /\ SessionInv'
<1> DEFINE c == prepared[pos]
<1>1. phase = "stage" /\ Enter(c, c.expected, c.updated, "staging") /\ UNCHANGED evars
  BY DEF StageNext
<1>2. StepFollowsPhase /\ TempsFollowPhase
  BY DEF SessionInv
<1>3. pos \in 1 .. Len(prepared)
  BY <1>1, <1>2 DEF StepFollowsPhase, Editing
<1>4. c \in Change
  BY <1>3 DEF EditTypes
<1>5. c.expected \in Versions /\ c.updated \in Versions
  BY <1>4 DEF Change
<1>6. /\ step = "idle" /\ step' = "staging"
      /\ UNCHANGED <<temp, content, open>>
      /\ op' = [file |-> c.file, expected |-> c.expected, updated |-> c.updated,
                inode |-> temp[c.file]]
  BY <1>1 DEF Enter, Goto, fsvars
<1>7. UNCHANGED <<phase, prepared, pos, undo>>
  BY <1>1 DEF evars
<1>8. StepFollowsPhase'
  BY <1>1, <1>2, <1>3, <1>6, <1>7 DEF StepFollowsPhase, Quiet, Editing
<1>9. TempsFollowPhase'
  BY <1>1, <1>2, <1>6, <1>7 DEF TempsFollowPhase, StagedCopy, Holding
<1>10. /\ EditTypes' /\ PreparedFromDocs' /\ NamesDistinct' /\ UntouchedIsAlone'
       /\ Linked(Done)' /\ TextsAreFine' /\ DocsFollowEdits' /\ FailuresAreBlamed'
       /\ (phase = "failed" => Done = <<>>)'
  BY <1>1, <1>4, <1>5, EnterRests
<1> QED
  BY <1>8, <1>9, <1>10 DEF SessionInv

\* Beginning to exchange the next change keeps it.
LEMMA CommitNextKeeps ==
    ASSUME EditTypes, SessionInv, CommitNext
    PROVE  EditTypes' /\ SessionInv'
<1> DEFINE c == prepared[pos]
<1>1. phase = "commit" /\ Enter(c, c.expected, c.updated, "staged") /\ UNCHANGED evars
  BY DEF CommitNext
<1>2. StepFollowsPhase /\ TempsFollowPhase
  BY DEF SessionInv
<1>3. pos \in 1 .. Len(prepared)
  BY <1>1, <1>2 DEF StepFollowsPhase, Editing
<1>4. c \in Change
  BY <1>3 DEF EditTypes
<1>5. c.expected \in Versions /\ c.updated \in Versions
  BY <1>4 DEF Change
<1>6. /\ step = "idle" /\ step' = "staged"
      /\ UNCHANGED <<temp, content, open>>
      /\ op' = [file |-> c.file, expected |-> c.expected, updated |-> c.updated,
                inode |-> temp[c.file]]
  BY <1>1 DEF Enter, Goto, fsvars
<1>7. UNCHANGED <<phase, prepared, pos, undo>>
  BY <1>1 DEF evars
<1>8. StepFollowsPhase'
  BY <1>1, <1>2, <1>3, <1>6, <1>7 DEF StepFollowsPhase, Quiet, Editing
<1>9. temp[c.file] # NoInode /\ content[temp[c.file]] = c.updated /\ temp[c.file] \notin open
  BY <1>1, <1>2, <1>6 DEF TempsFollowPhase, StagedCopy
<1>10. TempsFollowPhase'
  BY <1>1, <1>2, <1>6, <1>7, <1>9 DEF TempsFollowPhase, StagedCopy, Holding
<1>11. /\ EditTypes' /\ PreparedFromDocs' /\ NamesDistinct' /\ UntouchedIsAlone'
       /\ Linked(Done)' /\ TextsAreFine' /\ DocsFollowEdits' /\ FailuresAreBlamed'
       /\ (phase = "failed" => Done = <<>>)'
  BY <1>1, <1>4, <1>5, EnterRests
<1> QED
  BY <1>8, <1>10, <1>11 DEF SessionInv

\* Beginning to undo the last exchange keeps it.
LEMMA UndoNextKeeps ==
    ASSUME EditTypes, SessionInv, UndoNext
    PROVE  EditTypes' /\ SessionInv'
<1> DEFINE c == Last(undo)
<1>1. /\ phase = "undo" /\ undo # <<>>
      /\ Enter(c, c.updated, c.expected, "staging") /\ UNCHANGED evars
  BY DEF UndoNext
<1>2. StepFollowsPhase /\ TempsFollowPhase
  BY DEF SessionInv
<1>4. c \in Change
  BY <1>1 DEF EditTypes, Last
<1>5. c.expected \in Versions /\ c.updated \in Versions
  BY <1>4 DEF Change
<1>6. /\ step = "idle" /\ step' = "staging"
      /\ UNCHANGED <<temp, content, open>>
      /\ op' = [file |-> c.file, expected |-> c.updated, updated |-> c.expected,
                inode |-> temp[c.file]]
  BY <1>1 DEF Enter, Goto, fsvars
<1>7. UNCHANGED <<phase, prepared, pos, undo>>
  BY <1>1 DEF evars
<1>8. StepFollowsPhase'
  <2>1. op'.file = c.file /\ op'.expected = c.updated /\ op'.updated = c.expected
    BY <1>6
  <2>2. c' = c
    BY <1>7 DEF Last
  <2> HIDE DEF c
  <2>3. (undo # <<>> /\ op.file = c.file /\ op.expected = c.updated /\ op.updated = c.expected)'
    BY <1>1, <1>7, <2>1, <2>2
  <2> QED
    BY <1>1, <1>6, <1>7, <2>3 DEF StepFollowsPhase, Quiet, Editing, c
<1>9. TempsFollowPhase'
  BY <1>1, <1>2, <1>6, <1>7 DEF TempsFollowPhase, StagedCopy, Holding
<1>10. /\ EditTypes' /\ PreparedFromDocs' /\ NamesDistinct' /\ UntouchedIsAlone'
       /\ Linked(Done)' /\ TextsAreFine' /\ DocsFollowEdits' /\ FailuresAreBlamed'
       /\ (phase = "failed" => Done = <<>>)'
  BY <1>1, <1>4, <1>5, EnterRests
<1> QED
  BY <1>8, <1>9, <1>10 DEF SessionInv

\* A call has returned and no change was made or undone by it.
LEMMA LeaveRests ==
    ASSUME EditTypes, SessionInv, NEW results,
           Leave(results), UNCHANGED <<journal, touched>>, Done' = Done,
           reported \subseteq reported', step \in Exchanged => op.file \in reported'
    PROVE  /\ TypeOK' /\ NamesDistinct' /\ UntouchedIsAlone' /\ Linked(Done)' /\ TextsAreFine'
           /\ step \in results /\ step' = "idle"
           /\ UNCHANGED <<op, target, temp, kept, content, open>>
<1>1. NamesDistinct /\ UntouchedIsAlone /\ Linked(Done) /\ TextsAreFine
  BY DEF SessionInv
<1>2. /\ step \in results /\ step' = "idle"
      /\ UNCHANGED <<target, temp, kept, content, open, saved, live, op, calls>>
  BY DEF Leave, Goto, fsvars
<1>3. TypeOK'
  BY <1>2 DEF EditTypes, TypeOK
<1>4. NamesDistinct' /\ UntouchedIsAlone'
  BY <1>1, <1>2, NamesStay
<1>5. Linked(Done)'
  BY <1>1, LinkedThen
<1>6. TextsAreFine'
  <2>1. \A f \in Files : Text(f)' = Text(f)
    BY <1>2 DEF Text, Exists
  <2>2. \A f \in Files, v \in Versions : Now(f, v)' <=> Now(f, v)
    BY NowStays
  <2>3. \A f \in Files, v \in Versions : Now(f, v)' => Fine(f, Text(f), v)'
    BY <1>1, <2>1, <2>2 DEF TextsAreFine, Fine
  <2> QED
    BY <1>2, <2>3 DEF TextsAreFine, Exchanged
<1> QED
  BY <1>2, <1>3, <1>4, <1>5, <1>6

\* So does having staged a change, which may be the last one.
LEMMA StagedKeeps ==
    ASSUME EditTypes, SessionInv, Staged
    PROVE  EditTypes' /\ SessionInv'
<1>1. /\ phase = "stage" /\ Leave({"staged"})
      /\ UNCHANGED <<docs, prepared, journal, undo, reported, mutations, touched>>
      /\ \/ pos < Len(prepared) /\ pos' = pos + 1 /\ phase' = phase
         \/ ~(pos < Len(prepared)) /\ pos' = 1 /\ phase' = "commit"
  BY DEF Staged
<1>2. /\ StepFollowsPhase /\ PreparedFromDocs /\ TempsFollowPhase /\ DocsFollowEdits
      /\ FailuresAreBlamed
  BY DEF SessionInv
<1>3. pos \in 1 .. Len(prepared) /\ Len(prepared) \in Nat
  BY <1>1, <1>2 DEF StepFollowsPhase, Editing, EditTypes
<1>4. Done' = Done
  BY <1>1, <1>3 DEF Done, EditTypes
<1>5. step = "staged"
  BY <1>1 DEF Leave
<1>6. /\ TypeOK' /\ NamesDistinct' /\ UntouchedIsAlone' /\ Linked(Done)' /\ TextsAreFine'
      /\ step' = "idle"
      /\ UNCHANGED <<op, target, temp, kept, content, open>>
  BY <1>1, <1>4, <1>5, LeaveRests DEF Exchanged
<1>7. pos' \in Nat /\ pos' \in 1 .. Len(prepared) /\ phase' \in {"stage", "commit"}
  BY <1>1, <1>3
<1>8. EditTypes'
  BY <1>1, <1>6, <1>7 DEF EditTypes, Phases, Editing
<1>9. StepFollowsPhase'
  BY <1>1, <1>6, <1>7 DEF StepFollowsPhase, Quiet
<1>10. PreparedFromDocs'
  BY <1>1, <1>2, <1>7 DEF PreparedFromDocs, Editing
<1>11. \A k \in 1 .. pos : StagedCopy(prepared[k])
  <2>1. \A k \in 1 .. pos - 1 : StagedCopy(prepared[k])
    BY <1>1, <1>2 DEF TempsFollowPhase
  <2>2. op.file = prepared[pos].file /\ op.updated = prepared[pos].updated
    BY <1>1, <1>2, <1>5 DEF StepFollowsPhase
  <2>3. StagedCopy(prepared[pos])
    BY <1>2, <1>5, <2>2 DEF TempsFollowPhase, StagedCopy, Holding
  <2> QED
    BY <1>3, <2>1, <2>3
<1>12. \A f \in Files : temp[f] # NoInode => \E k \in 1 .. pos : f = prepared[k].file
  <2>1. \A f \in Files : temp[f] # NoInode =>
            (\E k \in 1 .. pos - 1 : f = prepared[k].file) \/ f = prepared[pos].file
    BY <1>1, <1>2, <1>5 DEF TempsFollowPhase, StepFollowsPhase
  <2> QED
    BY <1>3, <2>1
<1>13. TempsFollowPhase'
  <2>1. CASE pos < Len(prepared)
    <3>1. phase' = "stage" /\ pos' = pos + 1 /\ 1 .. pos' - 1 = 1 .. pos
      BY <1>1, <1>3, <2>1
    <3> QED
      BY <1>1, <1>6, <1>11, <1>12, <3>1 DEF TempsFollowPhase, StagedCopy, Holding
  <2>2. CASE ~(pos < Len(prepared))
    <3>1. phase' = "commit" /\ pos' = 1 /\ pos = Len(prepared)
      BY <1>1, <1>3, <2>2
    <3>2. \A f \in Files : temp[f] # NoInode =>
             (\E k \in 1 + 1 .. Len(prepared) : f = prepared[k].file) \/ f = prepared[1].file
      <4>1. \A k \in 1 .. pos : k \in 1 + 1 .. Len(prepared) \/ k = 1
        BY <3>1
      <4> QED
        BY <1>12, <4>1
    <3>3. \A k \in 1 + 1 .. Len(prepared) : k \in 1 .. pos
      BY <3>1
    <3>4. 1 \in 1 .. pos
      BY <1>3
    <3> QED
      BY <1>1, <1>6, <1>11, <3>1, <3>2, <3>3, <3>4 DEF TempsFollowPhase, StagedCopy, Holding
  <2> QED
    BY <2>1, <2>2
<1>14. DocsFollowEdits'
  BY <1>1, <1>2, <1>7 DEF DocsFollowEdits, Told, Gives
<1>15. FailuresAreBlamed'
  BY <1>1, <1>2, <1>6, <1>7 DEF FailuresAreBlamed, Blamed, Editing
<1> QED
  BY <1>6, <1>7, <1>8, <1>9, <1>10, <1>13, <1>14, <1>15 DEF SessionInv

\* So does a failure to stage one.
LEMMA StageFailedKeeps ==
    ASSUME EditTypes, SessionInv, StageFailed
    PROVE  EditTypes' /\ SessionInv'
<1>1. /\ phase = "stage" /\ Leave({"failed"}) /\ phase' = "cleanup" /\ undo' = <<>>
      /\ UNCHANGED <<docs, prepared, pos, journal, reported, mutations, touched>>
  BY DEF StageFailed
<1>2. FailuresAreBlamed
  BY DEF SessionInv
<1>3. Done' = Done
  BY <1>1 DEF Done
<1>4. step = "failed"
  BY <1>1 DEF Leave
<1>5. /\ TypeOK' /\ NamesDistinct' /\ UntouchedIsAlone' /\ Linked(Done)' /\ TextsAreFine'
      /\ step' = "idle"
  BY <1>1, <1>3, <1>4, LeaveRests DEF Exchanged
<1>6. EditTypes'
  BY <1>1, <1>5 DEF EditTypes, Phases, Quiet
<1>7. StepFollowsPhase' /\ PreparedFromDocs' /\ TempsFollowPhase' /\ DocsFollowEdits'
  BY <1>1, <1>5 DEF StepFollowsPhase, PreparedFromDocs, TempsFollowPhase, DocsFollowEdits,
                    Quiet, Editing, Holding
<1>8. FailuresAreBlamed'
  BY <1>1, <1>2, <1>5 DEF FailuresAreBlamed, Blamed, Editing
<1> QED
  BY <1>1, <1>5, <1>6, <1>7, <1>8 DEF SessionInv

\* A replacement that failed has not made its change, or is named.
LEMMA CommitFailedKeeps ==
    ASSUME EditTypes, SessionInv, CommitFailed
    PROVE  EditTypes' /\ SessionInv'
<1>1. /\ phase = "commit" /\ Leave({"failed", "restored", "unrestored"}) /\ phase' = "cleanup"
      /\ undo' = SubSeq(prepared, 1, pos - 1)
      /\ reported' = IF step = "unrestored" THEN reported \cup {op.file} ELSE reported
      /\ UNCHANGED <<docs, prepared, pos, journal, mutations, touched>>
  BY DEF CommitFailed
<1>2. FailuresAreBlamed /\ StepFollowsPhase
  BY DEF SessionInv
<1>3. pos \in 1 .. Len(prepared) /\ prepared \in Seq(Change)
  BY <1>1, <1>2 DEF StepFollowsPhase, Editing, EditTypes
<1>4. SubSeq(prepared, 1, pos - 1) \in Seq(Change)
  BY <1>3
<1>5. Done' = Done
  BY <1>1 DEF Done
<1>6. step \in {"failed", "restored", "unrestored"} /\ op.file \in Files
  BY <1>1 DEF Leave, EditTypes, TypeOK
<1>7. /\ reported \subseteq reported' /\ reported' \subseteq Files
      /\ step \in Exchanged => op.file \in reported'
  BY <1>1, <1>6 DEF Exchanged, EditTypes
<1>8. /\ TypeOK' /\ NamesDistinct' /\ UntouchedIsAlone' /\ Linked(Done)' /\ TextsAreFine'
      /\ step' = "idle"
  BY <1>1, <1>5, <1>7, LeaveRests
<1>9. EditTypes'
  BY <1>1, <1>4, <1>7, <1>8 DEF EditTypes, Phases, Quiet
<1>10. StepFollowsPhase' /\ PreparedFromDocs' /\ TempsFollowPhase' /\ DocsFollowEdits'
  BY <1>1, <1>8 DEF StepFollowsPhase, PreparedFromDocs, TempsFollowPhase, DocsFollowEdits,
                    Quiet, Editing, Holding
<1>11. FailuresAreBlamed'
  BY <1>1, <1>2, <1>6, <1>8 DEF FailuresAreBlamed, Blamed, Editing
<1> QED
  BY <1>1, <1>8, <1>9, <1>10, <1>11 DEF SessionInv

\* The first n elements of t are the first n - 1 and one more.
LEMMA OneMore ==
    ASSUME NEW s \in Seq(Change), NEW t \in Seq(Change), NEW n \in 1 .. Len(t)
    PROVE  /\ s \o SubSeq(t, 1, n) = Append(s \o SubSeq(t, 1, n - 1), t[n])
           /\ n = Len(t) => s \o t = Append(s \o SubSeq(t, 1, n - 1), t[n])
           /\ s \o SubSeq(t, 1, n - 1) \in Seq(Change)
<1> DEFINE u == SubSeq(t, 1, n)
<1> DEFINE v == SubSeq(t, 1, n - 1)
<1>1. /\ u \in Seq(Change) /\ Len(u) = n /\ \A k \in 1 .. n : u[k] = t[k]
      /\ v \in Seq(Change) /\ Len(v) = n - 1 /\ \A k \in 1 .. n - 1 : v[k] = t[k]
      /\ Len(t) \in Nat /\ Len(s) \in Nat /\ t[n] \in Change
      /\ n \in Nat /\ n >= 1
  OBVIOUS
<1>0. n \in Nat /\ n >= 1 /\ Len(s) \in Nat
  BY <1>1
<1> HIDE DEF u, v
<1> DEFINE a == s \o u
<1> DEFINE w == s \o v
<1>2. a \in Seq(Change) /\ w \in Seq(Change)
  BY <1>1
<1>3. Len(a) = Len(s) + n /\ Len(w) = Len(s) + (n - 1)
  <2>1. Len(a) = Len(s) + Len(u) /\ Len(w) = Len(s) + Len(v)
    BY <1>1, ConcatProperties
  <2> QED
    BY <1>1, <2>1
<1>4. /\ \A k \in 1 .. Len(s) + n : a[k] = IF k \in 1 .. Len(s) THEN s[k] ELSE t[k - Len(s)]
      /\ \A k \in 1 .. Len(s) + (n - 1) : w[k] = IF k \in 1 .. Len(s) THEN s[k] ELSE t[k - Len(s)]
  BY <1>1
<1> HIDE DEF a, w
<1> DEFINE b == Append(w, t[n])
<1>5. /\ b \in Seq(Change) /\ Len(b) = Len(s) + n
      /\ \A k \in 1 .. Len(s) + n : b[k] = IF k = Len(s) + n THEN t[n] ELSE w[k]
  BY <1>1, <1>2, <1>3
<1> HIDE DEF b
<1>6. \A k \in 1 .. Len(a) : a[k] = b[k]
  <2> SUFFICES ASSUME NEW k \in 1 .. Len(s) + n PROVE a[k] = b[k]
    BY <1>3
  <2>1. CASE k = Len(s) + n
    <3>1. k \notin 1 .. Len(s) /\ k - Len(s) = n
      BY <1>1, <2>1
    <3> QED
      BY <1>4, <1>5, <2>1, <3>1
  <2>2. CASE k # Len(s) + n
    <3>1. k \in 1 .. Len(s) + (n - 1)
      BY <1>0, <2>2
    <3> QED
      BY <1>4, <1>5, <2>2, <3>1
  <2> QED
    BY <2>1, <2>2
<1>7. a = b
  BY <1>2, <1>3, <1>5, <1>6, SeqEqual
<1>8. n = Len(t) => u = t
  BY <1>1, SeqEqual
<1> QED
  BY <1>2, <1>7, <1>8 DEF a, b, u, v, w

\* A sequence that ends with another, without its last element.
LEMMA LastOne ==
    ASSUME NEW s \in Seq(Change), NEW t \in Seq(Change), t # <<>>
    PROVE  /\ s \o t = Append(s \o Front(t), Last(t))
           /\ s \o Front(t) \in Seq(Change) /\ Front(t) \in Seq(Change)
           /\ Last(t) \in Change
<1>1. Len(t) \in 1 .. Len(t) /\ t[Len(t)] \in Change
  OBVIOUS
<1>2. SubSeq(t, 1, Len(t) - 1) \in Seq(Change)
  OBVIOUS
<1> QED
  BY <1>1, <1>2, OneMore DEF Front, Last

\* A replacement that succeeded is one more change that stands.
LEMMA CommittedKeeps ==
    ASSUME EditTypes, SessionInv, Committed
    PROVE  EditTypes' /\ SessionInv'
<1> DEFINE c == prepared[pos]
<1>1. /\ phase = "commit" /\ Leave({"ok"})
      /\ UNCHANGED <<docs, prepared, journal, undo, reported, mutations, touched>>
      /\ \/ pos < Len(prepared) /\ pos' = pos + 1 /\ phase' = phase
         \/ ~(pos < Len(prepared)) /\ pos' = 1 /\ phase' = "sync"
  BY DEF Committed
<1>2. /\ StepFollowsPhase /\ PreparedFromDocs /\ NamesDistinct /\ TempsFollowPhase
      /\ UntouchedIsAlone /\ Linked(Done) /\ TextsAreFine /\ DocsFollowEdits
      /\ FailuresAreBlamed
  BY DEF SessionInv
<1>3. pos \in 1 .. Len(prepared) /\ Len(prepared) \in Nat
  BY <1>1, <1>2 DEF StepFollowsPhase, Editing, EditTypes
<1>4. /\ step = "ok" /\ step' = "idle"
      /\ UNCHANGED <<target, temp, kept, content, open, saved, live, op, calls>>
  BY <1>1 DEF Leave, Goto, fsvars
<1>5. op.file = c.file /\ op.expected = c.expected /\ op.updated = c.updated
  BY <1>1, <1>2, <1>4 DEF StepFollowsPhase
<1>6. prepared \in Seq(Change) /\ journal \in Seq(Change) /\ c \in Change
  BY <1>3 DEF EditTypes
<1>7. Now(c.file, c.expected)
  BY <1>1, <1>2, <1>4, <1>5, ExpectedNow
<1>8. Done' = Append(Done, c) /\ Done \in Seq(Change)
  <2>1. Done = journal \o SubSeq(prepared, 1, pos - 1)
    BY <1>1 DEF Done
  <2>2. Done' = IF pos < Len(prepared) THEN journal \o SubSeq(prepared, 1, pos)
                                       ELSE journal \o prepared
    <3>1. CASE pos < Len(prepared)
      <4>1. (pos + 1) - 1 = pos
        BY <1>3
      <4>2. phase' = "commit" /\ pos' - 1 = pos /\ journal' = journal /\ prepared' = prepared
        BY <1>1, <3>1, <4>1
      <4> QED
        BY <3>1, <4>2 DEF Done
    <3>2. CASE ~(pos < Len(prepared))
      BY <1>1, <3>2 DEF Done
    <3> QED
      BY <3>1, <3>2
  <2>3. ~(pos < Len(prepared)) => pos = Len(prepared)
    BY <1>3
  <2> QED
    BY <1>3, <1>6, <2>1, <2>2, <2>3, OneMore
<1>9. Linked(Append(Done, c))
  BY <1>2, <1>6, <1>7, <1>8, LinkedAppend DEF Now
<1>10. Linked(Done)'
  BY <1>8, <1>9, LinkedThen
<1>11. \A f \in Files, v \in Versions :
          Now(f, v)' <=> IF c.file = f THEN v = c.updated ELSE Now(f, v)
  BY <1>6, <1>8, NowThen, GivesAppend DEF Now
<1>12. TextsAreFine'
  <2>1. \A f \in Files : Text(f)' = Text(f)
    BY <1>4 DEF Text, Exists
  <2>2. Fine(c.file, Text(c.file), c.updated)
    BY <1>2, <1>4, <1>5, <1>6 DEF TextsAreFine, Exchanged, Change
  <2>3. \A f \in Files, v \in Versions : f # c.file /\ Now(f, v) => Fine(f, Text(f), v)
    BY <1>2, <1>5 DEF TextsAreFine
  <2>4. \A f \in Files, v \in Versions : Now(f, v)' => Fine(f, Text(f), v)
    <3> SUFFICES ASSUME NEW f \in Files, NEW v \in Versions, Now(f, v)' PROVE Fine(f, Text(f), v)
      OBVIOUS
    <3>1. CASE c.file = f
      BY <1>11, <2>2, <3>1
    <3>2. CASE c.file # f
      BY <1>11, <2>3, <3>2
    <3> QED
      BY <3>1, <3>2
  <2>5. \A f \in Files, v \in Versions : Now(f, v)' => Fine(f, Text(f), v)'
    BY <1>1, <2>1, <2>4 DEF Fine
  <2> QED
    BY <1>4, <2>5 DEF TextsAreFine, Exchanged
<1>13. NamesDistinct' /\ UntouchedIsAlone'
  BY <1>1, <1>2, <1>4, NamesStay
<1>14. pos' \in Nat /\ pos' \in 1 .. Len(prepared) /\ phase' \in {"commit", "sync"}
  BY <1>1, <1>3
<1>15. EditTypes'
  BY <1>1, <1>4, <1>14 DEF EditTypes, TypeOK, Phases, Editing
<1>16. StepFollowsPhase'
  BY <1>1, <1>4, <1>14 DEF StepFollowsPhase, Quiet, Editing
<1>17. PreparedFromDocs'
  BY <1>1, <1>2, <1>14 DEF PreparedFromDocs, Editing
<1>18. TempsFollowPhase'
  <2>1. \A k \in pos + 1 .. Len(prepared) : StagedCopy(prepared[k])
    BY <1>1, <1>2 DEF TempsFollowPhase
  <2>2. \A f \in Files : temp[f] # NoInode => \E k \in pos + 1 .. Len(prepared) : f = prepared[k].file
    BY <1>1, <1>2, <1>4 DEF TempsFollowPhase, Holding
  <2>3. CASE pos < Len(prepared)
    <3>1. /\ phase' = "commit" /\ pos' = pos + 1 /\ pos + 1 \in pos + 1 .. Len(prepared)
          /\ \A k \in (pos + 1) + 1 .. Len(prepared) : k \in pos + 1 .. Len(prepared)
      BY <1>1, <1>3, <2>3
    <3>2. \A f \in Files : temp[f] # NoInode =>
             (\E k \in (pos + 1) + 1 .. Len(prepared) : f = prepared[k].file)
             \/ f = prepared[pos + 1].file
      <4>1. \A k \in pos + 1 .. Len(prepared) : k \in (pos + 1) + 1 .. Len(prepared) \/ k = pos + 1
        BY <1>3
      <4> QED
        BY <2>2, <4>1
    <3> QED
      BY <1>1, <1>4, <2>1, <3>1, <3>2 DEF TempsFollowPhase, StagedCopy, Holding
  <2>4. CASE ~(pos < Len(prepared))
    <3>1. phase' = "sync" /\ \A k \in pos + 1 .. Len(prepared) : FALSE
      BY <1>1, <1>3, <2>4
    <3> QED
      BY <1>1, <1>4, <2>2, <3>1 DEF TempsFollowPhase, Holding
  <2> QED
    BY <2>3, <2>4
<1>19. DocsFollowEdits'
  <2>1. \A f \in Files : Told(f)
    BY <1>1, <1>2 DEF DocsFollowEdits
  <2>2. CASE phase' = "commit"
    BY <1>1, <2>1, <2>2 DEF DocsFollowEdits, Told, Gives
  <2>3. CASE phase' = "sync"
    <3>1. Len(journal) \in Nat /\ \A k \in 1 .. Len(journal) : Done'[k] = journal[k]
      BY <1>1, <1>6, <2>3 DEF Done
    <3>2. Len(journal) + 1 - 1 = Len(journal) /\ pos' = 1
      BY <1>1, <2>3, <3>1
    <3>3. \A f \in Files : Gives(Done', Len(journal), f, docs[f])
      BY <2>1, <3>1, GivesAgree DEF Told
    <3>4. (Len(journal) + pos - 1)' = Len(journal)
      BY <1>1, <3>2
    <3>5. \A f \in Files : Telling(f)'
      BY <1>1, <3>3, <3>4 DEF Telling, Gives
    <3> QED
      BY <2>3, <3>5 DEF DocsFollowEdits
  <2> QED
    BY <1>14, <2>2, <2>3
<1>20. FailuresAreBlamed'
  BY <1>1, <1>2, <1>4, <1>14 DEF FailuresAreBlamed, Blamed, Editing
<1> QED
  BY <1>10, <1>12, <1>13, <1>14, <1>15, <1>16, <1>17, <1>18, <1>19, <1>20 DEF SessionInv

\* A step of the session between two calls, which makes and undoes no change.
LEMMA IdleRests ==
    ASSUME EditTypes, SessionInv, step \notin Exchanged,
           UNCHANGED <<target, content, open, saved, live, step, op, calls, touched, reported>>,
           Done' = Done
    PROVE  Linked(Done)' /\ TextsAreFine'
<1>1. Linked(Done) /\ TextsAreFine
  BY DEF SessionInv
<1>2. Linked(Done)'
  BY <1>1, LinkedThen
<1>3. TextsAreFine'
  BY <1>1, NowStays, TextsStayFine
<1> QED
  BY <1>2, <1>3

\* Removing what was staged keeps the invariant.
LEMMA CleanupKeeps ==
    ASSUME EditTypes, SessionInv, CleanupStaged
    PROVE  EditTypes' /\ SessionInv'
<1> PICK stuck \in SUBSET {temp[f] : f \in Files} : NoInode \notin stuck /\ kept' = kept \cup stuck
  BY DEF CleanupStaged
<1>1. /\ phase = "cleanup" /\ phase' = "undo"
      /\ temp' = [f \in Files |-> NoInode]
      /\ UNCHANGED <<target, content, open, saved, live, step, op, calls>>
      /\ UNCHANGED <<docs, prepared, pos, journal, undo, reported, mutations, touched>>
  BY DEF CleanupStaged
<1>2. /\ StepFollowsPhase /\ NamesDistinct /\ UntouchedIsAlone /\ FailuresAreBlamed
  BY DEF SessionInv
<1>3. step = "idle"
  BY <1>1, <1>2 DEF StepFollowsPhase, Quiet
<1>4. kept' \subseteq Inodes
  BY <1>1 DEF EditTypes, TypeOK, Entry
<1>5. EditTypes'
  BY <1>1, <1>4 DEF EditTypes, TypeOK, Entry, Phases
<1>6. Done' = Done
  BY <1>1 DEF Done
<1>7. Linked(Done)' /\ TextsAreFine'
  BY <1>1, <1>3, <1>6, IdleRests DEF Exchanged
<1>8. StepFollowsPhase' /\ PreparedFromDocs' /\ TempsFollowPhase' /\ DocsFollowEdits'
  BY <1>1, <1>3 DEF StepFollowsPhase, PreparedFromDocs, TempsFollowPhase, DocsFollowEdits,
                    Quiet, Editing, Holding
<1>9. NamesDistinct'
  <2>1. \A f \in Files : Exists(f) => target[f] \notin stuck
    BY <1>2 DEF NamesDistinct
  <2> QED
    BY <1>1, <1>2, <2>1 DEF NamesDistinct, Exists
<1>10. UntouchedIsAlone'
  BY <1>1, <1>2 DEF UntouchedIsAlone, Exists
<1>11. FailuresAreBlamed'
  BY <1>1, <1>2, <1>3 DEF FailuresAreBlamed, Blamed, Editing
<1> QED
  BY <1>1, <1>5, <1>7, <1>8, <1>9, <1>10, <1>11 DEF SessionInv

\* One more document has its new text; or the session stops here, and what it
\* has changed is what it has to undo.
LEMMA SynchronizeKeeps ==
    ASSUME EditTypes, SessionInv, Synchronize
    PROVE  EditTypes' /\ SessionInv'
<1> DEFINE c == prepared[pos]
<1> DEFINE told == [docs EXCEPT ![c.file] = c.updated]
<1>1. /\ phase = "sync"
      /\ UNCHANGED <<target, temp, kept, content, open, saved, live, step, op, calls>>
      /\ UNCHANGED <<prepared, reported, touched>>
  BY DEF Synchronize, vars
<1>2. /\ StepFollowsPhase /\ PreparedFromDocs /\ NamesDistinct /\ TempsFollowPhase
      /\ UntouchedIsAlone /\ DocsFollowEdits /\ FailuresAreBlamed
  BY DEF SessionInv
<1>3. pos \in 1 .. Len(prepared) /\ Len(prepared) \in Nat /\ Len(journal) \in Nat
  BY <1>1, <1>2 DEF StepFollowsPhase, Editing, EditTypes
<1>4. prepared \in Seq(Change) /\ journal \in Seq(Change) /\ c \in Change
  BY <1>3 DEF EditTypes
<1>5. told \in [Files -> Versions]
  BY <1>4 DEF EditTypes, Change
<1>6. Done = journal \o prepared
  BY <1>1 DEF Done
<1>7. step = "idle"
  BY <1>1, <1>2 DEF StepFollowsPhase, Quiet
<1>8. NamesDistinct' /\ UntouchedIsAlone'
  BY <1>1, <1>2, NamesStay
<1>9. \A f \in Files : temp[f] = NoInode
  BY <1>1, <1>2 DEF TempsFollowPhase
<1>10. reported = {} /\ \A f \in Files : Blamed(f)' <=> Blamed(f)
  BY <1>1, <1>2 DEF FailuresAreBlamed, Editing, Blamed
<1>11. \A f \in Files : Gives(Done, Len(journal) + pos, f, told[f])
  <2>1. Len(journal) + pos \in Nat /\ Len(journal) + pos - 1 \in Nat
    BY <1>3
  <2>2. Done[(Len(journal) + pos - 1) + 1] = c /\ (Len(journal) + pos - 1) + 1 = Len(journal) + pos
    BY <1>3, <1>4, <1>6
  <2>3. \A f \in Files : Gives(Done, Len(journal) + pos - 1, f, docs[f])
    BY <1>1, <1>2 DEF DocsFollowEdits, Telling
  <2>4. \A f \in Files : told[f] = IF c.file = f THEN c.updated ELSE docs[f]
    BY <1>4 DEF EditTypes, Change
  <2> HIDE DEF told, c
  <2>5. \A f \in Files : Gives(Done, (Len(journal) + pos - 1) + 1, f, told[f])
    BY <2>1, <2>2, <2>3, <2>4, GivesNext
  <2> QED
    BY <2>2, <2>5
<1>12. CASE /\ docs' = told
            /\ pos < Len(prepared) /\ pos' = pos + 1
            /\ UNCHANGED <<phase, journal, mutations, undo>>
  <2>1. pos' \in 1 .. Len(prepared) /\ pos' \in Nat
    BY <1>3, <1>12
  <2>2. EditTypes'
    BY <1>1, <1>5, <1>12, <2>1 DEF EditTypes, TypeOK
  <2>3. Done' = Done
    BY <1>1, <1>12 DEF Done
  <2>4. Linked(Done)' /\ TextsAreFine'
    BY <1>1, <1>7, <2>3, IdleRests DEF Exchanged
  <2>5. StepFollowsPhase' /\ PreparedFromDocs' /\ TempsFollowPhase'
    BY <1>1, <1>2, <1>7, <1>9, <1>12, <2>1 DEF StepFollowsPhase, PreparedFromDocs, TempsFollowPhase,
                                        Quiet, Editing, Holding
  <2>6. DocsFollowEdits'
    <3>1. (Len(journal) + pos - 1)' = Len(journal) + pos
      BY <1>3, <1>12
    <3>2. \A f \in Files : Telling(f)'
      BY <1>11, <1>12, <2>3, <3>1 DEF Telling, Gives
    <3> QED
      BY <1>1, <1>12, <3>2 DEF DocsFollowEdits
  <2>7. FailuresAreBlamed'
    BY <1>1, <1>7, <1>10 DEF FailuresAreBlamed
  <2> QED
    BY <1>1, <1>8, <1>12, <2>2, <2>4, <2>5, <2>6, <2>7 DEF SessionInv
<1>13. CASE /\ docs' = told
            /\ ~(pos < Len(prepared)) /\ pos' = 1 /\ phase' = "run"
            /\ journal' = journal \o prepared /\ UNCHANGED undo
  <2>1. journal' \in Seq(Change) /\ Len(journal') = Len(journal) + pos
    <3>1. pos = Len(prepared)
      BY <1>3, <1>13
    <3>2. journal \o prepared \in Seq(Change)
          /\ Len(journal \o prepared) = Len(journal) + Len(prepared)
      BY <1>4, ConcatProperties
    <3> QED
      BY <1>13, <3>1, <3>2
  <2>2. EditTypes'
    BY <1>1, <1>5, <1>13, <2>1 DEF EditTypes, TypeOK, Phases, Quiet
  <2>3. Done' = Done /\ journal' = Done
    <3>1. Done' = journal' \o <<>>
      BY <1>13 DEF Done
    <3>2. journal' \o <<>> = journal'
      BY <2>1, ConcatEmptySeq
    <3> QED
      BY <1>6, <1>13, <3>1, <3>2
  <2>4. Linked(Done)' /\ TextsAreFine'
    BY <1>1, <1>7, <2>3, IdleRests DEF Exchanged
  <2>5. StepFollowsPhase' /\ PreparedFromDocs' /\ TempsFollowPhase'
    BY <1>1, <1>7, <1>9, <1>13 DEF StepFollowsPhase, PreparedFromDocs, TempsFollowPhase,
                                 Quiet, Editing, Holding
  <2>6. DocsFollowEdits'
    <3>1. \A f \in Files : Told(f)'
      BY <1>11, <1>13, <2>1, <2>3 DEF Told, Gives
    <3> QED
      BY <1>13, <3>1 DEF DocsFollowEdits
  <2>7. FailuresAreBlamed'
    BY <1>1, <1>7, <1>10 DEF FailuresAreBlamed
  <2> QED
    BY <1>1, <1>8, <1>13, <2>2, <2>4, <2>5, <2>6, <2>7 DEF SessionInv
<1>14. CASE /\ docs' \in {docs, told}
            /\ phase' = "undo" /\ undo' = prepared
            /\ UNCHANGED <<pos, journal, mutations>>
  <2>1. docs' \in [Files -> Versions]
    BY <1>5, <1>14 DEF EditTypes
  <2>2. EditTypes'
    BY <1>1, <1>4, <1>14, <2>1 DEF EditTypes, TypeOK, Phases
  <2>3. Done' = Done
    BY <1>1, <1>14 DEF Done
  <2>4. Linked(Done)' /\ TextsAreFine'
    BY <1>1, <1>7, <2>3, IdleRests DEF Exchanged
  <2>5. StepFollowsPhase' /\ PreparedFromDocs' /\ TempsFollowPhase' /\ DocsFollowEdits'
    BY <1>1, <1>7, <1>9, <1>14 DEF StepFollowsPhase, PreparedFromDocs, TempsFollowPhase,
                                 DocsFollowEdits, Quiet, Editing, Holding
  <2>6. FailuresAreBlamed'
    BY <1>1, <1>7, <1>10 DEF FailuresAreBlamed
  <2> QED
    BY <1>1, <1>8, <1>14, <2>2, <2>4, <2>5, <2>6 DEF SessionInv
<1> QED
  BY <1>12, <1>13, <1>14 DEF Synchronize

\* The last change that stands is undone, or its file is named.
LEMMA UndoneKeeps ==
    ASSUME EditTypes, SessionInv, Undone
    PROVE  EditTypes' /\ SessionInv'
<1> DEFINE c == Last(undo)
<1>1. /\ phase = "undo" /\ Leave(Results)
      /\ undo' = Front(undo)
      /\ reported' = IF step = "ok" THEN reported ELSE reported \cup {op.file}
      /\ UNCHANGED <<phase, docs, prepared, pos, journal, mutations, touched>>
  BY DEF Undone
<1>2. /\ StepFollowsPhase /\ NamesDistinct /\ TempsFollowPhase /\ UntouchedIsAlone
      /\ Linked(Done) /\ TextsAreFine /\ FailuresAreBlamed
  BY DEF SessionInv
<1>3. /\ step \in Results /\ step' = "idle"
      /\ UNCHANGED <<target, temp, kept, content, open, saved, live, op, calls>>
  BY <1>1 DEF Leave, Goto, fsvars
<1>4. /\ undo # <<>>
      /\ op.file = c.file /\ op.expected = c.updated /\ op.updated = c.expected
  BY <1>1, <1>2, <1>3 DEF StepFollowsPhase, Results
<1>5. undo \in Seq(Change) /\ journal \in Seq(Change)
  BY DEF EditTypes
<1>6. /\ Done = Append(Done', c) /\ Done' \in Seq(Change)
      /\ Front(undo) \in Seq(Change) /\ c \in Change
  <2>1. Done = journal \o undo /\ Done' = journal \o Front(undo)
    BY <1>1 DEF Done
  <2> QED
    BY <1>4, <1>5, <2>1, LastOne
<1> HIDE DEF c
<1>7. /\ Linked(Done')
      /\ \A v \in Versions : Gives(Done', Len(Done'), c.file, v) => v = c.expected
  BY <1>2, <1>6, LinkedBefore
<1>8. Linked(Done)'
  BY <1>7, LinkedThen
<1>9. \A f \in Files, v \in Versions :
         /\ Now(f, v) <=> IF c.file = f THEN v = c.updated ELSE Gives(Done', Len(Done'), f, v)
         /\ Now(f, v)' <=> Gives(Done', Len(Done'), f, v)
  BY <1>6, NowThen, GivesAppend DEF Now
<1>10. c.file \in Files /\ reported \subseteq reported' /\ reported' \subseteq Files
       /\ (step = "ok" \/ c.file \in reported')
  BY <1>1, <1>4, <1>6 DEF Change, EditTypes
<1>11. TextsAreFine'
  <2>1. \A f \in Files : Text(f)' = Text(f)
    BY <1>3 DEF Text, Exists
  <2>2. step = "ok" => Fine(c.file, Text(c.file), c.expected)
    BY <1>2, <1>4, <1>10 DEF TextsAreFine, Exchanged
  <2>3. \A f \in Files, v \in Versions : f # c.file /\ Now(f, v)' => Fine(f, Text(f), v)'
    BY <1>1, <1>2, <1>4, <1>9, <1>10, <2>1 DEF TextsAreFine, Fine
  <2>4. ASSUME NEW f \in Files, NEW v \in Versions, f = c.file, Now(f, v)'
        PROVE  Fine(f, Text(f), v)'
    <3>1. v = c.expected
      BY <1>7, <1>9, <2>4
    <3>2. Fine(f, Text(f), v) \/ f \in reported'
      BY <1>10, <2>2, <2>4, <3>1
    <3> QED
      BY <1>1, <1>10, <2>1, <3>2 DEF Fine
  <2>5. \A f \in Files, v \in Versions : Now(f, v)' => Fine(f, Text(f), v)'
    BY <2>3, <2>4
  <2> QED
    BY <1>3, <2>3, <2>5 DEF TextsAreFine, Exchanged
<1>12. NamesDistinct' /\ UntouchedIsAlone'
  BY <1>1, <1>2, <1>3, NamesStay
<1>13. EditTypes'
  BY <1>1, <1>3, <1>6, <1>10 DEF EditTypes, TypeOK
<1>14. StepFollowsPhase' /\ PreparedFromDocs' /\ DocsFollowEdits'
  BY <1>1, <1>3 DEF StepFollowsPhase, PreparedFromDocs, DocsFollowEdits, Quiet, Editing
<1>15. TempsFollowPhase'
  BY <1>1, <1>2, <1>3 DEF TempsFollowPhase, Holding, Results
<1>16. FailuresAreBlamed'
  <2>1. step # "ok" => Blamed(op.file)
    BY <1>2, <1>3 DEF FailuresAreBlamed, Results
  <2> QED
    BY <1>1, <1>2, <1>3, <2>1 DEF FailuresAreBlamed, Blamed, Editing
<1> QED
  BY <1>1, <1>8, <1>11, <1>12, <1>13, <1>14, <1>15, <1>16 DEF SessionInv

\* The journal is to be rolled back; without one the session is over.
LEMMA RollbackKeeps ==
    ASSUME EditTypes, SessionInv, UndoFinished \/ SessionFails
    PROVE  EditTypes' /\ SessionInv'
<1>1. /\ phase' = IF journal = <<>> THEN "failed" ELSE "undo"
      /\ undo' = journal /\ journal' = <<>>
      /\ UNCHANGED <<target, temp, kept, content, open, saved, live, step, op, calls>>
      /\ UNCHANGED <<docs, prepared, pos, reported, touched>>
  BY DEF UndoFinished, SessionFails, vars
<1>2. /\ StepFollowsPhase /\ NamesDistinct /\ TempsFollowPhase /\ UntouchedIsAlone
      /\ FailuresAreBlamed
  BY DEF SessionInv
<1>3. step = "idle"
  BY <1>2 DEF UndoFinished, SessionFails, StepFollowsPhase, Quiet
<1>4. phase = "undo" \/ phase = "run"
  BY DEF UndoFinished, SessionFails
<1>5. \A f \in Files : temp[f] = NoInode
  BY <1>2, <1>3, <1>4 DEF TempsFollowPhase, Holding
<1>6. Done = journal
  <2>1. Done = journal \o <<>>
    BY DEF Done, UndoFinished, SessionFails
  <2>2. journal \o <<>> = journal
    BY ConcatEmptySeq DEF EditTypes
  <2> QED
    BY <2>1, <2>2
<1>7. Done' = Done
  <2>1. CASE journal = <<>>
    <3>1. Done' = <<>> \o <<>>
      BY <1>1, <2>1 DEF Done
    <3> QED
      BY <1>6, <2>1, <3>1, ConcatEmptySeq DEF EditTypes
  <2>2. CASE journal # <<>>
    <3>1. Done' = <<>> \o journal
      BY <1>1, <2>2 DEF Done
    <3> QED
      BY <1>6, <3>1, ConcatEmptySeq DEF EditTypes
  <2> QED
    BY <2>1, <2>2
<1>8. Linked(Done)' /\ TextsAreFine'
  BY <1>1, <1>3, <1>7, IdleRests DEF Exchanged
<1>9. EditTypes'
  BY <1>1 DEF EditTypes, TypeOK, Phases, Quiet
<1>10. StepFollowsPhase' /\ PreparedFromDocs' /\ TempsFollowPhase' /\ DocsFollowEdits'
  BY <1>1, <1>3, <1>5 DEF StepFollowsPhase, PreparedFromDocs, TempsFollowPhase, DocsFollowEdits,
                    Quiet, Editing, Holding
<1>11. NamesDistinct' /\ UntouchedIsAlone'
  BY <1>1, <1>2, NamesStay
<1>12. FailuresAreBlamed'
  BY <1>1, <1>2, <1>3 DEF FailuresAreBlamed, Blamed, Editing
<1>13. (phase = "failed" => Done = <<>>)'
  BY <1>1, <1>6, <1>7
<1> QED
  BY <1>8, <1>9, <1>10, <1>11, <1>12, <1>13 DEF SessionInv

\* So does the end of the session.
LEMMA FinishKeeps ==
    ASSUME EditTypes, SessionInv, Finish
    PROVE  EditTypes' /\ SessionInv'
<1>1. /\ phase = "run" /\ phase' = "ok"
      /\ UNCHANGED <<target, temp, kept, content, open, saved, live, step, op, calls>>
      /\ UNCHANGED <<docs, prepared, pos, journal, undo, reported, touched>>
  BY DEF Finish, vars
<1>2. /\ StepFollowsPhase /\ NamesDistinct /\ TempsFollowPhase /\ UntouchedIsAlone
      /\ DocsFollowEdits /\ FailuresAreBlamed
  BY DEF SessionInv
<1>3. step = "idle"
  BY <1>1, <1>2 DEF StepFollowsPhase, Quiet
<1>4. Done' = Done
  BY <1>1 DEF Done
<1>5. Linked(Done)' /\ TextsAreFine'
  BY <1>1, <1>3, <1>4, IdleRests DEF Exchanged
<1>6. EditTypes'
  BY <1>1 DEF EditTypes, TypeOK, Phases, Quiet
<1>7. StepFollowsPhase' /\ PreparedFromDocs' /\ TempsFollowPhase'
  BY <1>1, <1>2, <1>3 DEF StepFollowsPhase, PreparedFromDocs, TempsFollowPhase,
                    Quiet, Editing, Holding
<1>8. NamesDistinct' /\ UntouchedIsAlone'
  BY <1>1, <1>2, NamesStay
<1>9. DocsFollowEdits'
  BY <1>1, <1>2 DEF DocsFollowEdits, Told, Gives
<1>10. FailuresAreBlamed'
  BY <1>1, <1>2, <1>3 DEF FailuresAreBlamed, Blamed, Editing
<1> QED
  BY <1>1, <1>5, <1>6, <1>7, <1>8, <1>9, <1>10 DEF SessionInv

\* An edit is prepared from what the documents hold.
LEMMA PrepareKeeps ==
    ASSUME EditTypes, SessionInv, NEW changed \in (SUBSET Files) \ {{}},
           NEW updated \in [Files -> Versions], Prepare(changed, updated)
    PROVE  EditTypes' /\ SessionInv'
<1> DEFINE n == Cardinality(changed)
<1> PICK order \in [1 .. n -> changed] :
         /\ \A j, k \in DOMAIN order : j < k => order[j] < order[k]
         /\ prepared' = [k \in DOMAIN order |->
                           [file |-> order[k], expected |-> docs[order[k]],
                            updated |-> updated[order[k]]]]
  BY DEF Prepare
<1>1. /\ phase = "run" /\ step = "idle" /\ phase' = "stage" /\ pos' = 1
      /\ UNCHANGED <<target, temp, kept, content, open, saved, live, step, op, calls>>
      /\ UNCHANGED <<docs, journal, undo, reported, touched>>
  BY DEF Prepare, vars
<1>2. /\ NamesDistinct /\ TempsFollowPhase /\ UntouchedIsAlone
      /\ DocsFollowEdits /\ FailuresAreBlamed
  BY DEF SessionInv
<1>3. n \in Nat /\ n >= 1
  <2>1. IsFiniteSet(changed) /\ changed # {}
    BY EditAssumption, FS_Subset
  <2> QED
    BY <2>1, FS_CardinalityType, FS_EmptySet
<1> HIDE DEF n
<1>4. /\ Len(prepared') = n /\ prepared' \in Seq(Change)
      /\ \A k \in 1 .. n : prepared'[k].file = order[k]
                           /\ prepared'[k].expected = docs[order[k]]
  <2>1. \A k \in 1 .. n : order[k] \in Files /\ docs[order[k]] \in Versions
                          /\ updated[order[k]] \in Versions
    BY DEF EditTypes
  <2>2. prepared' = [k \in 1 .. n |-> [file |-> order[k], expected |-> docs[order[k]],
                                       updated |-> updated[order[k]]]]
    OBVIOUS
  <2>3. \A k \in 1 .. n : [file |-> order[k], expected |-> docs[order[k]],
                           updated |-> updated[order[k]]] \in Change
    BY <2>1 DEF Change
  <2>4. prepared' \in [1 .. n -> Change]
    BY <2>2, <2>3
  <2> QED
    BY <1>3, <2>2, <2>4
<1>5. EditTypes'
  BY <1>1, <1>4 DEF EditTypes, TypeOK, Phases, Editing
<1>6. StepFollowsPhase'
  BY <1>1, <1>3, <1>4 DEF StepFollowsPhase, Editing, Quiet
<1>7. PreparedFromDocs'
  <2>1. \A j, k \in 1 .. n : order[j] = order[k] => j = k
    <3> SUFFICES ASSUME NEW j \in 1 .. n, NEW k \in 1 .. n, order[j] = order[k], j # k
                 PROVE  FALSE
      OBVIOUS
    <3>1. order[j] \in Nat /\ order[k] \in Nat
      BY EditAssumption
    <3>2. j < k \/ k < j
      BY <1>3
    <3> QED
      BY <3>1, <3>2
  <2> QED
    BY <1>1, <1>4, <2>1 DEF PreparedFromDocs, Editing
<1>8. NamesDistinct' /\ UntouchedIsAlone'
  BY <1>1, <1>2, NamesStay
<1>9. TempsFollowPhase'
  <2>1. \A f \in Files : temp[f] = NoInode
    BY <1>1, <1>2 DEF TempsFollowPhase
  <2>2. \A k \in 1 .. 1 - 1 : FALSE
    OBVIOUS
  <2> QED
    BY <1>1, <2>1, <2>2 DEF TempsFollowPhase, Holding
<1>10. Done' = Done
  BY <1>1 DEF Done
<1>11. Linked(Done)' /\ TextsAreFine'
  BY <1>1, <1>10, IdleRests DEF Exchanged
<1>12. DocsFollowEdits'
  BY <1>1, <1>2 DEF DocsFollowEdits, Told, Gives
<1>13. FailuresAreBlamed'
  BY <1>1, <1>2 DEF FailuresAreBlamed, Blamed, Editing
<1> QED
  BY <1>1, <1>5, <1>6, <1>7, <1>8, <1>9, <1>11, <1>12, <1>13 DEF SessionInv

\* A crash keeps the types.
LEMMA CrashKeeps ==
    ASSUME EditTypes, SessionCrash
    PROVE  EditTypes' /\ phase' = "crashed" /\ step' = "crashed"
<1>1. /\ phase' = "crashed" /\ step' = "crashed"
      /\ UNCHANGED <<target, temp, kept, content, open, saved, live, op, calls>>
      /\ UNCHANGED <<docs, prepared, pos, journal, undo, reported, touched>>
  BY DEF SessionCrash, Goto, fsvars
<1> QED
  BY <1>1 DEF EditTypes, TypeOK, Phases

\* A step that changes nothing keeps everything.
LEMMA StutterKeeps ==
    ASSUME EditTypes, SessionInv, UNCHANGED allvars
    PROVE  EditTypes' /\ SessionInv'
<1>1. /\ UNCHANGED <<target, temp, kept, content, open, saved, live, step, op, calls>>
      /\ UNCHANGED <<phase, docs, prepared, pos, journal, undo, reported, touched>>
  BY DEF allvars, vars, evars
<1>2. /\ StepFollowsPhase /\ PreparedFromDocs /\ NamesDistinct /\ TempsFollowPhase
      /\ UntouchedIsAlone /\ Linked(Done) /\ TextsAreFine /\ DocsFollowEdits
      /\ FailuresAreBlamed /\ (phase = "failed" => Done = <<>>)
  BY DEF SessionInv
<1>3. Done' = Done
  BY <1>1 DEF Done
<1>4. EditTypes'
  BY <1>1 DEF EditTypes, TypeOK
<1>5. StepFollowsPhase' /\ PreparedFromDocs' /\ TempsFollowPhase'
  BY <1>1, <1>2 DEF StepFollowsPhase, PreparedFromDocs, TempsFollowPhase, StagedCopy, Last
<1>6. NamesDistinct' /\ UntouchedIsAlone' /\ Linked(Done)'
  BY <1>1, <1>2, <1>3, NamesStay, LinkedThen
<1>7. TextsAreFine'
  BY <1>1, <1>2, <1>3 DEF TextsAreFine, Now, Gives, Fine, Text, Exists
<1>8. DocsFollowEdits' /\ FailuresAreBlamed'
  BY <1>1, <1>2, <1>3 DEF DocsFollowEdits, FailuresAreBlamed, Told, Telling, Gives, Blamed
<1> QED
  BY <1>1, <1>2, <1>3, <1>4, <1>5, <1>6, <1>7, <1>8 DEF SessionInv

-----------------------------------------------------------------------------
(***************************************************************************)
(* What every state of every session satisfies.                            *)
(***************************************************************************)
LEMMA EditKeeps == EditInv /\ [EditNext]_allvars => EditInv'
<1> SUFFICES ASSUME EditInv, [EditNext]_allvars PROVE EditInv'
  OBVIOUS
<1>1. CASE phase = "crashed"
  <2>1. EditTypes /\ step = "crashed"
    BY <1>1 DEF EditInv
  <2>2. UNCHANGED allvars \/ User
    <3>1. ~Replacing
      <4>1. step \notin Running
        BY <2>1 DEF Running
      <4> QED
        BY <2>1, <4>1, CallMoves DEF Replacing, EditTypes
    <3> QED
      BY <1>1, <3>1 DEF EditNext, Prepare, StageNext, Staged, StageFailed, CommitNext, Committed,
         CommitFailed, CleanupStaged, Synchronize, UndoNext, Undone, UndoFinished, Finish,
         SessionFails, SessionCrash
  <2>3. ASSUME UNCHANGED allvars PROVE EditTypes' /\ phase' = "crashed" /\ step' = "crashed"
    BY <1>1, <2>1, <2>3 DEF allvars, vars, evars, EditTypes, TypeOK
  <2>4. ASSUME User PROVE EditTypes' /\ phase' = "crashed" /\ step' = "crashed"
    <3>1. TypeOK' /\ step' = step
      BY <2>1, <2>4, UserTypes DEF User, EditTypes
    <3> QED
      BY <1>1, <2>1, <2>4, <3>1 DEF User, EditTypes
  <2> QED
    BY <2>2, <2>3, <2>4 DEF EditInv
<1>2. CASE phase # "crashed"
  <2>1. EditTypes /\ SessionInv
    BY <1>2 DEF EditInv
  <2>2. ASSUME SessionCrash PROVE EditInv'
    BY <2>1, <2>2, CrashKeeps DEF EditInv
  <2>3. ~SessionCrash => phase' # "crashed"
    BY <1>2 DEF EditNext, Prepare, StageNext, Staged, StageFailed, CommitNext, Committed,
       CommitFailed, CleanupStaged, Synchronize, UndoNext, Undone, UndoFinished, Finish,
       SessionFails, Replacing, User, allvars, evars
  <2>4. ~SessionCrash => EditTypes' /\ SessionInv'
    BY <1>2, <2>1, StutterKeeps, PrepareKeeps, StageNextKeeps, StagedKeeps,
       StageFailedKeeps, CommitNextKeeps, CommittedKeeps, CommitFailedKeeps, CleanupKeeps,
       SynchronizeKeeps, UndoNextKeeps, UndoneKeeps, RollbackKeeps, FinishKeeps, CallKeeps,
       UserKeeps DEF EditNext
  <2> QED
    BY <2>2, <2>3, <2>4 DEF EditInv
<1> QED
  BY <1>1, <1>2

\* The invariant everything below follows from.
THEOREM EditInvariant == EditSpec => []EditInv
BY InitKeeps, EditKeeps, PTL DEF EditSpec

\* A session that failed has left every file with the text it found, except
\* where its user wrote it or its error names it (rollback_committed_edits).
THEOREM FailedSessionsRestore == EditSpec => []FailedSessionRestores
<1>1. EditInv => FailedSessionRestores
  <2> SUFFICES ASSUME EditInv, phase = "failed", NEW f \in Files
               PROVE  \/ Text(f) = Base
                      \/ f \in touched /\ (Text(f) \notin Versions \/ f \in reported)
                      \/ f \in reported /\ Faults # {}
    BY DEF FailedSessionRestores
  <2>1. StepFollowsPhase /\ TextsAreFine /\ FailuresAreBlamed /\ Done = <<>>
    BY DEF EditInv, SessionInv
  <2>2. step = "idle"
    BY <2>1 DEF StepFollowsPhase, Quiet
  <2>3. Now(f, Base)
    BY <2>1 DEF Now, Gives
  <2>4. Fine(f, Text(f), Base)
    BY <2>1, <2>2, <2>3, ReplaceAssumption DEF TextsAreFine, Exchanged
  <2>5. f \in reported => f \in touched \/ Faults # {}
    BY <2>1 DEF FailuresAreBlamed, Blamed
  <2> QED
    BY <2>4, <2>5 DEF Fine
<1> QED
  BY <1>1, EditInvariant, PTL

\* Between two edits, and when the session is over, every document is what is on
\* disk, unless a user touched the file (apply_workspace_edit_inner).
THEOREM DocumentsAlwaysMatch == EditSpec => []DocumentsMatchDisk
<1>1. EditInv => DocumentsMatchDisk
  <2> SUFFICES ASSUME EditInv, phase \in {"run", "ok"}, NEW f \in Files
               PROVE  Text(f) = docs[f] \/ f \in touched
    BY DEF DocumentsMatchDisk
  <2>1. /\ EditTypes /\ StepFollowsPhase /\ TextsAreFine /\ DocsFollowEdits
        /\ FailuresAreBlamed
    BY DEF EditInv, SessionInv
  <2>2. step = "idle"
    BY <2>1 DEF StepFollowsPhase, Quiet
  <2>3. Done = journal
    <3>1. Done = journal \o <<>>
      BY DEF Done
    <3> QED
      BY <2>1, <3>1, ConcatEmptySeq DEF EditTypes
  <2>4. Now(f, docs[f])
    BY <2>1, <2>3 DEF DocsFollowEdits, Told, Now
  <2>5. Fine(f, Text(f), docs[f])
    BY <2>1, <2>2, <2>4 DEF TextsAreFine, Exchanged, EditTypes
  <2>6. f \notin reported
    BY <2>1 DEF FailuresAreBlamed
  <2> QED
    BY <2>5, <2>6 DEF Fine
<1> QED
  BY <1>1, EditInvariant, PTL

\* While one file of an edit is exchanged, every later one is already staged,
\* with the text it is to get (stage_atomic_replacement).
THEOREM AlwaysStagedBefore == EditSpec => []StagedBeforeExchange
<1>1. EditInv => StagedBeforeExchange
  BY DEF EditInv, SessionInv, TempsFollowPhase, StagedCopy, StagedBeforeExchange
<1> QED
  BY <1>1, EditInvariant, PTL

\* However a session ends, no staged copy is still held (with_staged_cleanup).
THEOREM NoStagedCopyEverLeft == EditSpec => []NoStagedCopyLeft
<1>1. EditInv => NoStagedCopyLeft
  BY DEF EditInv, SessionInv, TempsFollowPhase, NoStagedCopyLeft
<1> QED
  BY <1>1, EditInvariant, PTL

-----------------------------------------------------------------------------
(***************************************************************************)
(* Where nobody interferes and nothing fails, the session implements        *)
(* WorkspaceTransaction.                                                    *)
(***************************************************************************)
Calm == open = {} /\ touched = {} /\ phase # "crashed"

\* What the session shows of itself.
Source ==
    IF phase \in {"ok", "failed"} THEN [f \in Files |-> Text(f)]
    ELSE IF Failing THEN [f \in Files |-> Base]
    ELSE JournalText

Outcome ==
    IF phase = "ok" THEN "ok"
    ELSE IF Failing \/ phase = "failed" THEN "failed"
    ELSE "running"

\* A set of naturals with a bound has a largest element.
LEMMA LargestNatural ==
    ASSUME NEW n \in Nat, NEW S, S \subseteq 0 .. n, S # {}
    PROVE  \E m \in S : \A k \in S : k <= m
<1> DEFINE T == {n - k : k \in S}
<1>1. T \subseteq Nat /\ T # {}
  <2>1. \A k \in S : n - k \in Nat
    OBVIOUS
  <2> QED
    BY <2>1
<1>2. PICK x \in T : \A y \in T : ~(<<y, x>> \in OpToRel(<, Nat))
  <2> HIDE DEF T
  <2> QED
    BY <1>1, WFMin, NatLessThanWellFounded
<1>3. \A y \in T : x <= y
  <2> SUFFICES ASSUME NEW y \in T PROVE x <= y
    OBVIOUS
  <2>1. x \in Nat /\ y \in Nat
    BY <1>1
  <2>2. ~(y < x)
    BY <1>2, <2>1 DEF OpToRel
  <2> QED
    BY <2>1, <2>2
<1>4. PICK m \in S : x = n - m
  BY <1>2
<1>5. \A k \in S : k <= m
  <2> SUFFICES ASSUME NEW k \in S PROVE k <= m
    OBVIOUS
  <2>1. n - m <= n - k
    BY <1>3, <1>4
  <2> QED
    BY <2>1
<1> QED
  BY <1>5

\* JournalText is the text that the journal gives.
LEMMA JournalGives ==
    ASSUME NEW j \in Seq(Change), NEW f
    PROVE  LET mine == {k \in DOMAIN j : j[k].file = f}
           IN  Gives(j, Len(j), f, IF mine = {} THEN Base ELSE j[Max(mine)].updated)
<1> DEFINE mine == {k \in DOMAIN j : j[k].file = f}
<1>1. Len(j) \in Nat /\ DOMAIN j = 1 .. Len(j)
  OBVIOUS
<1>2. CASE mine = {}
  BY <1>1, <1>2 DEF Gives
<1>3. CASE mine # {}
  <2>1. mine \subseteq 0 .. Len(j)
    BY <1>1
  <2>2. \E m \in mine : \A k \in mine : k <= m
    <3> HIDE DEF mine
    <3> QED
      BY <1>1, <1>3, <2>1, LargestNatural
  <2>3. Max(mine) \in mine /\ \A k \in mine : k <= Max(mine)
    <3> HIDE DEF mine
    <3>1. \E m \in mine : \A k \in mine : m >= k
      BY <1>1, <2>1, <2>2
    <3>2. Max(mine) \in mine /\ \A k \in mine : Max(mine) >= k
      BY <3>1 DEF Max
    <3> QED
      BY <1>1, <2>1, <3>2
  <2> DEFINE m == Max(mine)
  <2> HIDE DEF m
  <2>4. m \in 1 .. Len(j) /\ j[m].file = f
    BY <1>1, <2>3 DEF m
  <2>5. \A k \in m + 1 .. Len(j) : j[k].file # f
    <3> SUFFICES ASSUME NEW k \in m + 1 .. Len(j), j[k].file = f PROVE FALSE
      OBVIOUS
    <3>1. k \in mine /\ k > m
      BY <1>1, <2>4
    <3>2. k <= m
      BY <2>3, <3>1 DEF m
    <3> QED
      BY <1>1, <2>4, <3>1, <3>2
  <2> QED
    BY <1>3, <2>4, <2>5 DEF Gives, m
<1> QED
  BY <1>2, <1>3

\* Without users and faults, nobody writes beside the session and no call fails.
LEMMA CalmKeeps ==
    ASSUME Styles = {}, Faults = {}, EditTypes, Calm, [EditNext]_allvars
    PROVE  Calm' /\ ~User /\ ~SessionCrash
<1>1. ~User
  BY DEF User, UserStep, OpenTruncating, OpenForUpdate, UserDelete, RenameSave, WriteInPlace, Calm
<1>2. ~SessionCrash
  BY DEF SessionCrash, MayFail
<1>3. Replacing => open' = open
  BY CallMoves DEF Replacing, EditTypes
<1>4. open' = open /\ touched' = touched
  BY <1>1, <1>2, <1>3 DEF EditNext, Prepare, StageNext, Staged, StageFailed, CommitNext, Committed,
       CommitFailed, CleanupStaged, Synchronize, UndoNext, Undone, UndoFinished, Finish,
       SessionFails, Replacing, allvars, vars, evars, Enter, Leave, fsvars
<1>5. phase' # "crashed"
  BY <1>1, <1>2 DEF Calm, EditNext, Prepare, StageNext, Staged, StageFailed, CommitNext, Committed,
       CommitFailed, CleanupStaged, Synchronize, UndoNext, Undone, UndoFinished, Finish,
       SessionFails, Replacing, allvars, evars
<1> QED
  BY <1>1, <1>2, <1>4, <1>5 DEF Calm

\* What is on disk where nobody interferes.
LEMMA CalmTexts ==
    EditInv /\ Calm /\ Faults = {} =>
        /\ phase \in {"run", "ok"} => \A f \in Files : Text(f) = JournalText[f]
        /\ phase = "failed" => \A f \in Files : Text(f) = Base
<1> SUFFICES ASSUME EditInv, Calm, Faults = {}, NEW f \in Files
             PROVE  /\ phase \in {"run", "ok"} => Text(f) = JournalText[f]
                    /\ phase = "failed" => Text(f) = Base
  OBVIOUS
<1>1. /\ EditTypes /\ StepFollowsPhase /\ TextsAreFine /\ DocsFollowEdits
      /\ FailuresAreBlamed /\ (phase = "failed" => Done = <<>>)
  BY DEF EditInv, SessionInv, Calm
<1>2. phase \in {"run", "ok", "failed"} => step = "idle"
  BY <1>1 DEF StepFollowsPhase, Quiet
<1>3. f \notin reported /\ f \notin touched
  BY <1>1 DEF FailuresAreBlamed, Blamed, Calm
<1>4. ASSUME phase \in {"run", "ok"} PROVE Text(f) = JournalText[f]
  <2>1. Done = journal
    <3>1. Done = journal \o <<>>
      BY <1>4 DEF Done
    <3> QED
      BY <1>1, <3>1, ConcatEmptySeq DEF EditTypes
  <2>2. Told(f) /\ docs[f] \in Versions
    BY <1>1, <1>4 DEF DocsFollowEdits, EditTypes
  <2>3. Fine(f, Text(f), docs[f])
    BY <1>1, <1>2, <1>4, <2>1, <2>2 DEF TextsAreFine, Exchanged, Now, Told
  <2>4. Gives(journal, Len(journal), f, JournalText[f])
    BY <1>1, JournalGives DEF EditTypes, JournalText
  <2>5. JournalText[f] = docs[f]
    BY <1>1, <2>2, <2>4, GivesOne DEF Told, EditTypes
  <2> QED
    BY <1>3, <2>3, <2>5 DEF Fine
<1>5. ASSUME phase = "failed" PROVE Text(f) = Base
  <2>1. Now(f, Base)
    BY <1>1, <1>5 DEF Now, Gives
  <2> QED
    BY <1>1, <1>2, <1>3, <1>5, <2>1, ReplaceAssumption DEF TextsAreFine, Exchanged, Fine
<1> QED
  BY <1>4, <1>5

\* The texts of the abstract state, after the step.
LEMMA CalmTextsThen ==
    (EditInv /\ Calm /\ Faults = {} =>
        /\ phase \in {"run", "ok"} => \A f \in Files : Text(f) = JournalText[f]
        /\ phase = "failed" => \A f \in Files : Text(f) = Base)'
BY CalmTexts, PTL

\* The last document of an edit has its text: the journal gives the edit's files
\* their new texts, all at once.
LEMMA JournalGrows ==
    ASSUME NEW j \in Seq(Change), NEW p \in Seq(Change), NEW f, NEW v, NEW w,
           Gives(j, Len(j), f, v), Gives(j \o p, Len(j \o p), f, w),
           \A k \in 1 .. Len(p) : p[k].file # f
    PROVE  w = v
<1> DEFINE d == j \o p
<1>1. /\ Len(j) \in Nat /\ Len(p) \in Nat /\ Len(d) = Len(j) + Len(p)
      /\ \A k \in 1 .. Len(j) : d[k] = j[k]
      /\ \A k \in Len(j) + 1 .. Len(d) : d[k] = p[k - Len(j)]
  OBVIOUS
<1> HIDE DEF d
<1>2. Gives(d, Len(j), f, v)
  BY <1>1, GivesAgree
<1>3. \A k \in Len(j) + 1 .. Len(d) : d[k].file # f
  BY <1>1
<1>4. Len(d) \in Nat /\ Len(j) <= Len(d)
  BY <1>1
<1>5. Gives(d, Len(d), f, v)
  BY <1>1, <1>2, <1>3, <1>4, GivesNothing
<1> QED
  BY <1>4, <1>5, GivesOne DEF d

\* An edit of a transaction is a step of the abstract one.
LEMMA EditApplies ==
    ASSUME EditTypes, EditTypes', StepFollowsPhase, phase = "sync",
           journal' = journal \o prepared
    PROVE  \E changed \in (SUBSET Files) \ {{}}, updated \in [Files -> Versions] :
              JournalText' = [f \in Files |-> IF f \in changed THEN updated[f] ELSE JournalText[f]]
<1> DEFINE changed == {prepared[k].file : k \in 1 .. Len(prepared)}
<1>1. pos \in 1 .. Len(prepared)
  BY DEF StepFollowsPhase, Editing
<1>2. \A k \in 1 .. Len(prepared) : prepared[k] \in Change
  BY DEF EditTypes
<1>3. changed \in (SUBSET Files) \ {{}}
  <2>1. \A k \in 1 .. Len(prepared) : prepared[k].file \in Files
    BY <1>2 DEF Change
  <2>2. prepared[pos].file \in changed
    BY <1>1
  <2> QED
    BY <2>1, <2>2
<1>4. \A f \in Files : Gives(journal, Len(journal), f, JournalText[f])
  BY JournalGives DEF JournalText, EditTypes
<1>5. \A f \in Files : Gives(journal', Len(journal'), f, JournalText'[f])
  BY JournalGives DEF JournalText, EditTypes
<1>6. JournalText' \in [Files -> Versions]
  <2>1. \A f \in Files : JournalText'[f] \in Versions
    <3> SUFFICES ASSUME NEW f \in Files PROVE JournalText'[f] \in Versions
      OBVIOUS
    <3>1. \A k \in 1 .. Len(journal') : journal'[k] \in Change
      BY DEF EditTypes
    <3>2. \A k \in 1 .. Len(journal') : journal'[k].updated \in Versions
      BY <3>1 DEF Change
    <3> QED
      BY <1>5, <3>2, ReplaceAssumption DEF Gives
  <2>2. JournalText' = [f \in Files |-> JournalText'[f]]
    BY DEF JournalText
  <2> QED
    BY <2>1, <2>2
<1>7. \A f \in Files : f \notin changed => JournalText'[f] = JournalText[f]
  <2> SUFFICES ASSUME NEW f \in Files, f \notin changed PROVE JournalText'[f] = JournalText[f]
    OBVIOUS
  <2>1. \A k \in 1 .. Len(prepared) : prepared[k].file # f
    OBVIOUS
  <2>2. journal \in Seq(Change) /\ prepared \in Seq(Change)
    BY DEF EditTypes
  <2>3. Gives(journal \o prepared, Len(journal \o prepared), f, JournalText'[f])
    BY <1>5
  <2> QED
    BY <1>4, <2>1, <2>2, <2>3, JournalGrows
<1> HIDE DEF changed
<1>8. JournalText' = [f \in Files |-> IF f \in changed THEN JournalText'[f] ELSE JournalText[f]]
  BY <1>6, <1>7
<1> QED
  BY <1>3, <1>6, <1>8

\* Seen from outside, a step of the session is a step of the transaction, or none.
LEMMA StepImplements ==
    ASSUME Styles = {}, Faults = {}, EditInv, EditInv', Calm, Calm', [EditNext]_allvars
    PROVE  \/ UNCHANGED <<Source, Outcome>>
           \/ /\ Outcome = "running" /\ Outcome' = "running"
              /\ \E changed \in SUBSET Files, updated \in [Files -> Versions] :
                    /\ changed # {}
                    /\ Source' = [f \in Files |-> IF f \in changed THEN updated[f] ELSE Source[f]]
           \/ Outcome = "running" /\ Outcome' = "ok" /\ Source' = Source
           \/ Outcome = "running" /\ Outcome' = "failed" /\ Source' = [f \in Files |-> Base]
<1>1. EditTypes /\ EditTypes' /\ StepFollowsPhase
  BY DEF EditInv, SessionInv, Calm
<1>2. ~User /\ ~SessionCrash
  BY <1>1, CalmKeeps
<1>3. /\ phase \in {"run", "ok"} => \A f \in Files : Text(f) = JournalText[f]
      /\ phase = "failed" => \A f \in Files : Text(f) = Base
  BY CalmTexts
<1>4. /\ phase' \in {"run", "ok"} => \A f \in Files : Text(f)' = JournalText'[f]
      /\ phase' = "failed" => \A f \in Files : Text(f)' = Base
  BY CalmTextsThen
<1>5. JournalText = [f \in Files |-> JournalText[f]]
  BY DEF JournalText
<1>6. phase' = "failed" => Source' = [f \in Files |-> Base]
  BY <1>4 DEF Source
<1>7. Failing' => Source' = [f \in Files |-> Base] /\ Outcome' = "failed"
  BY DEF Source, Outcome, Failing
<1>8. phase' = "failed" => Outcome' = "failed"
  BY DEF Outcome
<1>9. phase \in Editing \cup {"run", "cleanup"} \/ (phase = "undo" /\ journal # <<>>)
         => Source = JournalText /\ Outcome = "running"
  BY DEF Source, Outcome, Failing, Editing
<1>10. phase' \in Editing \cup {"run", "cleanup"} \/ (phase = "undo" /\ journal # <<>>)'
         => Source' = JournalText' /\ Outcome' = "running"
  BY DEF Source, Outcome, Failing, Editing
<1>11. journal' = journal => JournalText' = JournalText
  BY DEF JournalText
<1>12. CASE \/ StageNext \/ Staged \/ StageFailed \/ CommitNext \/ Committed \/ CommitFailed
            \/ \E changed \in (SUBSET Files) \ {{}}, updated \in [Files -> Versions] :
                  Prepare(changed, updated)
  <2>1. journal' = journal /\ phase \in Editing \cup {"run"} /\ phase' \in Editing \cup {"cleanup"}
    BY <1>12 DEF StageNext, Staged, StageFailed, CommitNext, Committed, CommitFailed, Prepare,
                 Editing, evars
  <2> QED
    BY <1>9, <1>10, <1>11, <2>1
<1>13. CASE CleanupStaged
  <2>1. phase = "cleanup" /\ phase' = "undo" /\ journal' = journal
    BY <1>13 DEF CleanupStaged
  <2> QED
    BY <1>7, <1>9, <1>10, <1>11, <2>1 DEF Failing
<1>14. CASE Synchronize
  <2>1. /\ phase = "sync"
        /\ \/ phase' = "sync" /\ journal' = journal
           \/ phase' = "run" /\ journal' = journal \o prepared
           \/ phase' = "undo" /\ journal' = journal
    BY <1>14 DEF Synchronize
  <2>2. CASE journal' = journal
    BY <1>7, <1>9, <1>10, <1>11, <2>1, <2>2 DEF Failing, Editing
  <2>3. CASE phase' = "run" /\ journal' = journal \o prepared
    <3>1. Source = JournalText /\ Source' = JournalText' /\ Outcome = "running" /\ Outcome' = "running"
      BY <1>9, <1>10, <2>1, <2>3 DEF Editing
    <3> QED
      BY <1>1, <2>1, <2>3, <3>1, EditApplies
  <2> QED
    BY <2>1, <2>2, <2>3
<1>15. CASE UndoNext \/ Undone \/ Replacing
  <2>1. journal' = journal /\ phase' = phase
    BY <1>15 DEF UndoNext, Undone, Replacing, evars
  <2>2. phase \notin {"ok", "failed"}
    <3>1. Replacing => step \in Running
      BY <1>1, CallMoves DEF Replacing, EditTypes
    <3> QED
      BY <1>1, <1>15, <3>1 DEF UndoNext, Undone, StepFollowsPhase, Quiet, Running
  <2> QED
    BY <1>11, <2>1, <2>2 DEF Source, Outcome, Failing
<1>16. CASE UndoFinished
  <2>1. /\ phase = "undo" /\ journal' = <<>>
        /\ phase' = IF journal = <<>> THEN "failed" ELSE "undo"
    BY <1>16 DEF UndoFinished
  <2>2. CASE journal = <<>>
    <3>1. Source = [f \in Files |-> Base] /\ Outcome = "failed"
      BY <2>1, <2>2 DEF Source, Outcome, Failing
    <3> QED
      BY <1>6, <1>8, <2>1, <2>2, <3>1
  <2>3. CASE journal # <<>>
    BY <1>7, <1>9, <2>1, <2>3 DEF Failing
  <2> QED
    BY <2>2, <2>3
<1>17. CASE Finish
  <2>1. phase = "run" /\ phase' = "ok" /\ journal' = journal
    BY <1>17 DEF Finish
  <2>2. Source = JournalText /\ Outcome = "running" /\ Outcome' = "ok"
    BY <1>9, <2>1 DEF Outcome
  <2>3. \A f \in Files : Text(f)' = JournalText[f]
    BY <1>4, <1>11, <2>1
  <2>4. Source' = [f \in Files |-> JournalText[f]]
    BY <2>1, <2>3 DEF Source
  <2> QED
    BY <1>5, <2>2, <2>4
<1>18. CASE SessionFails
  <2>1. /\ phase = "run" /\ journal' = <<>>
        /\ phase' = IF journal = <<>> THEN "failed" ELSE "undo"
    BY <1>18 DEF SessionFails
  <2> QED
    BY <1>6, <1>7, <1>8, <1>9, <2>1 DEF Failing
<1>19. CASE UNCHANGED allvars
  BY <1>19 DEF allvars, vars, evars, Source, Outcome, Failing, JournalText, Text, Exists
<1> QED
  BY <1>2, <1>12, <1>13, <1>14, <1>15, <1>16, <1>17, <1>18, <1>19 DEF EditNext

\* With neither users nor failing system calls an edit changes all of its files at
\* once, and a session that fails changes none (LspSession::apply_workspace_edit).
THEOREM EditsImplementTransaction ==
    ASSUME Styles = {}, Faults = {}
    PROVE  EditSpec => EditsAreAtomic
<1>1. EditInit => Atomic!Init
  <2> SUFFICES ASSUME EditInit PROVE Atomic!Init
    OBVIOUS
  <2>1. phase = "run" /\ journal = <<>>
    BY DEF EditInit
  <2>2. JournalText = [f \in Files |-> Base]
    BY <2>1 DEF JournalText
  <2> QED
    BY <2>1, <2>2 DEF Atomic!Init, Failing
<1>2. EditInit => Calm
  BY DEF EditInit, Init, Calm
<1>3. EditInv /\ EditInv' /\ Calm /\ Calm' /\ [EditNext]_allvars => [Atomic!Next]_<<Source, Outcome>>
  <2> SUFFICES ASSUME EditInv, EditInv', Calm, Calm', [EditNext]_allvars
               PROVE  [Atomic!Next]_<<Source, Outcome>>
    OBVIOUS
  <2> QED
    BY StepImplements DEF Atomic!Next, Atomic!Apply, Atomic!Finish, Atomic!Fail, Source, Outcome
<1>4. EditInv /\ Calm /\ [EditNext]_allvars => Calm'
  BY CalmKeeps DEF EditInv
<1> QED
  BY <1>1, <1>2, <1>3, <1>4, EditInvariant, PTL DEF EditSpec, EditsAreAtomic, Atomic!Spec, Source, Outcome

-----------------------------------------------------------------------------
(***************************************************************************)
(* What users have saved stays on disk through whole sessions.             *)
(***************************************************************************)
IsNamed(i) ==
    (\E f \in Files : target[f] = i) \/ (\E f \in Files : temp[f] = i) \/ i \in kept

OnDisk(s) == \E i \in Inodes : IsNamed(i) /\ content[i] = s

\* Where every writer in place truncates first and every unlink succeeds, an inode
\* with a writer reads as unfinished, and a temporary that may be removed holds
\* no save: only what an exchange displaced may, until it has been validated.
SafeInv ==
    /\ \A i \in open : IsNamed(i) /\ content[i] = Torn
    /\ phase # "crashed" =>
          \A f \in Files : temp[f] # NoInode /\ ~(f = op.file /\ step \in Displaced) =>
              temp[f] \notin open /\ content[temp[f]] \notin Saves
    /\ step = "unlink" => content[temp[op.file]] = op.expected
    /\ step # "undo"
    /\ \A s \in live : OnDisk(s)

\* No step of a call removes a save.
LEMMA CallKeepsSaves ==
    ASSUME "unlink" \notin Faults, TypeOK, NamesDistinct, SafeInv, phase # "crashed",
           phase' = phase, NEW f \in Files, ReplaceStep(f),
           step \in Holding => temp[f] # NoInode
    PROVE  SafeInv'
<1> USE ReplaceAssumption DEF TypeOK, NamesDistinct, SafeInv, IsNamed, OnDisk, Holding, Displaced,
        Contents, Entry, Exists, UserUnchanged, Goto, MayFail
<1>1. CASE StageCreate(f)
  BY <1>1 DEF StageCreate, Free, Named
<1>2. CASE StageFill(f)
  BY <1>2 DEF StageFill
<1>3. CASE Recheck(f)
  BY <1>3 DEF Recheck
<1>4. CASE Exchange(f)
  BY <1>4 DEF Exchange, Swap
<1>5. CASE ValidateDisplaced(f)
  BY <1>5 DEF ValidateDisplaced
<1>6. CASE RemoveDisplaced(f)
  BY <1>6 DEF RemoveDisplaced, Unlink
<1>7. CASE Restore(f)
  BY <1>7 DEF Restore
<1>8. CASE UndoExchange(f)
  BY <1>8 DEF UndoExchange, Swap, Keep
<1>9. CASE Discard(f)
  BY <1>9 DEF Discard, Unlink, Keep
<1> QED
  BY <1>1, <1>2, <1>3, <1>4, <1>5, <1>6, <1>7, <1>8, <1>9 DEF ReplaceStep

\* A user supersedes only the text that the user's save replaces.
LEMMA UserKeepsSaves ==
    ASSUME "update" \notin Styles, TypeOK, phase # "crashed" => NamesDistinct, SafeInv,
           step = "unlink" => temp[op.file] # NoInode /\ phase # "crashed", UserStep, phase' = phase
    PROVE  SafeInv'
<1> USE ReplaceAssumption DEF TypeOK, NamesDistinct, SafeInv, IsNamed, OnDisk, Displaced,
        Contents, Entry, Exists, CallUnchanged, Superseded
<1>1. ASSUME NEW f \in Files, OpenTruncating(f) PROVE SafeInv'
  BY <1>1 DEF OpenTruncating
<1>2. ASSUME NEW f \in Files, OpenForUpdate(f) PROVE SafeInv'
  BY <1>2 DEF OpenForUpdate
<1>3. ASSUME NEW f \in Files, UserDelete(f) PROVE SafeInv'
  BY <1>3 DEF UserDelete
<1>4. ASSUME NEW f \in Files, NEW s \in Saves, RenameSave(f, s) PROVE SafeInv'
  BY <1>4 DEF RenameSave, Free, Named
<1>5. ASSUME NEW i \in Inodes, NEW s \in Saves, WriteInPlace(i, s) PROVE SafeInv'
  BY <1>5 DEF WriteInPlace
<1> QED
  BY <1>1, <1>2, <1>3, <1>4, <1>5 DEF UserStep

\* The session itself writes nothing, and removes only staged copies.
LEMMA SessionKeepsSaves ==
    ASSUME EditInv, SafeInv, [EditNext]_allvars, ~Replacing, ~User
    PROVE  SafeInv'
<1>1. CASE CleanupStaged
  <2>1. /\ phase = "cleanup" /\ phase' = "undo" /\ kept \subseteq kept'
        /\ temp' = [f \in Files |-> NoInode]
        /\ UNCHANGED <<target, content, open, saved, live, step, op, calls>>
    BY <1>1 DEF CleanupStaged
  <2>2. step = "idle"
    BY <2>1 DEF EditInv, SessionInv, StepFollowsPhase, Quiet
  <2>3. \A f \in Files : temp[f] # NoInode => temp[f] \notin open /\ content[temp[f]] \notin Saves
    BY <2>1, <2>2 DEF SafeInv, Displaced
  <2>4. TypeOK
    BY DEF EditInv, EditTypes
  <2>5. \A i \in open : IsNamed(i)' /\ content[i] = Torn
    BY <2>1, <2>3, <2>4, ReplaceAssumption DEF SafeInv, IsNamed, TypeOK
  <2>6. \A s \in live : OnDisk(s)'
    BY <2>1, <2>3, <2>4, ReplaceAssumption DEF SafeInv, OnDisk, IsNamed, TypeOK
  <2> QED
    BY <2>1, <2>2, <2>5, <2>6 DEF SafeInv
<1>2. CASE ~CleanupStaged
  <2>1. UNCHANGED <<target, temp, kept, content, open, saved, live>>
    BY <1>2 DEF EditNext, Prepare, StageNext, Staged, StageFailed, CommitNext, Committed,
       CommitFailed, Synchronize, UndoNext, Undone, UndoFinished, Finish, SessionFails,
       SessionCrash, Enter, Leave, fsvars, vars, allvars
  <2>2. step' \in {"idle", "staging", "staged", "crashed"} \/ (step' = step /\ op' = op)
    BY <1>2 DEF EditNext, Prepare, StageNext, Staged, StageFailed, CommitNext, Committed,
       CommitFailed, Synchronize, UndoNext, Undone, UndoFinished, Finish, SessionFails,
       SessionCrash, Enter, Leave, Goto, fsvars, vars, allvars
  <2>3. step' \in Displaced => step' = step /\ op' = op
    BY <2>2 DEF Displaced
  <2>4. phase' # "crashed" => phase # "crashed" /\ (step \notin Displaced \/ (step' = step /\ op' = op))
    <3>1. step \in Displaced => ~(\/ StageNext \/ Staged \/ StageFailed \/ CommitNext \/ Committed
                                  \/ CommitFailed \/ UndoNext \/ Undone)
      BY DEF Displaced, StageNext, Staged, StageFailed, CommitNext, Committed, CommitFailed,
             UndoNext, Undone, Enter, Leave, Results
    <3>2. phase' # "crashed" => phase # "crashed" /\ ~SessionCrash
      BY DEF EditNext, Prepare, StageNext, Staged, StageFailed, CommitNext, Committed,
         CommitFailed, CleanupStaged, Synchronize, UndoNext, Undone, UndoFinished, Finish,
         SessionFails, SessionCrash, allvars, evars
    <3> QED
      BY <1>2, <3>1, <3>2 DEF EditNext, Prepare, Synchronize, UndoFinished, Finish, SessionFails,
         vars, allvars
  <2> QED
    BY <2>1, <2>3, <2>4 DEF SafeInv, IsNamed, OnDisk, Displaced
<1> QED
  BY <1>1, <1>2

\* No save is lost to a session of any number of edits, however it ends, as long as
\* users save by renaming or by truncating and writing, and removing a file does
\* not fail (replace_staged_if_unchanged_with, with_staged_cleanup).
THEOREM SessionsLoseNoSave ==
    ASSUME "update" \notin Styles, "unlink" \notin Faults
    PROVE  EditSpec => []NoSaveLost
<1>1. EditInit => SafeInv
  BY DEF EditInit, Init, SafeInv
<1>2. EditInv /\ SafeInv /\ [EditNext]_allvars => SafeInv'
  <2> SUFFICES ASSUME EditInv, SafeInv, [EditNext]_allvars PROVE SafeInv'
    OBVIOUS
  <2>1. /\ TypeOK /\ EditTypes
        /\ phase = "crashed" => step = "crashed"
        /\ phase # "crashed" => NamesDistinct /\ TempsFollowPhase
    BY DEF EditInv, EditTypes, SessionInv
  <2>2. CASE Replacing
    <3> PICK f \in Files : ReplaceStep(f)
      BY <2>2 DEF Replacing
    <3>1. f = op.file /\ step \in Running /\ phase' = phase
      BY <2>1, <2>2, CallMoves DEF Replacing, evars
    <3>2. phase # "crashed"
      BY <2>1, <3>1 DEF Running
    <3>3. step \in Holding => temp[f] # NoInode
      BY <2>1, <3>1, <3>2 DEF TempsFollowPhase
    <3> QED
      BY <2>1, <3>1, <3>2, <3>3, CallKeepsSaves
  <2>3. CASE User
    <3>1. step = "unlink" => temp[op.file] # NoInode /\ phase # "crashed"
      BY <2>1 DEF TempsFollowPhase, Holding
    <3>2. UserStep /\ phase' = phase
      BY <2>3 DEF User
    <3> QED
      BY <2>1, <3>1, <3>2, UserKeepsSaves
  <2> QED
    BY <2>2, <2>3, SessionKeepsSaves
<1>3. EditInv /\ SafeInv => NoSaveLost
  <2>1. TypeOK => (NoSaveLost <=> \A s \in live : OnDisk(s))
    BY ReplaceAssumption DEF TypeOK, NoSaveLost, OnDisk, IsNamed, Texts, Named, Entry
  <2> QED
    BY <2>1 DEF EditInv, EditTypes, SafeInv
<1> QED
  BY <1>1, <1>2, <1>3, EditInvariant, PTL DEF EditSpec
=============================================================================
