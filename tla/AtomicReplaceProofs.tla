------------------------ MODULE AtomicReplaceProofs ------------------------
(***************************************************************************)
(* Theorems about AtomicReplace for any number of files, inodes, versions, *)
(* saves and calls.  The safety argument is about names: every inode has   *)
(* at most one name, the temporary name belongs to the call in flight, and *)
(* what a call removes is a text no user wrote.                            *)
(***************************************************************************)
EXTENDS AtomicReplace, TLAPS

\* The steps of a call at which a temporary name exists.
Holding == {"filling", "staged", "exchange", "validate", "unlink", "restore",
            "undo", "discard"}

\* An inode has at most one name, and only the call in flight (or the one a
\* crash interrupted) has a temporary.
NamesDistinct ==
    /\ \A f, g \in Files : Exists(f) /\ target[f] = target[g] => f = g
    /\ \A f, g \in Files : temp[f] # NoInode => temp[f] # target[g]
    /\ \A f \in Files : Exists(f) => target[f] \notin kept
    /\ \A f \in Files : temp[f] # NoInode => temp[f] \notin kept
    /\ \A f \in Files : temp[f] # NoInode =>
          f = op.file /\ step \in Holding \cup {"crashed"}
    /\ step \in Holding => temp[op.file] # NoInode

\* Until the exchange the temporary name is the staged replacement; after it,
\* the temporary name is something else.
StagedPlace ==
    /\ step = "staging" => op.inode = NoInode
    /\ step \in {"filling", "staged", "exchange"} => temp[op.file] = op.inode
    /\ step \in {"validate", "unlink", "restore", "undo"} =>
          temp[op.file] # op.inode
    /\ step = "discard" /\ Exists(op.file) => target[op.file] # op.inode

\* A finished replacement is what gets exchanged; what comes back from an
\* exchange was at the path, so an unfinished text in it has its writer.
TornHasWriter ==
    /\ step \in {"staged", "exchange"} => content[temp[op.file]] # Torn
    /\ step \in {"validate", "unlink", "restore", "undo"}
          /\ content[temp[op.file]] = Torn => temp[op.file] \in open

FrameInv ==
    /\ TypeOK
    /\ NamesDistinct
    /\ StagedPlace
    /\ TornHasWriter
    /\ NeverHalfWritten
    /\ FailureIsUndone

IsNamed(i) ==
    (\E f \in Files : target[f] = i) \/ (\E f \in Files : temp[f] = i) \/ i \in kept

\* A save is on disk when some named inode has its text.
OnDisk(s) == \E i \in Inodes : IsNamed(i) /\ content[i] = s

\* A save that the disk holds, or that the caller knows of, is not lost.
LEMMA NoSaveLostIsOnDisk ==
    TypeOK => (NoSaveLost <=> \A s \in live : OnDisk(s))
BY ReplaceAssumption DEF TypeOK, NoSaveLost, OnDisk, IsNamed, Texts, Named, Entry

\* Strengthening of NoSaveLost where nobody writes in place over a text that
\* was not truncated first, and removing a file does not fail: an in-place
\* writer's inode reads as unfinished until it is done, so a text that
\* validates has no writer, and what a call removes holds no save.
SafeInv ==
    /\ \A i \in open : IsNamed(i) /\ content[i] = Torn
    /\ step \in {"filling", "staged", "exchange", "discard"} =>
          /\ temp[op.file] \notin open
          /\ content[temp[op.file]] \notin Saves
    /\ step = "unlink" => content[temp[op.file]] = op.expected
    /\ step # "undo"
    /\ \A s \in live : OnDisk(s)

-----------------------------------------------------------------------------
\* It holds at the beginning.
LEMMA InitFrame == Init => FrameInv
BY ReplaceAssumption DEF Init, FrameInv, TypeOK, NamesDistinct, StagedPlace,
   TornHasWriter, NeverHalfWritten, FailureIsUndone, Holding, Entry, Contents,
   Running, Results, Exists

\* Every step of the call, of a user, or a crash keeps the names in order.
LEMMA NextFrame == FrameInv /\ [Next]_vars => FrameInv'
<1> USE ReplaceAssumption DEF FrameInv, TypeOK, NamesDistinct, StagedPlace,
        TornHasWriter, NeverHalfWritten, FailureIsUndone, Holding, Entry,
        Contents, Running, Results, Exists, Goto, UserUnchanged,
        CallUnchanged, fsvars
<1> SUFFICES ASSUME FrameInv, [Next]_vars PROVE FrameInv'
    OBVIOUS
<1>1. ASSUME NEW f \in Files, NEW e \in Versions, NEW u \in Versions, Call(f, e, u)
      PROVE  FrameInv'
    BY <1>1 DEF Call
<1>2. ASSUME NEW f \in Files, StageCreate(f) PROVE FrameInv'
  <2>1. CASE Goto("failed") /\ UNCHANGED <<temp, content, op>>
    BY <1>2, <2>1 DEF StageCreate
  <2>2. ASSUME NEW i \in Free,
               temp' = [temp EXCEPT ![f] = i],
               content' = [content EXCEPT ![i] = Torn],
               op' = [op EXCEPT !.inode = i],
               Goto("filling")
        PROVE  FrameInv'
    <3>1. /\ i \in Inodes \ (kept \cup open)
          /\ \A g \in Files : target[g] # i /\ temp[g] # i
      BY <2>2 DEF Free, Named
    <3>2. /\ step = "staging" /\ f = op.file
          /\ UNCHANGED <<target, kept, calls, saved, live, open>>
      BY <1>2 DEF StageCreate
    <3>3. /\ op'.file = op.file /\ op'.inode = i
          /\ op' \in [file: Files, expected: Versions, updated: Versions, inode: Entry]
      BY <2>2, <3>1
    <3>4. TypeOK'
      BY <2>2, <3>1, <3>2, <3>3
    <3>5. NamesDistinct'
      BY <2>2, <3>1, <3>2, <3>3
    <3>6. StagedPlace' /\ TornHasWriter' /\ NeverHalfWritten' /\ FailureIsUndone'
      BY <2>2, <3>1, <3>2, <3>3
    <3>. QED
      BY <3>4, <3>5, <3>6
  <2>. QED
    BY <1>2, <2>1, <2>2 DEF StageCreate
<1>3. ASSUME NEW f \in Files, StageFill(f) PROVE FrameInv'
    BY <1>3 DEF StageFill, MayFail
<1>4. ASSUME NEW f \in Files, Recheck(f) PROVE FrameInv'
    BY <1>4 DEF Recheck, MayFail, Matches
<1>5. ASSUME NEW f \in Files, Exchange(f) PROVE FrameInv'
    BY <1>5 DEF Exchange, Swap, MayFail
<1>6. ASSUME NEW f \in Files, ValidateDisplaced(f) PROVE FrameInv'
    BY <1>6 DEF ValidateDisplaced, MayFail
<1>7. ASSUME NEW f \in Files, RemoveDisplaced(f) PROVE FrameInv'
    BY <1>7 DEF RemoveDisplaced, Unlink, MayFail
<1>8. ASSUME NEW f \in Files, Restore(f) PROVE FrameInv'
    BY <1>8 DEF Restore, MayFail
<1>9. ASSUME NEW f \in Files, UndoExchange(f) PROVE FrameInv'
    BY <1>9 DEF UndoExchange, Swap, Keep, MayFail
<1>10. ASSUME NEW f \in Files, Discard(f) PROVE FrameInv'
    BY <1>10 DEF Discard, Unlink, Keep, MayFail
<1>11. CASE Return
    BY <1>11 DEF Return
<1>12. CASE Crash
    BY <1>12 DEF Crash
<1>13. ASSUME NEW f \in Files, NEW s \in Saves, RenameSave(f, s) PROVE FrameInv'
    BY <1>13 DEF RenameSave, Free, Named
<1>14. ASSUME NEW f \in Files, OpenTruncating(f) PROVE FrameInv'
    BY <1>14 DEF OpenTruncating
<1>15. ASSUME NEW f \in Files, OpenForUpdate(f) PROVE FrameInv'
    BY <1>15 DEF OpenForUpdate
<1>16. ASSUME NEW f \in Files, UserDelete(f) PROVE FrameInv'
    BY <1>16 DEF UserDelete
<1>17. ASSUME NEW i \in Inodes, NEW s \in Saves, WriteInPlace(i, s) PROVE FrameInv'
    BY <1>17 DEF WriteInPlace
<1>18. CASE UNCHANGED vars
    BY <1>18 DEF vars
<1>19. QED
    BY <1>1, <1>2, <1>3, <1>4, <1>5, <1>6, <1>7, <1>8, <1>9, <1>10, <1>11, <1>12, <1>13, <1>14, <1>15, <1>16, <1>17, <1>18 DEF Next, ReplaceStep, UserStep

-----------------------------------------------------------------------------
\* Nothing is lost at the beginning.
LEMMA InitSafe == Init => SafeInv
BY DEF Init, SafeInv

\* No step of a call, of a user or of a crash loses a save.
LEMMA NextSafe ==
    ASSUME "update" \notin Styles, "unlink" \notin Faults
    PROVE  FrameInv /\ FrameInv' /\ SafeInv /\ [Next]_vars => SafeInv'
<1> USE ReplaceAssumption DEF FrameInv, TypeOK, NamesDistinct, StagedPlace,
        SafeInv, OnDisk, IsNamed, Holding, Entry, Contents, Running, Results,
        Exists, Goto, UserUnchanged, CallUnchanged, fsvars
<1> SUFFICES ASSUME FrameInv, FrameInv', SafeInv, [Next]_vars PROVE SafeInv'
    OBVIOUS
<1>1. ASSUME NEW f \in Files, NEW e \in Versions, NEW u \in Versions, Call(f, e, u)
      PROVE  SafeInv'
    BY <1>1 DEF Call
<1>2. ASSUME NEW f \in Files, StageCreate(f) PROVE SafeInv'
    BY <1>2 DEF StageCreate, MayFail, Matches, Free, Named
<1>3. ASSUME NEW f \in Files, StageFill(f) PROVE SafeInv'
    BY <1>3 DEF StageFill, MayFail
<1>4. ASSUME NEW f \in Files, Recheck(f) PROVE SafeInv'
    BY <1>4 DEF Recheck, MayFail, Matches
<1>5. ASSUME NEW f \in Files, Exchange(f) PROVE SafeInv'
    BY <1>5 DEF Exchange, Swap, MayFail
<1>6. ASSUME NEW f \in Files, ValidateDisplaced(f) PROVE SafeInv'
    BY <1>6 DEF ValidateDisplaced, MayFail
<1>7. ASSUME NEW f \in Files, RemoveDisplaced(f) PROVE SafeInv'
    BY <1>7 DEF RemoveDisplaced, Unlink, MayFail
<1>8. ASSUME NEW f \in Files, Restore(f) PROVE SafeInv'
    BY <1>8 DEF Restore, MayFail
<1>9. ASSUME NEW f \in Files, UndoExchange(f) PROVE SafeInv'
    BY <1>9 DEF UndoExchange, Swap
<1>10. ASSUME NEW f \in Files, Discard(f) PROVE SafeInv'
    BY <1>10 DEF Discard, Unlink, MayFail
<1>11. CASE Return
    BY <1>11 DEF Return
<1>12. CASE Crash
    BY <1>12 DEF Crash
<1>13. ASSUME NEW f \in Files, NEW s \in Saves, RenameSave(f, s) PROVE SafeInv'
    BY <1>13 DEF RenameSave, Free, Named, Superseded
<1>14. ASSUME NEW f \in Files, OpenTruncating(f) PROVE SafeInv'
    BY <1>14 DEF OpenTruncating, Superseded
<1>15. ASSUME NEW f \in Files, OpenForUpdate(f) PROVE SafeInv'
    BY <1>15 DEF OpenForUpdate, Superseded
<1>16. ASSUME NEW f \in Files, UserDelete(f) PROVE SafeInv'
    BY <1>16 DEF UserDelete, Superseded
<1>17. ASSUME NEW i \in Inodes, NEW s \in Saves, WriteInPlace(i, s) PROVE SafeInv'
    BY <1>17 DEF WriteInPlace, Superseded
<1>18. CASE UNCHANGED vars
    BY <1>18 DEF vars
<1>19. QED
    BY <1>1, <1>2, <1>3, <1>4, <1>5, <1>6, <1>7, <1>8, <1>9, <1>10, <1>11, <1>12, <1>13, <1>14, <1>15, <1>16, <1>17, <1>18 DEF Next, ReplaceStep, UserStep

-----------------------------------------------------------------------------
\* The frame holds always.
LEMMA FrameInvariant == Spec => []FrameInv
BY InitFrame, NextFrame, PTL DEF Spec

\* TypeOK holds of every state, whatever the constants.
THEOREM TypeCorrect == Spec => []TypeOK
<1>1. FrameInv => TypeOK
    BY DEF FrameInv
<1>. QED
    BY <1>1, FrameInvariant, PTL

\* No reader of a source path ever sees a half-written replacement, for every
\* way users save and every system call that fails (staging syncs the whole
\* text before replace_staged_if_unchanged_with exchanges it).
THEOREM PathIsWhole == Spec => []NeverHalfWritten
<1>1. FrameInv => NeverHalfWritten
    BY DEF FrameInv
<1>. QED
    BY <1>1, FrameInvariant, PTL

\* A call that has failed does not leave what it staged at the path, unless its
\* error says that the restoration failed: for every step that fails, every
\* way users save, and every save between the exchange and its undoing.
THEOREM FailureUndone == Spec => []FailureIsUndone
<1>1. FrameInv => FailureIsUndone
    BY DEF FrameInv
<1>. QED
    BY <1>1, FrameInvariant, PTL

\* No save is lost, also across a crash, as long as users save by renaming or
\* by truncating and removing a file does not fail: validating the displaced
\* inode after the exchange is enough in that case.  The configuration
\* AtomicReplaceUnlinkFault shows a save that is lost when the removal fails.
THEOREM SavesSurvive ==
    ASSUME "update" \notin Styles, "unlink" \notin Faults
    PROVE  Spec => []NoSaveLost
<1>1. Spec => []SafeInv
    BY InitSafe, NextSafe, FrameInvariant, PTL DEF Spec
<1>2. FrameInv /\ SafeInv => NoSaveLost
    BY NoSaveLostIsOnDisk DEF FrameInv, SafeInv
<1>. QED
    BY <1>1, <1>2, FrameInvariant, PTL

\* A source that its user deleted is never brought back by a call: the atomic
\* exchange needs both names, so neither it nor a restoration can recreate one.
THEOREM DeletedStaysDeleted == Spec => NeverResurrects
<1>1. ASSUME TypeOK, [Next]_vars, step' # step,
             NEW f \in Files, ~Exists(f)
      PROVE  ~Exists(f)'
  <2> USE <1>1 DEF TypeOK, Exists, Swap, UserUnchanged, fsvars, Goto
  <2>1. ASSUME NEW g \in Files, ReplaceStep(g) PROVE ~Exists(f)'
    BY <2>1 DEF ReplaceStep, StageCreate, StageFill, Recheck, Exchange,
       ValidateDisplaced, RemoveDisplaced, Restore, UndoExchange, Discard
  <2>2. ASSUME NEW g \in Files, NEW e \in Versions, NEW u \in Versions,
               Call(g, e, u)
        PROVE  ~Exists(f)'
    BY <2>2 DEF Call
  <2>3. ~UserStep /\ ~UNCHANGED vars
    BY DEF UserStep, OpenTruncating, OpenForUpdate, UserDelete, RenameSave,
       WriteInPlace, CallUnchanged, vars
  <2>. QED
    BY <2>1, <2>2, <2>3 DEF Next, Return, Crash
<1>2. TypeOK /\ [Next]_vars =>
        [step' # step => \A f \in Files : ~Exists(f) => ~Exists(f)']_vars
    BY <1>1
<1>. QED
    BY <1>2, TypeCorrect, PTL DEF Spec, NeverResurrects
=============================================================================
