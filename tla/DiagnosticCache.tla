--------------------------- MODULE DiagnosticCache ---------------------------
(***************************************************************************)
(* The project-local diagnostics cache (.aifix/diagnostics.json) and the   *)
(* processes that share it (crates/aifix/src/cache.rs): every operation    *)
(* takes a lock file, loads the cache, changes it, saves it by renaming a  *)
(* temporary over it, and removes the lock file.  A replay also runs git   *)
(* over the working tree while it holds the lock.                          *)
(***************************************************************************)
EXTENDS CacheContents

CONSTANTS
    Workers,     \* aifix processes working in one project
    Requests,    \* the operations they may ask for
    Nobody,      \* the lock file does not exist
    Stale,       \* the lock file outlives its owner, or could not be removed
    Leaked,      \* the lock file of a call that failed before it was its owner
    Absent,      \* there is no cache file
    Torn,        \* a cache file that is not whole
    Retries,     \* how often a process tries to create the lock file (500)
    Faults,      \* what may go wrong, a subset of FaultPoints
    MaxCalls     \* calls in all

FaultPoints ==
    {"acquire", "owner", "reject", "load", "git", "ignore", "save", "remove", "crash"}

UpdateRequest ==
    [op: {"update"}, ds: Seq(Diagnostics), dedupe: BOOLEAN, metrics: BOOLEAN]
ReportRequest ==
    [op: {"report"}, d: Diagnostics, patch: Patches, syntax: BOOLEAN]
ReplayRequest ==
    [op: {"replay"}, ds: Seq(Diagnostics), mode: {"suggest", "dry-run", "apply"}]

ASSUME CacheAssumption ==
    /\ Requests \subseteq UpdateRequest \cup ReportRequest \cup ReplayRequest
    /\ \A r \in Requests : r.op = "update" => r.dedupe \/ r.metrics
    /\ {Nobody, Stale, Leaked} \cap Workers = {}
    /\ Nobody \notin {Stale, Leaked} /\ Stale # Leaked
    /\ {Absent, Torn} \cap Cache = {} /\ Absent # Torn
    /\ Retries \in Nat \ {0}
    /\ MaxCalls \in Nat
    /\ Faults \subseteq FaultPoints

VARIABLES
    file,       \* the cache file
    ignore,     \* .aifix/.gitignore: "absent", "empty" or "written"
    lock,       \* the lock file
    tree,       \* the patches that are applied to the working tree
    pc,         \* where each process is
    request,    \* what its call asks for
    tries,      \* how many attempts it has left to create the lock file
    mem,        \* the cache it has loaded and is changing
    found,      \* for each diagnostic of a replay, whose fix it found
    at,         \* how many of them it has dealt with
    result,     \* the outcome of its call
    fresh,      \* the diagnostics its call reports as new
    reported,   \* history: how often each diagnostic was reported as new
    calls       \* calls made so far

vars == <<file, ignore, lock, tree, pc, request, tries, mem, found, at,
          result, fresh, reported, calls>>

Held == {"load", "change", "git", "save", "ignore", "rename", "unlock"}

TypeOK ==
    /\ file \in Cache \cup {Absent}
    /\ ignore \in {"absent", "empty", "written"}
    /\ lock \in Workers \cup {Nobody, Stale, Leaked}
    /\ tree \subseteq Patches
    /\ pc \in [Workers -> Held \cup {"idle", "acquire", "answer", "crashed"}]
    /\ request \in [Workers -> Requests]
    /\ tries \in [Workers -> 0 .. Retries]
    /\ mem \in [Workers -> Cache]
    /\ found \in [Workers -> Seq(Diagnostics \cup {NoFix})]
    /\ at \in [Workers -> Nat]
    /\ result \in [Workers -> {"none", "ok", "error", "timeout"}]
    /\ fresh \in [Workers -> SUBSET Diagnostics]
    /\ reported \in [Diagnostics -> Nat]
    /\ calls \in 0 .. MaxCalls

Init ==
    /\ file = Absent
    /\ ignore = "absent"
    /\ lock = Nobody
    /\ tree = {}
    /\ pc = [w \in Workers |-> "idle"]
    /\ request \in {[w \in Workers |-> r] : r \in Requests}
    /\ tries = [w \in Workers |-> 0]
    /\ mem = [w \in Workers |-> Empty]
    /\ found = [w \in Workers |-> <<>>]
    /\ at = [w \in Workers |-> 0]
    /\ result = [w \in Workers |-> "none"]
    /\ fresh = [w \in Workers |-> {}]
    /\ reported = [d \in Diagnostics |-> 0]
    /\ calls = 0

MayFail(point) == point \in Faults

Goto(w, s) == pc' = [pc EXCEPT ![w] = s]

\* An error ends the call; the lock guard is dropped on the way out.
FailHolding(w) ==
    /\ Goto(w, "unlock")
    /\ result' = [result EXCEPT ![w] = "error"]

\* What the call loaded and found goes with it.
Forget(w) ==
    /\ mem' = [mem EXCEPT ![w] = Empty]
    /\ found' = [found EXCEPT ![w] = <<>>]
    /\ at' = [at EXCEPT ![w] = 0]
    /\ fresh' = [fresh EXCEPT ![w] = {}]

(***************************************************************************)
(* with_cache_lock.                                                        *)
(***************************************************************************)
Call(w, r) ==
    /\ pc[w] = "idle"
    /\ calls < MaxCalls
    /\ calls' = calls + 1
    /\ Goto(w, "acquire")
    /\ request' = [request EXCEPT ![w] = r]
    /\ tries' = [tries EXCEPT ![w] = Retries]
    /\ UNCHANGED <<file, ignore, lock, tree, mem, found, at, result, fresh, reported>>

\* Another process's lock file is overwritten instead of waited for.
AcquireAnyway(w) ==
    /\ pc[w] = "acquire"
    /\ lock' = w
    /\ Goto(w, "load")
    /\ UNCHANGED <<file, ignore, tree, request, tries, mem, found, at, result,
                   fresh, reported, calls>>

\* The directory cannot be created, or creating the lock file fails for another
\* reason than that it exists: the call ends without a lock file of its own.
AcquireFails(w) ==
    /\ MayFail("acquire")
    /\ pc[w] = "acquire"
    /\ tries[w] > 0
    /\ Goto(w, "answer")
    /\ result' = [result EXCEPT ![w] = "error"]
    /\ UNCHANGED <<file, ignore, lock, tree, request, tries, mem, found, at,
                   fresh, reported, calls>>

\* create_new succeeds: the lock file is this process's.  When its owner line
\* cannot be written the call fails before there is a guard to remove the file:
\* the lock file stays for ever, although nobody was killed.
Acquire(w) ==
    /\ pc[w] = "acquire"
    /\ tries[w] > 0
    /\ lock = Nobody
    /\ \/ /\ lock' = w
          /\ Goto(w, "load")
          /\ UNCHANGED result
       \/ /\ MayFail("owner")
          /\ lock' = Leaked
          /\ Goto(w, "answer")
          /\ result' = [result EXCEPT ![w] = "error"]
    /\ UNCHANGED <<file, ignore, tree, request, tries, mem, found, at, fresh,
                   reported, calls>>

\* The wait for the lock file has no end.
WaitForever(w) ==
    /\ pc[w] = "acquire"
    /\ lock # Nobody
    /\ UNCHANGED vars

\* The lock file exists: sleep and try again, at most Retries times.
Wait(w) ==
    /\ pc[w] = "acquire"
    /\ lock # Nobody
    /\ tries[w] > 0
    /\ tries' = [tries EXCEPT ![w] = tries[w] - 1]
    /\ UNCHANGED <<file, ignore, lock, tree, pc, request, mem, found, at, result,
                   fresh, reported, calls>>

TimeOut(w) ==
    /\ pc[w] = "acquire"
    /\ tries[w] = 0
    /\ Goto(w, "answer")
    /\ result' = [result EXCEPT ![w] = "timeout"]
    /\ UNCHANGED <<file, ignore, lock, tree, request, tries, mem, found, at,
                   fresh, reported, calls>>

\* Only a call that succeeded removes its lock file.
UnlockOnSuccess(w) ==
    /\ pc[w] = "unlock"
    /\ lock' = IF result[w] = "ok" THEN Nobody ELSE lock
    /\ Goto(w, "answer")
    /\ UNCHANGED <<file, ignore, tree, request, tries, mem, found, at, result,
                   fresh, reported, calls>>

\* CacheLock::drop removes the file, whatever the outcome of the call is; when
\* it cannot be removed nobody is told.
Unlock(w) ==
    /\ pc[w] = "unlock"
    /\ \/ lock' = Nobody
       \/ MayFail("remove") /\ lock' = Stale
    /\ Goto(w, "answer")
    /\ UNCHANGED <<file, ignore, tree, request, tries, mem, found, at, result,
                   fresh, reported, calls>>

\* The caller receives the outcome.
Answer(w) ==
    /\ pc[w] = "answer"
    /\ Goto(w, "idle")
    /\ reported' = [d \in Diagnostics |->
                       reported[d] + (IF d \in fresh[w] THEN 1 ELSE 0)]
    /\ result' = [result EXCEPT ![w] = "none"]
    /\ Forget(w)
    /\ UNCHANGED <<file, ignore, lock, tree, request, tries, calls>>

(***************************************************************************)
(* The operations.                                                         *)
(***************************************************************************)

Loaded == IF file = Absent THEN Empty ELSE file

\* raw_load_cache: no file is an empty cache; an unreadable one is an error.
Load(w) ==
    /\ pc[w] = "load"
    /\ \/ /\ file # Torn
          /\ mem' = [mem EXCEPT ![w] = Loaded]
          /\ Goto(w, "change")
          /\ UNCHANGED result
       \/ /\ file = Torn \/ MayFail("load")
          /\ FailHolding(w)
          /\ UNCHANGED mem
    /\ UNCHANGED <<file, ignore, lock, tree, request, tries, found, at, fresh,
                   reported, calls>>

\* The diagnostics to report are taken after they were marked as seen.
UpdateFilteringLate(w) ==
    LET r == request[w]
        counted == IF r.metrics THEN RecordMetrics(mem[w], r.ds) ELSE mem[w]
        marked == IF r.dedupe THEN MarkSeen(counted, r.ds) ELSE counted
    IN  /\ pc[w] = "change"
        /\ r.op = "update"
        /\ mem' = [mem EXCEPT ![w] = marked]
        /\ fresh' = [fresh EXCEPT ![w] = IF r.dedupe THEN Unseen(marked, r.ds) ELSE {}]
        /\ Goto(w, "save")
        /\ UNCHANGED <<file, ignore, lock, tree, request, tries, found, at,
                       result, reported, calls>>

\* filter_unseen_and_save, record_metrics_and_save, record_guidance_and_save
\* and update_diagnostics_and_save, by what the request asks to be done.
Update(w) ==
    LET r == request[w]
        counted == IF r.metrics THEN RecordMetrics(mem[w], r.ds) ELSE mem[w]
    IN  /\ pc[w] = "change"
        /\ r.op = "update"
        /\ mem' = [mem EXCEPT ![w] =
                      IF r.dedupe THEN MarkSeen(counted, r.ds) ELSE counted]
        /\ fresh' = [fresh EXCEPT ![w] =
                        IF r.dedupe THEN Unseen(counted, r.ds) ELSE {}]
        /\ Goto(w, "save")
        /\ UNCHANGED <<file, ignore, lock, tree, request, tries, found, at,
                       result, reported, calls>>

\* record_fix_and_save: a signature that does not match its diagnostic, an
\* empty patch or an unreadable source is refused before anything is saved.
Report(w) ==
    LET r == request[w]
    IN  /\ pc[w] = "change"
        /\ r.op = "report"
        /\ \/ /\ mem' = [mem EXCEPT ![w] = RecordFix(mem[w], r.d, r.patch, r.syntax)]
              /\ Goto(w, "save")
              /\ UNCHANGED result
           \/ /\ MayFail("reject")
              /\ FailHolding(w)
              /\ UNCHANGED mem
        /\ UNCHANGED <<file, ignore, lock, tree, request, tries, found, at, fresh,
                       reported, calls>>

\* The lock file is removed before git runs, because git may be slow.
LookUpUnlocking(w) ==
    LET r == request[w]
    IN  /\ pc[w] = "change"
        /\ r.op = "replay"
        /\ \E signatures \in Lookups(mem[w], r.ds) :
              /\ mem' = [mem EXCEPT ![w] = CountUses(mem[w], signatures)]
              /\ found' = [found EXCEPT ![w] = signatures]
        /\ at' = [at EXCEPT ![w] = 0]
        /\ lock' = Nobody
        /\ Goto(w, IF r.mode = "suggest" THEN "save" ELSE "git")
        /\ UNCHANGED <<file, ignore, tree, request, tries, result, fresh,
                       reported, calls>>

\* replay_cached_fixes: the lookup counts a use of every fix it finds.
LookUp(w) ==
    LET r == request[w]
    IN  /\ pc[w] = "change"
        /\ r.op = "replay"
        /\ \/ /\ \E signatures \in Lookups(mem[w], r.ds) :
                    /\ mem' = [mem EXCEPT ![w] = CountUses(mem[w], signatures)]
                    /\ found' = [found EXCEPT ![w] = signatures]
              /\ at' = [at EXCEPT ![w] = 0]
              /\ Goto(w, IF r.mode = "suggest" THEN "save" ELSE "git")
              /\ UNCHANGED result
           \/ /\ MayFail("reject")
              /\ FailHolding(w)
              /\ UNCHANGED <<mem, found, at>>
        /\ UNCHANGED <<file, ignore, lock, tree, request, tries, fresh, reported,
                       calls>>

Current(w) == found[w][at[w] + 1]

\* A patch applies to a tree that does not contain it already.
Applies(w) == mem[w].fixes[Current(w)].patch \notin tree

\* Nothing was found for this diagnostic, or what was found may not be applied:
\* only a fix cached under the diagnostic's own signature is.
Skipped(w) ==
    \/ Current(w) = NoFix
    \/ request[w].mode = "apply" /\ Current(w) # request[w].ds[at[w] + 1]

SkipFix(w) ==
    /\ pc[w] = "git"
    /\ at[w] < Len(found[w])
    /\ Skipped(w)
    /\ at' = [at EXCEPT ![w] = at[w] + 1]
    /\ UNCHANGED <<file, ignore, lock, tree, pc, request, tries, mem, found,
                   result, fresh, reported, calls>>

\* The next fix found by the lookup: check its patch, and in "apply" mode apply
\* it.  The first patch that git refuses ends the call.
RunGit(w) ==
    /\ pc[w] = "git"
    /\ at[w] < Len(found[w])
    /\ ~Skipped(w)
    /\ \/ /\ Applies(w)
          /\ at' = [at EXCEPT ![w] = at[w] + 1]
          /\ tree' = IF request[w].mode = "apply"
                     THEN tree \cup {mem[w].fixes[Current(w)].patch}
                     ELSE tree
          /\ UNCHANGED <<pc, result>>
       \/ /\ ~Applies(w) \/ MayFail("git")
          /\ FailHolding(w)
          /\ UNCHANGED <<at, tree>>
    /\ UNCHANGED <<file, ignore, lock, request, tries, mem, found, fresh,
                   reported, calls>>

Replayed(w) ==
    /\ pc[w] = "git"
    /\ at[w] = Len(found[w])
    /\ Goto(w, "save")
    /\ UNCHANGED <<file, ignore, lock, tree, request, tries, mem, found, at,
                   result, fresh, reported, calls>>

(***************************************************************************)
(* raw_save_cache.                                                         *)
(***************************************************************************)

\* ensure_cache_gitignore: the file that keeps the cache out of the user's
\* repository is created first and filled next; one that exists is left alone.
SaveIgnore(w) ==
    /\ pc[w] = "save"
    /\ IF ignore = "absent"
         THEN ignore' = "empty" /\ Goto(w, "ignore")
         ELSE UNCHANGED ignore /\ Goto(w, "rename")
    /\ UNCHANGED <<file, lock, tree, request, tries, mem, found, at, result,
                   fresh, reported, calls>>

FillIgnore(w) ==
    /\ pc[w] = "ignore"
    /\ \/ /\ ignore' = "written"
          /\ Goto(w, "rename")
          /\ UNCHANGED <<result, fresh>>
       \/ /\ MayFail("ignore")
          /\ FailHolding(w)
          /\ fresh' = [fresh EXCEPT ![w] = {}]
          /\ UNCHANGED ignore
    /\ UNCHANGED <<file, lock, tree, request, tries, mem, found, at, reported,
                   calls>>

\* The cache file is written in place; a failed write leaves part of it.
RenameInPlace(w) ==
    /\ pc[w] = "rename"
    /\ \/ /\ file' = mem[w]
          /\ Goto(w, "unlock")
          /\ result' = [result EXCEPT ![w] = "ok"]
          /\ UNCHANGED fresh
       \/ /\ MayFail("save")
          /\ file' = Torn
          /\ FailHolding(w)
          /\ fresh' = [fresh EXCEPT ![w] = {}]
    /\ UNCHANGED <<ignore, lock, tree, request, tries, mem, found, at, reported,
                   calls>>

\* A temporary of this process's own is written, synced and renamed over the
\* cache file; an error before the rename leaves the file as it was.
Rename(w) ==
    /\ pc[w] = "rename"
    /\ \/ /\ file' = mem[w]
          /\ Goto(w, "unlock")
          /\ result' = [result EXCEPT ![w] = "ok"]
          /\ UNCHANGED fresh
       \/ /\ MayFail("save")
          /\ FailHolding(w)
          /\ fresh' = [fresh EXCEPT ![w] = {}]
          /\ UNCHANGED file
    /\ UNCHANGED <<ignore, lock, tree, request, tries, mem, found, at, reported,
                   calls>>

\* The process is killed (or panics: the release profile aborts).  The lock
\* file stays; nothing in the code takes a stale one over.
Crash(w) ==
    /\ MayFail("crash")
    /\ pc[w] \notin {"idle", "crashed"}
    /\ Goto(w, "crashed")
    /\ lock' = IF lock = w THEN Stale ELSE lock
    /\ Forget(w)
    /\ UNCHANGED <<file, ignore, tree, request, tries, result, reported, calls>>

\* An editor, or the user, reverts an applied patch.
Revert(p) ==
    /\ MayFail("git")
    /\ p \in tree
    /\ tree' = tree \ {p}
    /\ UNCHANGED <<file, ignore, lock, pc, request, tries, mem, found, at,
                   result, fresh, reported, calls>>

Step(w) ==
    \/ AcquireFails(w) \/ Acquire(w) \/ Wait(w) \/ TimeOut(w)
    \/ Load(w) \/ Update(w) \/ Report(w)
    \/ LookUp(w) \/ SkipFix(w) \/ RunGit(w) \/ Replayed(w)
    \/ SaveIgnore(w) \/ FillIgnore(w) \/ Rename(w)
    \/ Unlock(w) \/ Answer(w)

Next ==
    \/ \E w \in Workers :
          \/ \E r \in Requests : Call(w, r)
          \/ Step(w)
          \/ Crash(w)
    \/ \E p \in Patches : Revert(p)

Spec == Init /\ [][Next]_vars

\* The operating system keeps running every process that was not killed; git,
\* which aifix waits for without a limit, may never end, and nothing has to fail
\* so that a wait for the lock file ends.
FairSpec ==
    Spec /\ \A w \in Workers : WF_vars(Step(w) /\ pc[w] # "git" /\ ~AcquireFails(w))

-----------------------------------------------------------------------------
(***************************************************************************)
(* Properties.                                                             *)
(***************************************************************************)

\* One process at a time is between taking the lock file and removing it, and
\* the lock file is there and its own all that while (with_cache_lock).
MutualExclusion ==
    \A w \in Workers : pc[w] \in Held =>
        /\ lock = w
        /\ \A v \in Workers : pc[v] \in Held => v = w

\* No diagnostic is reported as new twice, however many agents ask for it
\* (filter_unseen_and_save: "returned diagnostics were not previously seen").
ReportedOnce ==
    \A d \in Diagnostics : reported[d] <= 1

\* A diagnostic that the cache suppresses was reported to somebody, or is about
\* to be, unless a process that had asked about it was killed: failing calls do not
\* mark as seen what they do not report.
AskedFor(w, d) == request[w].op = "update" /\ Times(request[w].ds, d) > 0

NotSilenced ==
    file # Absent =>
        \A d \in Diagnostics : file.seen[d] > 0 =>
            \/ reported[d] > 0
            \/ \E w \in Workers : d \in fresh[w] \/ (pc[w] = "crashed" /\ AskedFor(w, d))

\* A patch is applied only as the fix that is cached at that moment for a
\* diagnostic a replay was asked to apply fixes for: never a superseded patch,
\* never an approximate match (replay_cached_fixes runs git under the lock).
AppliesCurrentFix ==
    [][\A p \in tree' \ tree :
          \E w \in Workers, d \in Diagnostics :
              /\ request[w].op = "replay" /\ request[w].mode = "apply"
              /\ Times(request[w].ds, d) > 0
              /\ file # Absent /\ file.fixes[d] # NoFix
              /\ file.fixes[d].patch = p]_vars

\* What the caller can tell of a call's outcome.
Outcome(w) ==
    CASE pc[w] = "idle" -> "idle"
      [] pc[w] = "crashed" -> "dead"
      [] pc[w] \in {"unlock", "answer"} /\ result[w] = "ok" -> "ok"
      [] pc[w] \in {"unlock", "answer"} /\ result[w] # "ok" -> "failed"
      [] OTHER -> "pending"

Ledger == INSTANCE CacheLedger WITH
    ledger  <- Loaded,
    asked   <- request,
    outcome <- [w \in Workers |-> Outcome(w)],
    answer  <- [w \in Workers |-> IF Outcome(w) = "ok" THEN fresh[w] ELSE {}]

\* Parallel calls neither corrupt the file nor lose an update: each call takes
\* effect on the file at once and as a whole, or fails without effect.
Linearizable == Ledger!Spec

\* A call does not wait for the lock file for ever: not for a git that hangs,
\* not for other callers, not for a lock file that a killed process left
\* (CacheLock::acquire gives up after its last attempt).
EveryWaitEnds ==
    \A w \in Workers : pc[w] = "acquire" ~> pc[w] # "acquire"

\* A call that has become the owner of the lock file removes it again, also when
\* it fails, unless it is killed, cannot remove it (Stale) or waits for a git
\* that does not end (CacheLock::drop, with_cache_lock).  A call that fails while
\* it becomes the owner does not: when CacheLock::acquire cannot write the owner
\* line it returns its error without a guard, and the lock file is Leaked.
LockIsReleased ==
    lock # Nobody ~>
        \/ lock \in {Nobody, Stale, Leaked}
        \/ \E w \in Workers : lock = w /\ pc[w] = "git"

\* A cache file never exists without the ignore rules that keep it out of the
\* user's repository.
CacheIgnored ==
    file # Absent => ignore = "written"
=============================================================================
