----------------------- MODULE DiagnosticCacheProofs -----------------------
(***************************************************************************)
(* Theorems about DiagnosticCache for any number of processes, diagnostics *)
(* and calls, and every choice of what may fail.  The argument: the lock   *)
(* file admits one process, so that until it removes the lock file what it *)
(* computed is the effect of its request on the cache file as it is.       *)
(***************************************************************************)
EXTENDS DiagnosticCache, FiniteSetTheorems, TLAPS

-----------------------------------------------------------------------------
(***************************************************************************)
(* Operations take caches to caches.                                       *)
(***************************************************************************)
LEMMA TimesNat ==
    ASSUME NEW S, NEW ds \in Seq(S), NEW d
    PROVE  Times(ds, d) \in Nat
<1>1. DOMAIN ds = 1 .. Len(ds) /\ Len(ds) \in Nat
  OBVIOUS
<1>2. IsFiniteSet(1 .. Len(ds))
  BY <1>1, FS_Interval
<1>3. IsFiniteSet({k \in DOMAIN ds : ds[k] = d})
  BY <1>1, <1>2, FS_Subset
<1> QED
  BY <1>3, FS_CardinalityType DEF Times

\* What occurs in a list of diagnostics has a count of at least one.
LEMMA OccurringIsCounted ==
    ASSUME NEW S, NEW ds \in Seq(S), NEW k \in DOMAIN ds
    PROVE  Times(ds, ds[k]) > 0
<1> DEFINE K == {j \in DOMAIN ds : ds[j] = ds[k]}
<1>1. DOMAIN ds = 1 .. Len(ds) /\ Len(ds) \in Nat
  OBVIOUS
<1>2. IsFiniteSet(K)
  <2>1. IsFiniteSet(1 .. Len(ds))
    BY <1>1, FS_Interval
  <2> QED
    BY <1>1, <2>1, FS_Subset
<1>3. Cardinality(K) # 0
  BY <1>2, FS_EmptySet
<1> QED
  BY <1>2, <1>3, FS_CardinalityType DEF Times

\* The cache of a project without a file is a cache.
LEMMA EmptyIsCache == Empty \in Cache
BY DEF Empty, Cache

\* Recording what a tool reported gives a cache.
LEMMA UpdatesAreCaches ==
    ASSUME NEW c \in Cache, NEW ds \in Seq(Diagnostics)
    PROVE  MarkSeen(c, ds) \in Cache /\ RecordMetrics(c, ds) \in Cache
<1>1. \A d \in Diagnostics : Times(ds, d) \in Nat
  BY TimesNat
<1>2. /\ [d \in Diagnostics |-> c.seen[d] + Times(ds, d)] \in [Diagnostics -> Nat]
      /\ [d \in Diagnostics |-> c.metrics[d] + Times(ds, d)] \in [Diagnostics -> Nat]
  BY <1>1 DEF Cache
<1> QED
  BY <1>2 DEF Cache, MarkSeen, RecordMetrics

\* So does recording a fix.
LEMMA RecordFixIsCache ==
    ASSUME NEW c \in Cache, NEW d \in Diagnostics, NEW patch \in Patches,
           NEW syntax \in BOOLEAN
    PROVE  RecordFix(c, d, patch, syntax) \in Cache
BY DEF Cache, RecordFix, Fix

\* A lookup gives a sequence of answers.
LEMMA LookupsAreSequences ==
    ASSUME NEW c, NEW ds \in Seq(Diagnostics), NEW signatures \in Lookups(c, ds)
    PROVE  signatures \in Seq(Diagnostics \cup {NoFix})
BY DEF Lookups

\* Counting the uses of a lookup gives a cache.
LEMMA CountUsesIsCache ==
    ASSUME NEW c \in Cache, NEW signatures \in Seq(Diagnostics \cup {NoFix})
    PROVE  CountUses(c, signatures) \in Cache
<1>1. \A d \in Diagnostics : Times(signatures, d) \in Nat
  BY TimesNat
<1>2. \A d \in Diagnostics : c.fixes[d] # NoFix =>
          [c.fixes[d] EXCEPT !.uses = @ + Times(signatures, d)] \in Fix
  <2> SUFFICES ASSUME NEW d \in Diagnostics, c.fixes[d] # NoFix
               PROVE  [c.fixes[d] EXCEPT !.uses = @ + Times(signatures, d)] \in Fix
    OBVIOUS
  <2>1. c.fixes[d] \in Fix
    BY DEF Cache
  <2>2. \A x \in Fix, n \in Nat : [x EXCEPT !.uses = @ + n] \in Fix
    BY DEF Fix
  <2> QED
    BY <1>1, <2>1, <2>2
<1> QED
  BY <1>2 DEF Cache, CountUses

\* Every request is of one of the kinds that the processes handle.
LEMMA RequestKinds ==
    ASSUME NEW r \in Requests
    PROVE  /\ r.op = "update" => r \in UpdateRequest
           /\ r.op = "report" => r \in ReportRequest
           /\ r.op = "replay" => r \in ReplayRequest
BY CacheAssumption DEF UpdateRequest, ReportRequest, ReplayRequest

-----------------------------------------------------------------------------
(***************************************************************************)
(* The invariant.                                                          *)
(***************************************************************************)

\* The lock file is a process's exactly while it is between taking and
\* removing it.
LockIsHolders == \A w \in Workers : lock = w <=> pc[w] \in Held

Saving == {"save", "ignore", "rename"}

\* What a process has in memory, once its request has been carried out there,
\* is the effect of the request on the cache file.
Carried(w) ==
    LET r == request[w]
        counted == IF r.metrics THEN RecordMetrics(Loaded, r.ds) ELSE Loaded
    IN  \/ /\ r.op = "update"
           /\ mem[w] = IF r.dedupe THEN MarkSeen(counted, r.ds) ELSE counted
           /\ fresh[w] = IF r.dedupe THEN Unseen(Loaded, r.ds) ELSE {}
        \/ /\ r.op = "report"
           /\ mem[w] = RecordFix(Loaded, r.d, r.patch, r.syntax)
           /\ fresh[w] = {}
        \/ /\ r.op = "replay"
           /\ \E signatures \in Lookups(Loaded, r.ds) :
                 mem[w] = CountUses(Loaded, signatures)
           /\ fresh[w] = {}

MemFollowsFile(w) ==
    /\ pc[w] \in {"idle", "acquire", "load", "change", "git", "crashed"} =>
          fresh[w] = {}
    /\ pc[w] = "change" => mem[w] = Loaded
    /\ pc[w] = "git" =>
          /\ request[w].op = "replay"
          /\ found[w] \in Lookups(Loaded, request[w].ds)
          /\ mem[w] = CountUses(Loaded, found[w])
    /\ pc[w] \in Saving => Carried(w)

MemIsCurrent == \A w \in Workers : MemFollowsFile(w)

CacheInv == TypeOK /\ LockIsHolders /\ MemIsCurrent

\* A lock that knows its holder is held by one process at most.
LEMMA HeldIsExclusive == LockIsHolders => MutualExclusion
BY DEF LockIsHolders, MutualExclusion

\* What a process reads from the disk is a cache.
LEMMA LoadedIsCache == TypeOK => Loaded \in Cache
BY EmptyIsCache DEF TypeOK, Loaded

\* The invariant holds at the beginning.
LEMMA InitInv == Init => CacheInv
<1> SUFFICES ASSUME Init PROVE CacheInv
  OBVIOUS
<1>1. TypeOK
  BY CacheAssumption, EmptyIsCache DEF Init, TypeOK
<1>2. LockIsHolders
  BY CacheAssumption DEF Init, LockIsHolders, Held
<1>3. MemIsCurrent
  BY DEF Init, MemIsCurrent, MemFollowsFile, Saving
<1> QED
  BY <1>1, <1>2, <1>3 DEF CacheInv

\* A fix that a replay found is in the cache file, with the patch the replay has.
LEMMA FoundIsCached ==
    ASSUME CacheInv, NEW w \in Workers, pc[w] = "git",
           at[w] < Len(found[w]), Current(w) # NoFix
    PROVE  /\ Current(w) \in Diagnostics
           /\ mem[w].fixes[Current(w)] \in Fix
           /\ Loaded.fixes[Current(w)] \in Fix
           /\ Loaded.fixes[Current(w)] # NoFix
           /\ mem[w].fixes[Current(w)].patch = Loaded.fixes[Current(w)].patch
<1> DEFINE k == at[w] + 1
           ds == request[w].ds
<1>1. /\ found[w] \in Lookups(Loaded, ds)
      /\ mem[w] = CountUses(Loaded, found[w])
      /\ ds \in Seq(Diagnostics)
  BY RequestKinds DEF CacheInv, MemIsCurrent, MemFollowsFile, TypeOK, ReplayRequest
<1>2. k \in DOMAIN ds /\ found[w][k] \in Candidates(Loaded, ds[k])
  <2>1. DOMAIN found[w] = DOMAIN ds
    BY <1>1 DEF Lookups
  <2>2. k \in DOMAIN found[w]
    BY DEF CacheInv, TypeOK
  <2> QED
    BY <1>1, <2>1, <2>2 DEF Lookups
<1>3. Current(w) \in Diagnostics /\ Loaded.fixes[Current(w)] # NoFix
  BY <1>1, <1>2, ContentsAssumption DEF Current, Candidates
<1>4. Loaded.fixes[Current(w)] \in Fix
  BY <1>3, LoadedIsCache DEF CacheInv, Cache
<1>5. mem[w].fixes[Current(w)] =
        [Loaded.fixes[Current(w)] EXCEPT !.uses = @ + Times(found[w], Current(w))]
  BY <1>1, <1>3, LoadedIsCache DEF CountUses, CacheInv, Cache
<1>6. Times(found[w], Current(w)) \in Nat
  BY <1>1, LookupsAreSequences, TimesNat
<1>7. \A x \in Fix, n \in Nat :
        LET y == [x EXCEPT !.uses = @ + n] IN y \in Fix /\ y.patch = x.patch
  BY DEF Fix
<1> QED
  BY <1>3, <1>4, <1>5, <1>6, <1>7

\* Every step keeps the types.
LEMMA NextType == CacheInv /\ [Next]_vars => TypeOK'
<1> SUFFICES ASSUME CacheInv, [Next]_vars PROVE TypeOK'
  OBVIOUS
<1> USE CacheAssumption DEF TypeOK, CacheInv, Held
<1>1. CASE UNCHANGED vars
  BY <1>1 DEF vars
<1>2. ASSUME NEW w \in Workers, NEW r \in Requests, Call(w, r) PROVE TypeOK'
  BY <1>2 DEF Call, Goto
<1>3. ASSUME NEW w \in Workers, Acquire(w) PROVE TypeOK'
  BY <1>3 DEF Acquire, Goto
<1>4. ASSUME NEW w \in Workers, Wait(w) PROVE TypeOK'
  BY <1>4 DEF Wait
<1>5. ASSUME NEW w \in Workers, AcquireFails(w) \/ TimeOut(w) PROVE TypeOK'
  BY <1>5 DEF AcquireFails, TimeOut, Goto
<1>6. ASSUME NEW w \in Workers, Load(w) PROVE TypeOK'
  <2>1. Loaded \in Cache
    BY LoadedIsCache
  <2>2. mem' \in [Workers -> Cache]
    BY <1>6, <2>1 DEF Load
  <2>3. pc' \in [Workers -> Held \cup {"idle", "acquire", "answer", "crashed"}]
        /\ result' \in [Workers -> {"none", "ok", "error", "timeout"}]
    BY <1>6 DEF Load, Goto, FailHolding
  <2> QED
    BY <1>6, <2>2, <2>3 DEF Load
<1>7. ASSUME NEW w \in Workers, Update(w) PROVE TypeOK'
  <2>1. request[w] \in UpdateRequest /\ mem[w] \in Cache
    BY <1>7, RequestKinds DEF Update
  <2>2. mem'[w] \in Cache
    BY <1>7, <2>1, UpdatesAreCaches DEF Update, UpdateRequest
  <2>3. fresh'[w] \subseteq Diagnostics
    BY <1>7 DEF Update, Unseen
  <2> QED
    BY <1>7, <2>2, <2>3 DEF Update, Goto
<1>8. ASSUME NEW w \in Workers, Report(w) PROVE TypeOK'
  <2>1. request[w] \in ReportRequest /\ mem[w] \in Cache
    BY <1>8, RequestKinds DEF Report
  <2>2. mem'[w] \in Cache
    BY <1>8, <2>1, RecordFixIsCache DEF Report, ReportRequest
  <2> QED
    BY <1>8, <2>2 DEF Report, Goto, FailHolding
<1>9. ASSUME NEW w \in Workers, LookUp(w) PROVE TypeOK'
  <2>1. request[w] \in ReplayRequest /\ mem[w] \in Cache
    BY <1>9, RequestKinds DEF LookUp
  <2>2. CASE UNCHANGED <<mem, found, at>>
    BY <1>9, <2>2 DEF LookUp, Goto, FailHolding
  <2>3. ASSUME NEW signatures \in Lookups(mem[w], request[w].ds),
               mem' = [mem EXCEPT ![w] = CountUses(mem[w], signatures)],
               found' = [found EXCEPT ![w] = signatures],
               at' = [at EXCEPT ![w] = 0]
        PROVE  TypeOK'
    <3>1. signatures \in Seq(Diagnostics \cup {NoFix})
      BY <2>1, LookupsAreSequences DEF ReplayRequest
    <3>2. CountUses(mem[w], signatures) \in Cache
      BY <2>1, <3>1, CountUsesIsCache
    <3> QED
      BY <1>9, <2>3, <3>1, <3>2 DEF LookUp, Goto, FailHolding
  <2> QED
    BY <1>9, <2>2, <2>3 DEF LookUp
<1>10. ASSUME NEW w \in Workers, SkipFix(w) PROVE TypeOK'
  BY <1>10 DEF SkipFix
<1>11. ASSUME NEW w \in Workers, RunGit(w) PROVE TypeOK'
  <2>1. pc[w] = "git" /\ at[w] < Len(found[w]) /\ Current(w) # NoFix
    BY <1>11 DEF RunGit, Skipped
  <2>2. mem[w].fixes[Current(w)].patch \in Patches
    BY <2>1, FoundIsCached DEF Fix
  <2>3. tree' \subseteq Patches
    BY <1>11, <2>2 DEF RunGit
  <2>4. /\ pc' \in [Workers -> Held \cup {"idle", "acquire", "answer", "crashed"}]
        /\ result' \in [Workers -> {"none", "ok", "error", "timeout"}]
        /\ at' \in [Workers -> Nat]
    <3>1. CASE at' = [at EXCEPT ![w] = at[w] + 1] /\ UNCHANGED <<pc, result>>
      BY <3>1
    <3>2. CASE FailHolding(w) /\ UNCHANGED at
      BY <3>2 DEF FailHolding, Goto
    <3> QED
      BY <1>11, <3>1, <3>2 DEF RunGit
  <2> QED
    BY <1>11, <2>3, <2>4 DEF RunGit
<1>12. ASSUME NEW w \in Workers, Replayed(w) PROVE TypeOK'
  BY <1>12 DEF Replayed, Goto
<1>13. ASSUME NEW w \in Workers, SaveIgnore(w) PROVE TypeOK'
  BY <1>13 DEF SaveIgnore, Goto
<1>14. ASSUME NEW w \in Workers, FillIgnore(w) PROVE TypeOK'
  BY <1>14 DEF FillIgnore, Goto, FailHolding
<1>15. ASSUME NEW w \in Workers, Rename(w) PROVE TypeOK'
  <2>1. file' \in Cache \cup {Absent}
    BY <1>15 DEF Rename
  <2>2. pc' \in [Workers -> Held \cup {"idle", "acquire", "answer", "crashed"}]
        /\ result' \in [Workers -> {"none", "ok", "error", "timeout"}]
        /\ fresh' \in [Workers -> SUBSET Diagnostics]
    BY <1>15 DEF Rename, Goto, FailHolding
  <2> QED
    BY <1>15, <2>1, <2>2 DEF Rename
<1>16. ASSUME NEW w \in Workers, Unlock(w) PROVE TypeOK'
  BY <1>16 DEF Unlock, Goto
<1>17. ASSUME NEW w \in Workers, Answer(w) PROVE TypeOK'
  BY <1>17, EmptyIsCache DEF Answer, Goto, Forget
<1>18. ASSUME NEW w \in Workers, Crash(w) PROVE TypeOK'
  BY <1>18, EmptyIsCache DEF Crash, Goto, Forget
<1>19. ASSUME NEW p \in Patches, Revert(p) PROVE TypeOK'
  BY <1>19 DEF Revert
<1> QED
  BY <1>1, <1>2, <1>3, <1>4, <1>5, <1>6, <1>7, <1>8, <1>9, <1>10, <1>11, <1>12,
     <1>13, <1>14, <1>15, <1>16, <1>17, <1>18, <1>19 DEF Next, Step

\* An action of one process that respects the lock file leaves it respected.
LEMMA NextLock == CacheInv /\ [Next]_vars => LockIsHolders'
<1> SUFFICES ASSUME CacheInv, [Next]_vars PROVE LockIsHolders'
  OBVIOUS
<1> USE CacheAssumption DEF CacheInv, TypeOK, LockIsHolders, Held
<1>1. CASE UNCHANGED <<lock, pc>>
  BY <1>1
<1>2. ASSUME NEW w \in Workers, Acquire(w) PROVE LockIsHolders'
  BY <1>2 DEF Acquire, Goto
<1>3. ASSUME NEW w \in Workers, Unlock(w) PROVE LockIsHolders'
  BY <1>3 DEF Unlock, Goto
<1>4. ASSUME NEW w \in Workers, Crash(w) PROVE LockIsHolders'
  BY <1>4 DEF Crash, Goto
<1>5. ASSUME NEW w \in Workers, NEW s \in Held, pc[w] \in Held,
             UNCHANGED lock, Goto(w, s)
      PROVE  LockIsHolders'
  BY <1>5 DEF Goto
<1>6. ASSUME NEW w \in Workers, NEW s, s \notin Held, pc[w] \notin Held,
             UNCHANGED lock, Goto(w, s)
      PROVE  LockIsHolders'
  BY <1>6 DEF Goto
<1>7. ASSUME NEW w \in Workers, Step(w) PROVE LockIsHolders'
  <2>1. CASE Acquire(w) \/ Unlock(w)
    BY <2>1, <1>2, <1>3
  <2>2. CASE Wait(w) \/ SkipFix(w)
    BY <2>2, <1>1 DEF Wait, SkipFix
  <2>3. CASE AcquireFails(w) \/ TimeOut(w) \/ Answer(w)
    BY <2>3, <1>6 DEF AcquireFails, TimeOut, Answer
  <2>4. CASE Load(w)
    BY <2>4, <1>5 DEF Load, FailHolding
  <2>5. CASE Update(w) \/ Report(w)
    BY <2>5, <1>5 DEF Update, Report, FailHolding
  <2>6. CASE LookUp(w)
    BY <2>6, <1>5 DEF LookUp, FailHolding
  <2>7. CASE RunGit(w)
    BY <2>7, <1>1, <1>5 DEF RunGit, FailHolding
  <2>8. CASE Replayed(w) \/ SaveIgnore(w)
    BY <2>8, <1>5 DEF Replayed, SaveIgnore
  <2>9. CASE FillIgnore(w) \/ Rename(w)
    BY <2>9, <1>5 DEF FillIgnore, Rename, FailHolding
  <2> QED
    BY <1>7, <2>1, <2>2, <2>3, <2>4, <2>5, <2>6, <2>7, <2>8, <2>9 DEF Step
<1>8. ASSUME NEW w \in Workers, NEW r \in Requests, Call(w, r)
      PROVE  LockIsHolders'
  BY <1>8, <1>6 DEF Call
<1>9. ASSUME NEW p \in Patches, Revert(p) PROVE LockIsHolders'
  BY <1>9, <1>1 DEF Revert
<1> QED
  BY <1>1, <1>4, <1>7, <1>8, <1>9 DEF Next, vars

\* A process keeps what it has while the file and its own state stay.
LEMMA BystanderKeeps ==
    ASSUME NEW v \in Workers, MemFollowsFile(v), UNCHANGED file,
           pc'[v] = pc[v], request'[v] = request[v], mem'[v] = mem[v],
           found'[v] = found[v], fresh'[v] = fresh[v]
    PROVE  MemFollowsFile(v)'
<1>1. Loaded' = Loaded
  BY DEF Loaded
<1>2. Carried(v)' <=> Carried(v)
  BY <1>1 DEF Carried
<1> QED
  BY <1>1, <1>2 DEF MemFollowsFile

\* What one step of a process does to what it has in memory.
LEMMA ActorKeeps ==
    ASSUME CacheInv, NEW w \in Workers, Step(w)
    PROVE  MemFollowsFile(w)'
<1> USE DEF CacheInv, TypeOK, MemIsCurrent, MemFollowsFile, Saving
<1>1. CASE Acquire(w)
  BY <1>1 DEF Acquire, Goto
<1>2. CASE Wait(w)
  BY <1>2, BystanderKeeps DEF Wait
<1>3. CASE AcquireFails(w) \/ TimeOut(w)
  BY <1>3 DEF AcquireFails, TimeOut, Goto
<1>4. CASE Load(w)
  BY <1>4 DEF Load, Goto, FailHolding, Loaded
<1>5. CASE Update(w)
  <2>1. Loaded' = Loaded /\ mem[w] = Loaded
    BY <1>5 DEF Update, Loaded
  <2>2. \A c, ds : Unseen(RecordMetrics(c, ds), ds) = Unseen(c, ds)
    BY DEF Unseen, RecordMetrics
  <2>3. Carried(w)'
    BY <1>5, <2>1, <2>2 DEF Update, Carried
  <2> QED
    BY <1>5, <2>3 DEF Update, Goto
<1>6. CASE Report(w)
  <2>1. Loaded' = Loaded /\ mem[w] = Loaded /\ fresh[w] = {}
    BY <1>6 DEF Report, Loaded
  <2>2. CASE pc' = [pc EXCEPT ![w] = "save"]
           /\ mem' = [mem EXCEPT ![w] = RecordFix(mem[w], request[w].d,
                                           request[w].patch, request[w].syntax)]
    BY <1>6, <2>1, <2>2 DEF Report, Carried
  <2>3. CASE FailHolding(w)
    BY <1>6, <2>3 DEF FailHolding, Goto
  <2> QED
    BY <1>6, <2>2, <2>3 DEF Report, Goto
<1>7. CASE LookUp(w)
  <2>1. Loaded' = Loaded /\ mem[w] = Loaded /\ fresh[w] = {}
    BY <1>7 DEF LookUp, Loaded
  <2>2. CASE FailHolding(w)
    BY <1>7, <2>2 DEF FailHolding, Goto
  <2>3. ASSUME NEW signatures \in Lookups(Loaded, request[w].ds),
               mem' = [mem EXCEPT ![w] = CountUses(Loaded, signatures)],
               found' = [found EXCEPT ![w] = signatures],
               pc'[w] \in {"save", "git"}
        PROVE  MemFollowsFile(w)'
    <3>1. UNCHANGED <<request, fresh>> /\ request[w].op = "replay"
      BY <1>7 DEF LookUp
    <3>2. /\ mem'[w] = CountUses(Loaded', signatures)
          /\ found'[w] = signatures
          /\ signatures \in Lookups(Loaded', request'[w].ds)
      BY <2>1, <2>3, <3>1
    <3>3. Carried(w)'
      BY <2>1, <3>1, <3>2 DEF Carried
    <3> QED
      BY <2>1, <2>3, <3>1, <3>2, <3>3
  <2>4. ASSUME ~FailHolding(w)
        PROVE  /\ pc'[w] \in {"save", "git"}
               /\ \E signatures \in Lookups(Loaded, request[w].ds) :
                     /\ mem' = [mem EXCEPT ![w] = CountUses(Loaded, signatures)]
                     /\ found' = [found EXCEPT ![w] = signatures]
    <3>1. PICK signatures \in Lookups(mem[w], request[w].ds) :
             /\ mem' = [mem EXCEPT ![w] = CountUses(mem[w], signatures)]
             /\ found' = [found EXCEPT ![w] = signatures]
      BY <1>7, <2>4 DEF LookUp
    <3>2. Goto(w, IF request[w].mode = "suggest" THEN "save" ELSE "git")
      BY <1>7, <2>4 DEF LookUp
    <3> QED
      BY <2>1, <3>1, <3>2 DEF Goto
  <2> QED
    BY <2>2, <2>3, <2>4
<1>8. CASE SkipFix(w)
  BY <1>8, BystanderKeeps DEF SkipFix
<1>9. CASE RunGit(w)
  <2>1. CASE UNCHANGED pc
    BY <1>9, <2>1, BystanderKeeps DEF RunGit
  <2>2. CASE FailHolding(w)
    BY <1>9, <2>2 DEF FailHolding, Goto
  <2> QED
    BY <1>9, <2>1, <2>2 DEF RunGit
<1>10. CASE Replayed(w)
  <2>1. Loaded' = Loaded
    BY <1>10 DEF Replayed, Loaded
  <2>2. Carried(w)'
    BY <1>10, <2>1 DEF Replayed, Carried
  <2> QED
    BY <1>10, <2>2 DEF Replayed, Goto
<1>11. CASE SaveIgnore(w) \/ FillIgnore(w)
  <2>1. Loaded' = Loaded /\ pc[w] \in Saving
    BY <1>11 DEF SaveIgnore, FillIgnore, Loaded
  <2>2. CASE pc'[w] = "unlock"
    BY <2>2
  <2>3. CASE pc'[w] \in Saving /\ UNCHANGED fresh
    <3>1. UNCHANGED <<mem, request>>
      BY <1>11 DEF SaveIgnore, FillIgnore
    <3>2. Carried(w) => Carried(w)'
      BY <2>1, <2>3, <3>1 DEF Carried
    <3> QED
      BY <2>1, <2>3, <3>2
  <2>4. pc'[w] = "unlock" \/ (pc'[w] \in Saving /\ UNCHANGED fresh)
    BY <1>11 DEF SaveIgnore, FillIgnore, Goto, FailHolding
  <2> QED
    BY <2>2, <2>3, <2>4
<1>12. CASE Rename(w)
  BY <1>12 DEF Rename, Goto, FailHolding
<1>13. CASE Unlock(w)
  BY <1>13 DEF Unlock, Goto
<1>14. CASE Answer(w)
  BY <1>14 DEF Answer, Goto, Forget
<1> QED
  BY <1>1, <1>2, <1>3, <1>4, <1>5, <1>6, <1>7, <1>8, <1>9, <1>10, <1>11, <1>12,
     <1>13, <1>14 DEF Step

\* A step of one process leaves what the others have alone.
LEMMA OthersUntouched ==
    ASSUME TypeOK, NEW w \in Workers, NEW v \in Workers, v # w,
           Step(w) \/ Crash(w) \/ (\E r \in Requests : Call(w, r))
    PROVE  /\ pc'[v] = pc[v] /\ request'[v] = request[v] /\ mem'[v] = mem[v]
           /\ found'[v] = found[v] /\ fresh'[v] = fresh[v] /\ result'[v] = result[v]
<1> USE DEF TypeOK, Goto, FailHolding, Forget
<1>1. CASE Acquire(w) \/ Wait(w) \/ AcquireFails(w) \/ TimeOut(w) \/ Load(w)
  BY <1>1 DEF Acquire, Wait, AcquireFails, TimeOut, Load
<1>2. CASE Update(w) \/ Report(w)
  BY <1>2 DEF Update, Report
<1>3. CASE LookUp(w)
  BY <1>3 DEF LookUp
<1>4. CASE SkipFix(w) \/ RunGit(w) \/ Replayed(w)
  BY <1>4 DEF SkipFix, RunGit, Replayed
<1>5. CASE SaveIgnore(w) \/ FillIgnore(w)
  BY <1>5 DEF SaveIgnore, FillIgnore
<1>6. CASE Rename(w)
  BY <1>6 DEF Rename
<1>7. CASE Unlock(w) \/ Answer(w)
  BY <1>7 DEF Unlock, Answer
<1>8. CASE Crash(w)
  BY <1>8 DEF Crash
<1>9. CASE \E r \in Requests : Call(w, r)
  BY <1>9 DEF Call
<1> QED
  BY <1>1, <1>2, <1>3, <1>4, <1>5, <1>6, <1>7, <1>8, <1>9 DEF Step

\* Only the rename changes the file.
LEMMA FileChanges ==
    ASSUME NEW w \in Workers,
           Step(w) \/ Crash(w) \/ (\E r \in Requests : Call(w, r))
    PROVE  UNCHANGED file \/ (Rename(w) /\ file' = mem[w])
BY DEF Step, Crash, Call, Acquire, Wait, AcquireFails, TimeOut, Load, Update, Report, LookUp,
   SkipFix, RunGit, Replayed, SaveIgnore, FillIgnore, Rename, Unlock, Answer

\* Every step keeps what a lock holder has read the same as what is on disk.
LEMMA NextMem == CacheInv /\ [Next]_vars => MemIsCurrent'
<1> SUFFICES ASSUME CacheInv, [Next]_vars PROVE MemIsCurrent'
  OBVIOUS
<1> USE DEF MemIsCurrent, CacheInv
<1>1. CASE UNCHANGED <<file, pc, request, mem, found, fresh>>
  BY <1>1, BystanderKeeps
<1>2. ASSUME NEW w \in Workers,
             Step(w) \/ Crash(w) \/ (\E r \in Requests : Call(w, r))
      PROVE  MemIsCurrent'
  <2>1. MemFollowsFile(w)'
    <3>1. CASE Step(w)
      BY <3>1, ActorKeeps
    <3>2. CASE Crash(w)
      BY <3>2 DEF Crash, Goto, Forget, MemFollowsFile, Saving, TypeOK
    <3>3. CASE \E r \in Requests : Call(w, r)
      BY <3>3 DEF Call, Goto, MemFollowsFile, Saving, TypeOK
    <3> QED
      BY <1>2, <3>1, <3>2, <3>3
  <2>2. ASSUME NEW v \in Workers, v # w PROVE MemFollowsFile(v)'
    <3>1. CASE UNCHANGED file
      BY <1>2, <2>2, <3>1, OthersUntouched, BystanderKeeps
    <3>2. CASE Rename(w)
      <4>1. pc[w] \in Held
        BY <3>2 DEF Rename, Held
      <4>2. pc[v] \notin Held
        BY <2>2, <4>1, HeldIsExclusive DEF MutualExclusion
      <4> QED
        BY <1>2, <2>2, <4>2, OthersUntouched DEF MemFollowsFile, Held, Saving
    <3> QED
      BY <1>2, <3>1, <3>2, FileChanges
  <2> QED
    BY <2>1, <2>2
<1>3. ASSUME NEW p \in Patches, Revert(p) PROVE MemIsCurrent'
  BY <1>1, <1>3 DEF Revert
<1> QED
  BY <1>1, <1>2, <1>3 DEF Next, vars

\* The inductive invariant holds always.
THEOREM InvariantHolds == Spec => []CacheInv
<1>1. CacheInv /\ [Next]_vars => CacheInv'
  BY NextType, NextLock, NextMem DEF CacheInv
<1> QED
  BY InitInv, <1>1, PTL DEF Spec

\* The variables of the cache and of the processes always have their types.
THEOREM CacheTypeCorrect == Spec => []TypeOK
<1>1. CacheInv => TypeOK
  BY DEF CacheInv
<1> QED
  BY InvariantHolds, <1>1, PTL

\* Whatever fails, and however many processes there are, no two of them are
\* between taking and removing the lock file (CacheLock).
THEOREM LockExcludes == Spec => []MutualExclusion
<1>1. CacheInv => MutualExclusion
  BY HeldIsExclusive DEF CacheInv
<1> QED
  BY InvariantHolds, <1>1, PTL

\* Every patch that is applied is, at that moment, the cached fix of a
\* diagnostic the replay was asked about.
THEOREM AppliedFixesAreCurrent == Spec => AppliesCurrentFix
<1> DEFINE Justified == \A p \in tree' \ tree :
              \E w \in Workers, d \in Diagnostics :
                  /\ request[w].op = "replay" /\ request[w].mode = "apply"
                  /\ Times(request[w].ds, d) > 0
                  /\ file # Absent /\ file.fixes[d] # NoFix
                  /\ file.fixes[d].patch = p
<1>1. CacheInv /\ [Next]_vars => [Justified]_vars
  <2> SUFFICES ASSUME CacheInv, Next, NEW p \in tree' \ tree
               PROVE  \E w \in Workers, d \in Diagnostics :
                        /\ request[w].op = "replay" /\ request[w].mode = "apply"
                        /\ Times(request[w].ds, d) > 0
                        /\ file # Absent /\ file.fixes[d] # NoFix
                        /\ file.fixes[d].patch = p
    OBVIOUS
  <2>1. PICK w \in Workers : RunGit(w)
    BY DEF Next, Step, Crash, Call, Acquire, Wait, AcquireFails, TimeOut, Load, Update, Report,
       LookUp, SkipFix, Replayed, SaveIgnore, FillIgnore, Rename, Unlock, Answer,
       Revert
  <2> DEFINE k == at[w] + 1
             ds == request[w].ds
             d == Current(w)
  <2>2. /\ pc[w] = "git" /\ at[w] < Len(found[w]) /\ ~Skipped(w)
        /\ request[w].mode = "apply"
        /\ p = mem[w].fixes[d].patch
    BY <2>1 DEF RunGit
  <2>3. d # NoFix /\ d = ds[k]
    BY <2>2 DEF Skipped
  <2>4. /\ d \in Diagnostics
        /\ Loaded.fixes[d] \in Fix
        /\ p = Loaded.fixes[d].patch
    BY <2>2, <2>3, FoundIsCached
  <2>5. request[w].op = "replay" /\ found[w] \in Lookups(Loaded, ds)
    BY <2>2 DEF CacheInv, MemIsCurrent, MemFollowsFile
  <2>6. ds \in Seq(Diagnostics)
    BY <2>5, RequestKinds DEF CacheInv, TypeOK, ReplayRequest
  <2>7. k \in DOMAIN ds
    <3>1. DOMAIN found[w] = DOMAIN ds
      BY <2>5 DEF Lookups
    <3> QED
      BY <2>2, <3>1 DEF CacheInv, TypeOK
  <2>8. Times(ds, d) > 0
    BY <2>3, <2>6, <2>7, OccurringIsCounted
  <2>9. Loaded.fixes[d] # NoFix
    BY <2>2, <2>3, FoundIsCached
  <2>10. file # Absent
    BY <2>4, <2>9 DEF Loaded, Empty
  <2> QED
    BY <2>2, <2>4, <2>5, <2>8, <2>9, <2>10 DEF Loaded
<1> QED
  BY InvariantHolds, <1>1, PTL DEF Spec, AppliesCurrentFix

-----------------------------------------------------------------------------
(***************************************************************************)
(* Reporting.  A diagnostic is new to a call exactly when the file does    *)
(* not have it; from the rename on the file has it.                        *)
(***************************************************************************)
Known(d) == Loaded.seen[d] > 0

\* Steps of a call at which its answer is settled.
Settled == {"unlock", "answer"}

ReportsAreSettled ==
    \A d \in Diagnostics :
        /\ reported[d] <= 1
        /\ reported[d] > 0 => Known(d)
        /\ \A w \in Workers : d \in fresh[w] =>
              /\ reported[d] = 0
              /\ \A v \in Workers : d \in fresh[v] => v = w
              /\ pc[w] \in Settled => Known(d)

\* A process that has d to report, or was killed having asked for it.
Answerable(w, d) == d \in fresh[w] \/ (pc[w] = "crashed" /\ AskedFor(w, d))

NoneSilenced ==
    \A d \in Diagnostics :
        Known(d) => reported[d] > 0 \/ \E w \in Workers : Answerable(w, d)

\* Only what was asked for is reported.
FreshIsAsked ==
    \A w \in Workers, d \in Diagnostics : d \in fresh[w] => AskedFor(w, d)

ReportInv == CacheInv /\ ReportsAreSettled /\ FreshIsAsked

\* What carrying out a request does to the set of known diagnostics.
LEMMA CarriedKnows ==
    ASSUME TypeOK, NEW w \in Workers, Carried(w), NEW d \in Diagnostics
    PROVE  /\ mem[w].seen[d] > 0 <=> (Known(d) \/ d \in fresh[w])
           /\ d \in fresh[w] => ~Known(d)
<1> DEFINE r == request[w]
           counted == IF r.metrics THEN RecordMetrics(Loaded, r.ds) ELSE Loaded
<1>1. Loaded.seen[d] \in Nat
  BY LoadedIsCache DEF Cache
<1>2. CASE r.op = "update"
  <2>1. r \in UpdateRequest
    BY <1>2, RequestKinds DEF TypeOK
  <2>2. Times(r.ds, d) \in Nat
    BY <2>1, TimesNat DEF UpdateRequest
  <2>3. counted.seen[d] = Loaded.seen[d]
    BY LoadedIsCache DEF RecordMetrics, Cache
  <2>4. /\ mem[w] = IF r.dedupe THEN MarkSeen(counted, r.ds) ELSE counted
        /\ fresh[w] = IF r.dedupe THEN Unseen(Loaded, r.ds) ELSE {}
    BY <1>2 DEF Carried
  <2>5. CASE r.dedupe
    <3>1. mem[w].seen[d] = Loaded.seen[d] + Times(r.ds, d)
      <4>1. \A c : "seen" \in DOMAIN c =>
              [c EXCEPT !.seen = [e \in Diagnostics |-> c.seen[e] + Times(r.ds, e)]].seen[d]
              = c.seen[d] + Times(r.ds, d)
        OBVIOUS
      <4>2. "seen" \in DOMAIN counted
        BY LoadedIsCache DEF RecordMetrics, Cache
      <4> QED
        BY <2>3, <2>4, <2>5, <4>1, <4>2 DEF MarkSeen
    <3>2. d \in fresh[w] <=> Times(r.ds, d) > 0 /\ Loaded.seen[d] = 0
      BY <2>4, <2>5 DEF Unseen
    <3> QED
      BY <1>1, <2>2, <3>1, <3>2 DEF Known
  <2>6. CASE ~r.dedupe
    BY <2>1, <2>3, <2>4, <2>6 DEF Known
  <2> QED
    BY <2>5, <2>6
<1>3. CASE r.op = "report"
  BY <1>3, LoadedIsCache DEF Carried, RecordFix, Known, Cache
<1>4. CASE r.op = "replay"
  BY <1>4, LoadedIsCache DEF Carried, CountUses, Known, Cache
<1> QED
  BY <1>2, <1>3, <1>4 DEF Carried

\* No report is wrong at the beginning.
LEMMA InitReports == Init => ReportsAreSettled /\ NoneSilenced /\ FreshIsAsked
BY DEF Init, ReportsAreSettled, NoneSilenced, FreshIsAsked, Known, Loaded, Empty, Settled

\* A killed process stays as it was, and its request with it.
LEMMA CrashedStays ==
    ASSUME TypeOK, [Next]_vars, NEW v \in Workers, pc[v] = "crashed"
    PROVE  pc'[v] = "crashed" /\ request'[v] = request[v]
<1>1. ASSUME NEW w \in Workers,
             Step(w) \/ Crash(w) \/ (\E r \in Requests : Call(w, r))
      PROVE  pc'[v] = "crashed" /\ request'[v] = request[v]
  <2>1. CASE v # w
    BY <1>1, <2>1, OthersUntouched
  <2>2. CASE v = w
    BY <1>1, <2>2 DEF Step, Crash, Call, Acquire, Wait, AcquireFails, TimeOut, Load, Update, Report,
       LookUp, SkipFix, RunGit, Replayed, SaveIgnore, FillIgnore, Rename, Unlock, Answer
  <2> QED
    BY <2>1, <2>2
<1>2. ASSUME NEW p \in Patches, Revert(p)
      PROVE  pc'[v] = "crashed" /\ request'[v] = request[v]
  BY <1>2 DEF Revert
<1>3. CASE UNCHANGED vars
  BY <1>3 DEF vars
<1> QED
  BY <1>1, <1>2, <1>3 DEF Next

\* A call takes what it reports from its own request.
LEMMA FreshStaysAsked ==
    CacheInv /\ FreshIsAsked /\ [Next]_vars => FreshIsAsked'
<1> SUFFICES ASSUME CacheInv, FreshIsAsked, [Next]_vars,
                    NEW v \in Workers, NEW d \in Diagnostics, d \in fresh'[v]
             PROVE  AskedFor(v, d)'
  BY DEF FreshIsAsked
<1>1. CASE fresh'[v] \subseteq fresh[v] /\ request'[v] = request[v]
  BY <1>1 DEF FreshIsAsked, AskedFor
<1>2. ASSUME NEW w \in Workers,
             Step(w) \/ Crash(w) \/ (\E r \in Requests : Call(w, r))
      PROVE  AskedFor(v, d)'
  <2>1. TypeOK /\ MemFollowsFile(w)
    BY DEF CacheInv, MemIsCurrent
  <2>2. CASE v # w
    BY <1>1, <1>2, <2>1, <2>2, OthersUntouched
  <2>3. CASE v = w /\ Update(w)
    BY <2>1, <2>3 DEF Update, Unseen, AskedFor, TypeOK
  <2>4. CASE v = w /\ \E r \in Requests : Call(w, r)
    BY <2>1, <2>4 DEF Call, MemFollowsFile
  <2>5. CASE v = w /\ Crash(w)
    BY <2>1, <2>5 DEF Crash, Forget, TypeOK
  <2>6. CASE v = w /\ Step(w) /\ ~Update(w)
    <3>1. UNCHANGED request
      BY <2>6 DEF Step, Acquire, Wait, AcquireFails, TimeOut, Load, Report, LookUp, SkipFix, RunGit,
         Replayed, SaveIgnore, FillIgnore, Rename, Unlock, Answer
    <3>2. UNCHANGED fresh \/ fresh' = [fresh EXCEPT ![w] = {}]
      BY <2>6 DEF Step, Acquire, Wait, AcquireFails, TimeOut, Load, Report, LookUp, SkipFix, RunGit,
         Replayed, SaveIgnore, FillIgnore, Rename, Unlock, Answer, Forget
    <3> QED
      BY <1>1, <2>1, <2>6, <3>1, <3>2 DEF TypeOK
  <2> QED
    BY <1>2, <2>2, <2>3, <2>4, <2>5, <2>6
<1>3. ASSUME NEW p \in Patches, Revert(p) PROVE AskedFor(v, d)'
  BY <1>1, <1>3 DEF Revert
<1>4. CASE UNCHANGED vars
  BY <1>1, <1>4 DEF vars
<1> QED
  BY <1>2, <1>3, <1>4 DEF Next

\* Five shapes of a step, by what it does to what is known and reported.
Quiet ==
    /\ UNCHANGED <<file, fresh, reported>>
    /\ \A w \in Workers : pc'[w] \in Settled => pc[w] \in Settled \/ fresh[w] = {}

GivesUp(w) ==
    /\ UNCHANGED <<file, reported>>
    /\ fresh' = [fresh EXCEPT ![w] = {}]
    /\ \A v \in Workers : v # w => pc'[v] = pc[v]
    /\ pc[w] \in Saving \/ (pc'[w] = "crashed" /\ UNCHANGED request)

Saves(w) ==
    /\ Carried(w)
    /\ file' = mem[w]
    /\ UNCHANGED <<fresh, reported>>
    /\ pc[w] = "rename"
    /\ \A v \in Workers : v # w => pc'[v] = pc[v]

\* A step of one process is of one of five kinds: it leaves the cache alone, ends
\* its call, saves, records an update or answers.
LEMMA StepShapes ==
    ASSUME CacheInv, NEW w \in Workers,
           Step(w) \/ Crash(w) \/ (\E r \in Requests : Call(w, r))
    PROVE  Quiet \/ GivesUp(w) \/ Saves(w) \/ Update(w) \/ Answer(w)
<1> USE DEF CacheInv, TypeOK, Quiet, Settled, Goto, FailHolding
<1>0. MemFollowsFile(w)
  BY DEF MemIsCurrent
<1>1. CASE Acquire(w) \/ Wait(w) \/ AcquireFails(w) \/ TimeOut(w)
  BY <1>0, <1>1 DEF Acquire, Wait, AcquireFails, TimeOut, MemFollowsFile
<1>2. CASE Load(w)
  BY <1>0, <1>2 DEF Load, MemFollowsFile
<1>3. CASE Report(w)
  BY <1>0, <1>3 DEF Report, MemFollowsFile
<1>4. CASE LookUp(w)
  <2>1. fresh[w] = {} /\ UNCHANGED <<file, fresh, reported>>
    BY <1>0, <1>4 DEF LookUp, MemFollowsFile
  <2>2. \A v \in Workers : v # w => pc'[v] = pc[v]
    BY <1>4 DEF LookUp
  <2> QED
    BY <2>1, <2>2
<1>5. CASE SkipFix(w) \/ Replayed(w)
  BY <1>5 DEF SkipFix, Replayed
<1>6. CASE RunGit(w)
  BY <1>0, <1>6 DEF RunGit, MemFollowsFile
<1>7. CASE SaveIgnore(w)
  BY <1>7 DEF SaveIgnore
<1>8. CASE FillIgnore(w)
  BY <1>8 DEF FillIgnore, GivesUp, Saving
<1>9. CASE Rename(w)
  <2>1. Carried(w)
    BY <1>0, <1>9 DEF Rename, MemFollowsFile, Saving
  <2> QED
    BY <1>9, <2>1 DEF Rename, GivesUp, Saves, Saving
<1>10. CASE Unlock(w)
  BY <1>10 DEF Unlock
<1>11. CASE Crash(w)
  BY <1>11 DEF Crash, Forget, GivesUp
<1>12. CASE \E r \in Requests : Call(w, r)
  BY <1>12 DEF Call
<1> QED
  BY <1>1, <1>2, <1>3, <1>4, <1>5, <1>6, <1>7, <1>8, <1>9, <1>10, <1>11, <1>12
     DEF Step

\* Every step keeps the reports settled and silences none.
LEMMA NextReports ==
    ReportInv /\ [Next]_vars =>
        /\ ReportsAreSettled'
        /\ NoneSilenced => NoneSilenced'
<1> SUFFICES ASSUME ReportInv, [Next]_vars
             PROVE  /\ ReportsAreSettled'
                    /\ NoneSilenced => NoneSilenced'
  OBVIOUS
<1> DEFINE Goal == /\ ReportsAreSettled'
                   /\ NoneSilenced => NoneSilenced'
<1>0. \A v \in Workers, d \in Diagnostics :
         (d \in fresh[v] => d \in fresh'[v]) /\ Answerable(v, d) => Answerable(v, d)'
  BY CrashedStays DEF Answerable, AskedFor, ReportInv, CacheInv
<1>1. CASE Quiet
  <2>1. Loaded' = Loaded
    BY <1>1 DEF Quiet, Loaded
  <2>2. ReportsAreSettled'
    BY <1>1, <2>1 DEF Quiet, ReportInv, ReportsAreSettled, Known
  <2>3. NoneSilenced => NoneSilenced'
    BY <1>0, <1>1, <2>1 DEF Quiet, NoneSilenced, Known
  <2> QED
    BY <2>2, <2>3
<1>2. ASSUME NEW w \in Workers,
             Step(w) \/ Crash(w) \/ (\E r \in Requests : Call(w, r))
      PROVE  Goal
  <2>1. MemFollowsFile(w) /\ TypeOK
    BY DEF ReportInv, CacheInv, MemIsCurrent
  <2>2. CASE GivesUp(w)
    <3>1. \A d \in Diagnostics : Known(d)' <=> Known(d)
      BY <2>2 DEF GivesUp, Known, Loaded
    <3>2. /\ fresh'[w] = {}
          /\ \A v \in Workers : v # w => fresh'[v] = fresh[v] /\ pc'[v] = pc[v]
      BY <2>1, <2>2 DEF GivesUp, TypeOK
    <3>3. ReportsAreSettled'
      BY <2>2, <3>1, <3>2 DEF GivesUp, ReportInv, ReportsAreSettled
    <3>4. \A d \in Diagnostics : d \in fresh[w] => ~Known(d) \/ Answerable(w, d)'
      <4>1. CASE pc[w] \in Saving
        BY <2>1, <4>1, CarriedKnows DEF MemFollowsFile
      <4>2. CASE pc'[w] = "crashed" /\ UNCHANGED request
        BY <4>2 DEF ReportInv, FreshIsAsked, Answerable, AskedFor
      <4> QED
        BY <2>2, <4>1, <4>2 DEF GivesUp
    <3>5. \A d \in Diagnostics, v \in Workers :
            Answerable(v, d) => ~Known(d) \/ Answerable(v, d)'
      BY <1>0, <3>2, <3>4
    <3>6. NoneSilenced => NoneSilenced'
      BY <2>2, <3>1, <3>5 DEF NoneSilenced, GivesUp
    <3> QED
      BY <3>3, <3>6
  <2>3. CASE Saves(w)
    <3>1. Loaded' = mem[w]
      BY <2>1, <2>3, CacheAssumption DEF Saves, Loaded, TypeOK
    <3>2. \A d \in Diagnostics : Known(d)' <=> (Known(d) \/ d \in fresh[w])
      BY <2>1, <2>3, <3>1, CarriedKnows DEF Saves, Known
    <3>3. ReportsAreSettled'
      BY <2>3, <3>2 DEF Saves, ReportInv, ReportsAreSettled
    <3>4. NoneSilenced => NoneSilenced'
      BY <1>0, <2>3, <3>2 DEF Saves, NoneSilenced, Answerable
    <3> QED
      BY <3>3, <3>4
  <2>4. CASE Update(w)
    <3>1. \A d \in Diagnostics : Known(d)' <=> Known(d)
      BY <2>4 DEF Update, Known, Loaded
    <3>2. /\ UNCHANGED reported
          /\ pc'[w] = "save"
          /\ fresh[w] = {}
          /\ \A v \in Workers : v # w => fresh'[v] = fresh[v] /\ pc'[v] = pc[v]
      BY <2>1, <2>4 DEF Update, Goto, TypeOK, MemFollowsFile
    <3>3. \A d \in Diagnostics : d \in fresh'[w] => ~Known(d)
      <4>1. fresh'[w] \subseteq Unseen(Loaded, request[w].ds)
        <5>1. mem[w] = Loaded
          BY <2>1, <2>4 DEF Update, MemFollowsFile
        <5>2. Unseen(RecordMetrics(Loaded, request[w].ds), request[w].ds)
                = Unseen(Loaded, request[w].ds)
          BY DEF Unseen, RecordMetrics
        <5> QED
          BY <2>1, <2>4, <5>1, <5>2 DEF Update, TypeOK
      <4> QED
        BY <4>1 DEF Unseen, Known
    <3>4. \A d \in Diagnostics, v \in Workers :
            d \in fresh[v] /\ v # w => Known(d)
      <4>1. pc[w] \in Held
        BY <2>4 DEF Update, Held
      <4>2. \A v \in Workers : v # w => pc[v] \notin Held
        BY <4>1, HeldIsExclusive DEF ReportInv, CacheInv, MutualExclusion
      <4>3. \A v \in Workers : v # w /\ fresh[v] # {} => pc[v] = "answer"
        BY <4>2 DEF ReportInv, CacheInv, MemIsCurrent, MemFollowsFile, TypeOK, Held
      <4> QED
        BY <4>3 DEF ReportInv, ReportsAreSettled, Settled
    <3>5. \A d \in Diagnostics : ~Known(d) => reported[d] = 0
      BY <2>1 DEF ReportInv, ReportsAreSettled, TypeOK
    <3>6. ReportsAreSettled'
      BY <3>1, <3>2, <3>3, <3>4, <3>5 DEF ReportInv, ReportsAreSettled, Settled
    <3>7. NoneSilenced => NoneSilenced'
      BY <1>0, <3>1, <3>2 DEF NoneSilenced
    <3> QED
      BY <3>6, <3>7
  <2>5. CASE Answer(w)
    <3>1. \A d \in Diagnostics : Known(d)' <=> Known(d)
      BY <2>5 DEF Answer, Known, Loaded
    <3>2. /\ fresh'[w] = {}
          /\ \A v \in Workers : v # w => fresh'[v] = fresh[v] /\ pc'[v] = pc[v]
          /\ \A d \in Diagnostics :
                reported'[d] = IF d \in fresh[w] THEN reported[d] + 1 ELSE reported[d]
          /\ pc[w] = "answer"
      BY <2>1, <2>5 DEF Answer, Forget, Goto, TypeOK
    <3>3. \A d \in Diagnostics : d \in fresh[w] =>
             /\ reported[d] = 0 /\ reported'[d] = 1 /\ Known(d)
             /\ \A v \in Workers : d \notin fresh'[v]
      BY <3>2 DEF ReportInv, ReportsAreSettled, Settled
    <3>4. \A d \in Diagnostics : d \notin fresh[w] =>
             reported'[d] = reported[d] /\ d \notin fresh'[w]
      BY <3>2
    <3>5. ReportsAreSettled'
      BY <3>1, <3>2, <3>3, <3>4 DEF ReportInv, ReportsAreSettled
    <3>6. \A d \in Diagnostics, v \in Workers :
            Answerable(v, d) => reported'[d] > 0 \/ Answerable(v, d)'
      BY <1>0, <3>2, <3>3
    <3>7. \A d \in Diagnostics : reported[d] > 0 => reported'[d] > 0
      BY <2>1, <3>3, <3>4
    <3>8. NoneSilenced => NoneSilenced'
      BY <3>1, <3>6, <3>7 DEF NoneSilenced
    <3> QED
      BY <3>5, <3>8
  <2> QED
    BY <1>1, <1>2, <2>2, <2>3, <2>4, <2>5, StepShapes DEF ReportInv
<1>3. ASSUME NEW p \in Patches, Revert(p) PROVE Goal
  BY <1>1, <1>3 DEF Revert, Quiet
<1>4. CASE UNCHANGED vars
  BY <1>1, <1>4 DEF vars, Quiet
<1> QED
  BY <1>2, <1>3, <1>4 DEF Next

\* However many agents ask, no diagnostic is reported as new twice.
THEOREM NothingReportedTwice == Spec => []ReportedOnce
<1>1. Init => ReportsAreSettled /\ FreshIsAsked
  BY InitReports
<1>2. CacheInv /\ ReportsAreSettled /\ FreshIsAsked /\ [Next]_vars
        => (ReportsAreSettled /\ FreshIsAsked)'
  BY NextReports, FreshStaysAsked DEF ReportInv
<1>3. ReportsAreSettled => ReportedOnce
  BY DEF ReportsAreSettled, ReportedOnce
<1> QED
  BY InvariantHolds, <1>1, <1>2, <1>3, PTL DEF Spec

\* What the cache suppresses was reported, or is about to be, or a process was
\* killed that had asked about it.
THEOREM NothingSilenced == Spec => []NotSilenced
<1>1. Init => ReportsAreSettled /\ FreshIsAsked /\ NoneSilenced
  BY InitReports
<1>2. CacheInv /\ ReportsAreSettled /\ FreshIsAsked /\ NoneSilenced /\ [Next]_vars
        => (ReportsAreSettled /\ FreshIsAsked /\ NoneSilenced)'
  BY NextReports, FreshStaysAsked DEF ReportInv
<1>3. NoneSilenced => NotSilenced
  BY DEF NoneSilenced, NotSilenced, Answerable, Known, Loaded
<1> QED
  BY InvariantHolds, <1>1, <1>2, <1>3, PTL DEF Spec

-----------------------------------------------------------------------------
(***************************************************************************)
(* The cache implements CacheLedger: the rename is the moment at which a   *)
(* call takes effect.                                                      *)
(***************************************************************************)
Outcomes == [w \in Workers |-> Outcome(w)]
Answers == [w \in Workers |-> IF Outcome(w) = "ok" THEN fresh[w] ELSE {}]
ledgerVars == <<Loaded, request, Outcomes, Answers>>

\* The operators of the ledger are those of the cache.
LEMMA SameOperators ==
    /\ Ledger!Empty = Empty
    /\ \A c, ds : /\ Ledger!MarkSeen(c, ds) = MarkSeen(c, ds)
                  /\ Ledger!RecordMetrics(c, ds) = RecordMetrics(c, ds)
                  /\ Ledger!Unseen(c, ds) = Unseen(c, ds)
                  /\ Ledger!Lookups(c, ds) = Lookups(c, ds)
                  /\ Ledger!CountUses(c, ds) = CountUses(c, ds)
    /\ \A c, d, patch, syntax :
          Ledger!RecordFix(c, d, patch, syntax) = RecordFix(c, d, patch, syntax)
<1>0. \A S : Ledger!Cardinality(S) = Cardinality(S)
  BY Zenon DEF Ledger!Cardinality, Cardinality
<1>1. \A ds, d : Ledger!Times(ds, d) = Times(ds, d)
  BY <1>0 DEF Ledger!Times, Times
<1>2. \A c, d : Ledger!Candidates(c, d) = Candidates(c, d)
  BY DEF Ledger!Candidates, Candidates
<1>3. Ledger!Empty = Empty
  BY DEF Ledger!Empty, Empty
<1>4. \A c, ds : Ledger!MarkSeen(c, ds) = MarkSeen(c, ds)
  BY <1>1 DEF Ledger!MarkSeen, MarkSeen
<1>5. \A c, ds : Ledger!RecordMetrics(c, ds) = RecordMetrics(c, ds)
  BY <1>1 DEF Ledger!RecordMetrics, RecordMetrics
<1>6. \A c, ds : Ledger!Unseen(c, ds) = Unseen(c, ds)
  BY <1>1 DEF Ledger!Unseen, Unseen
<1>7. \A c, ds : Ledger!Lookups(c, ds) = Lookups(c, ds)
  BY <1>2 DEF Ledger!Lookups, Lookups
<1>8. \A c, ds : Ledger!CountUses(c, ds) = CountUses(c, ds)
  BY <1>1 DEF Ledger!CountUses, CountUses
<1>9. \A c, d, patch, syntax :
        Ledger!RecordFix(c, d, patch, syntax) = RecordFix(c, d, patch, syntax)
  BY DEF Ledger!RecordFix, RecordFix
<1> QED
  BY <1>3, <1>4, <1>5, <1>6, <1>7, <1>8, <1>9

\* A step of one process moves no other call.
LEMMA OtherCallsStay ==
    ASSUME TypeOK, NEW w \in Workers,
           Step(w) \/ Crash(w) \/ (\E r \in Requests : Call(w, r))
    PROVE  /\ Outcomes' = [Outcomes EXCEPT ![w] = Outcome(w)']
           /\ Answers' = [Answers EXCEPT ![w] =
                             IF Outcome(w)' = "ok" THEN fresh'[w] ELSE {}]
<1>1. \A v \in Workers : v # w =>
        Outcome(v)' = Outcome(v) /\ fresh'[v] = fresh[v]
  BY OthersUntouched DEF Outcome
<1> QED
  BY <1>1 DEF Outcomes, Answers

\* While a call is pending it changes nothing that shows, except that it fails.
LEMMA PendingStep ==
    ASSUME CacheInv, NEW w \in Workers, Step(w), UNCHANGED <<file, request>>,
           Outcome(w) = "pending", Outcome(w)' \in {"pending", "failed"}
    PROVE  [Ledger!Next]_ledgerVars
<1>1. Loaded' = Loaded
  BY DEF Loaded
<1>2. /\ Outcomes' = [Outcomes EXCEPT ![w] = Outcome(w)']
      /\ Answers' = [Answers EXCEPT ![w] = {}]
  BY OtherCallsStay DEF CacheInv
<1>3. Answers' = Answers /\ Outcomes[w] = "pending"
  BY <1>2 DEF Answers, Outcomes
<1>4. CASE Outcome(w)' = "pending"
  BY <1>1, <1>2, <1>3, <1>4 DEF ledgerVars, Outcomes
<1>5. CASE Outcome(w)' = "failed"
  <2>1. Ledger!Refuse(w)
    BY <1>1, <1>2, <1>3, <1>5 DEF Ledger!Refuse, Outcomes, Answers
  <2> QED
    BY <2>1 DEF Ledger!Next
<1> QED
  BY <1>4, <1>5

\* The successful rename is the effect of the call's request on the ledger.
LEMMA RenameTakesEffect ==
    ASSUME CacheInv, NEW w \in Workers, Rename(w), file' = mem[w],
           Goto(w, "unlock"), result' = [result EXCEPT ![w] = "ok"],
           UNCHANGED fresh
    PROVE  Ledger!Next
<1> DEFINE r == request[w]
<1> USE DEF CacheInv
<1>1. Carried(w) /\ pc[w] = "rename"
  BY DEF MemIsCurrent, MemFollowsFile, Saving, Rename
<1>2. Loaded' = mem[w] /\ UNCHANGED request
  BY CacheAssumption DEF TypeOK, Loaded, Rename
<1>3. Outcome(w) = "pending" /\ Outcome(w)' = "ok"
  BY <1>1 DEF TypeOK, Outcome, Goto
<1>4. /\ Outcomes' = [Outcomes EXCEPT ![w] = "ok"]
      /\ Answers' = [Answers EXCEPT ![w] = fresh[w]]
  BY <1>3, OtherCallsStay DEF Step
<1>5. Outcomes[w] = "pending" /\ Answers = [Answers EXCEPT ![w] = {}]
  BY <1>3 DEF Outcomes, Answers
<1>6. Ledger!Succeed(w)
  BY <1>2, <1>4, <1>5 DEF Ledger!Succeed, Outcomes
<1>7. CASE r.op = "update"
  <2>1. /\ mem[w] = IF r.dedupe
                    THEN MarkSeen(IF r.metrics THEN RecordMetrics(Loaded, r.ds)
                                  ELSE Loaded, r.ds)
                    ELSE IF r.metrics THEN RecordMetrics(Loaded, r.ds) ELSE Loaded
        /\ fresh[w] = IF r.dedupe THEN Unseen(Loaded, r.ds) ELSE {}
    BY <1>1, <1>7 DEF Carried
  <2>2. Ledger!Update(w)
    BY <1>2, <1>4, <1>6, <1>7, <2>1, SameOperators DEF Ledger!Update, Answers
  <2> QED
    BY <2>2 DEF Ledger!Next
<1>8. CASE r.op = "report"
  <2>1. mem[w] = RecordFix(Loaded, r.d, r.patch, r.syntax) /\ fresh[w] = {}
    BY <1>1, <1>8 DEF Carried
  <2>2. Ledger!Report(w)
    BY <1>2, <1>4, <1>5, <1>6, <1>8, <2>1, SameOperators DEF Ledger!Report, Answers
  <2> QED
    BY <2>2 DEF Ledger!Next
<1>9. CASE r.op = "replay"
  <2>1. /\ \E signatures \in Lookups(Loaded, r.ds) :
              mem[w] = CountUses(Loaded, signatures)
        /\ fresh[w] = {}
    BY <1>1, <1>9 DEF Carried
  <2>2. Ledger!Replay(w)
    BY <1>2, <1>4, <1>5, <1>6, <1>9, <2>1, SameOperators DEF Ledger!Replay, Answers
  <2> QED
    BY <2>2 DEF Ledger!Next
<1> QED
  BY <1>1, <1>7, <1>8, <1>9 DEF Carried

\* Every step of the cache is a step of the ledger, or shows nothing.
LEMMA StepRefines == CacheInv /\ [Next]_vars => [Ledger!Next]_ledgerVars
<1> SUFFICES ASSUME CacheInv, [Next]_vars PROVE [Ledger!Next]_ledgerVars
  OBVIOUS
<1> USE DEF CacheInv, TypeOK
<1>1. CASE UNCHANGED <<file, request, pc, result, fresh>>
  BY <1>1 DEF ledgerVars, Loaded, Outcomes, Answers, Outcome
<1>2. ASSUME NEW w \in Workers, Step(w) PROVE [Ledger!Next]_ledgerVars
  <2>1. CASE Acquire(w) \/ AcquireFails(w) \/ TimeOut(w)
    BY <2>1, PendingStep DEF Acquire, AcquireFails, TimeOut, Goto, Outcome, Step
  <2>2. CASE Wait(w) \/ SkipFix(w)
    BY <2>2, <1>1 DEF Wait, SkipFix
  <2>3. CASE Load(w)
    BY <2>3, PendingStep DEF Load, Goto, FailHolding, Outcome, Step
  <2>4. CASE Update(w)
    BY <2>4, PendingStep DEF Update, Goto, Outcome, Step
  <2>5. CASE Report(w)
    BY <2>5, PendingStep DEF Report, Goto, FailHolding, Outcome, Step
  <2>6. CASE LookUp(w)
    <3>1. UNCHANGED <<file, request>> /\ Outcome(w) = "pending"
      BY <2>6 DEF LookUp, Outcome
    <3>2. Outcome(w)' \in {"pending", "failed"}
      BY <2>6 DEF LookUp, Goto, FailHolding, Outcome
    <3> QED
      BY <2>6, <3>1, <3>2, PendingStep DEF Step
  <2>7. CASE RunGit(w) \/ Replayed(w)
    BY <2>7, PendingStep DEF RunGit, Replayed, Goto, FailHolding, Outcome, Step
  <2>8. CASE SaveIgnore(w) \/ FillIgnore(w)
    BY <2>8, PendingStep DEF SaveIgnore, FillIgnore, Goto, FailHolding, Outcome, Step
  <2>9. CASE Rename(w)
    <3>1. CASE UNCHANGED file /\ FailHolding(w)
      BY <2>9, <3>1, PendingStep DEF Rename, FailHolding, Goto, Outcome, Step
    <3>2. CASE /\ file' = mem[w] /\ Goto(w, "unlock")
               /\ result' = [result EXCEPT ![w] = "ok"] /\ UNCHANGED fresh
      BY <2>9, <3>2, RenameTakesEffect
    <3> QED
      BY <2>9, <3>1, <3>2 DEF Rename
  <2>10. CASE Unlock(w)
    <3>1. Outcome(w)' = Outcome(w) /\ UNCHANGED <<file, request, fresh>>
      BY <2>10 DEF Unlock, Goto, Outcome
    <3>2. \A v \in Workers : v # w => Outcome(v)' = Outcome(v)
      BY <2>10 DEF Unlock, Goto, Outcome
    <3> QED
      BY <3>1, <3>2 DEF ledgerVars, Loaded, Outcomes, Answers
  <2>11. CASE Answer(w)
    <3>1. Outcome(w) \in {"ok", "failed"} /\ Outcome(w)' = "idle"
      BY <2>11 DEF Answer, Goto, Outcome
    <3>2. /\ Outcomes' = [Outcomes EXCEPT ![w] = "idle"]
          /\ Answers' = [Answers EXCEPT ![w] = {}]
      BY <1>2, <3>1, OtherCallsStay
    <3>3. Ledger!End(w)
      BY <2>11, <3>1, <3>2 DEF Ledger!End, Answer, Loaded, Outcomes, Answers
    <3> QED
      BY <3>3 DEF Ledger!Next
  <2> QED
    BY <1>2, <2>1, <2>2, <2>3, <2>4, <2>5, <2>6, <2>7, <2>8, <2>9, <2>10, <2>11
       DEF Step
<1>3. ASSUME NEW w \in Workers, Crash(w) PROVE [Ledger!Next]_ledgerVars
  <2>1. Outcome(w) # "dead" /\ Outcome(w)' = "dead"
    BY <1>3 DEF Crash, Goto, Outcome
  <2>2. /\ Outcomes' = [Outcomes EXCEPT ![w] = "dead"]
        /\ Answers' = [Answers EXCEPT ![w] = {}]
    BY <1>3, <2>1, OtherCallsStay
  <2>3. Ledger!Die(w)
    BY <1>3, <2>1, <2>2 DEF Ledger!Die, Crash, Loaded, Outcomes, Answers
  <2> QED
    BY <2>3 DEF Ledger!Next
<1>4. ASSUME NEW w \in Workers, NEW r \in Requests, Call(w, r)
      PROVE  [Ledger!Next]_ledgerVars
  <2>1. Outcome(w) = "idle" /\ Outcome(w)' = "pending"
    BY <1>4 DEF Call, Goto, Outcome
  <2>2. /\ Outcomes' = [Outcomes EXCEPT ![w] = "pending"]
        /\ Answers' = [Answers EXCEPT ![w] = {}]
    BY <1>4, <2>1, OtherCallsStay
  <2>3. Answers' = Answers /\ Outcomes[w] = "idle"
    BY <2>1, <2>2 DEF Answers, Outcomes
  <2>4. Ledger!Begin(w)
    BY <1>4, <2>2, <2>3 DEF Ledger!Begin, Call, Loaded, Outcomes, Answers
  <2> QED
    BY <2>4 DEF Ledger!Next
<1>5. ASSUME NEW p \in Patches, Revert(p) PROVE [Ledger!Next]_ledgerVars
  BY <1>1, <1>5 DEF Revert
<1> QED
  BY <1>1, <1>2, <1>3, <1>4, <1>5 DEF Next, vars

\* Whatever fails, the *_and_save functions are atomic: each call takes effect
\* as a whole on the current cache, or not at all.
THEOREM CallsAreAtomic == Spec => Linearizable
<1>1. Init => Ledger!Init
  <2> SUFFICES ASSUME Init PROVE Ledger!Init
    OBVIOUS
  <2>1. Loaded = Ledger!Empty /\ request \in [Workers -> Requests]
    BY SameOperators DEF Init, Loaded
  <2>2. \A w \in Workers : Outcome(w) = "idle"
    BY DEF Init, Outcome
  <2> QED
    BY <2>1, <2>2 DEF Ledger!Init
<1>2. CacheInv /\ [Next]_vars => [Ledger!Next]_ledgerVars
  BY StepRefines
<1> QED
  BY InvariantHolds, <1>1, <1>2, PTL
     DEF Spec, Linearizable, Ledger!Spec, ledgerVars, Outcomes, Answers
=============================================================================
