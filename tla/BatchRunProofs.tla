--------------------------- MODULE BatchRunProofs ---------------------------
(***************************************************************************)
(* Proofs about BatchRun, for every catalogue, every setting of its         *)
(* profiles and whatever the tools do.                                      *)
(*                                                                         *)
(* The properties speak of the log and of the statuses at any moment; what  *)
(* makes them true is how far the loops are.  Each conjunct of the          *)
(* inductive invariant therefore ties the log, the failures or the statuses *)
(* to the stage and to the profiles its loop has yet to come to.            *)
(***************************************************************************)
EXTENDS BatchRun, FiniteSetTheorems, SequenceTheorems, TLAPS

Stages == {"preflight", "settle", "fix", "actions", "diagnose", "done"}
Barred == {"preflight", "rivals", "aborted"}
Failures == {"none", "fix", "actions"} \cup Barred
Entry ==
    [what: {"preflight", "fix", "actions", "diagnose"}, profile: Names, ok: BOOLEAN]
StatusEntry ==
    [profile: Names, state: {"skipped", "failed", "ran"}, from: SUBSET {"tool", "server"}]

Types ==
    /\ set \in [Names -> Setting]
    /\ mode \in Names \cup {AutoProfile}
    /\ asked \subseteq Mutations
    /\ stage \in Stages
    /\ left \subseteq Considered
    /\ left # {}
    /\ failure \in [Names -> Failures]
    /\ residual \subseteq Names
    /\ log \in Seq(Entry)
    /\ statuses \in Seq(StatusEntry)

\* Between the loops, all profiles are ahead.
Loops == stage \in {"settle", "done"} => left = Considered

Rank == [preflight |-> 0, settle |-> 1, fix |-> 2, actions |-> 3, diagnose |-> 4, done |-> 5]

\* The loop of stage s has dealt with profile p.
Behind(s, p) == Rank[s] < Rank[stage] \/ (stage = s /\ p \notin left)

\* What is logged is of profiles of the run, and of loops that have dealt with them.
LogIsOfThePast ==
    \A k \in DOMAIN log :
        /\ log[k].profile \in Considered
        /\ Detected(log[k].profile)
        /\ Behind(log[k].what, log[k].profile)

\* The log has the loops in their order, and each profile once in each.
LogIsSorted ==
    \A j, k \in DOMAIN log :
        j < k =>
            /\ Rank[log[j].what] <= Rank[log[k].what]
            /\ ~(log[j].what = log[k].what /\ log[j].profile = log[k].profile)

\* A detected profile that preflight did not fail has passed it.
PreflightIsLogged ==
    \A p \in Considered :
        /\ Detected(p)
        /\ mode # AutoProfile \/ asked # {}
        /\ Behind("preflight", p)
        /\ failure[p] # "preflight"
        => \E k \in DOMAIN log : log[k] = [what |-> "preflight", profile |-> p, ok |-> TRUE]

\* Before the failures are settled there are those of preflight, and at any time
\* none but of the profiles of the run.
FailuresAreOfTheRun ==
    \A p \in Names :
        /\ failure[p] # "none" => p \in Considered
        /\ stage \in {"preflight", "settle"} => failure[p] \in {"none", "preflight"}

\* Once they are, a failed preflight bars every mutation, and rivals bar each other.
FailuresAreSettled ==
    Rank[stage] > Rank["settle"] =>
        /\ (\E p \in Names : failure[p] = "preflight") =>
              \A p \in Considered, m \in Mutations : Mutates(p, m) => failure[p] \in Barred
        /\ \A p, q \in Considered :
              p # q /\ Mutates(p, "actions") /\ Mutates(q, "actions") => failure[p] \in Barred

\* A tool is run for a profile that is not barred, and its failure is not forgotten.
ToolsAreAllowed ==
    \A k \in DOMAIN log :
        LET p == log[k].profile
        IN  /\ log[k].what \in Mutations =>
                  /\ Mutates(p, log[k].what)
                  /\ failure[p] \notin Barred
                  /\ log[k].ok \/ failure[p] # "none"
            /\ log[k].what = "diagnose" => failure[p] = "none"

\* A profile without a failure has had every mutation asked of it.
MutationsAreLogged ==
    \A p \in Considered, m \in Mutations :
        Behind(m, p) /\ Mutates(p, m) /\ failure[p] = "none" =>
            \E k \in DOMAIN log : log[k].what = m /\ log[k].profile = p

\* There is a status for each profile the last loop has dealt with, in their order.
StatusesAreInOrder ==
    /\ {statuses[k].profile : k \in DOMAIN statuses}
          = {p \in Considered : Behind("diagnose", p)}
    /\ \A j, k \in DOMAIN statuses :
          j < k => Position(statuses[j].profile) < Position(statuses[k].profile)
    /\ stage = "diagnose" =>
          \A k \in DOMAIN statuses, p \in left : Position(statuses[k].profile) < Position(p)

\* And it says what happened.
StatusesTell ==
    \A k \in DOMAIN statuses :
        LET p == statuses[k].profile
        IN  /\ statuses[k].state = "skipped" => ~Detected(p)
            /\ statuses[k].state = "ran" =>
                  /\ failure[p] = "none"
                  /\ p \in residual <=> "server" \in statuses[k].from
                  /\ \E j \in DOMAIN log : log[j] = [what |-> "diagnose", profile |-> p, ok |-> TRUE]

IInv ==
    /\ Types
    /\ Loops
    /\ LogIsOfThePast
    /\ LogIsSorted
    /\ PreflightIsLogged
    /\ FailuresAreOfTheRun
    /\ FailuresAreSettled
    /\ ToolsAreAllowed
    /\ MutationsAreLogged
    /\ StatusesAreInOrder
    /\ StatusesTell

-----------------------------------------------------------------------------
(***************************************************************************)
(* What a step of a loop changes.                                          *)
(***************************************************************************)

\* A profile has one position in the catalogue, and no two share it.
LEMMA PositionIsIndex ==
    ASSUME NEW p \in Names
    PROVE  Position(p) \in DOMAIN Catalogue /\ Position(p) \in Nat /\ Catalogue[Position(p)] = p
<1>1. PICK k \in DOMAIN Catalogue : Catalogue[k] = p
  BY DEF Names
<1>2. Position(p) \in DOMAIN Catalogue /\ Catalogue[Position(p)] = p
  BY <1>1 DEF Position
<1> QED
  BY <1>2, BatchAssumption

\* There are finitely many profiles.
LEMMA NamesAreFinite == IsFiniteSet(Names)
<1>1. Catalogue \in Seq(Names)
  BY BatchAssumption
<1>2. Catalogue \in Surjection(1 .. Len(Catalogue), Names)
  BY <1>1, LenProperties DEF Surjection, Names
<1>3. IsFiniteSet(1 .. Len(Catalogue))
  BY <1>1, LenProperties, FS_Interval
<1> QED
  BY <1>2, <1>3, FS_Surjection

\* The profiles of a run are profiles of the catalogue.
LEMMA ConsideredAreNames ==
    ASSUME Types
    PROVE  Considered \subseteq Names
BY DEF Types, Considered

\* What the configuration says does not change.
LEMMA SettingsStay ==
    ASSUME UNCHANGED <<set, mode, asked>>
    PROVE  /\ Considered' = Considered
           /\ \A p : Detected(p)' <=> Detected(p)
           /\ \A p, m : Mutates(p, m)' <=> Mutates(p, m)
BY DEF Considered, Defaultable, Detected, Mutates, Has

\* What Append does to a sequence.
LEMMA Appended ==
    ASSUME NEW S, NEW s \in Seq(S), NEW e \in S
    PROVE  /\ Append(s, e) \in Seq(S)
           /\ DOMAIN s = 1 .. Len(s) /\ Len(s) \in Nat
           /\ DOMAIN Append(s, e) = 1 .. Len(s) + 1
           /\ \A k \in DOMAIN s : k \in DOMAIN Append(s, e) /\ s[k] \in S /\ Append(s, e)[k] = s[k]
           /\ \A k \in DOMAIN Append(s, e) \ DOMAIN s : k = Len(s) + 1 /\ Append(s, e)[k] = e
BY AppendProperties, LenProperties

Loop == Stages \ {"settle", "done"}

\* A step of a loop deals with one profile, and logs at most one thing of it.
LoopStep(p) ==
    /\ stage \in Loop
    /\ AtProfile(stage, p)
    /\ Advance(p)
    /\ log' = log \/ (Detected(p) /\ \E ok \in BOOLEAN : Ran(stage, p, ok))
    /\ UNCHANGED <<set, mode, asked>>

\* What moving on to the next profile does to those that are left.
LEMMA LoopMoves ==
    ASSUME Types, NEW p, LoopStep(p)
    PROVE  /\ p \in Considered
           /\ stage' \in Stages /\ left' \subseteq Considered /\ left' # {}
           /\ Rank[stage] <= Rank[stage']
           /\ Loops'
           /\ \A s \in Stages, q \in Considered :
                 Behind(s, q)' <=> Behind(s, q) \/ (s = stage /\ q = p)
<1>1. p \in Considered
  BY DEF Types, LoopStep, AtProfile
<1>2. Considered' = Considered
  BY SettingsStay DEF LoopStep
<1>3. CASE left = {p}
  <2>1. left' = Considered /\ stage' = After[stage]
    BY <1>3 DEF LoopStep, Advance
  <2> QED
    BY <1>1, <1>2, <1>3, <2>1 DEF LoopStep, Loop, Stages, After, Rank, Behind, Loops
<1>4. CASE left # {p}
  <2>1. left' = left \ {p} /\ stage' = stage
    BY <1>4 DEF LoopStep, Advance
  <2>2. p \in left
    BY DEF LoopStep, AtProfile
  <2>3. left' # {} /\ left' \subseteq Considered
    BY <2>1, <2>2, <1>4 DEF Types
  <2> QED
    BY <1>1, <1>2, <2>1, <2>2, <2>3 DEF LoopStep, Loop, Stages, Rank, Behind, Loops, Types
<1> QED
  BY <1>3, <1>4

\* The log stays sorted, and about the past.
LEMMA LoopKeepsLog ==
    ASSUME Types, LogIsOfThePast, LogIsSorted, NEW p, LoopStep(p)
    PROVE  /\ log' \in Seq(Entry)
           /\ DOMAIN log \subseteq DOMAIN log'
           /\ \A k \in DOMAIN log : log'[k] = log[k]
           /\ \A k \in DOMAIN log' \ DOMAIN log :
                 log'[k].what = stage /\ log'[k].profile = p /\ Detected(p)
           /\ LogIsOfThePast'
           /\ LogIsSorted'
<1>1. p \in Considered /\ p \in Names
  BY LoopMoves, ConsideredAreNames
<1>2. log \in Seq(Entry)
  BY DEF Types
<1>3. log' = log \/ \E ok \in BOOLEAN :
                      Detected(p) /\ log' = Append(log, [what |-> stage, profile |-> p, ok |-> ok])
  BY DEF LoopStep, Ran
<1>4. stage \in {"preflight", "fix", "actions", "diagnose"} /\ stage \in Stages
  BY DEF LoopStep, Loop, Stages
<1>5. log' \in Seq(Entry) /\ DOMAIN log = 1 .. Len(log) /\ Len(log) \in Nat
  <2>1. CASE log' = log
    BY <1>2, <2>1, LenProperties
  <2>2. ASSUME NEW ok \in BOOLEAN, log' = Append(log, [what |-> stage, profile |-> p, ok |-> ok])
        PROVE  log' \in Seq(Entry) /\ DOMAIN log = 1 .. Len(log) /\ Len(log) \in Nat
    <3>1. [what |-> stage, profile |-> p, ok |-> ok] \in Entry
      BY <1>1, <1>4 DEF Entry
    <3> QED
      BY <1>2, <2>2, <3>1, Appended
  <2> QED
    BY <1>3, <2>1, <2>2
<1>6. /\ DOMAIN log \subseteq DOMAIN log'
      /\ \A k \in DOMAIN log : log[k] \in Entry /\ log'[k] = log[k]
      /\ \A k \in DOMAIN log' \ DOMAIN log :
            k = Len(log) + 1 /\ log'[k].what = stage /\ log'[k].profile = p /\ Detected(p)
  <2>1. CASE log' = log
    BY <1>2, <2>1, ElementOfSeq, LenProperties
  <2>2. ASSUME NEW ok \in BOOLEAN, Detected(p),
               log' = Append(log, [what |-> stage, profile |-> p, ok |-> ok])
        PROVE  /\ DOMAIN log \subseteq DOMAIN log'
               /\ \A k \in DOMAIN log : log[k] \in Entry /\ log'[k] = log[k]
               /\ \A k \in DOMAIN log' \ DOMAIN log :
                     k = Len(log) + 1 /\ log'[k].what = stage /\ log'[k].profile = p /\ Detected(p)
    <3>1. [what |-> stage, profile |-> p, ok |-> ok] \in Entry
      BY <1>1, <1>4 DEF Entry
    <3> QED
      BY <1>2, <2>2, <3>1, Appended
  <2> QED
    BY <1>3, <2>1, <2>2
<1>7. p \in left
  BY DEF LoopStep, AtProfile
<1>8. LogIsOfThePast'
  <2>1. ASSUME NEW k \in DOMAIN log', NEW s, NEW q, s = log'[k].what, q = log'[k].profile
        PROVE  q \in Considered' /\ Detected(q)' /\ Behind(s, q)'
    <3>1. CASE k \in DOMAIN log
      <4>1. s = log[k].what /\ q = log[k].profile /\ s \in Stages
        BY <1>6, <2>1, <3>1 DEF Entry, Stages
      <4>2. q \in Considered /\ Detected(q) /\ Behind(s, q)
        BY <3>1, <4>1 DEF LogIsOfThePast
      <4> QED
        BY <4>1, <4>2, LoopMoves, SettingsStay DEF LoopStep
    <3>2. CASE k \notin DOMAIN log
      <4>1. s = stage /\ q = p /\ Detected(p)
        BY <1>6, <2>1, <3>2
      <4> QED
        BY <4>1, <1>1, <1>4, LoopMoves, SettingsStay DEF LoopStep
    <3> QED
      BY <3>1, <3>2
  <2> QED
    BY <2>1 DEF LogIsOfThePast, Behind, Detected
<1>9. LogIsSorted'
  <2> SUFFICES ASSUME NEW j \in DOMAIN log', NEW k \in DOMAIN log', j < k
               PROVE  /\ Rank[log'[j].what] <= Rank[log'[k].what]
                      /\ ~(log'[j].what = log'[k].what /\ log'[j].profile = log'[k].profile)
    BY DEF LogIsSorted, Rank
  <2>1. j \in DOMAIN log
    <3> DOMAIN log' = 1 .. Len(log') /\ Len(log') \in Nat
      BY <1>5, LenProperties
    <3>1. CASE k \in DOMAIN log
      BY <1>5, <3>1
    <3>2. CASE k \notin DOMAIN log
      BY <1>5, <1>6, <3>2
    <3> QED
      BY <3>1, <3>2
  <2>2. CASE k \in DOMAIN log
    BY <1>6, <2>1, <2>2 DEF LogIsSorted
  <2>3. CASE k \notin DOMAIN log
    <3>1. Behind(log[j].what, log[j].profile) /\ log'[j] = log[j]
      BY <1>6, <2>1 DEF LogIsOfThePast
    <3>2. log[j].what \in Stages
      BY <1>6, <2>1 DEF Entry, Stages
    <3>3. log'[k].what = stage /\ log'[k].profile = p
      BY <1>6, <2>3
    <3> QED
      BY <3>1, <3>2, <3>3, <1>4, <1>7 DEF Behind, Rank, Stages
  <2> QED
    BY <2>2, <2>3
<1> QED
  BY <1>5, <1>6, <1>8, <1>9

\* Before the last loop there are no statuses.
LEMMA NoStatusYet ==
    ASSUME Types, StatusesAreInOrder, stage \notin {"diagnose", "done"}
    PROVE  DOMAIN statuses = {}
<1>1. \A q : ~Behind("diagnose", q)
  BY DEF Types, Stages, Behind, Rank
<1> QED
  BY <1>1 DEF StatusesAreInOrder

\* The loops before the last leave it so.
LEMMA LoopKeepsStatuses ==
    ASSUME Types, StatusesAreInOrder, NEW p, LoopStep(p), stage # "diagnose", UNCHANGED statuses
    PROVE  StatusesAreInOrder' /\ StatusesTell'
<1>1. DOMAIN statuses = {}
  BY NoStatusYet DEF LoopStep, Loop
<1>2. \A q \in Considered : ~Behind("diagnose", q)'
  <2>1. \A q : ~Behind("diagnose", q)
    BY DEF LoopStep, Loop, Stages, Behind, Rank
  <2> QED
    BY <2>1, LoopMoves DEF Stages
<1>3. Considered' = Considered
  BY SettingsStay DEF LoopStep
<1> QED
  BY <1>1, <1>2, <1>3 DEF StatusesAreInOrder, StatusesTell, Behind

-----------------------------------------------------------------------------
(***************************************************************************)
(* The invariant.                                                          *)
(***************************************************************************)

\* A run begins in order.
LEMMA InitInv == Init => IInv
<1> SUFFICES ASSUME Init PROVE IInv
  OBVIOUS
<1>1. Considered # {}
  <2>1. Rust \in Names /\ Defaultable(Rust)
    BY BatchAssumption DEF Defaultable
  <2> QED
    BY <2>1 DEF Considered
<1>2. DOMAIN log = {} /\ DOMAIN statuses = {}
  BY DEF Init
<1>3. Types
  <2>1. log \in Seq(Entry) /\ statuses \in Seq(StatusEntry)
    BY EmptySeq DEF Init
  <2>2. set \in [Names -> Setting]
    BY BatchAssumption DEF Init
  <2>3. failure \in [Names -> Failures] /\ stage \in Stages
    BY DEF Init, Failures, Stages
  <2> QED
    BY <1>1, <2>1, <2>2, <2>3 DEF Init, Types
<1>4. Loops
  BY DEF Init, Loops
<1>5. LogIsOfThePast /\ LogIsSorted /\ ToolsAreAllowed /\ StatusesTell
  BY <1>2 DEF LogIsOfThePast, LogIsSorted, ToolsAreAllowed, StatusesTell
<1>6. \A q \in Considered, s \in Stages : ~Behind(s, q)
  BY DEF Init, Behind, Rank, Stages
<1>7. PreflightIsLogged /\ MutationsAreLogged /\ StatusesAreInOrder
  BY <1>2, <1>6 DEF Init, Stages, Mutations, PreflightIsLogged, MutationsAreLogged, StatusesAreInOrder
<1>8. FailuresAreOfTheRun /\ FailuresAreSettled
  BY DEF Init, FailuresAreOfTheRun, FailuresAreSettled, Rank
<1> QED
  BY <1>3, <1>4, <1>5, <1>7, <1>8 DEF IInv

\* The preflights keep the order.
LEMMA PreflightInv ==
    ASSUME IInv, NEW p \in Names, Preflight(p)
    PROVE  IInv'
<1> USE DEF IInv
<1>1. stage = "preflight" /\ UNCHANGED <<set, mode, asked, residual, statuses>>
  BY DEF Preflight, AtProfile
<1>2. LoopStep(p)
  BY <1>1 DEF Preflight, LoopStep, Loop, Stages, Detected
<1>3. /\ Considered' = Considered /\ p \in Considered
      /\ stage' \in {"preflight", "settle"}
      /\ left' \subseteq Considered /\ left' # {} /\ Loops'
  BY <1>1, <1>2, LoopMoves, SettingsStay DEF Preflight, Advance, After
<1>4. /\ failure' \in [Names -> Failures]
      /\ \A q \in Names : q # p => failure'[q] = failure[q]
      /\ failure'[p] = failure[p] \/ failure'[p] \in {"none", "preflight"}
  BY DEF Types, Preflight, Failing, Failures, Barred
<1>5. /\ log' \in Seq(Entry) /\ LogIsOfThePast' /\ LogIsSorted'
      /\ DOMAIN log \subseteq DOMAIN log' /\ \A k \in DOMAIN log : log'[k] = log[k]
  BY <1>2, LoopKeepsLog
<1>6. \A s \in Stages, q \in Considered : Behind(s, q)' <=> s = "preflight" /\ (q = p \/ q \notin left)
  BY <1>1, <1>2, LoopMoves DEF Behind, Rank, Stages
<1>7. \A k \in DOMAIN log' : log'[k].what = "preflight"
  <2> SUFFICES ASSUME NEW k \in DOMAIN log' PROVE log'[k].what = "preflight"
    OBVIOUS
  <2>1. log'[k] \in Entry
    BY <1>5, ElementOfSeq, LenProperties
  <2> QED
    BY <1>3, <1>5, <2>1 DEF LogIsOfThePast, Behind, Rank, Entry
<1>8. Types'
  BY <1>1, <1>3, <1>4, <1>5 DEF Types, Stages
<1>9. PreflightIsLogged'
  <2> SUFFICES ASSUME NEW q \in Considered, Detected(q), mode # AutoProfile \/ asked # {},
                      Behind("preflight", q)', failure'[q] # "preflight"
               PROVE  \E k \in DOMAIN log' :
                         log'[k] = [what |-> "preflight", profile |-> q, ok |-> TRUE]
    BY <1>1, <1>3, SettingsStay DEF PreflightIsLogged
  <2>1. CASE q = p
    <3>1. PICK negotiated \in BOOLEAN :
             LET ok == Ready(p) /\ (Mutates(p, "actions") => negotiated)
             IN  /\ Ran("preflight", p, ok)
                 /\ Failing(p, IF ok THEN "none" ELSE "preflight")
      BY <2>1 DEF Preflight
    <3> DEFINE ok == Ready(p) /\ (Mutates(p, "actions") => negotiated)
    <3>2. ok
      BY <2>1, <3>1 DEF Failing, Types
    <3>3. log' = Append(log, [what |-> "preflight", profile |-> p, ok |-> TRUE])
      BY <3>1, <3>2 DEF Ran
    <3>4. Len(log) + 1 \in DOMAIN log'
          /\ log'[Len(log) + 1] = [what |-> "preflight", profile |-> p, ok |-> TRUE]
      <4>1. [what |-> "preflight", profile |-> p, ok |-> TRUE] \in Entry
        BY DEF Entry
      <4> QED
        BY <3>3, <4>1, AppendProperties, Appended DEF Types
    <3> QED
      BY <2>1, <3>4
  <2>2. CASE q # p
    <3>1. q \notin left /\ failure[q] # "preflight"
      BY <1>4, <1>6, <2>2, ConsideredAreNames DEF Stages
    <3>2. Behind("preflight", q)
      BY <1>1, <3>1 DEF Behind
    <3> QED
      BY <1>5, <3>1, <3>2 DEF PreflightIsLogged
  <2> QED
    BY <2>1, <2>2
<1>10. FailuresAreOfTheRun'
  BY <1>1, <1>3, <1>4 DEF FailuresAreOfTheRun
<1>11. FailuresAreSettled'
  BY <1>3 DEF FailuresAreSettled, Rank
<1>12. ToolsAreAllowed'
  BY <1>7 DEF ToolsAreAllowed, Mutations
<1>13. MutationsAreLogged'
  BY <1>3, <1>6 DEF MutationsAreLogged, Mutations, Stages
<1>14. StatusesAreInOrder' /\ StatusesTell'
  BY <1>1, <1>2, LoopKeepsStatuses
<1> QED
  BY <1>3, <1>5, <1>8, <1>9, <1>10, <1>11, <1>12, <1>13, <1>14

\* So does the end of the preflights.
LEMMA SettleInv ==
    ASSUME IInv, Settle
    PROVE  IInv'
<1> USE DEF IInv
<1>1. /\ stage = "settle" /\ stage' = "fix" /\ left = Considered /\ Considered' = Considered
      /\ UNCHANGED <<set, mode, asked, left, residual, statuses, log>>
  BY SettingsStay DEF Settle, After, Loops
<1>2. \A q \in Names : failure[q] \in {"none", "preflight"}
  BY <1>1 DEF FailuresAreOfTheRun
<1>3. /\ failure' \in [Names -> Failures]
      /\ \A q \in Names : failure'[q] = "preflight" <=> failure[q] = "preflight"
      /\ \A q \in Names : failure'[q] # "none" => q \in Considered
      /\ FailuresAreSettled'
  <2>1. CASE mode # AutoProfile
    <3>1. failure' = failure /\ Considered = {mode}
      BY <2>1 DEF Settle, Considered
    <3>2. \A q \in Names : failure[q] # "none" => q \in Considered
      BY DEF FailuresAreOfTheRun
    <3>3. FailuresAreSettled'
      BY <1>1, <1>2, <3>1, <3>2 DEF FailuresAreSettled, Barred
    <3> QED
      BY <3>1, <3>2, <3>3 DEF Types
  <2>2. CASE mode = AutoProfile
    <3> DEFINE capable == {q \in Names : Mutates(q, "actions")}
               found == RefuseRivals(failure)
    <3>1. \A q \in Names, m \in Mutations : Mutates(q, m) => q \in Considered
      BY <2>2 DEF Mutates, Detected, Considered, Defaultable
    <3>2. failure' = AbortOthers(found)
      BY <2>2 DEF Settle
    <3>3. /\ found \in [Names -> {"none", "preflight", "rivals"}]
          /\ \A q \in Names : found[q] = "preflight" <=> failure[q] = "preflight"
          /\ \A q \in Names : found[q] # "none" => q \in Considered
      BY <1>2, <3>1 DEF RefuseRivals, FailuresAreOfTheRun, Types, Mutations
    <3>4. /\ \A q, r \in Names : q # r /\ Mutates(q, "actions") /\ Mutates(r, "actions")
                => \E o \in Names : found[o] # "none"
      <4> SUFFICES ASSUME NEW q \in Names, NEW r \in Names, q # r,
                          Mutates(q, "actions"), Mutates(r, "actions"),
                          \A o \in Names : failure[o] = "none"
                   PROVE  found[q] = "rivals"
        BY <1>2, <3>3
      <4>1. Cardinality(capable) > 1
        <5>1. IsFiniteSet(capable) /\ {q, r} \subseteq capable
          BY NamesAreFinite, FS_Subset
        <5>2. IsFiniteSet({q}) /\ Cardinality({q}) = 1
          BY FS_Singleton
        <5>3. Cardinality({q} \cup {r}) = 2
          BY <5>2, FS_AddElement
        <5>4. {q} \cup {r} = {q, r}
          OBVIOUS
        <5> QED
          BY <5>1, <5>3, <5>4, FS_Subset, FS_CardinalityType
      <4> QED
        BY <4>1 DEF RefuseRivals
    <3> HIDE DEF found
    <3>5. /\ failure' \in [Names -> Failures]
          /\ \A q \in Names : failure'[q] # found[q] => found[q] = "none" /\ failure'[q] = "aborted"
          /\ \A q \in Names : failure'[q] # "none" => q \in Considered
      BY <3>1, <3>2, <3>3 DEF AbortOthers, Failures, Barred
    <3>6. (\E o \in Names : found[o] # "none") =>
             \A q \in Names, m \in Mutations : Mutates(q, m) => failure'[q] \in Barred
      BY <3>2, <3>3 DEF AbortOthers, Barred
    <3>7. \A q \in Names : failure'[q] = "preflight" <=> failure[q] = "preflight"
      BY <3>3, <3>5
    <3>8. FailuresAreSettled'
      BY <1>1, <3>3, <3>4, <3>6, <3>7, SettingsStay, ConsideredAreNames
         DEF FailuresAreSettled, Mutations
    <3> QED
      BY <3>5, <3>7, <3>8
  <2> QED
    BY <2>1, <2>2
<1>4. \A s \in Stages, q \in Considered : Behind(s, q)' <=> s = "preflight" \/ s = "settle"
  BY <1>1 DEF Behind, Rank, Stages
<1>5. \A s \in Stages, q \in Considered : Behind(s, q) <=> s = "preflight"
  BY <1>1 DEF Behind, Rank, Stages
<1>6. \A k \in DOMAIN log : log[k] \in Entry /\ log[k].what = "preflight"
  <2> SUFFICES ASSUME NEW k \in DOMAIN log PROVE log[k] \in Entry /\ log[k].what = "preflight"
    OBVIOUS
  <2>1. log[k] \in Entry
    BY ElementOfSeq, LenProperties DEF Types
  <2> QED
    BY <1>1, <2>1 DEF LogIsOfThePast, Behind, Rank, Entry
<1>7. Types' /\ Loops'
  BY <1>1, <1>3 DEF Types, Stages, Loops
<1>8. LogIsOfThePast' /\ LogIsSorted'
  <2>1. \A s, q : s \in Stages /\ q \in Considered /\ Behind(s, q) => Behind(s, q)'
    BY <1>4, <1>5
  <2>2. \A k \in DOMAIN log : \A s, q : s = log[k].what /\ q = log[k].profile =>
           q \in Considered' /\ Detected(q)' /\ Behind(s, q)'
    BY <1>1, <1>4, <1>6, SettingsStay DEF LogIsOfThePast, Stages
  <2> QED
    BY <1>1, <2>2 DEF LogIsOfThePast, LogIsSorted, Behind, Detected
<1>9. PreflightIsLogged'
  <2> SUFFICES ASSUME NEW q \in Considered, Detected(q), mode # AutoProfile \/ asked # {},
                      failure'[q] # "preflight"
               PROVE  \E k \in DOMAIN log :
                         log[k] = [what |-> "preflight", profile |-> q, ok |-> TRUE]
    BY <1>1, SettingsStay DEF PreflightIsLogged
  <2> QED
    BY <1>3, <1>5, ConsideredAreNames DEF PreflightIsLogged, Stages
<1>10. FailuresAreOfTheRun'
  BY <1>1, <1>3 DEF FailuresAreOfTheRun
<1>11. ToolsAreAllowed'
  BY <1>1, <1>6 DEF ToolsAreAllowed, Mutations
<1>12. MutationsAreLogged'
  BY <1>1, <1>4 DEF MutationsAreLogged, Mutations, Stages
<1>13. StatusesAreInOrder' /\ StatusesTell'
  <2>1. DOMAIN statuses = {}
    BY <1>1, NoStatusYet
  <2> QED
    BY <1>1, <1>4, <2>1 DEF StatusesAreInOrder, StatusesTell, Stages
<1> QED
  BY <1>3, <1>7, <1>8, <1>9, <1>10, <1>11, <1>12, <1>13

\* A step of the loop over the formatters and fixers, or over the language servers.
ToolStep(p) ==
    /\ stage \in Mutations
    /\ LoopStep(p)
    /\ \/ /\ ~(Mutates(p, stage) /\ failure[p] = "none")
          /\ UNCHANGED <<failure, log>>
       \/ /\ Mutates(p, stage) /\ failure[p] = "none"
          /\ \E ok \in BOOLEAN :
                /\ Ran(stage, p, ok)
                /\ Failing(p, IF ok THEN "none" ELSE stage)
    /\ residual' \subseteq Names
    /\ UNCHANGED statuses

\* So does a tool that may change the sources.
LEMMA ToolInv ==
    ASSUME IInv, NEW p \in Names, ToolStep(p)
    PROVE  IInv'
<1> USE DEF IInv
<1>1. /\ stage \in Mutations /\ stage \in Stages /\ LoopStep(p)
      /\ UNCHANGED <<set, mode, asked, statuses>> /\ residual' \subseteq Names
  BY DEF ToolStep, LoopStep, Mutations, Stages
<1>2. /\ Considered' = Considered /\ p \in Considered /\ p \in left
      /\ stage' \in {"fix", "actions", "diagnose"}
      /\ left' \subseteq Considered /\ left' # {} /\ Loops'
  BY <1>1, LoopMoves, SettingsStay DEF LoopStep, Mutations, AtProfile, Advance, After
<1>3. /\ log' \in Seq(Entry) /\ LogIsOfThePast' /\ LogIsSorted'
      /\ DOMAIN log \subseteq DOMAIN log'
      /\ \A k \in DOMAIN log : log'[k] = log[k]
  BY <1>1, LoopKeepsLog
<1>4. \A s \in Stages, q \in Considered : Behind(s, q)' <=> Behind(s, q) \/ (s = stage /\ q = p)
  BY <1>1, LoopMoves
<1>5. /\ failure' \in [Names -> Failures]
      /\ \A q \in Names : q # p => failure'[q] = failure[q]
      /\ failure'[p] # failure[p] => failure[p] = "none" /\ failure'[p] = stage
  BY DEF Types, ToolStep, Failing, Failures, Mutations
<1>6. \A q \in Names :
         /\ failure'[q] \in Barred <=> failure[q] \in Barred
         /\ failure'[q] = "preflight" <=> failure[q] = "preflight"
         /\ failure'[q] = "none" => failure[q] = "none"
         /\ failure'[q] # "none" => failure[q] # "none" \/ q = p
  BY <1>1, <1>5 DEF Mutations, Barred
<1>7. Types'
  BY <1>1, <1>2, <1>3, <1>5 DEF Types, Stages
<1>8. PreflightIsLogged'
  <2> SUFFICES ASSUME NEW q \in Considered, Detected(q), mode # AutoProfile \/ asked # {},
                      Behind("preflight", q)', failure'[q] # "preflight"
               PROVE  \E k \in DOMAIN log' :
                         log'[k] = [what |-> "preflight", profile |-> q, ok |-> TRUE]
    BY <1>1, <1>2, SettingsStay DEF PreflightIsLogged
  <2>1. Behind("preflight", q) /\ failure[q] # "preflight"
    BY <1>1, <1>4, <1>6, ConsideredAreNames DEF Mutations, Stages
  <2> QED
    BY <2>1, <1>3 DEF PreflightIsLogged
<1>9. FailuresAreOfTheRun'
  BY <1>2, <1>6 DEF FailuresAreOfTheRun
<1>10. FailuresAreSettled'
  <2>1. Rank[stage] > Rank["settle"]
    BY <1>1 DEF Mutations, Rank
  <2> QED
    BY <2>1, <1>1, <1>2, <1>6, SettingsStay, ConsideredAreNames DEF FailuresAreSettled
<1>11. /\ ~(Mutates(p, stage) /\ failure[p] = "none") => UNCHANGED <<failure, log>>
       /\ Mutates(p, stage) /\ failure[p] = "none" =>
             \E k \in DOMAIN log' : log'[k].what = stage /\ log'[k].profile = p
       /\ \A k \in DOMAIN log' \ DOMAIN log :
             /\ log'[k].what = stage /\ log'[k].profile = p
             /\ Mutates(p, stage) /\ failure[p] = "none"
             /\ log'[k].ok \/ failure'[p] = stage
  <2>1. CASE ~(Mutates(p, stage) /\ failure[p] = "none")
    BY <2>1 DEF ToolStep
  <2>2. CASE Mutates(p, stage) /\ failure[p] = "none"
    <3>1. PICK ok \in BOOLEAN : Ran(stage, p, ok) /\ Failing(p, IF ok THEN "none" ELSE stage)
      BY <2>2 DEF ToolStep
    <3> DEFINE e == [what |-> stage, profile |-> p, ok |-> ok]
    <3>2. e \in Entry /\ log' = Append(log, e) /\ log \in Seq(Entry)
      BY <1>1, <3>1 DEF Entry, Ran, Mutations, Types
    <3>3. ok \/ failure'[p] = stage
      BY <3>1 DEF Failing, Types
    <3>4. Len(log) + 1 \in DOMAIN log' /\ log'[Len(log) + 1] = e
      BY <3>2, AppendProperties, Appended
    <3>5. \A k \in DOMAIN log' \ DOMAIN log : log'[k] = e
      BY <3>2, Appended
    <3> QED
      BY <2>2, <3>3, <3>4, <3>5
  <2> QED
    BY <2>1, <2>2
<1>12. ToolsAreAllowed'
  <2> SUFFICES ASSUME NEW k \in DOMAIN log', NEW s, NEW q, s = log'[k].what, q = log'[k].profile
               PROVE  /\ s \in Mutations =>
                            Mutates(q, s) /\ failure'[q] \notin Barred /\ (log'[k].ok \/ failure'[q] # "none")
                      /\ s = "diagnose" => failure'[q] = "none"
    BY <1>1, SettingsStay DEF ToolsAreAllowed, Mutates, Detected, Has
  <2>1. CASE k \in DOMAIN log
    <3>1. log'[k] = log[k] /\ log[k].profile \in Names /\ Behind(s, q)
      BY <1>3, <2>1, ConsideredAreNames DEF LogIsOfThePast
    <3>2. s # "diagnose"
      BY <1>1, <3>1 DEF Behind, Rank, Mutations
    <3> QED
      BY <1>5, <1>6, <2>1, <3>1, <3>2 DEF ToolsAreAllowed
  <2>2. CASE k \notin DOMAIN log
    BY <1>1, <1>5, <1>6, <1>11, <2>2 DEF Mutations, Barred
  <2> QED
    BY <2>1, <2>2
<1>13. MutationsAreLogged'
  <2> SUFFICES ASSUME NEW q \in Considered, NEW m \in Mutations,
                      Behind(m, q)', Mutates(q, m), failure'[q] = "none"
               PROVE  \E k \in DOMAIN log' : log'[k].what = m /\ log'[k].profile = q
    BY <1>1, <1>2, SettingsStay DEF MutationsAreLogged
  <2>1. failure[q] = "none"
    BY <1>6, ConsideredAreNames
  <2>2. CASE Behind(m, q)
    BY <1>3, <2>1, <2>2 DEF MutationsAreLogged
  <2>3. CASE m = stage /\ q = p
    BY <1>11, <2>1, <2>3
  <2> QED
    BY <1>4, <2>2, <2>3 DEF Mutations, Stages
<1>14. StatusesAreInOrder' /\ StatusesTell'
  BY <1>1, LoopKeepsStatuses DEF Mutations, ToolStep
<1> QED
  BY <1>2, <1>3, <1>7, <1>8, <1>9, <1>10, <1>12, <1>13, <1>14

\* The formatters and fixers are such tools.
LEMMA NativeFixIsToolStep ==
    ASSUME IInv, NEW p \in Names, NativeFix(p)
    PROVE  ToolStep(p)
<1>1. stage = "fix" /\ UNCHANGED <<set, mode, asked, residual, statuses>>
  BY DEF NativeFix, AtProfile
<1>2. CASE Mutates(p, stage) /\ failure[p] = "none"
  <2>1. PICK run \in FixRuns :
           Ran("fix", p, FixAccepted(p, run)) /\ Failing(p, IF FixAccepted(p, run) THEN "none" ELSE "fix")
    BY <1>1, <1>2 DEF NativeFix
  <2>2. \E ok \in BOOLEAN : Ran(stage, p, ok) /\ Failing(p, IF ok THEN "none" ELSE stage)
    <3>1. FixAccepted(p, run) \in BOOLEAN
      BY DEF FixAccepted
    <3> QED
      BY <1>1, <2>1, <3>1
  <2>3. LoopStep(p)
    BY <1>1, <1>2, <2>2 DEF NativeFix, LoopStep, Loop, Stages, Mutates
  <2> QED
    BY <1>1, <1>2, <2>2, <2>3 DEF ToolStep, IInv, Types, Mutations
<1>3. CASE ~(Mutates(p, stage) /\ failure[p] = "none")
  BY <1>1, <1>3 DEF NativeFix, ToolStep, LoopStep, Loop, Stages, Mutations, IInv, Types
<1> QED
  BY <1>2, <1>3

\* And so is the language server.
LEMMA CodeActionsIsToolStep ==
    ASSUME IInv, NEW p \in Names, CodeActions(p)
    PROVE  ToolStep(p)
<1>1. stage = "actions" /\ residual' \subseteq Names /\ UNCHANGED <<set, mode, asked, statuses>>
  BY DEF CodeActions, AtProfile, IInv, Types
<1>2. CASE Mutates(p, stage) /\ failure[p] = "none"
  <2>1. \E ok \in BOOLEAN : Ran(stage, p, ok) /\ Failing(p, IF ok THEN "none" ELSE stage)
    <3>1. UNCHANGED failure => Failing(p, "none")
      BY <1>2 DEF Failing, IInv, Types
    <3> QED
      BY <1>1, <1>2, <3>1 DEF CodeActions
  <2>2. LoopStep(p)
    BY <1>1, <1>2, <2>1 DEF CodeActions, LoopStep, Loop, Stages, Mutates
  <2> QED
    BY <1>1, <1>2, <2>1, <2>2 DEF ToolStep, Mutations
<1>3. CASE ~(Mutates(p, stage) /\ failure[p] = "none")
  BY <1>1, <1>3 DEF CodeActions, ToolStep, LoopStep, Loop, Stages, Mutations
<1> QED
  BY <1>2, <1>3

\* A diagnosis keeps the order.
LEMMA DiagnoseInv ==
    ASSUME IInv, NEW p \in Names, Diagnose(p)
    PROVE  IInv'
<1> USE DEF IInv
<1>1. stage = "diagnose" /\ UNCHANGED <<set, mode, asked, failure, residual>>
  BY DEF Diagnose, AtProfile
<1>2. /\ LoopStep(p)
      /\ \A k \in DOMAIN log' \ DOMAIN log : failure[p] = "none"
  <2>1. DOMAIN log' # DOMAIN log => failure[p] = "none"
    BY DEF Diagnose
  <2> QED
    BY <1>1, <2>1 DEF Diagnose, LoopStep, Loop, Stages
<1>3. /\ Considered' = Considered /\ p \in Considered /\ p \in left
      /\ stage' \in {"diagnose", "done"}
      /\ left' \subseteq Considered /\ left' # {} /\ Loops'
  BY <1>1, <1>2, LoopMoves, SettingsStay DEF Diagnose, AtProfile, Advance, After
<1>4. /\ log' \in Seq(Entry) /\ LogIsOfThePast' /\ LogIsSorted'
      /\ DOMAIN log \subseteq DOMAIN log'
      /\ \A k \in DOMAIN log : log'[k] = log[k]
      /\ \A k \in DOMAIN log' \ DOMAIN log : log'[k].what = stage /\ log'[k].profile = p
  BY <1>2, LoopKeepsLog
<1>5. \A s \in Stages, q \in Considered : Behind(s, q)' <=> Behind(s, q) \/ (s = "diagnose" /\ q = p)
  BY <1>1, <1>2, LoopMoves
<1>6. PICK e \in StatusEntry :
         /\ statuses' = Append(statuses, e)
         /\ e.profile = p
         /\ e.state = "skipped" => ~Detected(p)
         /\ e.state = "ran" =>
               /\ failure[p] = "none"
               /\ p \in residual <=> "server" \in e.from
               /\ \E j \in DOMAIN log' : log'[j] = [what |-> "diagnose", profile |-> p, ok |-> TRUE]
  <2>1. CASE ~Detected(p)
    <3>1. [profile |-> p, state |-> "skipped", from |-> {}] \in StatusEntry
      BY DEF StatusEntry
    <3> QED
      BY <2>1, <3>1 DEF Diagnose, Status
  <2>2. CASE Detected(p) /\ failure[p] # "none"
    <3>1. [profile |-> p, state |-> "failed", from |-> {}] \in StatusEntry
      BY DEF StatusEntry
    <3> QED
      BY <2>2, <3>1 DEF Diagnose, Status
  <2>3. CASE Detected(p) /\ failure[p] = "none"
    <3>1. PICK ok \in BOOLEAN :
             /\ Ran("diagnose", p, ok)
             /\ statuses' =
                   IF ok
                     THEN Status(p, "ran", {"tool"} \cup IF p \in residual THEN {"server"} ELSE {})
                     ELSE Status(p, "failed", {})
      BY <2>3 DEF Diagnose
    <3>2. CASE ok
      <4> DEFINE from == {"tool"} \cup IF p \in residual THEN {"server"} ELSE {}
                 l == [what |-> "diagnose", profile |-> p, ok |-> TRUE]
      <4>1. [profile |-> p, state |-> "ran", from |-> from] \in StatusEntry
        BY DEF StatusEntry
      <4>2. log' = Append(log, l) /\ l \in Entry /\ log \in Seq(Entry)
        BY <3>1, <3>2 DEF Ran, Entry, Types
      <4>3. Len(log) + 1 \in DOMAIN log' /\ log'[Len(log) + 1] = l
        BY <4>2, AppendProperties, Appended
      <4>4. p \in residual <=> "server" \in from
        OBVIOUS
      <4> QED
        BY <2>3, <3>1, <3>2, <4>1, <4>3, <4>4 DEF Status
    <3>3. CASE ~ok
      <4>1. [profile |-> p, state |-> "failed", from |-> {}] \in StatusEntry
        BY DEF StatusEntry
      <4> QED
        BY <3>1, <3>3, <4>1 DEF Status
    <3> QED
      BY <3>2, <3>3
  <2> QED
    BY <2>1, <2>2, <2>3
<1>7. /\ statuses' \in Seq(StatusEntry)
      /\ DOMAIN statuses = 1 .. Len(statuses) /\ Len(statuses) \in Nat
      /\ DOMAIN statuses' = 1 .. Len(statuses) + 1
      /\ \A k \in DOMAIN statuses : statuses[k] \in StatusEntry /\ statuses'[k] = statuses[k]
      /\ statuses'[Len(statuses) + 1] = e
  BY <1>6, Appended, AppendProperties DEF Types
<1>8. Types'
  BY <1>1, <1>3, <1>4, <1>7 DEF Types, Stages
<1>9. PreflightIsLogged'
  <2> SUFFICES ASSUME NEW q \in Considered, Detected(q), mode # AutoProfile \/ asked # {},
                      Behind("preflight", q)', failure[q] # "preflight"
               PROVE  \E k \in DOMAIN log' :
                         log'[k] = [what |-> "preflight", profile |-> q, ok |-> TRUE]
    BY <1>1, <1>3, SettingsStay DEF PreflightIsLogged
  <2>1. Behind("preflight", q)
    BY <1>5 DEF Stages
  <2> QED
    BY <2>1, <1>4 DEF PreflightIsLogged
<1>10. FailuresAreOfTheRun'
  BY <1>1, <1>3 DEF FailuresAreOfTheRun
<1>11. FailuresAreSettled'
  <2>1. Rank[stage] > Rank["settle"]
    BY <1>1 DEF Rank
  <2> QED
    BY <2>1, <1>1, <1>3, SettingsStay DEF FailuresAreSettled
<1>12. ToolsAreAllowed'
  <2> SUFFICES ASSUME NEW k \in DOMAIN log', NEW s, NEW q, s = log'[k].what, q = log'[k].profile
               PROVE  /\ s \in Mutations =>
                            Mutates(q, s) /\ failure[q] \notin Barred /\ (log'[k].ok \/ failure[q] # "none")
                      /\ s = "diagnose" => failure[q] = "none"
    BY <1>1, SettingsStay DEF ToolsAreAllowed, Mutates, Detected, Has
  <2>1. CASE k \in DOMAIN log
    BY <1>4, <2>1 DEF ToolsAreAllowed
  <2>2. CASE k \notin DOMAIN log
    BY <1>1, <1>2, <1>4, <2>2 DEF Mutations
  <2> QED
    BY <2>1, <2>2
<1>13. MutationsAreLogged'
  <2> SUFFICES ASSUME NEW q \in Considered, NEW m \in Mutations,
                      Behind(m, q)', Mutates(q, m), failure[q] = "none"
               PROVE  \E k \in DOMAIN log' : log'[k].what = m /\ log'[k].profile = q
    BY <1>1, <1>3, SettingsStay DEF MutationsAreLogged
  <2>1. Behind(m, q)
    BY <1>5 DEF Mutations, Stages
  <2> QED
    BY <1>4, <2>1 DEF MutationsAreLogged
<1>14. StatusesAreInOrder'
  <2>1. {statuses'[k].profile : k \in DOMAIN statuses'} = {q \in Considered : Behind("diagnose", q)'}
    <3>1. {statuses'[k].profile : k \in DOMAIN statuses'}
             = {statuses[k].profile : k \in DOMAIN statuses} \cup {p}
      BY <1>6, <1>7
    <3>2. {q \in Considered : Behind("diagnose", q)'}
             = {q \in Considered : Behind("diagnose", q)} \cup {p}
      BY <1>3, <1>5 DEF Stages
    <3> QED
      BY <3>1, <3>2 DEF StatusesAreInOrder
  <2>2. \A k \in DOMAIN statuses : Position(statuses[k].profile) < Position(p)
    BY <1>1, <1>3 DEF StatusesAreInOrder
  <2>3. \A j, k \in DOMAIN statuses' :
           j < k => Position(statuses'[j].profile) < Position(statuses'[k].profile)
    <3> SUFFICES ASSUME NEW j \in DOMAIN statuses', NEW k \in DOMAIN statuses', j < k
                 PROVE  Position(statuses'[j].profile) < Position(statuses'[k].profile)
      OBVIOUS
    <3>1. j \in DOMAIN statuses
      BY <1>7
    <3>2. CASE k \in DOMAIN statuses
      BY <1>7, <3>1, <3>2 DEF StatusesAreInOrder
    <3>3. CASE k = Len(statuses) + 1
      BY <1>6, <1>7, <2>2, <3>1, <3>3
    <3> QED
      BY <1>7, <3>2, <3>3
  <2>4. stage' = "diagnose" =>
           \A k \in DOMAIN statuses', q \in left' : Position(statuses'[k].profile) < Position(q)
    <3> SUFFICES ASSUME stage' = "diagnose", NEW k \in DOMAIN statuses', NEW q \in left'
                 PROVE  Position(statuses'[k].profile) < Position(q)
      OBVIOUS
    <3>1. q \in left /\ q # p
      BY <1>1 DEF Diagnose, Advance, After
    <3>2. Position(p) <= Position(q)
      BY <3>1 DEF Diagnose, AtProfile
    <3>3. p \in Names /\ q \in Names
      BY <3>1, ConsideredAreNames DEF Types
    <3>4. Position(p) < Position(q)
      BY <3>1, <3>2, <3>3, PositionIsIndex
    <3>5. CASE k \in DOMAIN statuses
      BY <1>1, <1>7, <3>1, <3>5 DEF StatusesAreInOrder
    <3>6. CASE k = Len(statuses) + 1
      BY <1>6, <1>7, <3>4, <3>6
    <3> QED
      BY <1>7, <3>5, <3>6
  <2> QED
    BY <1>3, <2>1, <2>3, <2>4 DEF StatusesAreInOrder, Behind
<1>15. StatusesTell'
  <2> SUFFICES ASSUME NEW k \in DOMAIN statuses', NEW q, q = statuses'[k].profile
               PROVE  /\ statuses'[k].state = "skipped" => ~Detected(q)
                      /\ statuses'[k].state = "ran" =>
                            /\ failure[q] = "none"
                            /\ q \in residual <=> "server" \in statuses'[k].from
                            /\ \E j \in DOMAIN log' :
                                  log'[j] = [what |-> "diagnose", profile |-> q, ok |-> TRUE]
    BY <1>1, SettingsStay DEF StatusesTell, Detected
  <2>1. CASE k \in DOMAIN statuses
    BY <1>4, <1>7, <2>1 DEF StatusesTell
  <2>2. CASE k = Len(statuses) + 1
    BY <1>6, <1>7, <2>2
  <2> QED
    BY <1>7, <2>1, <2>2
<1> QED
  BY <1>3, <1>4, <1>8, <1>9, <1>10, <1>11, <1>12, <1>13, <1>14, <1>15

\* Nothing happens to a run that takes no step.
LEMMA StutterInv ==
    ASSUME IInv, UNCHANGED vars
    PROVE  IInv'
<1> USE DEF IInv, vars
<1>1. /\ Considered' = Considered
      /\ \A p : Detected(p)' <=> Detected(p)
      /\ \A p, m : Mutates(p, m)' <=> Mutates(p, m)
      /\ \A s, p : Behind(s, p)' <=> Behind(s, p)
  BY SettingsStay DEF Behind
<1>2. Types' /\ Loops' /\ LogIsSorted'
  BY <1>1 DEF Types, Loops, LogIsSorted
<1>3. LogIsOfThePast'
  BY <1>1 DEF LogIsOfThePast, Detected, Behind
<1>4. PreflightIsLogged' /\ MutationsAreLogged'
  BY <1>1 DEF PreflightIsLogged, MutationsAreLogged
<1>5. FailuresAreOfTheRun' /\ FailuresAreSettled'
  BY <1>1 DEF FailuresAreOfTheRun, FailuresAreSettled
<1>6. ToolsAreAllowed'
  BY DEF ToolsAreAllowed, Mutates, Detected, Has
<1>7. StatusesAreInOrder'
  BY <1>1 DEF StatusesAreInOrder, Behind
<1>8. StatusesTell'
  BY DEF StatusesTell, Detected
<1> QED
  BY <1>2, <1>3, <1>4, <1>5, <1>6, <1>7, <1>8

\* Every step keeps the order.
LEMMA NextInv == IInv /\ [Next]_vars => IInv'
<1> SUFFICES ASSUME IInv, [Next]_vars PROVE IInv'
  OBVIOUS
<1>1. CASE Settle
  BY <1>1, SettleInv
<1>2. ASSUME NEW p \in Names, Preflight(p) PROVE IInv'
  BY <1>2, PreflightInv
<1>3. ASSUME NEW p \in Names, NativeFix(p) PROVE IInv'
  BY <1>3, NativeFixIsToolStep, ToolInv
<1>4. ASSUME NEW p \in Names, CodeActions(p) PROVE IInv'
  BY <1>4, CodeActionsIsToolStep, ToolInv
<1>5. ASSUME NEW p \in Names, Diagnose(p) PROVE IInv'
  BY <1>5, DiagnoseInv
<1>6. CASE UNCHANGED vars
  BY <1>6, StutterInv
<1> QED
  BY <1>1, <1>2, <1>3, <1>4, <1>5, <1>6 DEF Next

\* The loops, the log, the failures and the statuses stay in step.
THEOREM RunIsOrderly == Spec => []IInv
BY InitInv, NextInv, PTL DEF Spec

-----------------------------------------------------------------------------
(***************************************************************************)
(* What follows from it.                                                   *)
(***************************************************************************)

\* An orderly run changes nothing before its preflights.
LEMMA PreparedFollows == IInv => MutationsArePrepared
<1> SUFFICES ASSUME IInv PROVE MutationsArePrepared
  OBVIOUS
<1> USE DEF IInv
<1>1. /\ DOMAIN log = 1 .. Len(log) /\ Len(log) \in Nat
      /\ \A k \in DOMAIN log : log[k] \in Entry
  <2>1. log \in Seq(Entry)
    BY DEF Types
  <2> QED
    BY <2>1, ElementOfSeq, LenProperties
<1>2. ASSUME NEW k \in Entries(Mutations), NEW p \in Considered, Detected(p)
      PROVE  \E j \in 1 .. k - 1 : log[j] = [what |-> "preflight", profile |-> p, ok |-> TRUE]
  <2> DEFINE q == log[k].profile
             m == log[k].what
  <2>1. k \in DOMAIN log /\ m \in Mutations /\ q \in Considered
    BY DEF Entries, LogIsOfThePast
  <2>2. Mutates(q, m) /\ failure[q] \notin Barred
    BY <2>1 DEF ToolsAreAllowed
  <2>3. Rank[stage] > Rank["settle"]
    BY <2>1 DEF LogIsOfThePast, Behind, Rank, Mutations, Types, Stages
  <2>4. failure[p] # "preflight"
    BY <2>1, <2>2, <2>3, ConsideredAreNames DEF FailuresAreSettled
  <2>5. Behind("preflight", p) /\ asked # {}
    BY <2>2, <2>3 DEF Behind, Rank, Types, Stages, Mutates
  <2>6. PICK j \in DOMAIN log : log[j] = [what |-> "preflight", profile |-> p, ok |-> TRUE]
    BY <1>2, <2>4, <2>5 DEF PreflightIsLogged
  <2>7. ~(k <= j)
    BY <1>1, <2>1, <2>6 DEF LogIsSorted, Rank, Mutations
  <2>8. j \in 1 .. k - 1
    BY <1>1, <2>1, <2>7
  <2> QED
    BY <2>6, <2>8
<1>3. \A j, k \in Entries({"actions"}) : log[j].profile = log[k].profile
  <2> SUFFICES ASSUME NEW j \in Entries({"actions"}), NEW k \in Entries({"actions"}),
                      log[j].profile # log[k].profile
               PROVE  FALSE
    OBVIOUS
  <2>1. /\ j \in DOMAIN log /\ log[j].what = "actions" /\ log[j].profile \in Considered
        /\ k \in DOMAIN log /\ log[k].what = "actions" /\ log[k].profile \in Considered
    BY DEF Entries, LogIsOfThePast
  <2>2. Rank[stage] > Rank["settle"]
    BY <2>1 DEF LogIsOfThePast, Behind, Rank, Types, Stages
  <2> QED
    BY <2>1, <2>2 DEF ToolsAreAllowed, FailuresAreSettled, Mutations
<1>4. Cardinality({log[k].profile : k \in Entries({"actions"})}) <= 1
  <2>1. CASE Entries({"actions"}) = {}
    <3>1. {log[k].profile : k \in Entries({"actions"})} = {}
      BY <2>1
    <3> QED
      BY <3>1, FS_EmptySet
  <2>2. CASE Entries({"actions"}) # {}
    <3>1. PICK j : j \in Entries({"actions"})
      BY <2>2
    <3>2. {log[k].profile : k \in Entries({"actions"})} = {log[j].profile}
      BY <1>3, <3>1
    <3>3. Cardinality({log[j].profile}) = 1
      BY FS_Singleton
    <3> QED
      BY <3>2, <3>3
  <2> QED
    BY <2>1, <2>2
<1> QED
  BY <1>2, <1>4 DEF MutationsArePrepared

\* Every source is changed by profiles all of which were found ready, and by one
\* language server at most.
THEOREM PreparedAlways == Spec => []MutationsArePrepared
BY RunIsOrderly, PreparedFollows, PTL

\* An orderly run changes nothing after its diagnoses have begun.
LEMMA NothingChangesFollows == IInv => NothingChangesAfterwards
BY DEF IInv, LogIsSorted, NothingChangesAfterwards, Rank, Mutations

\* Formatters and fixers, then the language server, then the diagnoses.
THEOREM NothingChangesAlways == Spec => []NothingChangesAfterwards
BY RunIsOrderly, NothingChangesFollows, PTL

\* An orderly run reports what it did.
LEMMA StatusesFollow == IInv => StatusesAreHonest
<1> SUFFICES ASSUME IInv PROVE StatusesAreHonest
  OBVIOUS
<1> USE DEF IInv
<1>1. /\ \A k \in DOMAIN log : log[k] \in Entry
      /\ \A k \in DOMAIN statuses : statuses[k] \in StatusEntry
      /\ \A k \in DOMAIN log : k \in Nat
  BY ElementOfSeq, LenProperties DEF Types
<1>2. stage = "done" => {statuses[k].profile : k \in DOMAIN statuses} = Considered
  BY DEF StatusesAreInOrder, Behind, Rank
<1>3. ASSUME NEW k \in DOMAIN statuses, NEW p, p = statuses[k].profile
      PROVE  /\ statuses[k].state = "ran" =>
                   /\ \A j \in Tools(p) : log[j].ok
                   /\ {log[j].what : j \in Tools(p)}
                         = {m \in Mutations : Mutates(p, m)} \cup {"diagnose"}
                   /\ p \in residual <=> "server" \in statuses[k].from
             /\ statuses[k].state = "skipped" \/ failure[p] \in {"preflight", "rivals", "aborted"}
                   => Tools(p) = {}
  <2>1. \A j \in Tools(p) :
           /\ j \in DOMAIN log /\ log[j].profile = p /\ Detected(p)
           /\ log[j].what \in Mutations \cup {"diagnose"}
           /\ log[j].what \in Mutations =>
                 Mutates(p, log[j].what) /\ failure[p] \notin Barred /\ (log[j].ok \/ failure[p] # "none")
           /\ log[j].what = "diagnose" => failure[p] = "none"
    BY DEF Tools, Entries, LogIsOfThePast, ToolsAreAllowed, Mutations
  <2>2. statuses[k].state = "skipped" \/ failure[p] \in Barred => Tools(p) = {}
    BY <1>3, <2>1 DEF StatusesTell, Barred
  <2>3. ASSUME statuses[k].state = "ran"
        PROVE  /\ \A j \in Tools(p) : log[j].ok
               /\ {log[j].what : j \in Tools(p)}
                     = {m \in Mutations : Mutates(p, m)} \cup {"diagnose"}
               /\ p \in residual <=> "server" \in statuses[k].from
    <3>1. failure[p] = "none" /\ (p \in residual <=> "server" \in statuses[k].from)
      BY <1>3, <2>3 DEF StatusesTell
    <3>2. PICK d \in DOMAIN log : log[d] = [what |-> "diagnose", profile |-> p, ok |-> TRUE]
      BY <1>3, <2>3 DEF StatusesTell
    <3>3. p \in Considered /\ Behind("diagnose", p)
      BY <1>3 DEF StatusesAreInOrder
    <3>4. \A j \in Tools(p) : log[j].ok
      <4> SUFFICES ASSUME NEW j \in Tools(p), log[j].what = "diagnose" PROVE j = d
        BY <2>1, <3>1, <3>2
      <4> QED
        BY <1>1, <2>1, <3>2 DEF LogIsSorted
    <3>5. \A m \in Mutations : Mutates(p, m) => \E j \in Tools(p) : log[j].what = m
      <4> SUFFICES ASSUME NEW m \in Mutations, Mutates(p, m)
                   PROVE  \E j \in Tools(p) : log[j].what = m
        OBVIOUS
      <4>1. Behind(m, p)
        BY <3>3 DEF Behind, Rank, Mutations, Types, Stages
      <4>2. PICK j \in DOMAIN log : log[j].what = m /\ log[j].profile = p
        BY <3>1, <3>3, <4>1 DEF MutationsAreLogged
      <4> QED
        BY <4>2 DEF Tools, Entries, Mutations
    <3>6. d \in Tools(p)
      BY <3>2 DEF Tools, Entries
    <3> QED
      BY <2>1, <3>1, <3>2, <3>4, <3>5, <3>6
  <2> QED
    BY <2>2, <2>3 DEF Barred
<1> QED
  BY <1>2, <1>3 DEF StatusesAreHonest, StatusesAreInOrder

\* Every profile of the run is reported on, in order, and what is reported is what
\* was done for it.
THEOREM HonestAlways == Spec => []StatusesAreHonest
BY RunIsOrderly, StatusesFollow, PTL
=============================================================================
