----------------------------- MODULE ConfigLayers -----------------------------
(***************************************************************************)
(* Which configuration a run has (config.rs): the user's file and, over it, *)
(* the nearest project file, setting by setting; and what a profile's       *)
(* code-action settings resolve to (lsp_fix.rs).                           *)
(*                                                                         *)
(* A layer is [general, profiles]; a profile is [settings, actions], where  *)
(* actions may be Unset.  Settings are records whose fields may be Unset;   *)
(* an explicit empty list or FALSE is a value like any other.              *)
(***************************************************************************)
EXTENDS Naturals, Sequences, FiniteSets, FiniteSetsExt

CONSTANT
    Unset       \* an option that is None

\* The fields of two records, each from the first where it says something.
Over(high, low) == [f \in DOMAIN low |-> IF high[f] # Unset THEN high[f] ELSE low[f]]

\* As MergeProfile, but the action settings of a layer replace those below as a whole.
MergeProfileWhole(high, low) ==
    [settings |-> Over(high.settings, low.settings),
     actions |-> IF high.actions = Unset THEN low.actions ELSE high.actions]

MergeProfile(high, low) ==
    [settings |-> Over(high.settings, low.settings),
     actions |-> CASE high.actions = Unset -> low.actions
                   [] low.actions = Unset -> high.actions
                   [] OTHER -> Over(high.actions, low.actions)]

Merge(high, low) ==
    [general |-> Over(high.general, low.general),
     profiles |-> [p \in DOMAIN low.profiles \cup DOMAIN high.profiles |->
                      IF p \notin DOMAIN high.profiles THEN low.profiles[p]
                      ELSE IF p \notin DOMAIN low.profiles THEN high.profiles[p]
                      ELSE MergeProfile(high.profiles[p], low.profiles[p])]]

-----------------------------------------------------------------------------
(***************************************************************************)
(* Finding the files.  A candidate is "absent", "other" (no regular file),  *)
(* "denied" (its metadata cannot be read), "invalid" (its text cannot be    *)
(* read or decoded), "vanishing" (a file when it is found, gone when it is  *)
(* read), or "file".  An environment variable is "absent", "empty",        *)
(* "foreign" (not UTF-8), or has a value.                                  *)
(***************************************************************************)

\* Where the user's file would be: "none", "error", or the root it is under.
UserRoot(env) ==
    LET native == IF env.platform THEN "platform" ELSE "none"
        home == IF env.home = "set" THEN "home" ELSE "none"
        xdg == CASE env.xdg = "set" -> "xdg"
                 [] env.xdg = "foreign" -> "none"
                 [] OTHER -> home
    IN  CASE env.mode \in {"absent", "empty", "xdg"} -> xdg
          [] env.mode = "native" -> native
          [] OTHER -> "error"

\* The first candidate from the start upwards that is there, or 0.
Nearest(candidates) ==
    LET there == {k \in DOMAIN candidates : candidates[k] # "absent"}
    IN  IF there = {} THEN 0 ELSE Min(there)

\* A file that went away before it was read is no file for the user's layer only.
UserFile(env, user) == IF UserRoot(env) = "none" \/ user = "vanishing" THEN "absent" ELSE user

ProjectFile(candidates) == IF Nearest(candidates) = 0 THEN "absent" ELSE candidates[Nearest(candidates)]

Refused(env, user, candidates) ==
    \/ UserRoot(env) = "error"
    \/ UserFile(env, user) \notin {"absent", "file"}
    \/ ProjectFile(candidates) \notin {"absent", "file"}

\* The user's layer over nothing, and the project's over that.
Discover(env, user, candidates, layers, empty) ==
    LET low == IF UserFile(env, user) = "file" THEN Merge(layers.user, empty) ELSE empty
    IN  IF ProjectFile(candidates) = "file" THEN Merge(layers.project, low) ELSE low

-----------------------------------------------------------------------------
(***************************************************************************)
(* What code actions a profile has.  A list is Unset, "empty", "blank" (an  *)
(* element that is not usable) or what it holds; a number may be too big.   *)
(***************************************************************************)

\* What the Rust profile has without configuration, and what the others have.
Defaults(rust) ==
    [argv |-> IF rust THEN "rust-analyzer" ELSE Unset,
     language_id |-> IF rust THEN "rust" ELSE Unset,
     extensions |-> IF rust THEN "rs" ELSE Unset,
     action_kinds |-> "quickfix", allowed_commands |-> "none",
     max_iterations |-> "64", timeout_ms |-> "30 s"]

HasCodeActionSupport(rust, actions) ==
    IF actions = Unset THEN rust ELSE actions.enabled # FALSE

\* The configured executable, or Rust's own; Unset when there is none to name.
CommandFamily(rust, actions) ==
    IF ~HasCodeActionSupport(rust, actions) THEN Unset
    ELSE IF actions # Unset /\ actions.argv # Unset
         THEN IF actions.argv \in {"empty", "blank"} THEN Unset ELSE actions.argv
         ELSE Defaults(rust).argv

\* No capability, a refusal, or the settings of the session.
ResolveActions(rust, actions) ==
    LET chosen == IF actions = Unset THEN Defaults(rust)
                  ELSE Over([f \in DOMAIN Defaults(rust) |-> actions[f]], Defaults(rust))
        unusable ==
            \/ \E f \in {"argv", "language_id", "extensions", "action_kinds"} :
                  chosen[f] \in {Unset, "empty", "blank"}
            \/ chosen.allowed_commands = "blank"
            \/ chosen.max_iterations = "zero"
            \/ chosen.timeout_ms \in {"zero", "huge"}
    IN  CASE ~HasCodeActionSupport(rust, actions) -> [outcome |-> "none"]
          [] HasCodeActionSupport(rust, actions) /\ unusable -> [outcome |-> "refused"]
          [] OTHER -> [outcome |-> "runs", with |-> chosen]

-----------------------------------------------------------------------------
(***************************************************************************)
(* What the user relies on.                                                *)
(***************************************************************************)

\* One setting of a layer, wherever it is, or Unset.
Setting(layer, path) ==
    CASE Len(path) = 1 -> layer.general[path[1]]
      [] OTHER ->
            IF path[1] \notin DOMAIN layer.profiles THEN Unset
            ELSE IF Len(path) = 2 THEN layer.profiles[path[1]].settings[path[2]]
            ELSE IF layer.profiles[path[1]].actions = Unset THEN Unset
            ELSE layer.profiles[path[1]].actions[path[3]]

\* Every setting is the project's where it says something and the user's where it
\* does not, an unusable file next to the start is never passed over, and a file
\* further up is never mixed in.
ProjectOverUser(env, user, candidates, layers, empty, paths) ==
    LET made == Discover(env, user, candidates, layers, empty)
        at == Nearest(candidates)
        usesUser == UserRoot(env) \notin {"none", "error"} /\ user = "file"
        said(path) == IF at # 0 /\ Setting(layers.project, path) # Unset
                      THEN Setting(layers.project, path)
                      ELSE IF usesUser THEN Setting(layers.user, path) ELSE Unset
    IN  IF Refused(env, user, candidates)
        THEN \/ UserRoot(env) = "error"
             \/ user \notin {"absent", "file", "vanishing"}
             \/ at # 0 /\ candidates[at] # "file"
        ELSE /\ at # 0 => candidates[at] = "file"
             /\ usesUser \/ user \in {"absent", "vanishing"} \/ UserRoot(env) = "none"
             /\ \A path \in paths : Setting(made, path) = said(path)

\* A profile that is listed as able to run code actions either runs them with usable
\* settings, every explicit one as it was given, or is refused; one that is not
\* listed never starts a server; and the server started is the one that was named.
ActionsAreConsistent(rust, actions) ==
    LET made == ResolveActions(rust, actions)
    IN  /\ made.outcome = "none" <=> ~HasCodeActionSupport(rust, actions)
        /\ made.outcome = "runs" =>
              /\ CommandFamily(rust, actions) = made.with.argv
              /\ \A f \in DOMAIN made.with :
                    /\ made.with[f] \notin {Unset, "empty", "blank", "zero", "huge"}
                    /\ actions # Unset /\ actions[f] # Unset => made.with[f] = actions[f]
=============================================================================
