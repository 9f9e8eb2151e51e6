-------------------------------- MODULE Digests --------------------------------
(***************************************************************************)
(* The digest of a list of diagnostics (digest.rs): repeated diagnostics    *)
(* are dropped, the rest is counted and grouped, and a group keeps a few    *)
(* samples.  A diagnostic is a record; sites stands for its spans and       *)
(* suggestions, severities are numbers, and a code may be "" or None.       *)
(***************************************************************************)
EXTENDS Naturals, Sequences, SequencesExt, FiniteSets, FiniteSetsExt, Containers

CONSTANT
    Fingerprint(_)  \* the hash of an identity; different identities may share one

\* Everything but the raw payload a tool gave.
Identity(d) == [d EXCEPT !.raw = "none"]

\* As Seen, but diagnostics that share a fingerprint are taken for one.
SeenByFingerprint(buckets, d) == Fingerprint(Identity(d)) \in DOMAIN buckets

Seen(buckets, d) ==
    /\ Fingerprint(Identity(d)) \in DOMAIN buckets
    /\ Identity(d) \in buckets[Fingerprint(Identity(d))]

\* Into the bucket of its fingerprint, unless that holds its identity.
Keep(state, d) ==
    LET f == Fingerprint(Identity(d))
        bucket == IF f \in DOMAIN state.buckets THEN state.buckets[f] ELSE {}
    IN  IF Seen(state.buckets, d) THEN state
        ELSE [kept |-> Append(state.kept, d),
              buckets |-> Put(state.buckets, {f}, bucket \cup {Identity(d)})]

Deduped(diagnostics) == FoldLeft(Keep, [kept |-> <<>>, buckets |-> <<>>], diagnostics).kept

Coded(d) == d.code \notin {"none", ""}

\* The code where there is one, else the message.
GroupKey(d) ==
    [source |-> d.source, coded |-> Coded(d), text |-> IF Coded(d) THEN d.code ELSE d.message]

\* One more diagnostic in its group; only the first few are kept as samples.
Gather(groups, d, limit) ==
    LET key == GroupKey(d)
        group == IF key \in DOMAIN groups THEN groups[key]
                 ELSE [count |-> 0, severity |-> d.severity, samples |-> <<>>]
    IN  Put(groups, {key},
            [count |-> group.count + 1,
             severity |-> Max({group.severity, d.severity}),
             samples |-> IF Len(group.samples) < limit THEN Append(group.samples, d)
                         ELSE group.samples])

Grouped(diagnostics, limit) ==
    LET step(groups, d) == Gather(groups, d, limit) IN FoldLeft(step, <<>>, diagnostics)

\* How many diagnostics have each value of a field.
CountBy(diagnostics, field) ==
    [v \in {diagnostics[i][field] : i \in DOMAIN diagnostics} |->
        Cardinality({i \in DOMAIN diagnostics : diagnostics[i][field] = v})]

BuildDigest(diagnostics, limit) ==
    [diagnostics |-> Deduped(diagnostics),
     bySeverity |-> CountBy(Deduped(diagnostics), "severity"),
     bySource |-> CountBy(Deduped(diagnostics), "source"),
     groups |-> Grouped(Deduped(diagnostics), limit)]

-----------------------------------------------------------------------------
(***************************************************************************)
(* What the user relies on.                                                *)
(***************************************************************************)

Total(counts) == FoldSet(LAMBDA k, n : counts[k] + n, 0, DOMAIN counts)

\* Of the diagnostics that differ in more than their payload exactly the first is
\* kept, in order, however hashes collide; every one kept is counted once by
\* severity, by source and in one group; a group is as severe as its worst and its
\* samples are its first diagnostics, as many as asked for.
DigestIsFair(diagnostics, limit) ==
    LET digest == BuildDigest(diagnostics, limit)
        first == {i \in DOMAIN diagnostics :
                     \A j \in 1..(i - 1) : Identity(diagnostics[j]) # Identity(diagnostics[i])}
        kept == digest.diagnostics
        members(key) == Picked(kept, {k \in DOMAIN kept : GroupKey(kept[k]) = key})
    IN  /\ kept = Picked(diagnostics, first)
        /\ Total(digest.bySeverity) = Cardinality(first)
        /\ Total(digest.bySource) = Cardinality(first)
        /\ DOMAIN digest.groups = {GroupKey(diagnostics[i]) : i \in first}
        /\ \A key \in DOMAIN digest.groups :
              /\ digest.groups[key].count = Len(members(key))
              /\ digest.groups[key].severity = Max({d.severity : d \in ToSet(members(key))})
              /\ digest.groups[key].samples = SubSeq(members(key), 1, Min({limit, Len(members(key))}))
=============================================================================
