------------------------------ MODULE Containers ------------------------------
(***************************************************************************)
(* Sequences made of sets, and tables that grow.  Those of the libraries    *)
(* are not all defined in terms a prover can expand: sorting and filtering  *)
(* place an element here by the number of those before it, which it can.    *)
(***************************************************************************)
EXTENDS Naturals, FiniteSets

\* The elements of a set in the order of a relation, a set of pairs that orders them
\* totally.
Sort(S, before) ==
    [k \in 1..Cardinality(S) |->
        CHOOSE x \in S : Cardinality({y \in S : <<y, x>> \in before}) = k - 1]

\* The numbers of a set, the least one first.
Ascending(S) == Sort(S, {pair \in S \X S : pair[1] < pair[2]})

\* What a sequence has at these places, in its order.
Picked(s, places) ==
    LET place == Ascending(places) IN [k \in 1..Cardinality(places) |-> s[place[k]]]

\* A table in which keys have a value, whether they had one before or not.
Put(table, keys, value) ==
    [k \in DOMAIN table \cup keys |-> IF k \in keys THEN value ELSE table[k]]
=============================================================================
