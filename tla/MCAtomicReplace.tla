-------------------------- MODULE MCAtomicReplace --------------------------
(* AtomicReplace on one or two files, for TLC.                             *)
EXTENDS AtomicReplace, TLC

\* Inodes are only compared with each other and saves only with texts, so
\* permuting either maps behaviours to behaviours.
Symmetry == Permutations(Inodes) \cup Permutations(Saves)
=============================================================================
