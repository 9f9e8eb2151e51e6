-------------------------- MODULE MCWorkspaceEdit --------------------------
(* WorkspaceEdit on two files, for TLC.                                    *)
EXTENDS WorkspaceEdit

\* Inodes are only compared with each other.
Symmetry == Permutations(Inodes)
=============================================================================
