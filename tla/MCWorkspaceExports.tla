------------------------ MODULE MCWorkspaceExports ------------------------
(* Symmetry for TLC. *)
EXTENDS WorkspaceExports, TLC

Symmetry == Permutations(Rows) \cup Permutations(Workers)
=============================================================================
