---------------------------- MODULE MCTaskGraph ----------------------------
(* Model-checking instance of TaskGraph: tasks and clients are             *)
(* interchangeable.                                                        *)
EXTENDS TaskGraph, TLC

Symmetry == Permutations(Task) \cup Permutations(Client)
=============================================================================
