----------------------------- MODULE MCTaskBoard -----------------------------
(* Model-checking instance of TaskBoard: the ids of the tasks are in the   *)
(* opposite order of their creation.  Clients are interchangeable.         *)
EXTENDS TaskBoard, TLC

Serials == 1..3
Ids == [t \in Serials |-> 4 - t]
Lowest == -2
Symmetry == Permutations(Client)
=============================================================================
