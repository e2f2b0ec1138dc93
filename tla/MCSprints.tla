----------------------------- MODULE MCSprints -----------------------------
(* The tasks are cards of the board, or one is a subtask of the other. *)
EXTENDS Sprints, TLC

AtMostOneSubtask ==
    {[t \in Task |-> NoTask]} \cup
    {[t \in Task |-> IF t = pair[1] THEN pair[2] ELSE NoTask] :
        pair \in {p \in Task \X Task : p[1] # p[2]}}

Symmetry == Permutations(Clients) \cup Permutations(Sprint) \cup Permutations(Task)
=============================================================================
