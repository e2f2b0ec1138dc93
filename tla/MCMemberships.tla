---------------------------- MODULE MCMemberships ----------------------------
(* Model-checking instance of Memberships; its constants are given in the  *)
(* .cfg files.  Invitations, clients and the users who did not found the   *)
(* organization are interchangeable.                                       *)
EXTENDS Memberships, TLC

Symmetry ==
    Permutations(Invitation) \cup Permutations(Client) \cup Permutations(User \ {Founder})
=============================================================================
