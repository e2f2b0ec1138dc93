------------------------ MODULE MCNotificationEmail ------------------------
(* Model values and symmetry for TLC. *)
EXTENDS NotificationEmail, TLC

Symmetry == Permutations(Rows) \cup Permutations(Workers)
=============================================================================
