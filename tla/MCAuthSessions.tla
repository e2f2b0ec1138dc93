--------------------------- MODULE MCAuthSessions ---------------------------
(* Model-checking instance of AuthSessions; its constants are given in     *)
(* AuthSessions.cfg.                                                       *)
EXTENDS AuthSessions
=============================================================================
