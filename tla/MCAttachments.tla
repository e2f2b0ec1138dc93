---------------------------- MODULE MCAttachments ----------------------------
(* Model-checking instance of Attachments; its constants are in the .cfg.  *)
EXTENDS Attachments, TLC
=============================================================================
