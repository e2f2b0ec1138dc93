------------------------- MODULE MCFormSubmissions -------------------------
(* Model-checking instance of FormSubmissions; its constants are in the .cfg. *)
EXTENDS FormSubmissions
=============================================================================
