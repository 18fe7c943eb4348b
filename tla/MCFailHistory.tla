----------------------------- MODULE MCFailHistory -----------------------------
(* One failure history on small instances. *)
EXTENDS FailHistory
=============================================================================
