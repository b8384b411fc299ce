----------------------------- MODULE MCKeyLink -----------------------------
(* KeyLink on small instances. *)
EXTENDS KeyLink
=============================================================================
