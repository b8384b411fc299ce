----------------------------- MODULE MCHopLink -----------------------------
(* The constants of every HopLink run are given in its cfg. *)
EXTENDS HopLink
=============================================================================
