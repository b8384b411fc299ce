---------------------------- MODULE MCInputKeys ----------------------------
(* InputKeys on small instances. *)
EXTENDS InputKeys, TLC
CONSTANTS b1, b2
MCKeys  == {b1, b2}
MCRegOf == (b1 :> 0) @@ (b2 :> 1)
=============================================================================
