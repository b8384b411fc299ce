--------------------------- MODULE MCChannelMask ---------------------------
(* The constants of every ChannelMask run are given in its cfg. *)
EXTENDS ChannelMask
=============================================================================
