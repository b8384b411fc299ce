-------------------------- MODULE MCMotionTotals ---------------------------
(* MotionTotals on small instances.  Totals wrap at 32 and their keepalive   *)
(* part at 16: a start of 14 crosses the short wrap, one of 30 and a first   *)
(* step back from 0 cross both.                                              *)
EXTENDS MotionTotals
MCDeltas == {-1, 3}
MCStarts == {0, 14, 30}
=============================================================================
