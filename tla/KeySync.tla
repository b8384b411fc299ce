------------------------------ MODULE KeySync ------------------------------
(***************************************************************************)
(* What the split transport promises ZMK about key positions, whatever the  *)
(* radio, the queues and the two devices do in between: what ZMK holds is a *)
(* state the switches really were in, ZMK moves through those states in the *)
(* order they happened, and a covered key it holds otherwise than the last  *)
(* state it saw is one released because the peripheral went silent.         *)
(***************************************************************************)
EXTENDS Naturals

CONSTANTS
    Position,   \* key positions of the peripheral
    Covered     \* those whose state the peripheral repeats

VARIABLES
    ver,    \* transitions of each switch so far, odd while it is closed
    seen,   \* the last of them ZMK was told the outcome of
    held    \* positions ZMK believes held

vars == <<ver, seen, held>>

Init ==
    /\ ver = [p \in Position |-> 0]
    /\ seen = [p \in Position |-> 0]
    /\ held = {}

Switch(p) ==
    /\ ver' = [ver EXCEPT ![p] = @ + 1]
    /\ UNCHANGED <<seen, held>>

(* ZMK catches up with some positions: each moves on to a state its switch   *)
(* has been in since, or is told again the one it already saw.  Transitions  *)
(* may be skipped.                                                           *)
CatchUp(P) ==
    /\ \A p \in P : seen'[p] >= seen[p] /\ seen'[p] <= ver[p]
    /\ seen' = [p \in Position |-> IF p \in P THEN seen'[p] ELSE seen[p]]
    /\ held' = {p \in Position : IF p \in P THEN seen'[p] % 2 = 1 ELSE p \in held}
    /\ UNCHANGED ver

(* The peripheral is given up: whatever it may still hold is released. *)
GiveUp ==
    /\ held' = held \ Covered
    /\ UNCHANGED <<ver, seen>>

(* The peripheral restarts: a switch that was closed opens, to be reported   *)
(* as a new press if it still is.                                            *)
SenderRestart ==
    /\ ver' = [p \in Position |-> ver[p] + (ver[p] % 2)]
    /\ UNCHANGED <<seen, held>>

(* The central restarts, and ZMK with it. *)
ReceiverRestart ==
    /\ held' = {}
    /\ UNCHANGED <<ver, seen>>

Next ==
    \/ \E p \in Position : Switch(p)
    \/ \E P \in SUBSET Position : CatchUp(P)
    \/ GiveUp
    \/ SenderRestart
    \/ ReceiverRestart

Spec == Init /\ [][Next]_vars
=============================================================================
