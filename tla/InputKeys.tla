----------------------------- MODULE InputKeys -----------------------------
(***************************************************************************)
(* Input-split buttons of one peripheral, from its input thread to ZMK's    *)
(* input devices on the central.                                            *)
(*                                                                          *)
(* Unlike key positions they bypass the event queue: the rx thread applies  *)
(* them.  Both ends keep a table of held keys with a few slots; the         *)
(* keepalive carries the peripheral's.  The staleness tick, on the system   *)
(* workqueue, only flags the central's table for a reset, so the rx thread  *)
(* stays its one writer.                                                    *)
(*                                                                          *)
(* The link in between is what KeyLink shows it to be: packets arrive in    *)
(* the order they were sent, none twice, any of them lost.                  *)
(***************************************************************************)
EXTENDS Naturals, Sequences, FiniteSets

CONSTANTS
    Keys,            \* (reg, code) pairs of the peripheral's buttons
    RegOf,           \* the input-split register of each
    RegMax,          \* CENTRAL_INPUT_REG_MAX
    HeldKeysMax,     \* slots of both tables, ZMK_INPUT_SPLIT_MAX_TRACKED_KEYS
    HeldAtOnce,      \* buttons the user holds at once
    TxFifoSize,      \* CONFIG_ESB_TX_FIFO_SIZE
    MaxTransitions,  \* bound: presses and releases by the user
    MaxReboots       \* bound: restarts of either device

ASSUME KeysAssumption == RegOf \in [Keys -> Nat] /\ RegMax \in Nat
ASSUME BoundsAssumption ==
    /\ HeldKeysMax \in Nat /\ HeldAtOnce \in Nat /\ TxFifoSize \in Nat \ {0}
    /\ MaxTransitions \in Nat /\ MaxReboots \in Nat

VARIABLES
    held,                  \* buttons physically down
    noted,                 \* the event between note and send on the input thread
    held_input_keys,       \* peripheral_input.c
    tx_fifo,               \* packets on their way
    tracked_input_keys,    \* central_input.c, keys in slots that are held
    pipe_seen_input_regs,
    input_reset,           \* the pipe's bit of input_reset_pipes
    pipe_heard, pipe_stale,
    zmk_held,              \* buttons ZMK's input devices believe down
    zmk_repeated,          \* history: ZMK saw a press of a button it held
    transitions, reboots

peripheral_vars == <<held, noted, held_input_keys, transitions>>
table_vars      == <<tracked_input_keys, pipe_seen_input_regs, input_reset>>
zmk_vars        == <<zmk_held, zmk_repeated>>
vars == <<peripheral_vars, tx_fifo, table_vars, pipe_heard, pipe_stale, zmk_vars, reboots>>

Low(k) == RegOf[k] < RegMax

KeyEvents  == [kind : {"key"}, key : Keys, pressed : BOOLEAN]
Keepalives == [kind : {"keepalive"}, held : SUBSET Keys]
Packets    == KeyEvents \union Keepalives
Nothing    == [kind |-> "none"]

-----------------------------------------------------------------------------
(* The peripheral.  The input thread notes an event in the table, then sends *)
(* it: a key event is never held back in the batch.  The keepalive tick runs *)
(* on the cooperative workqueue and can fall between the two.                *)

Submit(packet) ==
    tx_fifo' = IF Len(tx_fifo) < TxFifoSize THEN Append(tx_fifo, packet) ELSE tx_fifo

held_entry_add(k) ==
    IF Cardinality(held_input_keys) < HeldKeysMax THEN held_input_keys \union {k}
    ELSE held_input_keys

peripheral_input_note_event(k) ==
    /\ noted = Nothing /\ transitions < MaxTransitions
    /\ transitions' = transitions + 1
    /\ k \notin held => Cardinality(held) < HeldAtOnce
    /\ held' = IF k \in held THEN held \ {k} ELSE held \union {k}
    /\ held_input_keys' = IF k \in held THEN held_input_keys \ {k} ELSE held_entry_add(k)
    /\ noted' = [kind |-> "key", key |-> k, pressed |-> k \notin held]
    /\ UNCHANGED <<tx_fifo, table_vars, pipe_heard, pipe_stale, zmk_vars, reboots>>

esb_batch_report_event ==
    /\ noted # Nothing
    /\ Submit(noted)
    /\ noted' = Nothing
    /\ UNCHANGED <<held, held_input_keys, transitions, table_vars, pipe_heard, pipe_stale,
                   zmk_vars, reboots>>

keepalive_work_fn ==
    /\ Submit([kind |-> "keepalive", held |-> held_input_keys])
    /\ UNCHANGED <<peripheral_vars, table_vars, pipe_heard, pipe_stale, zmk_vars, reboots>>

(* A failed packet takes the whole FIFO with it; a full RX ring on the       *)
(* central drops one packet that was already acknowledged.                   *)
Flushed ==
    /\ tx_fifo # <<>>
    /\ tx_fifo' = <<>>
    /\ UNCHANGED <<peripheral_vars, table_vars, pipe_heard, pipe_stale, zmk_vars, reboots>>

RingFull ==
    /\ tx_fifo # <<>>
    /\ tx_fifo' = Tail(tx_fifo)
    /\ pipe_heard' = TRUE /\ pipe_stale' = FALSE
    /\ UNCHANGED <<peripheral_vars, table_vars, zmk_vars, reboots>>

-----------------------------------------------------------------------------
(* The central's rx thread.                                                  *)

(* ZMK's side of a step: the keys it is told are down and those it is told   *)
(* are up, releases first.                                                   *)
forward_to_zmk(releases, presses) ==
    /\ zmk_held' = (zmk_held \ releases) \union presses
    /\ zmk_repeated' = (zmk_repeated \/ (zmk_held \ releases) \intersect presses # {})

(* Mutant: the flag is cleared and the table kept. *)
reset_not_applied == tracked_input_keys

(* A pending reset empties the table before anything else is looked at. *)
apply_input_reset == IF input_reset THEN {} ELSE tracked_input_keys

note_input_reg(keys) ==
    pipe_seen_input_regs' = pipe_seen_input_regs
        \union {r \in 0..(RegMax - 1) : \E k \in keys : RegOf[k] = r}

(* Mutant: every press is forwarded. *)
deliver_repeats_presses(k, pressed, tracked) ==
    /\ note_input_reg({k})
    /\ tracked_input_keys' = IF ~pressed THEN tracked \ {k}
                             ELSE IF Cardinality(tracked) < HeldKeysMax THEN tracked \union {k}
                             ELSE tracked
    /\ forward_to_zmk(IF pressed THEN {} ELSE {k}, IF pressed THEN {k} ELSE {})

(* A press of a tracked key is one its keepalive overtook: it drops.  A full *)
(* table forwards the press untracked.                                       *)
central_input_deliver_event(k, pressed, tracked) ==
    /\ note_input_reg({k})
    /\ IF pressed /\ k \in tracked
       THEN tracked_input_keys' = tracked /\ UNCHANGED zmk_vars
       ELSE /\ tracked_input_keys' = IF ~pressed THEN tracked \ {k}
                                     ELSE IF Cardinality(tracked) < HeldKeysMax
                                     THEN tracked \union {k} ELSE tracked
            /\ forward_to_zmk(IF pressed THEN {} ELSE {k}, IF pressed THEN {k} ELSE {})

(* Keys a keepalive lists and the table lacks are pressed in the order of    *)
(* the peripheral's slots, as far as there is room.                          *)
Replayable(missing, kept) ==
    {s \in SUBSET missing :
        \/ s = missing /\ Cardinality(kept) + Cardinality(s) <= HeldKeysMax
        \/ Cardinality(kept) + Cardinality(s) = HeldKeysMax}

(* Mutant: replayed presses leave no trace in the register bitmap. *)
reconcile_without_note(listed, tracked) ==
    \E replayed \in Replayable(listed \ tracked, tracked \intersect listed) :
        /\ tracked_input_keys' = (tracked \intersect listed) \union replayed
        /\ UNCHANGED pipe_seen_input_regs
        /\ forward_to_zmk(tracked \ listed, replayed)

(* Mutant: lost presses are replayed, lost releases are not. *)
reconcile_presses_only(listed, tracked) ==
    \E replayed \in Replayable(listed \ tracked, tracked) :
        /\ tracked_input_keys' = tracked \union replayed
        /\ note_input_reg(replayed)
        /\ forward_to_zmk({}, replayed)

central_input_reconcile(listed, tracked) ==
    \E replayed \in Replayable(listed \ tracked, tracked \intersect listed) :
        /\ tracked_input_keys' = (tracked \intersect listed) \union replayed
        /\ note_input_reg(replayed)
        /\ forward_to_zmk(tracked \ listed, replayed)

(* The pipe is heard in the ISR; its packet is handled long before the       *)
(* timeout that follows it, so no staleness tick falls in between.           *)
central_ingest_packet ==
    /\ tx_fifo # <<>>
    /\ tx_fifo' = Tail(tx_fifo)
    /\ pipe_heard' = TRUE /\ pipe_stale' = FALSE
    /\ input_reset' = FALSE
    /\ LET packet == Head(tx_fifo)
       IN  IF packet.kind = "key"
           THEN central_input_deliver_event(packet.key, packet.pressed, apply_input_reset)
           ELSE central_input_reconcile(packet.held, apply_input_reset)
    /\ UNCHANGED <<peripheral_vars, reboots>>

-----------------------------------------------------------------------------
(* System workqueue: a staleness tick finds the pipe silent past its timeout *)
(* for the first time.                                                       *)

(* ZMK releases every button it holds for a register it is told about. *)
zmk_input_split_peripheral_disconnected(regs) ==
    forward_to_zmk({k \in zmk_held : RegOf[k] \in regs}, {})

central_input_release_pipe ==
    /\ zmk_input_split_peripheral_disconnected(pipe_seen_input_regs)
    /\ input_reset' = TRUE
    /\ UNCHANGED <<tracked_input_keys, pipe_seen_input_regs>>

staleness_work_fn ==
    /\ pipe_heard /\ ~pipe_stale
    /\ pipe_stale' = TRUE
    /\ central_input_release_pipe
    /\ UNCHANGED <<peripheral_vars, tx_fifo, pipe_heard, reboots>>

(* A restarted peripheral reports a button still down as a new press.        *)
PeripheralReboot ==
    /\ reboots < MaxReboots
    /\ reboots' = reboots + 1
    /\ held' = {} /\ noted' = Nothing /\ held_input_keys' = {} /\ tx_fifo' = <<>>
    /\ UNCHANGED <<transitions, table_vars, pipe_heard, pipe_stale, zmk_vars>>

CentralReboot ==
    /\ reboots < MaxReboots
    /\ reboots' = reboots + 1
    /\ tracked_input_keys' = {} /\ pipe_seen_input_regs' = {} /\ input_reset' = FALSE
    /\ pipe_heard' = FALSE /\ pipe_stale' = FALSE
    /\ zmk_held' = {} /\ UNCHANGED zmk_repeated
    /\ UNCHANGED <<peripheral_vars, tx_fifo>>

Init ==
    /\ held = {} /\ noted = Nothing /\ held_input_keys = {} /\ tx_fifo = <<>>
    /\ tracked_input_keys = {} /\ pipe_seen_input_regs = {} /\ input_reset = FALSE
    /\ pipe_heard = FALSE /\ pipe_stale = FALSE
    /\ zmk_held = {} /\ zmk_repeated = FALSE
    /\ transitions = 0 /\ reboots = 0

Next ==
    \/ \E k \in Keys : peripheral_input_note_event(k)
    \/ esb_batch_report_event
    \/ keepalive_work_fn
    \/ Flushed
    \/ RingFull
    \/ central_ingest_packet
    \/ staleness_work_fn
    \/ PeripheralReboot
    \/ CentralReboot

Spec == Init /\ [][Next]_vars

(* The input thread and the keepalive timer keep running, and some packet    *)
(* gets through again and again however many do not.                         *)
FairSpec ==
    /\ Spec
    /\ WF_vars(esb_batch_report_event) /\ WF_vars(keepalive_work_fn)
    /\ SF_vars(central_ingest_packet)

-----------------------------------------------------------------------------
TypeOK ==
    /\ held \in SUBSET Keys /\ held_input_keys \in SUBSET Keys
    /\ noted \in KeyEvents \union {Nothing}
    /\ tx_fifo \in Seq(Packets) /\ Len(tx_fifo) <= TxFifoSize
    /\ tracked_input_keys \in SUBSET Keys /\ zmk_held \in SUBSET Keys
    /\ Cardinality(tracked_input_keys) <= HeldKeysMax
    /\ pipe_seen_input_regs \in SUBSET (0..(RegMax - 1))
    /\ input_reset \in BOOLEAN /\ zmk_repeated \in BOOLEAN
    /\ pipe_heard \in BOOLEAN /\ pipe_stale \in BOOLEAN
    /\ transitions \in 0..MaxTransitions /\ reboots \in 0..MaxReboots

(* A key in the table, not about to be reset, is down in ZMK, so the release *)
(* a keepalive replays is one ZMK is waiting for (central_input.c            *)
(* central_input_deliver_event, central_input_reconcile), full table or not. *)
TrackedInputIsHeld == ~input_reset => tracked_input_keys \subseteq zmk_held

(* While every button has a slot, ZMK never sees a press of a button it      *)
(* holds: not from a keepalive that overtook the press, not from the reset   *)
(* a staleness tick left behind (central_input.c apply_input_reset).         *)
NoRepeatedPress == ~zmk_repeated

(* A pipe that went stale holds no button of a register below                *)
(* CENTRAL_INPUT_REG_MAX in ZMK, whichever path pressed it                   *)
(* (central_input.c note_input_reg, central_input_release_pipe).             *)
StalePipeHoldsNoButton == pipe_stale => \A k \in zmk_held : ~Low(k)

(* Once the user stops and the pipe stays audible, ZMK ends up with exactly  *)
(* the buttons that are down.                                                *)
InputConverges == <>[]~pipe_stale => <>[](zmk_held = held)
=============================================================================
