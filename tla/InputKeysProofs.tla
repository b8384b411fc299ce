-------------------------- MODULE InputKeysProofs --------------------------
(***************************************************************************)
(* Proofs about InputKeys, for any set of buttons, any table size and any   *)
(* number of transitions, losses and restarts.                              *)
(***************************************************************************)
EXTENDS InputKeys, FiniteSetTheorems, TLAPS

(* The part of TypeOK the proofs need. *)
Typed ==
    /\ held \in SUBSET Keys /\ held_input_keys \in SUBSET Keys
    /\ noted \in KeyEvents \union {Nothing}
    /\ tx_fifo \in Seq(Packets)
    /\ tracked_input_keys \in SUBSET Keys /\ zmk_held \in SUBSET Keys
    /\ pipe_seen_input_regs \in SUBSET (0..(RegMax - 1))
    /\ input_reset \in BOOLEAN /\ zmk_repeated \in BOOLEAN
    /\ pipe_heard \in BOOLEAN /\ pipe_stale \in BOOLEAN

(* Every button ZMK holds came through note_input_reg. *)
SeenCoversHeld == \A k \in zmk_held : Low(k) => RegOf[k] \in pipe_seen_input_regs

(* The inductive invariant: a register the bitmap does not know would        *)
(* survive the staleness tick.                                               *)
InputInv == Typed /\ SeenCoversHeld /\ TrackedInputIsHeld /\ StalePipeHoldsNoButton

-----------------------------------------------------------------------------
LEMMA SubmitTyped ==
    ASSUME Typed, NEW packet \in Packets, Submit(packet)
    PROVE  tx_fifo' \in Seq(Packets)
BY DEF Typed, Submit

LEMMA HeadTyped ==
    ASSUME Typed, tx_fifo # <<>>
    PROVE  /\ Tail(tx_fifo) \in Seq(Packets) /\ Head(tx_fifo) \in Packets
           /\ Head(tx_fifo).kind = "key" =>
                  Head(tx_fifo).key \in Keys /\ Head(tx_fifo).pressed \in BOOLEAN
           /\ Head(tx_fifo).kind # "key" => Head(tx_fifo).held \in SUBSET Keys
<1>1. Tail(tx_fifo) \in Seq(Packets) /\ Head(tx_fifo) \in Packets
  BY DEF Typed
<1>2. ASSUME NEW p \in Packets
      PROVE  /\ p.kind = "key" => p.key \in Keys /\ p.pressed \in BOOLEAN
             /\ p.kind # "key" => p.held \in SUBSET Keys
  BY DEF Packets, KeyEvents, Keepalives
<1> QED BY <1>1, <1>2

(* What the rx thread finds in the table after a pending reset is held.      *)
LEMMA AfterReset ==
    ASSUME Typed, TrackedInputIsHeld
    PROVE  apply_input_reset \in SUBSET Keys /\ apply_input_reset \subseteq zmk_held
BY DEF Typed, TrackedInputIsHeld, apply_input_reset

(* A register noted covers its key; nothing is un-noted. *)
LEMMA NoteCovers ==
    ASSUME Typed, NEW keys \in SUBSET Keys, note_input_reg(keys)
    PROVE  /\ pipe_seen_input_regs' \in SUBSET (0..(RegMax - 1))
           /\ pipe_seen_input_regs \subseteq pipe_seen_input_regs'
           /\ \A k \in keys : Low(k) => RegOf[k] \in pipe_seen_input_regs'
<1> DEFINE noting == {r \in 0..(RegMax - 1) : \E k \in keys : RegOf[k] = r}
<1>1. pipe_seen_input_regs' = pipe_seen_input_regs \union noting
  BY DEF note_input_reg
<1>2. ASSUME NEW k \in keys, Low(k) PROVE RegOf[k] \in noting
  <2>1. RegOf[k] \in Nat /\ RegOf[k] < RegMax
    BY <1>2, KeysAssumption DEF Low
  <2>2. RegOf[k] \in 0..(RegMax - 1)
    BY <2>1, KeysAssumption
  <2> QED BY <2>2
<1>3. pipe_seen_input_regs \subseteq pipe_seen_input_regs' /\ noting \subseteq pipe_seen_input_regs'
  BY <1>1
<1>4. pipe_seen_input_regs' \in SUBSET (0..(RegMax - 1))
  BY <1>1 DEF Typed
<1> HIDE DEF noting
<1> QED BY <1>2, <1>3, <1>4

(* One delivered event keeps table, bitmap and ZMK in step. *)
LEMMA DeliverKeeps ==
    ASSUME Typed, SeenCoversHeld,
           NEW k \in Keys, NEW pressed \in BOOLEAN, NEW tracked \in SUBSET Keys,
           tracked \subseteq zmk_held,
           central_input_deliver_event(k, pressed, tracked)
    PROVE  /\ tracked_input_keys' \in SUBSET Keys /\ zmk_held' \in SUBSET Keys
           /\ tracked_input_keys' \subseteq zmk_held'
           /\ zmk_repeated' \in BOOLEAN
           /\ pipe_seen_input_regs' \in SUBSET (0..(RegMax - 1))
           /\ SeenCoversHeld'
<1> DEFINE releases == IF pressed THEN {} ELSE {k}
           presses  == IF pressed THEN {k} ELSE {}
<1>1. note_input_reg({k})
  BY DEF central_input_deliver_event
<1>2. CASE pressed /\ k \in tracked
  <2>1. tracked_input_keys' = tracked /\ zmk_held' = zmk_held /\ zmk_repeated' = zmk_repeated
    BY <1>2 DEF central_input_deliver_event, zmk_vars
  <2> QED BY <1>1, <2>1, NoteCovers DEF Typed, SeenCoversHeld, Low
<1>3. CASE ~(pressed /\ k \in tracked)
  <2>1. zmk_held' = (zmk_held \ releases) \union presses
    BY <1>3 DEF central_input_deliver_event, forward_to_zmk
  <2>2. zmk_repeated' \in BOOLEAN
    BY <1>3 DEF central_input_deliver_event, forward_to_zmk, Typed
  <2>3. \/ ~pressed /\ tracked_input_keys' = tracked \ {k}
        \/ pressed /\ tracked_input_keys' \in {tracked, tracked \union {k}}
    BY <1>3 DEF central_input_deliver_event
  <2>4. zmk_held' \in SUBSET Keys /\ tracked_input_keys' \in SUBSET Keys
        /\ tracked_input_keys' \subseteq zmk_held'
    BY <2>1, <2>3 DEF Typed
  <2>5. SeenCoversHeld'
    BY <1>1, <2>1, NoteCovers DEF Typed, SeenCoversHeld, Low
  <2> QED BY <1>1, <2>2, <2>4, <2>5, NoteCovers
<1> QED BY <1>2, <1>3

(* One reconciled keepalive does too. *)
LEMMA ReconcileKeeps ==
    ASSUME Typed, SeenCoversHeld,
           NEW listed \in SUBSET Keys, NEW tracked \in SUBSET Keys,
           tracked \subseteq zmk_held,
           central_input_reconcile(listed, tracked)
    PROVE  /\ tracked_input_keys' \in SUBSET Keys /\ zmk_held' \in SUBSET Keys
           /\ tracked_input_keys' \subseteq zmk_held'
           /\ zmk_repeated' \in BOOLEAN
           /\ pipe_seen_input_regs' \in SUBSET (0..(RegMax - 1))
           /\ SeenCoversHeld'
<1>1. PICK replayed \in SUBSET (listed \ tracked) :
          /\ tracked_input_keys' = (tracked \intersect listed) \union replayed
          /\ note_input_reg(replayed)
          /\ forward_to_zmk(tracked \ listed, replayed)
  BY DEF central_input_reconcile, Replayable
<1>2. zmk_held' = (zmk_held \ (tracked \ listed)) \union replayed /\ zmk_repeated' \in BOOLEAN
  BY <1>1 DEF forward_to_zmk, Typed
<1>3. SeenCoversHeld'
  BY <1>1, <1>2, NoteCovers DEF Typed, SeenCoversHeld, Low
<1> QED BY <1>1, <1>2, <1>3, NoteCovers DEF Typed

-----------------------------------------------------------------------------
LEMMA InitHolds == Init => InputInv
<1> SUFFICES ASSUME Init PROVE InputInv
  OBVIOUS
<1>1. tx_fifo \in Seq(Packets)
  BY DEF Init
<1> QED BY <1>1 DEF Init, InputInv, Typed, SeenCoversHeld, TrackedInputIsHeld,
                    StalePipeHoldsNoButton

LEMMA StepHolds == InputInv /\ [Next]_vars => InputInv'
<1> SUFFICES ASSUME InputInv, [Next]_vars PROVE InputInv'
  OBVIOUS
<1>0. Typed /\ SeenCoversHeld /\ TrackedInputIsHeld /\ StalePipeHoldsNoButton
  BY DEF InputInv
<1> USE <1>0
<1>1. ASSUME NEW k \in Keys, peripheral_input_note_event(k) PROVE InputInv'
  <2>1. UNCHANGED <<tx_fifo, table_vars, pipe_heard, pipe_stale, zmk_vars>>
    BY <1>1 DEF peripheral_input_note_event
  <2>2. held' \in SUBSET Keys /\ held_input_keys' \in SUBSET Keys
    BY <1>1 DEF peripheral_input_note_event, held_entry_add, Typed
  <2>3. noted' \in KeyEvents
    BY <1>1 DEF peripheral_input_note_event, KeyEvents
  <2> QED BY <2>1, <2>2, <2>3 DEF InputInv, Typed, SeenCoversHeld, TrackedInputIsHeld,
             StalePipeHoldsNoButton, table_vars, zmk_vars, Low
<1>2. CASE esb_batch_report_event
  <2>1. noted \in Packets
    BY <1>2 DEF esb_batch_report_event, Typed, Packets
  <2>2. tx_fifo' \in Seq(Packets)
    BY <1>2, <2>1, SubmitTyped DEF esb_batch_report_event
  <2> QED BY <1>2, <2>2 DEF esb_batch_report_event, InputInv, Typed, SeenCoversHeld,
             TrackedInputIsHeld, StalePipeHoldsNoButton, table_vars, zmk_vars, Low
<1>3. CASE keepalive_work_fn
  <2>1. [kind |-> "keepalive", held |-> held_input_keys] \in Packets
    BY DEF Typed, Packets, Keepalives
  <2>2. tx_fifo' \in Seq(Packets)
    BY <1>3, <2>1, SubmitTyped DEF keepalive_work_fn
  <2> QED BY <1>3, <2>2 DEF keepalive_work_fn, InputInv, Typed, SeenCoversHeld,
             TrackedInputIsHeld, StalePipeHoldsNoButton, peripheral_vars, table_vars, zmk_vars, Low
<1>4. CASE Flushed
  <2>1. tx_fifo' \in Seq(Packets)
    BY <1>4 DEF Flushed
  <2> QED BY <1>4, <2>1 DEF Flushed, InputInv, Typed, SeenCoversHeld, TrackedInputIsHeld,
             StalePipeHoldsNoButton, peripheral_vars, table_vars, zmk_vars, Low
<1>5. CASE RingFull
  <2>1. tx_fifo' \in Seq(Packets)
    BY <1>5, HeadTyped DEF RingFull
  <2> QED BY <1>5, <2>1 DEF RingFull, InputInv, Typed, SeenCoversHeld, TrackedInputIsHeld,
             StalePipeHoldsNoButton, peripheral_vars, table_vars, zmk_vars, Low
<1>6. CASE central_ingest_packet
  <2>1. tx_fifo # <<>> /\ tx_fifo' = Tail(tx_fifo) /\ pipe_heard' = TRUE /\ pipe_stale' = FALSE
        /\ input_reset' = FALSE /\ UNCHANGED peripheral_vars
    BY <1>6 DEF central_ingest_packet
  <2>2. /\ tracked_input_keys' \in SUBSET Keys /\ zmk_held' \in SUBSET Keys
        /\ tracked_input_keys' \subseteq zmk_held'
        /\ zmk_repeated' \in BOOLEAN
        /\ pipe_seen_input_regs' \in SUBSET (0..(RegMax - 1))
        /\ SeenCoversHeld'
    <3>1. CASE Head(tx_fifo).kind = "key"
      <4>1. central_input_deliver_event(Head(tx_fifo).key, Head(tx_fifo).pressed, apply_input_reset)
        BY <1>6, <3>1 DEF central_ingest_packet
      <4> QED BY <2>1, <3>1, <4>1, HeadTyped, AfterReset, DeliverKeeps
    <3>2. CASE Head(tx_fifo).kind # "key"
      <4>1. central_input_reconcile(Head(tx_fifo).held, apply_input_reset)
        BY <1>6, <3>2 DEF central_ingest_packet
      <4> QED BY <2>1, <3>2, <4>1, HeadTyped, AfterReset, ReconcileKeeps
    <3> QED BY <3>1, <3>2
  <2> QED BY <2>1, <2>2, HeadTyped DEF InputInv, Typed, TrackedInputIsHeld,
             StalePipeHoldsNoButton, peripheral_vars
<1>7. CASE staleness_work_fn
  <2>1. /\ zmk_held' = zmk_held \ {k \in zmk_held : RegOf[k] \in pipe_seen_input_regs}
        /\ zmk_repeated' \in BOOLEAN
    BY <1>7 DEF staleness_work_fn, central_input_release_pipe,
                zmk_input_split_peripheral_disconnected, forward_to_zmk, Typed
  <2>2. input_reset' = TRUE /\ UNCHANGED <<tracked_input_keys, pipe_seen_input_regs>>
        /\ pipe_stale' = TRUE /\ UNCHANGED <<peripheral_vars, tx_fifo, pipe_heard>>
    BY <1>7 DEF staleness_work_fn, central_input_release_pipe
  <2>3. \A k \in zmk_held' : k \in zmk_held /\ ~Low(k)
    BY <2>1 DEF SeenCoversHeld
  <2> QED BY <2>1, <2>2, <2>3 DEF InputInv, Typed, SeenCoversHeld, TrackedInputIsHeld,
             StalePipeHoldsNoButton, peripheral_vars, Low
<1>8. CASE PeripheralReboot
  <2>1. tx_fifo' \in Seq(Packets)
    BY <1>8 DEF PeripheralReboot
  <2> QED BY <1>8, <2>1 DEF PeripheralReboot, InputInv, Typed, SeenCoversHeld,
             TrackedInputIsHeld, StalePipeHoldsNoButton, table_vars, zmk_vars, Low
<1>9. CASE CentralReboot
  BY <1>9 DEF CentralReboot, InputInv, Typed, SeenCoversHeld, TrackedInputIsHeld,
     StalePipeHoldsNoButton, peripheral_vars
<1>10. CASE UNCHANGED vars
  BY <1>10 DEF vars, InputInv, Typed, SeenCoversHeld, TrackedInputIsHeld,
     StalePipeHoldsNoButton, peripheral_vars, table_vars, zmk_vars, Low
<1> QED BY <1>1, <1>2, <1>3, <1>4, <1>5, <1>6, <1>7, <1>8, <1>9, <1>10 DEF Next

LEMMA InputInvariant == Spec => []InputInv
BY InitHolds, StepHolds, PTL DEF Spec

(* The release a keepalive or an event takes from the central's table is of  *)
(* a button ZMK holds, however full the table ran (central_input.c           *)
(* release_unheld_input_keys).                                               *)
THEOREM TrackedButtonsAreHeld == Spec => []TrackedInputIsHeld
<1>1. InputInv => TrackedInputIsHeld
  BY DEF InputInv
<1> QED BY <1>1, InputInvariant, PTL

(* A stale pipe leaves no button of a noted register down in ZMK             *)
(* (central_input.c central_input_release_pipe).                             *)
THEOREM StalePipeIsReleased == Spec => []StalePipeHoldsNoButton
<1>1. InputInv => StalePipeHoldsNoButton
  BY DEF InputInv
<1> QED BY <1>1, InputInvariant, PTL

-----------------------------------------------------------------------------
(* With a slot and a noted register for every button the table is ZMK's      *)
(* view: empty while a reset is pending, exact otherwise.                    *)
EveryButtonFits ==
    /\ IsFiniteSet(Keys) /\ Cardinality(Keys) <= HeldKeysMax
    /\ \A k \in Keys : Low(k)

ExactInv ==
    /\ InputInv /\ NoRepeatedPress
    /\ zmk_held = IF input_reset THEN {} ELSE tracked_input_keys

(* A key that is not in the table finds a free slot. *)
LEMMA SlotIsFree ==
    ASSUME EveryButtonFits, NEW tracked \in SUBSET Keys, NEW k \in Keys, k \notin tracked
    PROVE  Cardinality(tracked) < HeldKeysMax
<1>1. /\ IsFiniteSet(tracked) /\ Cardinality(tracked) <= Cardinality(Keys)
      /\ Cardinality(tracked) = Cardinality(Keys) => tracked = Keys
  BY FS_Subset DEF EveryButtonFits
<1>2. Cardinality(tracked) \in Nat /\ Cardinality(Keys) \in Nat
  BY <1>1, FS_CardinalityType DEF EveryButtonFits
<1> QED BY <1>1, <1>2, BoundsAssumption DEF EveryButtonFits

LEMMA ExactStep ==
    ASSUME EveryButtonFits, ExactInv, [Next]_vars
    PROVE  ExactInv'
<1>0. /\ InputInv /\ Typed /\ SeenCoversHeld /\ TrackedInputIsHeld
      /\ zmk_repeated = FALSE
      /\ zmk_held = IF input_reset THEN {} ELSE tracked_input_keys
  BY DEF ExactInv, InputInv, NoRepeatedPress, Typed
<1>1. InputInv'
  BY <1>0, StepHolds
<1>2. apply_input_reset = zmk_held /\ zmk_held \in SUBSET Keys
  BY <1>0 DEF apply_input_reset, Typed
<1> DEFINE Exact == /\ zmk_repeated = FALSE
                    /\ zmk_held = IF input_reset THEN {} ELSE tracked_input_keys
<1> SUFFICES Exact'
  BY <1>1 DEF ExactInv, NoRepeatedPress
<1>3. CASE central_ingest_packet
  <2>1. tx_fifo # <<>> /\ input_reset' = FALSE
    BY <1>3 DEF central_ingest_packet
  <2>2. CASE Head(tx_fifo).kind = "key"
    <3> DEFINE k == Head(tx_fifo).key
               pressed == Head(tx_fifo).pressed
    <3>1. central_input_deliver_event(k, pressed, zmk_held)
      BY <1>2, <1>3, <2>2 DEF central_ingest_packet
    <3>2. k \in Keys /\ pressed \in BOOLEAN
      BY <1>0, <2>1, <2>2, HeadTyped
    <3>3. k \notin zmk_held => Cardinality(zmk_held) < HeldKeysMax
      BY <1>2, <3>2, SlotIsFree
    <3> HIDE DEF k, pressed
    <3>4. CASE pressed /\ k \in zmk_held
      BY <1>0, <2>1, <3>1, <3>4 DEF central_input_deliver_event, zmk_vars
    <3>5. CASE pressed /\ k \notin zmk_held
      BY <1>0, <2>1, <3>1, <3>3, <3>5 DEF central_input_deliver_event, forward_to_zmk
    <3>6. CASE ~pressed
      BY <1>0, <2>1, <3>1, <3>6 DEF central_input_deliver_event, forward_to_zmk
    <3> QED BY <3>2, <3>4, <3>5, <3>6
  <2>3. CASE Head(tx_fifo).kind # "key"
    <3> DEFINE listed == Head(tx_fifo).held
    <3>1. central_input_reconcile(listed, zmk_held)
      BY <1>2, <1>3, <2>3 DEF central_ingest_packet
    <3> HIDE DEF listed
    <3>2. PICK replayed \in SUBSET (listed \ zmk_held) :
              /\ tracked_input_keys' = (zmk_held \intersect listed) \union replayed
              /\ forward_to_zmk(zmk_held \ listed, replayed)
      BY <3>1 DEF central_input_reconcile, Replayable
    <3>3. zmk_held' = tracked_input_keys'
      BY <3>2 DEF forward_to_zmk
    <3>4. (zmk_held \ (zmk_held \ listed)) \intersect replayed = {}
      BY <3>2
    <3>5. zmk_repeated' = FALSE
      BY <1>0, <3>2, <3>4 DEF forward_to_zmk
    <3> QED BY <2>1, <3>3, <3>5
  <2> QED BY <2>2, <2>3
<1>4. CASE staleness_work_fn
  <2>1. input_reset' = TRUE /\ pipe_stale' = TRUE
    BY <1>4 DEF staleness_work_fn, central_input_release_pipe
  <2>2. \A k \in zmk_held' : ~Low(k)
    BY <1>1, <2>1 DEF InputInv, StalePipeHoldsNoButton, Low
  <2>3. zmk_held' = {}
    BY <1>1, <2>2 DEF InputInv, Typed, EveryButtonFits
  <2>4. zmk_repeated' = FALSE
    BY <1>0, <1>4 DEF staleness_work_fn, central_input_release_pipe,
       zmk_input_split_peripheral_disconnected, forward_to_zmk
  <2> QED BY <2>1, <2>3, <2>4
<1>5. CASE CentralReboot
  BY <1>0, <1>5 DEF CentralReboot
<1>6. CASE UNCHANGED <<table_vars, zmk_vars>>
  BY <1>0, <1>6 DEF table_vars, zmk_vars
<1>7. \/ central_ingest_packet \/ staleness_work_fn \/ CentralReboot
      \/ UNCHANGED <<table_vars, zmk_vars>>
  BY DEF Next, vars, peripheral_input_note_event, esb_batch_report_event, keepalive_work_fn,
     Flushed, RingFull, PeripheralReboot
<1> QED BY <1>3, <1>4, <1>5, <1>6, <1>7

(* A button is pressed in ZMK at most once until it is released, whatever    *)
(* order keepalives, presses and stale releases come in, as long as every    *)
(* button has a slot (central_input.c central_input_deliver_event).          *)
THEOREM NoButtonPressedTwice ==
    ASSUME EveryButtonFits
    PROVE  Spec => []NoRepeatedPress
<1>1. Init => ExactInv
  BY InitHolds DEF Init, ExactInv, NoRepeatedPress
<1>2. ExactInv /\ [Next]_vars => ExactInv'
  BY ExactStep
<1>3. ExactInv => NoRepeatedPress
  BY DEF ExactInv
<1> QED BY <1>1, <1>2, <1>3, PTL DEF Spec
=============================================================================
