------------------------------ MODULE HopLink ------------------------------
(***************************************************************************)
(* How a peripheral finds and follows the central's live channel.           *)
(*                                                                          *)
(* The central owns (epoch, mask) and derives its channel from them.  It    *)
(* announces both over the reverse channel: a latch per kind, moved by the  *)
(* radio ISR into the ACK FIFO, one reply per packet that asks for an ACK.  *)
(* The peripheral adopts a beacon's epoch at its next keepalive tick, steps *)
(* off a degrading channel, and sweeps the whole pool once it is lost.      *)
(*                                                                          *)
(* One pipe.  Votes, mask changes, degrading windows, losses and restarts   *)
(* are inputs, each with a bound.                                           *)
(***************************************************************************)
EXTENDS Naturals, Sequences, FiniteSets

CONSTANTS
    PoolCount,        \* HOP_COUNT
    Anchor,           \* channels every mask keeps
    EpochCount,       \* values of the uint8_t epoch
    IdlePeriod,       \* idle_keepalive_ms in hop windows (hop_window_ms)
    RepeatWindows,    \* BEACON_REPEAT_WINDOWS, MASK_UPDATE_REPEAT_WINDOWS
    RefreshWindows,   \* BEACON_RSSI_PERIOD_WINDOWS, MASK_REFRESH_WINDOWS
    BootMasks,        \* masks the central may boot with
    DownTimes,        \* hop windows a peripheral may be off before it boots
    MaxHidChanges, MaxVotes, MaxMaskChanges, MaxReboots,   \* bounds
    MaxTroubles       \* bound: degrading windows and losses on the live channel

Pool  == 0..(PoolCount - 1)
Epoch == 0..(EpochCount - 1)
Masks == {m \in SUBSET Pool : Anchor \subseteq m}

SILENT_ESCAPE_CAP == 32
SilentWindows == IF 2 * PoolCount < SILENT_ESCAPE_CAP THEN 2 * PoolCount ELSE SILENT_ESCAPE_CAP
SweepDwell    == IdlePeriod + 2    \* ESB_HOP_SWEEP_DWELL_WINDOWS
LossDetect    == 2 * IdlePeriod    \* ESB_HOP_LOSS_DETECT_MS

ASSUME PoolAssumption ==
    PoolCount \in Nat \ {0} /\ Anchor \subseteq Pool /\ Anchor # {} /\ EpochCount \in Nat \ {0, 1}
ASSUME WindowAssumption ==
    /\ {IdlePeriod, RepeatWindows, RefreshWindows} \subseteq Nat \ {0}
    /\ DownTimes \subseteq Nat \ {0} /\ DownTimes # {}
    /\ BootMasks \subseteq Masks /\ BootMasks # {}
    /\ {MaxHidChanges, MaxVotes, MaxMaskChanges, MaxTroubles, MaxReboots} \subseteq Nat

VARIABLES
    central,     \* hop_central.c, thread side
    latch,       \* control latches of the pipe: beacon and mask, <<>> when empty
    ack_fifo,    \* replies of the pipe in the radio's ACK FIFO
    ack_sent,    \* the head of ack_fifo went out with an ACK already
    heard,       \* pipe_heard_mask
    quiet,       \* hop_pipe_quiet_ms in hop windows, up to LossDetect
    decision_due, keepalive_due,   \* hop windows until decision_work, keepalive_work
    peripheral,  \* hop_peripheral.c
    beacon_epoch, staged_mask,
    applied,     \* applied_index: channel the peripheral's radio is really on
    packet,      \* the packet in the air: "none", "new", "seen" once the central took it
    straddles,   \* that packet was in the air a window ago already
    failed, succeeded,   \* tx_failed_since_tick, tx_succeeded_since_tick
    retained,    \* the peripheral's __noinit state, <<>> when invalid
    budget       \* bounds left

vars == <<central, latch, ack_fifo, ack_sent, heard, quiet, decision_due,
          keepalive_due, peripheral, beacon_epoch, staged_mask, applied, packet, straddles, failed, succeeded, retained, budget>>

central_side    == <<central, latch, ack_fifo, ack_sent, heard, quiet, decision_due>>
peripheral_side == <<peripheral, beacon_epoch, staged_mask, applied, packet, straddles, failed,
                     succeeded, retained, keepalive_due>>

Budgets == [hid : 0..MaxHidChanges, votes : 0..MaxVotes, changes : 0..MaxMaskChanges,
            troubles : 0..MaxTroubles, reboots : 0..MaxReboots]

Spend(kind) == budget[kind] > 0 /\ budget' = [budget EXCEPT ![kind] = @ - 1]

-----------------------------------------------------------------------------
(* Mutant: the next index does not wrap at the end of the pool. *)
index_next_unwrapped(index) == index + 1

hop_policy_index_next(index) == (index + 1) % PoolCount

FirstActive(base, first, mask, otherwise) ==
    LET steps == {s \in first..(first + PoolCount - 1) : (base + s) % PoolCount \in mask}
    IN  IF steps = {} THEN otherwise
        ELSE (base + (CHOOSE s \in steps : \A t \in steps : s <= t)) % PoolCount

hop_policy_index_next_active(index, mask) == FirstActive(index, 1, mask, index)

hop_policy_channel_for_epoch_masked(epoch, mask) ==
    FirstActive(epoch % PoolCount, 0, mask, epoch % PoolCount)

-----------------------------------------------------------------------------
(* The central's decision tick. *)

(* A change of epoch arms a burst of announcements. *)
hop_policy_should_beacon(epoch) ==
    LET left == IF epoch # central.beaconed THEN RepeatWindows ELSE central.beacon_repeats
    IN  [beaconed |-> epoch, burst |-> left > 0, repeats |-> IF left > 0 THEN left - 1 ELSE 0]

PeriodFires(window) == window + 1 >= RefreshWindows
NextWindow(window)  == IF PeriodFires(window) THEN 0 ELSE window + 1

hop_pipe_needs_rendezvous == quiet >= LossDetect

(* Mutant: a mask update is sent while it is fresh and never refreshed. *)
update_without_refresh(repeats) == repeats > 0 /\ ~hop_pipe_needs_rendezvous

(* stage_mask_update: the burst after a change, then a slow refresh; a lost  *)
(* pipe gets neither.                                                        *)
stage_mask_update(repeats) ==
    (repeats > 0 \/ PeriodFires(central.mask_window)) /\ ~hop_pipe_needs_rendezvous

(* vote: the weighted loss of the polling pipes reached the threshold, which *)
(* takes a pipe that was heard.  mask: what recompute_mask leaves pending.   *)
decision_work_fn(vote, mask) ==
    LET change  == mask # central.pending
        valid   == central.pending_valid \/ change
        silent  == IF heard THEN 0
                   ELSE IF central.silent_windows < SilentWindows THEN central.silent_windows + 1
                   ELSE SilentWindows
        escapes == IF heard THEN 0 ELSE central.silent_escapes
        escape  == silent >= SilentWindows /\ escapes < PoolCount   \* SILENT_ESCAPE_LIMIT
        hop     == vote \/ escape
        epoch   == IF hop THEN (central.epoch + 1) % EpochCount ELSE central.epoch
        live    == IF hop /\ valid THEN mask ELSE central.mask
        beacon  == hop_policy_should_beacon(epoch)
        rejoin  == heard /\ central.was_lost
        refresh == PeriodFires(central.beacon_window) /\ heard
        repeats == IF change THEN RepeatWindows ELSE central.mask_repeats
    IN  /\ decision_due = 0
        /\ vote => heard
        /\ central' = [epoch |-> epoch,
                       index |-> IF hop THEN hop_policy_channel_for_epoch_masked(epoch, live)
                                 ELSE central.index,
                       mask |-> live, pending |-> mask, pending_valid |-> valid /\ ~hop,
                       was_lost |-> hop_pipe_needs_rendezvous,
                       silent_windows |-> IF escape THEN 0 ELSE silent,
                       silent_escapes |-> IF escape THEN escapes + 1 ELSE escapes,
                       beaconed |-> beacon.beaconed, beacon_repeats |-> beacon.repeats,
                       beacon_window |-> NextWindow(central.beacon_window),
                       mask_repeats |-> IF repeats > 0 THEN repeats - 1 ELSE 0,
                       mask_window |-> NextWindow(central.mask_window)]
        /\ latch' = [beacon |-> IF rejoin \/ beacon.burst \/ refresh THEN <<epoch>> ELSE latch.beacon,
                     mask |-> IF ~stage_mask_update(repeats) THEN latch.mask
                              ELSE IF valid /\ ~hop THEN <<mask>> ELSE <<live>>]
        /\ heard' = FALSE
        /\ decision_due' = IdlePeriod
        /\ UNCHANGED <<ack_fifo, ack_sent, quiet, peripheral_side>>

Decision ==
    \/ decision_work_fn(FALSE, central.pending) /\ UNCHANGED budget
    \/ decision_work_fn(TRUE, central.pending) /\ Spend("votes")
    \/ \E vote \in BOOLEAN, mask \in Masks \ {central.pending} :
           decision_work_fn(vote, mask) /\ Spend("changes")

(* A changed HID state is beaconed at once, with the live epoch. *)
hid_state_work_fn ==
    /\ ~hop_pipe_needs_rendezvous
    /\ Spend("hid")
    /\ latch' = [latch EXCEPT !.beacon = <<central.epoch>>]
    /\ UNCHANGED <<central, ack_fifo, ack_sent, heard, quiet, decision_due, peripheral_side>>

-----------------------------------------------------------------------------
(* The peripheral's keepalive tick. *)

settle_link_state ==
    IF failed /\ ~succeeded THEN FALSE ELSE peripheral.link_acked \/ succeeded

(* A busy radio refuses the retune and stays where it is. *)
apply_hop_channel(index) == applied' = IF packet = "none" THEN index ELSE applied

adopt_epoch(acked) ==
    LET mask == IF staged_mask = <<>> THEN peripheral.mask ELSE staged_mask[1]
    IN  /\ peripheral' = [epoch |-> beacon_epoch, mask |-> mask, link_acked |-> acked,
                          index |-> hop_policy_channel_for_epoch_masked(beacon_epoch, mask),
                          sweep |-> 0, undo |-> <<>>]
        /\ staged_mask' = <<>>
        /\ apply_hop_channel(peripheral'.index)

connected_window(acked, degrading) ==
    /\ peripheral' =
           [peripheral EXCEPT !.link_acked = acked, !.sweep = 0,
                              !.undo = IF degrading THEN <<peripheral.index>> ELSE <<>>,
                              !.index = IF degrading THEN hop_policy_index_next_active(@, peripheral.mask)
                                        ELSE @]
    /\ IF degrading THEN apply_hop_channel(peripheral'.index) ELSE UNCHANGED applied
    /\ UNCHANGED staged_mask

(* Mutant: the dwell counter is compared with a value the modulo never gives. *)
sweep_never_fires(acked) ==
    LET sweep == (peripheral.sweep + 1) % SweepDwell
        index == IF peripheral.undo # <<>> THEN peripheral.undo[1] ELSE peripheral.index
    IN  /\ peripheral' = [peripheral EXCEPT !.link_acked = acked, !.sweep = sweep,
                                            !.undo = <<>>, !.index = index]
        /\ IF peripheral.undo # <<>> THEN apply_hop_channel(index) ELSE UNCHANGED applied
        /\ UNCHANGED staged_mask

(* Back to the channel a degrading window left, once; then the whole pool,   *)
(* masked channels too, each for the dwell.                                  *)
lost_window(acked) ==
    LET sweep == (peripheral.sweep + 1) % SweepDwell
        index == IF peripheral.undo # <<>> THEN peripheral.undo[1]
                 ELSE IF sweep = 0 THEN hop_policy_index_next(peripheral.index)
                 ELSE peripheral.index
    IN  /\ peripheral' = [peripheral EXCEPT !.link_acked = acked, !.sweep = sweep,
                                            !.undo = <<>>, !.index = index]
        /\ IF peripheral.undo # <<>> \/ sweep = 0 THEN apply_hop_channel(index) ELSE UNCHANGED applied
        /\ UNCHANGED staged_mask

retain_link_state ==
    retained' = IF peripheral'.link_acked
                THEN <<[epoch |-> peripheral'.epoch, mask |-> peripheral'.mask,
                        index |-> peripheral'.index]>>
                ELSE retained

keepalive_work_fn(degrading) ==
    LET acked == settle_link_state
        fresh == beacon_epoch # peripheral.epoch
    IN  /\ keepalive_due = 0
        /\ keepalive_due' \in IF acked THEN {1, IdlePeriod} ELSE {1}   \* active or idle, searching
        /\ \/ fresh /\ ~degrading /\ adopt_epoch(acked)
           \/ ~fresh /\ acked /\ connected_window(acked, degrading)
           \/ ~fresh /\ ~acked /\ ~degrading /\ lost_window(acked)
        /\ retain_link_state
        /\ failed' = FALSE /\ succeeded' = FALSE
        /\ packet' = IF packet = "none" THEN "new" ELSE packet
        /\ UNCHANGED <<central_side, straddles, beacon_epoch>>

Keepalive ==
    \/ keepalive_work_fn(FALSE) /\ UNCHANGED budget
    \/ keepalive_work_fn(TRUE) /\ Spend("troubles")

(* A key or input event on a working link: its packet, and the next tick no   *)
(* later than a hop window from now.                                         *)
send_on_pipe ==
    /\ peripheral.link_acked /\ keepalive_due > 1 /\ packet = "none"
    /\ packet' = "new" /\ keepalive_due' = 1
    /\ UNCHANGED <<central_side, peripheral, beacon_epoch, staged_mask, applied, straddles,
                   failed, succeeded, retained, budget>>

-----------------------------------------------------------------------------
(* The air.  The central hears a packet sent on its own channel.  A packet   *)
(* it has not seen confirms the reply the last ACK carried, its own ACK      *)
(* carries the next one, and the ISR then writes one more reply.             *)

Unconfirmed == IF ack_sent THEN Tail(ack_fifo) ELSE ack_fifo

(* write_pending_control: the beacon before the mask, one write per packet. *)
Pending ==
    IF latch.beacon # <<>> THEN <<[kind |-> "beacon", epoch |-> latch.beacon[1], mask |-> Pool]>>
    ELSE IF latch.mask # <<>> THEN <<[kind |-> "mask", epoch |-> 0, mask |-> latch.mask[1]]>>
    ELSE <<>>

Released ==
    IF latch.beacon # <<>> THEN [latch EXCEPT !.beacon = <<>>] ELSE [latch EXCEPT !.mask = <<>>]

(* Mutant: the write forgets that the confirmed reply has to go first. *)
rx_done_keeps_confirmed ==
    IF packet = "seen" THEN UNCHANGED <<latch, ack_fifo, ack_sent, heard, quiet>>
    ELSE /\ ack_fifo' = ack_fifo \o Pending
         /\ ack_sent' = (ack_fifo # <<>>)
         /\ latch' = Released
         /\ heard' = TRUE /\ quiet' = 0

esb_link_role_rx_done ==
    IF packet = "seen" THEN UNCHANGED <<latch, ack_fifo, ack_sent, heard, quiet>>
    ELSE /\ ack_fifo' = Unconfirmed \o Pending
         /\ ack_sent' = (Unconfirmed # <<>>)
         /\ latch' = Released
         /\ heard' = TRUE /\ quiet' = 0

(* The reply the ACK of this packet carries. *)
AckPayload == IF packet = "seen" THEN (IF ack_sent THEN <<Head(ack_fifo)>> ELSE <<>>)
              ELSE IF Unconfirmed = <<>> THEN <<>> ELSE <<Head(Unconfirmed)>>

(* hop_consume_rx on the peripheral: a beacon's epoch waits for the tick, a  *)
(* mask for the next epoch.                                                  *)
hop_consume_rx(payload) ==
    /\ beacon_epoch' = IF payload # <<>> /\ payload[1].kind = "beacon" THEN payload[1].epoch
                       ELSE beacon_epoch
    /\ staged_mask' = IF payload # <<>> /\ payload[1].kind = "mask" THEN <<payload[1].mask>>
                      ELSE staged_mask

Delivered ==
    /\ packet # "none" /\ applied = central.index
    /\ esb_link_role_rx_done
    /\ hop_consume_rx(AckPayload)
    /\ packet' = "none" /\ straddles' = FALSE /\ succeeded' = TRUE
    /\ UNCHANGED <<central, decision_due, keepalive_due, peripheral, applied, failed, retained, budget>>

(* TX_FAILED: the radio is idle, so a refused retune is made up for; while   *)
(* the link is acked the packet is started again, at most a few times.       *)
TxFailed(seen) ==
    /\ failed' = TRUE /\ succeeded' = FALSE
    /\ applied' = peripheral.index
    /\ packet' \in IF peripheral.link_acked THEN {"none", seen} ELSE {"none"}
    /\ straddles' = FALSE
    /\ UNCHANGED <<keepalive_due, peripheral, beacon_epoch, staged_mask, retained>>

AckLost ==
    /\ packet # "none" /\ applied = central.index
    /\ Spend("troubles")
    /\ esb_link_role_rx_done
    /\ TxFailed("seen")
    /\ UNCHANGED <<central, decision_due>>

LostOffChannel ==
    /\ packet # "none" /\ applied # central.index
    /\ TxFailed(packet)
    /\ UNCHANGED <<central_side, budget>>

LostOnChannel ==
    /\ packet # "none" /\ applied = central.index
    /\ Spend("troubles")
    /\ TxFailed(packet)
    /\ UNCHANGED central_side

-----------------------------------------------------------------------------
(* A hop window passes.  A work item that is due runs first; a packet and    *)
(* its retransmits are over within a window, though a tick may fall into it. *)
Tick ==
    /\ decision_due > 0 /\ keepalive_due > 0 /\ ~straddles
    /\ decision_due' = decision_due - 1 /\ keepalive_due' = keepalive_due - 1
    /\ quiet' = IF hop_pipe_needs_rendezvous THEN quiet ELSE quiet + 1
    /\ straddles' = (packet # "none")
    /\ UNCHANGED <<central, latch, ack_fifo, ack_sent, heard, peripheral, beacon_epoch,
                   staged_mask, applied, packet, failed, succeeded, retained, budget>>

ColdPeripheral == [epoch |-> 0, mask |-> Pool, index |-> 0]

(* hop_restore: the last acked epoch, mask and channel survive in RAM; a     *)
(* power cycle loses them.                                                   *)
hop_restore(state) ==
    /\ peripheral' = [epoch |-> state.epoch, mask |-> state.mask, index |-> state.index,
                      link_acked |-> FALSE, sweep |-> 0, undo |-> <<>>]
    /\ beacon_epoch' = state.epoch /\ staged_mask' = <<>>
    /\ applied' = state.index

PeripheralReboot ==
    /\ Spend("reboots")
    /\ \/ retained # <<>> /\ hop_restore(retained[1]) /\ UNCHANGED retained
       \/ hop_restore(ColdPeripheral) /\ retained' = <<>>
    /\ packet' = "none" /\ straddles' = FALSE /\ failed' = FALSE /\ succeeded' = FALSE
    /\ keepalive_due' \in DownTimes
    /\ UNCHANGED central_side

(* hop_boot_mask: a mask that benches a channel starts under epoch 1. *)
Booted(mask) ==
    LET epoch == IF mask = Pool THEN 0 ELSE 1
    IN  [epoch |-> epoch,
         index |-> IF mask = Pool THEN 0 ELSE hop_policy_channel_for_epoch_masked(epoch, mask),
         mask |-> mask, pending |-> mask, pending_valid |-> FALSE, was_lost |-> FALSE,
         silent_windows |-> 0, silent_escapes |-> 0,
         beaconed |-> 0, beacon_repeats |-> 0, beacon_window |-> 0,
         mask_repeats |-> IF mask = Pool THEN 0 ELSE RepeatWindows, mask_window |-> 0]

CentralReboot ==
    /\ Spend("reboots")
    /\ \E mask \in BootMasks : central' = Booted(mask)
    /\ latch' = [beacon |-> <<>>, mask |-> <<>>]
    /\ ack_fifo' = <<>> /\ ack_sent' = FALSE /\ heard' = FALSE /\ quiet' = 0
    /\ decision_due' = IdlePeriod
    /\ packet' = IF packet = "seen" THEN "new" ELSE packet
    /\ UNCHANGED <<peripheral, beacon_epoch, staged_mask, applied, straddles, failed, succeeded,
                   retained, keepalive_due>>

Init ==
    /\ \E mask \in BootMasks : central = Booted(mask)
    /\ latch = [beacon |-> <<>>, mask |-> <<>>]
    /\ ack_fifo = <<>> /\ ack_sent = FALSE /\ heard = FALSE /\ quiet = 0
    /\ decision_due = IdlePeriod /\ keepalive_due = 1
    /\ peripheral = [epoch |-> 0, mask |-> Pool, index |-> 0, link_acked |-> FALSE,
                     sweep |-> 0, undo |-> <<>>]
    /\ beacon_epoch = 0 /\ staged_mask = <<>> /\ applied = 0
    /\ packet = "none" /\ straddles = FALSE /\ failed = FALSE /\ succeeded = FALSE
    /\ retained = <<>>
    /\ budget = [hid |-> MaxHidChanges, votes |-> MaxVotes, changes |-> MaxMaskChanges,
                 troubles |-> MaxTroubles, reboots |-> MaxReboots]

Next ==
    \/ Tick \/ Decision \/ hid_state_work_fn \/ Keepalive \/ send_on_pipe
    \/ Delivered \/ AckLost \/ LostOffChannel \/ LostOnChannel
    \/ PeripheralReboot \/ CentralReboot

Spec == Init /\ [][Next]_vars

(* Time passes and the work that is due runs; a packet gets its ACK or       *)
(* fails.  Losses on the live channel are inputs with a bound.               *)
Time == Tick \/ Decision \/ Keepalive
Air  == Delivered \/ LostOffChannel
FairSpec == Spec /\ WF_vars(Time) /\ WF_vars(Air)

-----------------------------------------------------------------------------
Replies == [kind : {"beacon", "mask"}, epoch : Epoch, mask : Masks]
Maybe(S) == {<<>>} \union {<<x>> : x \in S}

TypeOK ==
    /\ central.epoch \in Epoch /\ central.index \in Pool
    /\ central.mask \in Masks /\ central.pending \in Masks
    /\ central.silent_escapes \in 0..PoolCount
    /\ latch \in [beacon : Maybe(Epoch), mask : Maybe(Masks)]
    /\ ack_fifo \in Seq(Replies) /\ ack_sent \in BOOLEAN /\ (ack_sent => ack_fifo # <<>>)
    /\ quiet \in 0..LossDetect /\ decision_due \in 0..IdlePeriod /\ keepalive_due \in Nat
    /\ peripheral.epoch \in Epoch /\ peripheral.index \in Pool /\ peripheral.mask \in Masks
    /\ beacon_epoch \in Epoch /\ staged_mask \in Maybe(Masks)
    /\ applied \in Pool /\ packet \in {"none", "new", "seen"}
    /\ straddles \in BOOLEAN /\ failed \in BOOLEAN /\ succeeded \in BOOLEAN
    /\ budget \in Budgets

(* One write per packet that asked for an ACK holds the pipe at two replies,  *)
(* as many as the ACK FIFO has room for per pipe, whatever ACKs are lost.     *)
TwoRepliesAtMost == Len(ack_fifo) <= 2    \* REPLIES_PER_PIPE_MAX

(* Every vote, mask change, degrading window, loss and restart is got over:  *)
(* once they stop, the peripheral ends up on the central's channel for good. *)
Rejoins == <>[](applied = central.index)

(* ...and holds, or has staged for the next epoch, the mask the central uses *)
(* or is about to use, however many updates were lost.                       *)
PeripheralMask == IF staged_mask # <<>> THEN staged_mask[1] ELSE peripheral.mask
CentralMask    == IF central.pending_valid THEN central.pending ELSE central.mask
MaskConverges  == <>[](PeripheralMask = CentralMask)

(* README: "A peripheral back from a gap reads the live epoch, never a stale *)
(* backlog": the beacon an exchange reads after the pipe was lost is live.   *)
(* It does not hold: the ACK FIFO of the silent pipe keeps the beacon written *)
(* ahead.  No run checks it.                                                 *)
BackFromGapReadsLive ==
    [][(hop_pipe_needs_rendezvous /\ Delivered /\ AckPayload # <<>> /\ AckPayload[1].kind = "beacon")
           => AckPayload[1].epoch = central.epoch]_vars

=============================================================================
