------------------------------ MODULE KeyLink ------------------------------
(***************************************************************************)
(* Key positions, from a peripheral's matrix to ZMK on the central, over    *)
(* one pipe of a fixed-channel link.                                        *)
(*                                                                          *)
(* A key event is a delta that can die on the air, in a flush or in a full  *)
(* queue.  The keepalive is the state: it carries the pressed-position      *)
(* bitmap, and the central replays whatever its own bitmap is missing.      *)
(*                                                                          *)
(*   peripheral          air           central                              *)
(*   pressed_positions                                                      *)
(*   tx_fifo, radio  --- PID --->  last_rx, rx_spsc   (radio ISR)           *)
(*   keepalive tick                central_event_msgq (rx_thread)           *)
(*                                 tracked_positions  (system workqueue)    *)
(***************************************************************************)
EXTENDS Naturals, Sequences

CONSTANTS
    Position,        \* key positions of this peripheral
    Covered,         \* those the bitmap holds (below ESB_KEEPALIVE_POSITION_COUNT)
    TxFifoSize,      \* CONFIG_ESB_TX_FIFO_SIZE
    RxQueueSize,     \* CONFIG_ZMK_SPLIT_ESB_RX_QUEUE_SIZE
    EventQueueSize,  \* CONFIG_ZMK_SPLIT_ESB_EVENT_QUEUE_SIZE
    PidCount,        \* ESB packet ids, a two-bit counter
    TxRestartsMax,   \* ESB_LINK_TX_RESTARTS_MAX
    TimeoutTicks,    \* peripheral-timeout-ms in whole staleness periods
    MaxTransitions,  \* bound: physical transitions of one position
    MaxReboots       \* bound: restarts of either device

ASSUME PositionAssumption == Covered \subseteq Position
ASSUME SizeAssumption ==
    /\ TxFifoSize \in Nat \ {0} /\ RxQueueSize \in Nat \ {0}
    /\ EventQueueSize \in Nat \ {0} /\ PidCount \in Nat \ {0}
    /\ TxRestartsMax \in Nat /\ TimeoutTicks \in Nat
    /\ MaxTransitions \in Nat /\ MaxReboots \in Nat

VARIABLES
    ver,                  \* history: physical transitions so far, odd while held
    pressed_positions,    \* peripheral.c
    tx_fifo, pid, radio,  \* the ESB driver's TX side: queue, last PID, "idle" or "busy"
    tx_restarts, restart_queued,
    link_acked, tx_failed_since_tick, tx_succeeded_since_tick,
    last_rx,              \* the ESB driver's RX side: last packet accepted on the pipe
    rx_spsc, rx_sem, rx_running,
    central_event_msgq,
    tracked_positions,    \* central.c
    pipe_heard, silent_ticks, pipe_stale, pipe_connected,
    zmk_held,             \* positions ZMK believes held
    zmk_faults,           \* history: malformed or repeated deliveries ZMK saw
    zmk_ver, seen,        \* history: version ZMK last saw a transition at / last packet applied
    reboots

peripheral_vars == <<ver, pressed_positions, tx_fifo, pid, radio, tx_restarts,
                     restart_queued, link_acked, tx_failed_since_tick,
                     tx_succeeded_since_tick>>
isr_vars     == <<last_rx, rx_spsc, rx_sem, pipe_heard>>
thread_vars  == <<rx_running, central_event_msgq>>
central_vars == <<tracked_positions, pipe_stale, pipe_connected, zmk_held,
                  zmk_faults, zmk_ver, seen>>
vars == <<peripheral_vars, isr_vars, thread_vars, central_vars, silent_ticks, reboots>>

Versions == [Position -> 0..MaxTransitions]
Held(v)  == {p \in Covered : v[p] % 2 = 1}

KeyEvents  == [kind : {"key"}, position : Position, pressed : BOOLEAN, ver : 0..MaxTransitions]
Keepalives == [kind : {"keepalive"}, bitmap : SUBSET Covered, ver : Versions]
Bodies     == KeyEvents \union Keepalives
Packets    == [pid : 0..(PidCount - 1), body : Bodies]

(* What the radio's CRC covers.  Versions are history, they are not on the air. *)
OnAir(body) == IF body.kind = "key" THEN <<"key", {body.position}, body.pressed>>
               ELSE <<"keepalive", body.bitmap, FALSE>>
Accepted(packet) == [pid |-> packet.pid, air |-> OnAir(packet.body)]
NoPacket == [pid |-> PidCount, air |-> <<"none", {}, FALSE>>]

-----------------------------------------------------------------------------
(* The ESB transmit queue.  A write numbers the packet and starts an idle   *)
(* radio; a full queue refuses it.  Full and silent (an idle radio raises   *)
(* no event) past the stall limit, submit_payload flushes and writes again. *)

Submit(body) ==
    LET next   == (pid + 1) % PidCount
        packet == [pid |-> next, body |-> body]
    IN  \/ /\ Len(tx_fifo) < TxFifoSize
           /\ tx_fifo' = Append(tx_fifo, packet)
           /\ pid' = next /\ radio' = "busy"
        \/ /\ Len(tx_fifo) = TxFifoSize
           /\ UNCHANGED <<tx_fifo, pid, radio>>
        \/ /\ Len(tx_fifo) = TxFifoSize /\ radio = "idle"
           /\ tx_fifo' = <<packet>>
           /\ pid' = next /\ radio' = "busy"

(* A switch opens or closes: the bitmap is noted first, then the event sent. *)
peripheral_note_key_event(p, pressed) ==
    pressed_positions' = IF p \notin Covered THEN pressed_positions
                         ELSE IF pressed THEN pressed_positions \union {p}
                         ELSE pressed_positions \ {p}

esb_peripheral_report_event(p) ==
    LET pressed == ver[p] % 2 = 0
    IN  /\ ver[p] < MaxTransitions
        /\ ver' = [ver EXCEPT ![p] = @ + 1]
        /\ peripheral_note_key_event(p, pressed)
        /\ Submit([kind |-> "key", position |-> p, pressed |-> pressed, ver |-> ver[p] + 1])
        /\ UNCHANGED <<tx_restarts, restart_queued, link_acked,
                       tx_failed_since_tick, tx_succeeded_since_tick,
                       isr_vars, thread_vars, central_vars, silent_ticks, reboots>>

(* A success after the last failure proves an ACK: key packets always ask for one. *)
settle_link_state ==
    /\ link_acked' = IF tx_failed_since_tick /\ ~tx_succeeded_since_tick THEN FALSE
                     ELSE link_acked \/ tx_succeeded_since_tick
    /\ tx_failed_since_tick' = FALSE
    /\ tx_succeeded_since_tick' = FALSE

keepalive_work_fn ==
    /\ settle_link_state
    /\ Submit([kind |-> "keepalive", bitmap |-> pressed_positions,
               ver |-> [p \in Position |-> IF p \in Covered THEN ver[p] ELSE 0]])
    /\ UNCHANGED <<ver, pressed_positions, tx_restarts, restart_queued,
                   isr_vars, thread_vars, central_vars, silent_ticks, reboots>>

tx_restart_work_fn ==
    /\ restart_queued
    /\ restart_queued' = FALSE
    /\ radio' = IF tx_fifo = <<>> THEN radio ELSE "busy"
    /\ UNCHANGED <<ver, pressed_positions, tx_fifo, pid, tx_restarts, link_acked,
                   tx_failed_since_tick, tx_succeeded_since_tick,
                   isr_vars, thread_vars, central_vars, silent_ticks, reboots>>

-----------------------------------------------------------------------------
(* The central's radio ISR takes a packet off the air.  The driver drops a   *)
(* copy of the packet it accepted last (same PID, same CRC) before the ISR   *)
(* sees it; the ISR drops a packet the ring cannot hold, although it is ACKed. *)

Duplicate(packet) == last_rx = Accepted(packet)

on_esb_rx(packet) ==
    IF Duplicate(packet)
    THEN UNCHANGED <<isr_vars, silent_ticks>>
    ELSE /\ last_rx' = Accepted(packet)
         /\ pipe_heard' = TRUE
         /\ silent_ticks' = 0
         /\ IF Len(rx_spsc) < RxQueueSize
            THEN rx_spsc' = Append(rx_spsc, packet.body) /\ rx_sem' = TRUE
            ELSE UNCHANGED <<rx_spsc, rx_sem>>

(* TX_SUCCESS: the packet arrived and its ACK came back. *)
TxSuccess ==
    /\ radio = "busy" /\ tx_fifo # <<>>
    /\ on_esb_rx(Head(tx_fifo))
    /\ tx_fifo' = Tail(tx_fifo)
    /\ radio' = IF Len(tx_fifo) = 1 THEN "idle" ELSE "busy"
    /\ tx_succeeded_since_tick' = TRUE
    /\ tx_restarts' = 0
    /\ UNCHANGED <<ver, pressed_positions, pid, restart_queued, link_acked,
                   tx_failed_since_tick, thread_vars, central_vars, reboots>>

(* Mutant: one restart too many. *)
retry_past_limit ==
    IF link_acked /\ tx_restarts <= TxRestartsMax
    THEN tx_restarts' = tx_restarts + 1 /\ restart_queued' = TRUE /\ UNCHANGED <<tx_fifo, pid>>
    ELSE tx_restarts' = 0 /\ tx_fifo' = <<>> /\ UNCHANGED <<restart_queued, pid>>

(* Mutant: the failed packet is written again, under a new packet id. *)
retry_rewrites_head ==
    IF link_acked /\ tx_restarts < TxRestartsMax
    THEN /\ tx_restarts' = tx_restarts + 1 /\ restart_queued' = TRUE
         /\ pid' = (pid + 1) % PidCount
         /\ tx_fifo' = [tx_fifo EXCEPT ![1].pid = (pid + 1) % PidCount]
    ELSE tx_restarts' = 0 /\ tx_fifo' = <<>> /\ UNCHANGED <<restart_queued, pid>>

(* The failed packet still heads the FIFO with its PID: queue a restart while *)
(* the link is acked, otherwise flush everything.                             *)
esb_link_role_retry_failed_tx ==
    IF link_acked /\ tx_restarts < TxRestartsMax
    THEN /\ tx_restarts' = tx_restarts + 1
         /\ restart_queued' = TRUE
         /\ UNCHANGED <<tx_fifo, pid>>
    ELSE /\ tx_restarts' = 0
         /\ tx_fifo' = <<>>
         /\ UNCHANGED <<restart_queued, pid>>

(* TX_FAILED: retransmits ran out.  Either no copy arrived or one did and    *)
(* every ACK was lost.                                                       *)
TxFailed(arrived) ==
    /\ radio = "busy" /\ tx_fifo # <<>>
    /\ IF arrived THEN on_esb_rx(Head(tx_fifo)) ELSE UNCHANGED <<isr_vars, silent_ticks>>
    /\ tx_failed_since_tick' = TRUE
    /\ tx_succeeded_since_tick' = FALSE
    /\ esb_link_role_retry_failed_tx
    /\ radio' = "idle"
    /\ UNCHANGED <<ver, pressed_positions, link_acked, thread_vars, central_vars, reboots>>

-----------------------------------------------------------------------------
(* rx_thread: sleeps on rx_sem, then drains the ring into the event queue.   *)

RxThreadWake ==
    /\ rx_sem /\ ~rx_running
    /\ rx_sem' = FALSE /\ rx_running' = TRUE
    /\ UNCHANGED <<peripheral_vars, last_rx, rx_spsc, pipe_heard, central_event_msgq,
                   central_vars, silent_ticks, reboots>>

RxThreadSleep ==
    /\ rx_running /\ rx_spsc = <<>>
    /\ rx_running' = FALSE
    /\ UNCHANGED <<peripheral_vars, isr_vars, central_event_msgq, central_vars,
                   silent_ticks, reboots>>

(* A full event queue drops the packet, event or keepalive. *)
central_ingest_packet ==
    /\ rx_running /\ rx_spsc # <<>>
    /\ rx_spsc' = Tail(rx_spsc)
    /\ central_event_msgq' = IF Len(central_event_msgq) < EventQueueSize
                             THEN Append(central_event_msgq, Head(rx_spsc))
                             ELSE central_event_msgq
    /\ UNCHANGED <<peripheral_vars, last_rx, rx_sem, pipe_heard, rx_running,
                   central_vars, silent_ticks, reboots>>

-----------------------------------------------------------------------------
(* System workqueue.  A step hands ZMK, for each position, a sequence of     *)
(* presses and releases, oldest first, at version v of that position.        *)

Transition(pressed) == IF pressed THEN "press" ELSE "release"

Alternates(last, transitions) ==
    \A i \in 1..Len(transitions) :
        transitions[i] # (IF i = 1 THEN last ELSE transitions[i - 1])

Presses(transitions) == \E i \in 1..Len(transitions) : transitions[i] = "press"

ZmkState(p) == Transition(p \in zmk_held)

forward_to_zmk(out, v) ==
    /\ zmk_held' = {p \in Position : IF out[p] = <<>> THEN p \in zmk_held
                                     ELSE out[p][Len(out[p])] = "press"}
    /\ zmk_ver' = [p \in Position |-> IF out[p] = <<>> THEN zmk_ver[p] ELSE v[p]]
    /\ zmk_faults' = zmk_faults
           \union {<<"doubled", p>> : p \in {q \in Position : ~Alternates(ZmkState(q), out[q])}}
           \union {<<"repeated", p>> : p \in {q \in Position : Presses(out[q]) /\ v[q] <= zmk_ver[q]}}

(* Mutant: an orphan release passes. *)
verdict_passes_orphans(p, pressed) ==
    IF p \in Covered /\ pressed /\ p \in tracked_positions THEN "heal_lost_release" ELSE "forward"

(* esb_keepalive_key_verdict: an orphan release drops, a repeated press      *)
(* first heals the release it proves lost, anything else passes.  A position *)
(* the bitmap does not cover passes unclassified.                            *)
esb_keepalive_key_verdict(p, pressed) ==
    IF p \notin Covered THEN "forward"
    ELSE IF ~pressed /\ p \notin tracked_positions THEN "drop_orphan_release"
    ELSE IF pressed /\ p \in tracked_positions THEN "heal_lost_release"
    ELSE "forward"

deliver_key_event(event) ==
    LET p       == event.position
        verdict == esb_keepalive_key_verdict(p, event.pressed)
        out     == IF verdict = "drop_orphan_release" THEN <<>>
                   ELSE IF verdict = "heal_lost_release" THEN <<"release", "press">>
                   ELSE <<Transition(event.pressed)>>
    IN  /\ forward_to_zmk([q \in Position |-> IF q = p THEN out ELSE <<>>],
                          [q \in Position |-> event.ver])
        /\ tracked_positions' = IF p \notin Covered THEN tracked_positions
                                ELSE IF event.pressed THEN tracked_positions \union {p}
                                ELSE tracked_positions \ {p}
        /\ seen' = [seen EXCEPT ![p] = event.ver]

(* Mutant: only lost releases are replayed. *)
replay_releases_only(target, v) ==
    /\ forward_to_zmk([p \in Position |->
                          IF p \in tracked_positions \ target THEN <<"release">> ELSE <<>>], v)
    /\ tracked_positions' = tracked_positions \intersect target

(* Every covered position that differs flips, in tracked_positions and in ZMK. *)
replay_position_diff(target, v) ==
    /\ forward_to_zmk([p \in Position |->
                          IF p \in Covered /\ (p \in target) # (p \in tracked_positions)
                          THEN <<Transition(p \in target)>> ELSE <<>>], v)
    /\ tracked_positions' = target

central_event_work_fn ==
    /\ central_event_msgq # <<>>
    /\ central_event_msgq' = Tail(central_event_msgq)
    /\ LET inbound == Head(central_event_msgq)
       IN  IF inbound.kind = "key"
           THEN deliver_key_event(inbound)
           ELSE /\ replay_position_diff(inbound.bitmap, inbound.ver)
                /\ seen' = [p \in Position |-> IF p \in Covered THEN inbound.ver[p] ELSE seen[p]]
    /\ UNCHANGED <<peripheral_vars, isr_vars, rx_running, pipe_stale, pipe_connected,
                   silent_ticks, reboots>>

(* Mutant: the bitmap is cleared without telling ZMK. *)
release_forgets_zmk == tracked_positions' = {} /\ UNCHANGED <<zmk_held, zmk_faults, zmk_ver>>

release_stale_pipe == replay_position_diff({}, [p \in Position |-> 0])

(* Every staleness period.  silent_ticks counts the periods begun since the  *)
(* pipe was heard.  A packet is handled long before the timeout that follows *)
(* it, so a tick that finds the pipe expired finds both queues empty.        *)
Drained == rx_spsc = <<>> /\ central_event_msgq = <<>>

(* Mutant: a pipe heard again stays marked stale. *)
staleness_never_clears ==
    LET now         == IF silent_ticks > TimeoutTicks THEN silent_ticks ELSE silent_ticks + 1
        peer_active == now <= TimeoutTicks
    IN  /\ ~peer_active => Drained
        /\ silent_ticks' = now
        /\ pipe_stale' = (pipe_stale \/ (pipe_heard /\ ~peer_active))
        /\ pipe_connected' = (pipe_heard /\ ~pipe_stale')
        /\ IF pipe_heard /\ ~peer_active /\ ~pipe_stale
           THEN release_stale_pipe
           ELSE UNCHANGED <<tracked_positions, zmk_held, zmk_faults, zmk_ver>>
        /\ UNCHANGED <<peripheral_vars, isr_vars, thread_vars, seen, reboots>>

staleness_work_fn ==
    LET now         == IF silent_ticks > TimeoutTicks THEN silent_ticks ELSE silent_ticks + 1
        peer_active == now <= TimeoutTicks
    IN  /\ ~peer_active => Drained
        /\ silent_ticks' = now
        /\ pipe_stale' = IF pipe_heard THEN ~peer_active ELSE pipe_stale
        /\ pipe_connected' = (pipe_heard /\ ~pipe_stale')
        /\ IF pipe_heard /\ ~peer_active /\ ~pipe_stale
           THEN release_stale_pipe
           ELSE UNCHANGED <<tracked_positions, zmk_held, zmk_faults, zmk_ver>>
        /\ UNCHANGED <<peripheral_vars, isr_vars, thread_vars, seen, reboots>>

-----------------------------------------------------------------------------
(* Either device can restart at any step.  A peripheral comes back with an   *)
(* empty bitmap, an empty FIFO and PID 0; a switch still closed then is      *)
(* reported as a new press.  A central takes ZMK down with it.               *)

PeripheralReboot ==
    /\ reboots < MaxReboots
    /\ reboots' = reboots + 1
    /\ \A p \in Position : ver[p] % 2 = 1 => ver[p] < MaxTransitions
    /\ ver' = [p \in Position |-> ver[p] + (ver[p] % 2)]
    /\ pressed_positions' = {}
    /\ tx_fifo' = <<>> /\ pid' = 0 /\ radio' = "idle"
    /\ tx_restarts' = 0 /\ restart_queued' = FALSE
    /\ link_acked' = FALSE
    /\ tx_failed_since_tick' = FALSE /\ tx_succeeded_since_tick' = FALSE
    /\ UNCHANGED <<isr_vars, thread_vars, central_vars, silent_ticks>>

CentralReboot ==
    /\ reboots < MaxReboots
    /\ reboots' = reboots + 1
    /\ last_rx' = NoPacket
    /\ rx_spsc' = <<>> /\ rx_sem' = FALSE /\ rx_running' = FALSE
    /\ central_event_msgq' = <<>>
    /\ tracked_positions' = {} /\ zmk_held' = {}
    /\ zmk_ver' = [p \in Position |-> 0]
    /\ pipe_heard' = FALSE /\ pipe_stale' = FALSE /\ pipe_connected' = FALSE
    /\ silent_ticks' = 0
    /\ UNCHANGED <<peripheral_vars, zmk_faults, seen>>

Init ==
    /\ ver = [p \in Position |-> 0]
    /\ pressed_positions = {}
    /\ tx_fifo = <<>> /\ pid = 0 /\ radio = "idle"
    /\ tx_restarts = 0 /\ restart_queued = FALSE
    /\ link_acked = FALSE
    /\ tx_failed_since_tick = FALSE /\ tx_succeeded_since_tick = FALSE
    /\ last_rx = NoPacket
    /\ rx_spsc = <<>> /\ rx_sem = FALSE /\ rx_running = FALSE
    /\ central_event_msgq = <<>>
    /\ tracked_positions = {} /\ zmk_held = {} /\ zmk_faults = {}
    /\ zmk_ver = [p \in Position |-> 0]
    /\ seen = [p \in Position |-> 0]
    /\ pipe_heard = FALSE /\ pipe_stale = FALSE /\ pipe_connected = FALSE
    /\ silent_ticks = 0 /\ reboots = 0

Next ==
    \/ \E p \in Position : esb_peripheral_report_event(p)
    \/ keepalive_work_fn
    \/ tx_restart_work_fn
    \/ TxSuccess
    \/ \E arrived \in BOOLEAN : TxFailed(arrived)
    \/ RxThreadWake
    \/ RxThreadSleep
    \/ central_ingest_packet
    \/ central_event_work_fn
    \/ staleness_work_fn
    \/ PeripheralReboot
    \/ CentralReboot

Spec == Init /\ [][Next]_vars

(* Timers and threads keep running.  The radio is only assumed to get some   *)
(* packet through again and again: one that is not a copy, into a ring and   *)
(* an event queue that are not full at that moment.                          *)
FreshArrival == TxSuccess /\ ~Duplicate(Head(tx_fifo)) /\ Len(rx_spsc) < RxQueueSize
IngestKept   == central_ingest_packet /\ Len(central_event_msgq) < EventQueueSize

FairSpec ==
    /\ Spec
    /\ WF_vars(keepalive_work_fn) /\ WF_vars(tx_restart_work_fn)
    /\ WF_vars(RxThreadWake \/ RxThreadSleep)
    /\ WF_vars(central_event_work_fn) /\ WF_vars(staleness_work_fn)
    /\ SF_vars(FreshArrival) /\ SF_vars(IngestKept)

-----------------------------------------------------------------------------
TypeOK ==
    /\ ver \in Versions /\ zmk_ver \in Versions /\ seen \in Versions
    /\ pressed_positions \in SUBSET Covered
    /\ tx_fifo \in Seq(Packets) /\ Len(tx_fifo) <= TxFifoSize
    /\ pid \in 0..(PidCount - 1) /\ radio \in {"idle", "busy"}
    /\ tx_restarts \in 0..TxRestartsMax
    /\ restart_queued \in BOOLEAN /\ link_acked \in BOOLEAN
    /\ tx_failed_since_tick \in BOOLEAN /\ tx_succeeded_since_tick \in BOOLEAN
    /\ rx_sem \in BOOLEAN /\ rx_running \in BOOLEAN /\ pipe_heard \in BOOLEAN
    /\ pipe_stale \in BOOLEAN /\ pipe_connected \in BOOLEAN
    /\ last_rx \in {NoPacket} \union {Accepted(packet) : packet \in Packets}
    /\ rx_spsc \in Seq(Bodies) /\ Len(rx_spsc) <= RxQueueSize
    /\ central_event_msgq \in Seq(Bodies) /\ Len(central_event_msgq) <= EventQueueSize
    /\ tracked_positions \in SUBSET Covered
    /\ zmk_held \in SUBSET Position
    /\ zmk_faults \subseteq {"doubled", "repeated"} \X Position
    /\ silent_ticks \in 0..(TimeoutTicks + 1) /\ reboots \in 0..MaxReboots

(* ZMK never sees a press of a covered position it already holds, nor a      *)
(* release of one it does not, whatever was lost, copied, flushed, replayed  *)
(* from a keepalive or released as stale (central.c deliver_key_event,       *)
(* replay_position_diff, release_stale_pipe).                                *)
StreamAlternates == \A p \in Covered : <<"doubled", p>> \notin zmk_faults

(* The central's bitmap is ZMK's view of the covered positions: every path   *)
(* that tells ZMK updates the bitmap in the same work item.                  *)
TrackedIsHeld == zmk_held \intersect Covered = tracked_positions

(* One physical press reaches ZMK as at most one press: neither a packet     *)
(* restarted after its ACKs were lost nor a keepalive racing an event taps   *)
(* the key twice.  Only a stale release or a restart lets it press again.    *)
PressIsNew == \A p \in Position : <<"repeated", p>> \notin zmk_faults

(* The link implements KeySync: ZMK moves through states the switches really  *)
(* were in, never back to an older one, and what it holds is the last one it  *)
(* saw, or nothing after a stale release.  Events and snapshots share one     *)
(* order through FIFO, ring and event queue, and every path into ZMK          *)
(* (central.c deliver_key_event, replay_position_diff, release_stale_pipe)    *)
(* ends in the state the packet carries.                                      *)
Sync == INSTANCE KeySync WITH held <- zmk_held
ImplementsKeySync == Sync!Spec

(* A pipe silent past the timeout holds no covered key in ZMK                *)
(* (central.c staleness_work_fn).                                            *)
SilentPipeHoldsNothing ==
    (pipe_heard /\ silent_ticks > TimeoutTicks /\ Drained) => zmk_held \intersect Covered = {}

(* Once the user stops and the link stays audible, ZMK ends up with exactly  *)
(* the covered keys that are down, and stays there: every lost delta heals.  *)
Converges ==
    <>[](silent_ticks <= TimeoutTicks) => <>[](zmk_held \intersect Covered = Held(ver))
=============================================================================
