----------------------------- MODULE RadioGate -----------------------------
(***************************************************************************)
(* The radio of a peripheral: settings a busy radio refuses, and the        *)
(* high-frequency clock it needs to transmit, gated while the keyboard is   *)
(* idle.                                                                    *)
(*                                                                          *)
(*   work    the system workqueue: keepalive, restart, clock release and    *)
(*           activity changes.  No thread runs beside it, but it blocks on  *)
(*           the gate mutex when a thread it preempted holds it.            *)
(*   input   the input thread: sends, and wakes the keyboard.               *)
(*   config  the thread that changes a radio setting.                       *)
(*   ISR     the end of a transmission.                                     *)
(***************************************************************************)
EXTENDS Naturals

CONSTANTS
    FifoSize,      \* CONFIG_ESB_TX_FIFO_SIZE
    MaxRequests    \* bound: values requested of the setting

ASSUME GateAssumption == FifoSize \in Nat \ {0} /\ MaxRequests \in Nat

VARIABLES
    requested, pending, applied,       \* struct radio_setting
    valid,                             \* the driver takes the value requested last
    radio_value,                       \* what the radio is set to
    config,                            \* where the config thread is, and the value it read
    activity, asleep,                  \* ZMK's activity state; esb_sleep.c
    hfclk_gating, hfclk_held,
    release_armed, release_queued,     \* hfclk_release_work: its timer, its place in the queue
    gate_owner,                        \* holder of hfclk_gate_mutex
    work, input,                       \* the item each is in, and where
    fifo, radio, restart_queued        \* the ESB driver: packets, "idle" or "tx"

setting_vars == <<requested, pending, applied, valid, radio_value, config>>
gate_vars    == <<hfclk_gating, hfclk_held, release_armed, release_queued>>
radio_vars   == <<fifo, radio, restart_queued>>
vars == <<setting_vars, activity, asleep, gate_vars, gate_owner, work, input, radio_vars>>

(* The workqueue runs before any thread, unless it waits for the mutex. *)
WorkBlocked == work # "none" /\ gate_owner = "input"
ThreadsRun  == WorkBlocked \/ (work = "none" /\ ~release_queued /\ ~restart_queued)

-----------------------------------------------------------------------------
(* Settings. *)

(* The driver's answers to the newest value.  It refuses a change while the  *)
(* radio is busy and, then or later, a value it cannot set.                  *)
Takes   == radio = "idle" /\ valid
Busy    == radio # "idle"
Rejects == ~valid

(* Mutant: a refused value is not kept for a retry. *)
apply_once ==
    \/ /\ pending /\ Takes
       /\ pending' = FALSE /\ applied' = requested /\ radio_value' = requested
       /\ UNCHANGED <<requested, valid, config>>
    \/ /\ pending => Busy \/ Rejects
       /\ pending' = FALSE
       /\ UNCHANGED <<requested, applied, valid, radio_value, config>>

(* Mutant: a rejected value is noted as applied. *)
apply_notes_rejected ==
    \/ /\ pending /\ (Takes \/ Rejects)
       /\ pending' = FALSE /\ applied' = requested
       /\ radio_value' = IF valid THEN requested ELSE radio_value
       /\ UNCHANGED <<requested, valid, config>>
    \/ (pending => Busy) /\ UNCHANGED setting_vars

(* apply_setting from the workqueue, which nothing but the ISR interrupts: a *)
(* busy radio keeps the value pending, a rejected one is dropped and logged. *)
esb_link_apply_pending ==
    \/ /\ pending /\ Takes
       /\ pending' = FALSE /\ applied' = requested /\ radio_value' = requested
       /\ UNCHANGED <<requested, valid, config>>
    \/ /\ pending /\ Rejects
       /\ pending' = FALSE
       /\ UNCHANGED <<requested, applied, valid, radio_value, config>>
    \/ (pending => Busy) /\ UNCHANGED setting_vars

ConfigStep(from, to) == ThreadsRun /\ config.at = from /\ config' = [config EXCEPT !.at = to]

(* request_setting, then apply_setting, one access at a time.  Only the driver *)
(* knows whether it can set the value.                                         *)
request_setting ==
    /\ ConfigStep("idle", "request")
    /\ requested < MaxRequests
    /\ requested' = requested + 1
    /\ valid' \in BOOLEAN
    /\ UNCHANGED <<pending, applied, radio_value>>

MarkPending ==
    /\ ConfigStep("request", "claim")
    /\ pending' = TRUE
    /\ UNCHANGED <<requested, applied, valid, radio_value>>

ClaimPending ==
    /\ ConfigStep("claim", IF pending THEN "read" ELSE "idle")
    /\ pending' = FALSE
    /\ UNCHANGED <<requested, applied, valid, radio_value>>

ReadRequested ==
    /\ ThreadsRun /\ config.at = "read"
    /\ config' = [at |-> "apply", value |-> requested]
    /\ UNCHANGED <<requested, pending, applied, valid, radio_value>>

(* A rejected value ends here: the error goes back to the caller. *)
ApplyRequested ==
    /\ \/ Takes /\ ConfigStep("apply", "applied") /\ radio_value' = config.value
       \/ Busy /\ ConfigStep("apply", "busy") /\ UNCHANGED radio_value
       \/ Rejects /\ ConfigStep("apply", "idle") /\ UNCHANGED radio_value
    /\ UNCHANGED <<requested, pending, applied, valid>>

MarkApplied ==
    /\ ConfigStep("applied", "idle")
    /\ applied' = config.value
    /\ UNCHANGED <<requested, pending, valid, radio_value>>

KeepPending ==
    /\ ConfigStep("busy", "idle")
    /\ pending' = TRUE
    /\ UNCHANGED <<requested, applied, valid, radio_value>>

ConfigThread ==
    /\ \/ request_setting \/ MarkPending \/ ClaimPending \/ ReadRequested
       \/ ApplyRequested \/ MarkApplied \/ KeepPending
    /\ UNCHANGED <<activity, asleep, gate_vars, gate_owner, work, input, radio_vars>>

-----------------------------------------------------------------------------
(* The clock.  The gate steps run under hfclk_gate_mutex. *)

(* Mutant: a send does not put the release off. *)
hold_without_rearm ==
    /\ hfclk_held' = TRUE
    /\ UNCHANGED <<hfclk_gating, release_armed, release_queued>>

(* Rescheduling moves the timer; a release already queued stays queued. *)
hfclk_gate_hold ==
    /\ hfclk_held' = TRUE
    /\ release_armed' = (hfclk_gating \/ release_armed)
    /\ UNCHANGED <<hfclk_gating, release_queued>>

GateOn ==
    /\ hfclk_gating' = TRUE
    /\ release_armed' = TRUE
    /\ UNCHANGED <<hfclk_held, release_queued>>

GateOff ==
    /\ hfclk_gating' = FALSE
    /\ release_armed' = FALSE /\ release_queued' = FALSE
    /\ hfclk_held' = TRUE

esb_link_set_idle(idle) == IF idle THEN GateOn ELSE GateOff

(* Mutant: a release that was already running does not look again. *)
release_unchecked ==
    /\ hfclk_held' = (hfclk_held /\ radio # "idle")
    /\ release_armed' = (release_armed \/ (hfclk_gating /\ radio # "idle"))
    /\ UNCHANGED <<hfclk_gating, release_queued>>

(* Cancel misses an item already running, so it looks again under the mutex. *)
hfclk_release_work_fn ==
    /\ hfclk_held' = (hfclk_held /\ ~(hfclk_gating /\ radio = "idle"))
    /\ release_armed' = (release_armed \/ (hfclk_gating /\ radio # "idle"))
    /\ UNCHANGED <<hfclk_gating, release_queued>>

(* The timer of the release runs out. *)
ReleaseDue ==
    /\ release_armed
    /\ release_armed' = FALSE /\ release_queued' = TRUE
    /\ UNCHANGED <<setting_vars, activity, asleep, hfclk_gating, hfclk_held, gate_owner,
                   work, input, radio_vars>>

-----------------------------------------------------------------------------
(* The radio. *)

(* Writing to an idle radio starts it.  A full FIFO refuses the packet, or,     *)
(* when the radio has been silent for long, is flushed first.                   *)
submit_payload ==
    /\ \/ fifo < FifoSize /\ fifo' = fifo + 1 /\ radio' = "tx"
       \/ fifo = FifoSize /\ UNCHANGED <<fifo, radio>>
       \/ fifo = FifoSize /\ fifo' = 1 /\ radio' = "tx"
    /\ UNCHANGED restart_queued

esb_start_tx ==
    /\ radio' = IF fifo > 0 THEN "tx" ELSE radio
    /\ UNCHANGED <<fifo, restart_queued>>

(* A sent packet leaves the FIFO and the next one follows. *)
TxSuccess ==
    /\ radio = "tx"
    /\ fifo' = IF fifo > 0 THEN fifo - 1 ELSE 0
    /\ radio' = IF fifo > 1 THEN "tx" ELSE "idle"
    /\ UNCHANGED restart_queued

(* A failed one is tried again by the workqueue, or the FIFO is flushed. *)
TxFailed ==
    /\ radio = "tx"
    /\ radio' = "idle"
    /\ \/ restart_queued' = TRUE /\ UNCHANGED fifo
       \/ fifo' = 0 /\ UNCHANGED restart_queued

RadioISR ==
    /\ TxSuccess \/ TxFailed
    /\ UNCHANGED <<setting_vars, activity, asleep, gate_vars, gate_owner, work, input>>

-----------------------------------------------------------------------------
(* The workqueue.  An item first does what needs no mutex, then waits for it.   *)

Starts(item) == work = "none" /\ work' = item

keepalive_work_fn ==
    /\ Starts("keepalive") /\ ~asleep
    /\ esb_link_apply_pending
    /\ UNCHANGED <<activity, asleep, gate_vars, gate_owner, input, radio_vars>>

tx_restart_work_fn ==
    /\ Starts("restart") /\ restart_queued
    /\ restart_queued' = FALSE
    /\ UNCHANGED <<setting_vars, activity, asleep, gate_vars, gate_owner, input, fifo, radio>>

ReleaseStarts ==
    /\ Starts("release") /\ release_queued
    /\ release_queued' = FALSE
    /\ UNCHANGED <<setting_vars, activity, asleep, hfclk_gating, hfclk_held, release_armed,
                   gate_owner, input, radio_vars>>

GoesIdle ==
    /\ Starts("idle") /\ activity = "active" /\ input \notin {"wake", "activate"}
    /\ activity' = "idle"
    /\ UNCHANGED <<setting_vars, asleep, gate_vars, gate_owner, input, radio_vars>>

(* esb_link_set_enabled(FALSE): no gate mutex, and the radio ends its packet.    *)
GoesToSleep ==
    /\ work = "none" /\ activity = "idle"
    /\ activity' = "sleep" /\ asleep' = TRUE
    /\ fifo' = 0 /\ restart_queued' = FALSE /\ hfclk_held' = FALSE
    /\ UNCHANGED <<setting_vars, hfclk_gating, release_armed, release_queued, gate_owner,
                   work, input, radio>>

(* A keyboard that could not power off wakes: set_enabled(TRUE) comes first.     *)
Wakes ==
    /\ activity # "active"
    /\ activity' = "active" /\ asleep' = FALSE
    /\ hfclk_held' = (asleep \/ hfclk_held)
    /\ UNCHANGED <<setting_vars, hfclk_gating, release_armed, release_queued, gate_owner,
                   radio_vars>>

WorkWakes == Starts("wake") /\ Wakes /\ UNCHANGED input

WorkStarts ==
    keepalive_work_fn \/ tx_restart_work_fn \/ ReleaseStarts \/ GoesIdle \/ GoesToSleep \/ WorkWakes

(* The rest of the item, once the mutex is free. *)
WorkRuns(item) ==
    /\ work = item /\ gate_owner = "none"
    /\ work' = "none"
    /\ UNCHANGED <<setting_vars, activity, asleep, gate_owner, input>>

WorkEnds ==
    \/ WorkRuns("keepalive") /\ hfclk_gate_hold /\ submit_payload
    \/ WorkRuns("restart") /\ hfclk_gate_hold /\ esb_start_tx
    \/ WorkRuns("release") /\ hfclk_release_work_fn /\ UNCHANGED radio_vars
    \/ WorkRuns("idle") /\ esb_link_set_idle(TRUE) /\ UNCHANGED radio_vars
    \/ WorkRuns("wake") /\ esb_link_set_idle(FALSE) /\ UNCHANGED radio_vars

-----------------------------------------------------------------------------
(* The input thread: a send, or an event that wakes the keyboard. *)

InputStep(from, to) == ThreadsRun /\ input = from /\ input' = to

InputWakes == InputStep("none", "wake") /\ Wakes /\ UNCHANGED work

InputLocks ==
    /\ InputStep("none", "hold") \/ InputStep("wake", "activate")
    /\ gate_owner = "none" /\ gate_owner' = "input"
    /\ UNCHANGED <<setting_vars, activity, asleep, gate_vars, work, radio_vars>>

InputHolds ==
    /\ \/ InputStep("hold", "write") /\ hfclk_gate_hold
       \/ InputStep("activate", "none") /\ esb_link_set_idle(FALSE)
    /\ gate_owner' = "none"
    /\ UNCHANGED <<setting_vars, activity, asleep, work, radio_vars>>

InputWrites ==
    /\ InputStep("write", "none")
    /\ submit_payload
    /\ UNCHANGED <<setting_vars, activity, asleep, gate_vars, gate_owner, work>>

InputThread == InputWakes \/ InputLocks \/ InputHolds \/ InputWrites

-----------------------------------------------------------------------------
Init ==
    /\ requested = 0 /\ pending = FALSE /\ applied = 0 /\ valid = TRUE /\ radio_value = 0
    /\ config = [at |-> "idle", value |-> 0]
    /\ activity = "active" /\ asleep = FALSE
    /\ hfclk_gating = FALSE /\ hfclk_held = TRUE
    /\ release_armed = FALSE /\ release_queued = FALSE
    /\ gate_owner = "none" /\ work = "none" /\ input = "none"
    /\ fifo = 0 /\ radio = "idle" /\ restart_queued = FALSE

Next == ConfigThread \/ ReleaseDue \/ RadioISR \/ WorkStarts \/ WorkEnds \/ InputThread

Spec == Init /\ [][Next]_vars

(* The radio is done with its packets and the queue is empty: the gap between    *)
(* two sends, which a keepalive period leaves and a burst does not.              *)
Gap == radio = "idle" /\ work = "none" /\ ~release_queued /\ ~restart_queued

(* The radio goes on, the queue takes its items in turn and leaves the threads   *)
(* time.  While there are gaps, the keepalive, the end of the hold and the       *)
(* release it queues fall into one at times: a packet and its retries take half  *)
(* of the hold.                                                                  *)
FairSpec ==
    /\ Spec
    /\ SF_vars(ConfigThread /\ config.at # "idle")
    /\ SF_vars(InputThread /\ input # "none")
    /\ WF_vars(RadioISR) /\ WF_vars(WorkEnds) /\ SF_vars(tx_restart_work_fn)
    /\ SF_vars(Gap /\ keepalive_work_fn)
    /\ SF_vars(Gap /\ ReleaseDue)
    /\ SF_vars(ReleaseStarts) /\ SF_vars(radio = "idle" /\ ReleaseStarts)

-----------------------------------------------------------------------------
(* No setting is lost between a busy radio and its retry.  When no value is     *)
(* pending and the config thread is done, the retry timing is computed from     *)
(* what the radio has (applied), and that is the value requested last, unless   *)
(* the driver rejected it: then neither has heard of it.                        *)
NewestSettingWins ==
    ~pending /\ config.at = "idle" =>
        applied = radio_value /\ (radio_value = requested <=> valid)

(* A value the busy radio refused is applied by a later keepalive: while the     *)
(* keyboard is awake and its sends leave gaps, the radio ends up with the newest *)
(* value, although the config thread and the keepalive take the pending flag     *)
(* from each other, and a value the driver rejects is not retried for ever.      *)
SettingReachesRadio ==
    []<>(Gap /\ ~asleep) => <>[](~pending /\ (valid => radio_value = requested))

(* An active keyboard keeps its clock, so that a send starts at once: no release *)
(* that was queued, blocked or running when it woke takes it away.               *)
ActiveKeepsClock ==
    activity = "active" /\ work = "none" /\ input \notin {"wake", "activate"}
        => hfclk_held /\ ~hfclk_gating

(* A keyboard that stays idle lets the clock go in the gaps between its sends:   *)
(* every hold puts a release behind it, whichever thread took it.                *)
IdleLetsClockGo == <>[]hfclk_gating /\ []<>Gap => []<>~hfclk_held

(* A send acquires the clock and holds it through the transmission, said of      *)
(* submit_payload and hfclk_gate_hold: an idle keyboard starts no transmission   *)
(* with the clock released.  It does not hold: a release that waited for the     *)
(* mutex the sender held runs before the sender writes.  No run checks it; the   *)
(* failed packet's restart takes the clock again.                                *)
SendHoldsClock ==
    [][activity # "sleep" /\ radio = "idle" /\ radio' = "tx" => hfclk_held']_vars
=============================================================================
