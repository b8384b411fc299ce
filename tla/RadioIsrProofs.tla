--------------------------- MODULE RadioIsrProofs ---------------------------
(***************************************************************************)
(* What threads share with the radio ISR: the latch neither tears nor loses *)
(* a value, the newest setting wins, and an active keyboard keeps its clock *)
(* (SpscLatch, RadioGate), for any FIFO and any number of publications and  *)
(* requests.                                                                *)
(***************************************************************************)
EXTENDS SpscLatch, RadioGate, TLAPS

-----------------------------------------------------------------------------
(* The latch (SpscLatch).                                                     *)

(* The latch starts empty and consistent. *)
LEMMA LatchStarts == LatchInit => LatchInv
BY DEF LatchInit, LatchInv, TypeOK, NoLostPublication, PublishedIsNewest, WriterApart,
       ReaderSafe, Slot, SlotCount, Null, Halves, MaxOverlap

(* One step of either side keeps the latch consistent: the thread is frozen  *)
(* while the ISR runs, and the ISR overlaps one copy at most once.           *)
LEMMA LatchStep == LatchInv /\ [LatchNext]_latch_vars => LatchInv'
<1> SUFFICES ASSUME LatchInv, [LatchNext]_latch_vars PROVE LatchInv'
  OBVIOUS
<1> USE DEF LatchInv, TypeOK, NoLostPublication, PublishedIsNewest, WriterApart,
        ReaderSafe, Slot, SlotCount, Null, Halves, MaxOverlap,
        ProducerRuns, ConsumerRuns, ThreadRuns
<1>1. CASE Claim
  BY <1>1 DEF Claim, spsc_latch_claim
<1>2. CASE WriteLow
  BY <1>2 DEF WriteLow
<1>3. CASE WriteHigh
  BY <1>3 DEF WriteHigh
<1>4. CASE spsc_latch_publish
  BY <1>4 DEF spsc_latch_publish
<1>5. CASE spsc_latch_peek
  BY <1>5 DEF spsc_latch_peek
<1>6. CASE CopyLow
  BY <1>6 DEF CopyLow
<1>7. CASE CopyHigh
  BY <1>7 DEF CopyHigh
<1>8. ASSUME NEW accepted \in BOOLEAN, Consume(accepted) PROVE LatchInv'
  BY <1>8 DEF Consume, ConsumerDone, spsc_latch_release
<1>9. CASE UNCHANGED latch_vars
  BY <1>9 DEF latch_vars
<1> QED
  BY <1>1, <1>2, <1>3, <1>4, <1>5, <1>6, <1>7, <1>8, <1>9 DEF LatchNext

(* The inductive invariant holds in every reachable state. *)
THEOREM LatchConsistent == LatchSpec => []LatchInv
BY LatchStarts, LatchStep, PTL DEF LatchSpec

(* A consumer never sees half of one publication and half of another         *)
(* (spsc_latch.c with the memcpys of its users around it).                   *)
THEOREM ReadsAreWhole == LatchSpec => []NoTornRead
<1>1. LatchInv => NoTornRead
  BY DEF LatchInv, ReaderSafe, NoTornRead
<1> QED
  BY <1>1, LatchConsistent, PTL

(* A latch that reads empty has handed over its newest value                 *)
(* (spsc_latch_release only nulls what the consumer peeked).                 *)
THEOREM NothingIsLost == LatchSpec => []NoLostPublication
<1>1. LatchInv => NoLostPublication
  BY DEF LatchInv
<1> QED
  BY <1>1, LatchConsistent, PTL

-----------------------------------------------------------------------------
(* Settings and clock gate (RadioGate).                                       *)

(* The radio has the newest value as soon as nobody is left to apply it, but  *)
(* for a value the driver rejects, which it never has.  Only between setting  *)
(* the radio and noting so does the config thread know more than applied.     *)
SettingInv ==
    /\ requested \in Nat /\ radio_value \in 0..requested /\ valid \in BOOLEAN
    /\ config \in [at : {"idle", "request", "claim", "read", "apply", "applied", "busy"},
                   value : Nat]
    /\ config.at \in {"idle", "claim"} => pending \/ ~valid \/ radio_value = requested
    /\ ~valid => radio_value # requested
    /\ config.at \in {"apply", "applied"} => config.value = requested
    /\ IF config.at = "applied" THEN radio_value = requested ELSE applied = radio_value

LEMMA SettingInit == Init => SettingInv
BY DEF Init, SettingInv

(* apply_setting on the workqueue leaves the invariant alone wherever the     *)
(* config thread stands.                                                      *)
LEMMA ApplyKeepsSetting ==
    ASSUME SettingInv, esb_link_apply_pending
    PROVE  SettingInv'
BY DEF SettingInv, esb_link_apply_pending, Takes, Busy, Rejects, setting_vars

LEMMA ConfigKeepsSetting ==
    ASSUME SettingInv, ConfigThread
    PROVE  SettingInv'
<1> USE DEF SettingInv, ConfigStep
<1>1. CASE request_setting
  BY <1>1 DEF request_setting
<1>2. CASE MarkPending
  BY <1>2 DEF MarkPending
<1>3. CASE ClaimPending
  BY <1>3 DEF ClaimPending
<1>4. CASE ReadRequested
  BY <1>4 DEF ReadRequested
<1>5. CASE ApplyRequested
  BY <1>5 DEF ApplyRequested, Takes, Busy, Rejects
<1>6. CASE MarkApplied
  BY <1>6 DEF MarkApplied
<1>7. CASE KeepPending
  BY <1>7 DEF KeepPending
<1> QED
  BY <1>1, <1>2, <1>3, <1>4, <1>5, <1>6, <1>7 DEF ConfigThread

LEMMA SettingStep == SettingInv /\ [Next]_vars => SettingInv'
<1> SUFFICES ASSUME SettingInv, [Next]_vars PROVE SettingInv'
  OBVIOUS
<1>1. CASE UNCHANGED setting_vars
  BY <1>1 DEF setting_vars, SettingInv
<1>2. CASE ConfigThread
  BY <1>2, ConfigKeepsSetting
<1>3. CASE keepalive_work_fn
  BY <1>3, ApplyKeepsSetting DEF keepalive_work_fn
<1>4. CASE ReleaseDue \/ RadioISR
  BY <1>1, <1>4 DEF ReleaseDue, RadioISR
<1>5. CASE WorkStarts
  BY <1>1, <1>3, <1>5 DEF WorkStarts, tx_restart_work_fn, ReleaseStarts, GoesIdle, GoesToSleep,
         WorkWakes, Wakes
<1>6. CASE WorkEnds
  BY <1>1, <1>6 DEF WorkEnds, WorkRuns
<1>7. CASE InputThread
  BY <1>1, <1>7 DEF InputThread, InputWakes, Wakes, InputLocks, InputHolds, InputWrites
<1>8. CASE UNCHANGED vars
  BY <1>1, <1>8 DEF vars
<1> QED
  BY <1>2, <1>4, <1>5, <1>6, <1>7, <1>8 DEF Next

(* The newest value is never lost between a radio that refused it and the     *)
(* retry: at rest the radio has the value requested last, unless the driver   *)
(* rejected it, and the retry timing is computed from what the radio has      *)
(* (request_setting, apply_setting, esb_link_apply_pending).                  *)
THEOREM NewestValueWins == Spec => []NewestSettingWins
<1>1. SettingInv => NewestSettingWins
  BY DEF SettingInv, NewestSettingWins
<1> QED
  BY <1>1, SettingInit, SettingStep, PTL DEF Spec

-----------------------------------------------------------------------------
Waking == work = "wake" \/ input \in {"wake", "activate"}

(* An active keyboard that is not just waking has its clock, and is not       *)
(* gated: no release, blocked or running, takes it away.                      *)
ClockInv ==
    /\ gate_owner = "input" => input \in {"hold", "activate"}
    /\ Waking => activity = "active"
    /\ work = "idle" => activity = "idle"
    /\ activity = "active" /\ ~Waking => hfclk_held /\ ~hfclk_gating

LEMMA ClockInit == Init => ClockInv
BY DEF Init, ClockInv, Waking

LEMMA WorkKeepsClock ==
    ASSUME ClockInv, WorkStarts \/ WorkEnds
    PROVE  ClockInv'
<1> USE DEF ClockInv, Waking, Starts
<1>1. CASE keepalive_work_fn
  BY <1>1 DEF keepalive_work_fn, gate_vars
<1>2. CASE tx_restart_work_fn
  BY <1>2 DEF tx_restart_work_fn, gate_vars
<1>3. CASE ReleaseStarts
  BY <1>3 DEF ReleaseStarts
<1>4. CASE GoesIdle
  BY <1>4 DEF GoesIdle, gate_vars
<1>5. CASE GoesToSleep
  BY <1>5 DEF GoesToSleep
<1>6. CASE WorkWakes
  BY <1>6 DEF WorkWakes, Wakes
<1>7. CASE WorkEnds
  <2>1. /\ work' = "none" /\ gate_owner' = gate_owner
        /\ input' = input /\ activity' = activity
    BY <1>7 DEF WorkEnds, WorkRuns
  <2>2. work \in {"keepalive", "restart"} /\ hfclk_gate_hold => ClockInv'
    BY <2>1 DEF hfclk_gate_hold
  <2>3. work = "release" /\ hfclk_release_work_fn => ClockInv'
    <3> SUFFICES ASSUME work = "release", hfclk_release_work_fn, activity = "active", ~Waking
                 PROVE  hfclk_held' /\ ~hfclk_gating'
      BY <2>1
    <3> QED
      BY Zenon DEF hfclk_release_work_fn
  <2>4. work = "idle" /\ esb_link_set_idle(TRUE) => ClockInv'
    BY <2>1 DEF esb_link_set_idle, GateOn
  <2>5. work = "wake" /\ esb_link_set_idle(FALSE) => ClockInv'
    BY <2>1 DEF esb_link_set_idle, GateOff
  <2> QED
    BY <1>7, <2>2, <2>3, <2>4, <2>5 DEF WorkEnds, WorkRuns
<1> QED
  BY <1>1, <1>2, <1>3, <1>4, <1>5, <1>6, <1>7 DEF WorkStarts

LEMMA InputKeepsClock ==
    ASSUME ClockInv, InputThread
    PROVE  ClockInv'
<1> USE DEF ClockInv, Waking, InputStep
<1>1. CASE InputWakes
  BY <1>1 DEF InputWakes, Wakes, ThreadsRun, WorkBlocked
<1>2. CASE InputLocks
  BY <1>2 DEF InputLocks, gate_vars
<1>3. CASE InputHolds
  BY <1>3 DEF InputHolds, hfclk_gate_hold, esb_link_set_idle, GateOff
<1>4. CASE InputWrites
  BY <1>4 DEF InputWrites, gate_vars
<1> QED
  BY <1>1, <1>2, <1>3, <1>4 DEF InputThread

LEMMA ClockStep == ClockInv /\ [Next]_vars => ClockInv'
<1> SUFFICES ASSUME ClockInv, [Next]_vars PROVE ClockInv'
  OBVIOUS
<1>1. CASE ConfigThread \/ ReleaseDue \/ RadioISR \/ UNCHANGED vars
  BY <1>1 DEF ConfigThread, ReleaseDue, RadioISR, vars, gate_vars, ClockInv, Waking
<1>2. CASE WorkStarts \/ WorkEnds
  BY <1>2, WorkKeepsClock
<1>3. CASE InputThread
  BY <1>3, InputKeepsClock
<1> QED
  BY <1>1, <1>2, <1>3 DEF Next

(* An active keyboard keeps its clock, whichever thread woke it and whatever  *)
(* release was under way.                                                     *)
THEOREM ActiveClockIsKept == Spec => []ActiveKeepsClock
<1>1. ClockInv => ActiveKeepsClock
  BY DEF ClockInv, Waking, ActiveKeepsClock
<1> QED
  BY <1>1, ClockInit, ClockStep, PTL DEF Spec
=============================================================================
