--------------------------- MODULE KeyLinkProofs ---------------------------
(***************************************************************************)
(* For every set of positions, every queue size and every bound: types of   *)
(* the key link; ZMK sees alternating presses and releases; a press reaches *)
(* it once; the link implements KeySync; a silent pipe holds nothing.       *)
(***************************************************************************)
EXTENDS KeyLink, TLAPS

(* The ESB packet id stays inside its two-bit (here PidCount) range. *)
LEMMA PidWraps == \A n \in Nat : (n + 1) % PidCount \in 0..(PidCount - 1)
BY SizeAssumption

(* A write to the transmit queue keeps queue, packet id and radio typed. *)
LEMMA SubmitTypes ==
    ASSUME TypeOK, NEW body \in Bodies, Submit(body)
    PROVE  /\ tx_fifo' \in Seq(Packets) /\ Len(tx_fifo') <= TxFifoSize
           /\ pid' \in 0..(PidCount - 1) /\ radio' \in {"idle", "busy"}
<1> DEFINE next   == (pid + 1) % PidCount
           packet == [pid |-> next, body |-> body]
<1>1. next \in 0..(PidCount - 1)
  BY PidWraps, SizeAssumption DEF TypeOK
<1>2. packet \in Packets
  BY <1>1 DEF Packets
<1>3. /\ tx_fifo \in Seq(Packets) /\ Len(tx_fifo) <= TxFifoSize
      /\ pid \in 0..(PidCount - 1) /\ radio \in {"idle", "busy"}
  BY DEF TypeOK
<1> HIDE DEF next
<1>4. CASE /\ Len(tx_fifo) < TxFifoSize
           /\ tx_fifo' = Append(tx_fifo, packet) /\ pid' = next /\ radio' = "busy"
  BY <1>1, <1>2, <1>3, <1>4, SizeAssumption
<1>5. CASE UNCHANGED <<tx_fifo, pid, radio>>
  BY <1>3, <1>5
<1>6. CASE tx_fifo' = <<packet>> /\ pid' = next /\ radio' = "busy"
  <2>1. tx_fifo' \in Seq(Packets) /\ Len(tx_fifo') = 1
    BY <1>2, <1>6
  <2> QED
    BY <1>1, <1>6, <2>1, SizeAssumption
<1> QED
  BY <1>4, <1>5, <1>6 DEF Submit, next

(* A packet the ISR takes keeps the driver's memory of it and the ring typed. *)
LEMMA OnRxTypes ==
    ASSUME TypeOK, NEW packet \in Packets, on_esb_rx(packet)
    PROVE  /\ last_rx' \in {NoPacket} \union {Accepted(q) : q \in Packets}
           /\ rx_spsc' \in Seq(Bodies) /\ Len(rx_spsc') <= RxQueueSize
           /\ rx_sem' \in BOOLEAN /\ pipe_heard' \in BOOLEAN
           /\ silent_ticks' \in 0..(TimeoutTicks + 1)
<1>1. packet.body \in Bodies
  BY DEF Packets
<1>2. CASE Duplicate(packet)
  BY <1>2 DEF on_esb_rx, isr_vars, TypeOK
<1>3. CASE ~Duplicate(packet)
  <2>1. last_rx' = Accepted(packet) /\ pipe_heard' = TRUE /\ silent_ticks' = 0
    BY <1>3 DEF on_esb_rx
  <2>2. rx_spsc' \in Seq(Bodies) /\ Len(rx_spsc') <= RxQueueSize /\ rx_sem' \in BOOLEAN
    <3>1. CASE Len(rx_spsc) < RxQueueSize
      <4>1. rx_spsc' = Append(rx_spsc, packet.body) /\ rx_sem' = TRUE
        BY <1>3, <3>1 DEF on_esb_rx
      <4>2. rx_spsc \in Seq(Bodies)
        BY DEF TypeOK
      <4> QED
        BY <1>1, <3>1, <4>1, <4>2, SizeAssumption
    <3>2. CASE ~(Len(rx_spsc) < RxQueueSize)
      BY <1>3, <3>2 DEF on_esb_rx, TypeOK
    <3> QED BY <3>1, <3>2
  <2> QED
    BY <2>1, <2>2, SizeAssumption
<1> QED BY <1>2, <1>3

(* A hand-over to ZMK keeps its held set and the histories typed. *)
LEMMA ForwardTypes ==
    ASSUME TypeOK, NEW out, NEW v \in Versions, forward_to_zmk(out, v)
    PROVE  /\ zmk_held' \in SUBSET Position /\ zmk_ver' \in Versions
           /\ zmk_faults' \subseteq {"doubled", "repeated"} \X Position
<1>1. zmk_held' \in SUBSET Position
  BY DEF forward_to_zmk
<1>2. zmk_ver' \in Versions
  BY DEF forward_to_zmk, TypeOK, Versions
<1>3. zmk_faults' \subseteq {"doubled", "repeated"} \X Position
  BY DEF forward_to_zmk, TypeOK
<1> QED BY <1>1, <1>2, <1>3

(* A replay keeps the bitmap inside the covered positions. *)
LEMMA ReplayTypes ==
    ASSUME TypeOK, NEW target \in SUBSET Covered, NEW v \in Versions,
           replay_position_diff(target, v)
    PROVE  /\ zmk_held' \in SUBSET Position /\ zmk_ver' \in Versions
           /\ zmk_faults' \subseteq {"doubled", "repeated"} \X Position
           /\ tracked_positions' \in SUBSET Covered
BY ForwardTypes DEF replay_position_diff

(* An empty queue is typed and within every size. *)
LEMMA EmptyQueues ==
    /\ <<>> \in Seq(Packets) /\ <<>> \in Seq(Bodies)
    /\ Len(<<>>) <= TxFifoSize /\ Len(<<>>) <= RxQueueSize /\ Len(<<>>) <= EventQueueSize
<1>1. <<>> \in Seq(Packets) /\ <<>> \in Seq(Bodies)
  OBVIOUS
<1>2. Len(<<>>) = 0
  OBVIOUS
<1> QED
  BY <1>1, <1>2, SizeAssumption

(* The key link starts typed. *)
LEMMA TypeInit == Init => TypeOK
<1> SUFFICES ASSUME Init PROVE TypeOK
  OBVIOUS
<1>1. ver \in Versions /\ zmk_ver \in Versions /\ seen \in Versions
  BY SizeAssumption DEF Init, Versions
<1>2. /\ tx_fifo \in Seq(Packets) /\ Len(tx_fifo) <= TxFifoSize
      /\ rx_spsc \in Seq(Bodies) /\ Len(rx_spsc) <= RxQueueSize
      /\ central_event_msgq \in Seq(Bodies) /\ Len(central_event_msgq) <= EventQueueSize
  BY EmptyQueues DEF Init
<1>3. last_rx \in {NoPacket} \union {Accepted(packet) : packet \in Packets}
  BY DEF Init
<1>4. /\ pressed_positions \in SUBSET Covered /\ tracked_positions \in SUBSET Covered
      /\ zmk_held \in SUBSET Position
      /\ zmk_faults \subseteq {"doubled", "repeated"} \X Position
  BY DEF Init
<1>5. /\ pid \in 0..(PidCount - 1) /\ radio \in {"idle", "busy"}
      /\ tx_restarts \in 0..TxRestartsMax
      /\ silent_ticks \in 0..(TimeoutTicks + 1) /\ reboots \in 0..MaxReboots
  BY SizeAssumption DEF Init
<1>6. /\ restart_queued \in BOOLEAN /\ link_acked \in BOOLEAN
      /\ tx_failed_since_tick \in BOOLEAN /\ tx_succeeded_since_tick \in BOOLEAN
      /\ rx_sem \in BOOLEAN /\ rx_running \in BOOLEAN /\ pipe_heard \in BOOLEAN
      /\ pipe_stale \in BOOLEAN /\ pipe_connected \in BOOLEAN
  BY DEF Init
<1> QED
  BY <1>1, <1>2, <1>3, <1>4, <1>5, <1>6 DEF TypeOK

(* Every step keeps the key link typed: in particular every queue stays      *)
(* within its size and the restart count within its limit.                   *)
LEMMA TypeStep == TypeOK /\ [Next]_vars => TypeOK'
<1> SUFFICES ASSUME TypeOK, [Next]_vars PROVE TypeOK'
  OBVIOUS
<1> USE SizeAssumption, PositionAssumption
<1>1. ASSUME NEW p \in Position, esb_peripheral_report_event(p) PROVE TypeOK'
  <2> DEFINE body == [kind |-> "key", position |-> p, pressed |-> ver[p] % 2 = 0,
                      ver |-> ver[p] + 1]
  <2>1. ver[p] \in 0..MaxTransitions /\ ver[p] < MaxTransitions
    BY <1>1 DEF esb_peripheral_report_event, TypeOK, Versions
  <2>2. body \in Bodies
    BY <2>1 DEF Bodies, KeyEvents
  <2>3. Submit(body)
    BY <1>1 DEF esb_peripheral_report_event
  <2> HIDE DEF body
  <2>4. /\ tx_fifo' \in Seq(Packets) /\ Len(tx_fifo') <= TxFifoSize
        /\ pid' \in 0..(PidCount - 1) /\ radio' \in {"idle", "busy"}
    BY <2>2, <2>3, SubmitTypes
  <2>5. ver' \in Versions /\ pressed_positions' \in SUBSET Covered
    BY <1>1, <2>1 DEF esb_peripheral_report_event, peripheral_note_key_event, TypeOK, Versions
  <2> QED
    BY <1>1, <2>4, <2>5 DEF esb_peripheral_report_event, TypeOK, isr_vars, thread_vars, central_vars
<1>2. CASE keepalive_work_fn
  <2> DEFINE body == [kind |-> "keepalive", bitmap |-> pressed_positions,
                      ver |-> [p \in Position |-> IF p \in Covered THEN ver[p] ELSE 0]]
  <2>1. body \in Bodies
    BY DEF Bodies, Keepalives, TypeOK, Versions
  <2>2. Submit(body)
    BY <1>2 DEF keepalive_work_fn
  <2> HIDE DEF body
  <2>3. /\ tx_fifo' \in Seq(Packets) /\ Len(tx_fifo') <= TxFifoSize
        /\ pid' \in 0..(PidCount - 1) /\ radio' \in {"idle", "busy"}
    BY <2>1, <2>2, SubmitTypes
  <2> QED
    BY <1>2, <2>3 DEF keepalive_work_fn, settle_link_state, TypeOK, isr_vars, thread_vars, central_vars
<1>3. CASE tx_restart_work_fn
  BY <1>3 DEF tx_restart_work_fn, TypeOK, isr_vars, thread_vars, central_vars
<1>4. CASE TxSuccess
  <2>1. Head(tx_fifo) \in Packets /\ Tail(tx_fifo) \in Seq(Packets)
        /\ Len(Tail(tx_fifo)) <= TxFifoSize
    BY <1>4 DEF TxSuccess, TypeOK
  <2>2. /\ last_rx' \in {NoPacket} \union {Accepted(q) : q \in Packets}
        /\ rx_spsc' \in Seq(Bodies) /\ Len(rx_spsc') <= RxQueueSize
        /\ rx_sem' \in BOOLEAN /\ pipe_heard' \in BOOLEAN
        /\ silent_ticks' \in 0..(TimeoutTicks + 1)
    BY <1>4, <2>1, OnRxTypes DEF TxSuccess
  <2> QED
    BY <1>4, <2>1, <2>2 DEF TxSuccess, TypeOK, thread_vars, central_vars
<1>5. ASSUME NEW arrived \in BOOLEAN, TxFailed(arrived) PROVE TypeOK'
  <2>1. Head(tx_fifo) \in Packets
    BY <1>5 DEF TxFailed, TypeOK
  <2>2. /\ last_rx' \in {NoPacket} \union {Accepted(q) : q \in Packets}
        /\ rx_spsc' \in Seq(Bodies) /\ Len(rx_spsc') <= RxQueueSize
        /\ rx_sem' \in BOOLEAN /\ pipe_heard' \in BOOLEAN
        /\ silent_ticks' \in 0..(TimeoutTicks + 1)
    <3>1. CASE arrived
      BY <1>5, <2>1, <3>1, OnRxTypes DEF TxFailed
    <3>2. CASE ~arrived
      BY <1>5, <3>2 DEF TxFailed, TypeOK, isr_vars
    <3> QED BY <3>1, <3>2
  <2>3. /\ tx_fifo' \in Seq(Packets) /\ Len(tx_fifo') <= TxFifoSize
        /\ pid' \in 0..(PidCount - 1)
        /\ tx_restarts' \in 0..TxRestartsMax /\ restart_queued' \in BOOLEAN
    <3>1. CASE link_acked /\ tx_restarts < TxRestartsMax
      BY <1>5, <3>1 DEF TxFailed, esb_link_role_retry_failed_tx, TypeOK
    <3>2. CASE ~(link_acked /\ tx_restarts < TxRestartsMax)
      <4>1. /\ tx_restarts' = 0 /\ tx_fifo' = <<>>
            /\ restart_queued' = restart_queued /\ pid' = pid
        BY <1>5, <3>2 DEF TxFailed, esb_link_role_retry_failed_tx
      <4> QED
        BY <4>1, EmptyQueues DEF TypeOK
    <3> QED BY <3>1, <3>2
  <2> QED
    BY <1>5, <2>2, <2>3 DEF TxFailed, TypeOK, thread_vars, central_vars
<1>6. CASE RxThreadWake
  <2>1. rx_sem' \in BOOLEAN /\ rx_running' \in BOOLEAN
    BY <1>6 DEF RxThreadWake
  <2>2. UNCHANGED <<ver, pressed_positions, tx_fifo, pid, radio, tx_restarts,
                    restart_queued, link_acked, tx_failed_since_tick, tx_succeeded_since_tick>>
    BY <1>6 DEF RxThreadWake, peripheral_vars
  <2>3. UNCHANGED <<tracked_positions, pipe_stale, pipe_connected, zmk_held, zmk_faults,
                    zmk_ver, seen>>
    BY <1>6 DEF RxThreadWake, central_vars
  <2>4. UNCHANGED <<last_rx, rx_spsc, pipe_heard, central_event_msgq, silent_ticks, reboots>>
    BY <1>6 DEF RxThreadWake
  <2> QED BY <2>1, <2>2, <2>3, <2>4, ZenonT(60) DEF TypeOK
<1>7. CASE RxThreadSleep
  <2>1. rx_running' \in BOOLEAN
    BY <1>7 DEF RxThreadSleep
  <2>2. UNCHANGED <<ver, pressed_positions, tx_fifo, pid, radio, tx_restarts,
                    restart_queued, link_acked, tx_failed_since_tick, tx_succeeded_since_tick>>
    BY <1>7 DEF RxThreadSleep, peripheral_vars
  <2>3. UNCHANGED <<tracked_positions, pipe_stale, pipe_connected, zmk_held, zmk_faults,
                    zmk_ver, seen>>
    BY <1>7 DEF RxThreadSleep, central_vars
  <2>4. UNCHANGED <<last_rx, rx_spsc, rx_sem, pipe_heard, central_event_msgq, silent_ticks,
                    reboots>>
    BY <1>7 DEF RxThreadSleep, isr_vars
  <2> QED BY <2>1, <2>2, <2>3, <2>4, ZenonT(60) DEF TypeOK
<1>8. CASE central_ingest_packet
  <2>1. /\ rx_spsc' \in Seq(Bodies) /\ Len(rx_spsc') <= RxQueueSize
        /\ Head(rx_spsc) \in Bodies
    BY <1>8 DEF central_ingest_packet, TypeOK
  <2>2. central_event_msgq' \in Seq(Bodies) /\ Len(central_event_msgq') <= EventQueueSize
    BY <1>8, <2>1 DEF central_ingest_packet, TypeOK
  <2> QED
    BY <1>8, <2>1, <2>2 DEF central_ingest_packet, TypeOK, peripheral_vars, central_vars
<1>9. CASE central_event_work_fn
  <2> DEFINE inbound == Head(central_event_msgq)
  <2>1. /\ inbound \in Bodies
        /\ central_event_msgq' \in Seq(Bodies) /\ Len(central_event_msgq') <= EventQueueSize
    BY <1>9 DEF central_event_work_fn, TypeOK
  <2> HIDE DEF inbound
  <2>2. /\ zmk_held' \in SUBSET Position /\ zmk_ver' \in Versions
        /\ zmk_faults' \subseteq {"doubled", "repeated"} \X Position
        /\ tracked_positions' \in SUBSET Covered /\ seen' \in Versions
    <3>1. CASE inbound.kind = "key"
      <4>1. inbound \in KeyEvents
        BY <2>1, <3>1 DEF Bodies, Keepalives
      <4>2. deliver_key_event(inbound)
        BY <1>9, <3>1 DEF central_event_work_fn, inbound
      <4>3. [q \in Position |-> inbound.ver] \in Versions /\ inbound.position \in Position
        BY <4>1 DEF KeyEvents, Versions
      <4>4. /\ zmk_held' \in SUBSET Position /\ zmk_ver' \in Versions
            /\ zmk_faults' \subseteq {"doubled", "repeated"} \X Position
        BY <4>2, <4>3, ForwardTypes DEF deliver_key_event
      <4>5. tracked_positions' \in SUBSET Covered /\ seen' \in Versions
        BY <4>1, <4>2 DEF deliver_key_event, KeyEvents, TypeOK, Versions
      <4> QED BY <4>4, <4>5
    <3>2. CASE inbound.kind # "key"
      <4>1. inbound \in Keepalives
        BY <2>1, <3>2 DEF Bodies, KeyEvents
      <4>2. /\ replay_position_diff(inbound.bitmap, inbound.ver)
            /\ seen' = [p \in Position |-> IF p \in Covered THEN inbound.ver[p] ELSE seen[p]]
        BY <1>9, <3>2 DEF central_event_work_fn, inbound
      <4>3. inbound.bitmap \in SUBSET Covered /\ inbound.ver \in Versions
        BY <4>1 DEF Keepalives
      <4>4. seen' \in Versions
        BY <4>2, <4>3 DEF TypeOK, Versions
      <4> QED
        BY <4>2, <4>3, <4>4, ReplayTypes
    <3> QED BY <3>1, <3>2
  <2> QED
    BY <1>9, <2>1, <2>2, SMTT(30) DEF central_event_work_fn, TypeOK, peripheral_vars, isr_vars
<1>10. CASE staleness_work_fn
  <2>1. /\ zmk_held' \in SUBSET Position /\ zmk_ver' \in Versions
        /\ zmk_faults' \subseteq {"doubled", "repeated"} \X Position
        /\ tracked_positions' \in SUBSET Covered
    <3>1. CASE release_stale_pipe
      <4>1. [p \in Position |-> 0] \in Versions
        BY DEF Versions
      <4> QED
        BY <3>1, <4>1, ReplayTypes DEF release_stale_pipe
    <3>2. CASE UNCHANGED <<tracked_positions, zmk_held, zmk_faults, zmk_ver>>
      BY <3>2 DEF TypeOK
    <3> QED
      BY <1>10, <3>1, <3>2 DEF staleness_work_fn
  <2>2. silent_ticks' \in 0..(TimeoutTicks + 1) /\ pipe_stale' \in BOOLEAN
    <3>1. silent_ticks' \in 0..(TimeoutTicks + 1)
      BY <1>10 DEF staleness_work_fn, TypeOK
    <3>2. CASE pipe_heard
      BY <1>10, <3>1, <3>2 DEF staleness_work_fn
    <3>3. CASE ~pipe_heard
      BY <1>10, <3>1, <3>3 DEF staleness_work_fn, TypeOK
    <3> QED BY <3>2, <3>3
  <2>3. pipe_connected' \in BOOLEAN
    BY <1>10 DEF staleness_work_fn
  <2> QED
    BY <1>10, <2>1, <2>2, <2>3 DEF staleness_work_fn, TypeOK, peripheral_vars, isr_vars, thread_vars
<1>11. CASE PeripheralReboot
  <2>1. ver' \in Versions
    BY <1>11 DEF PeripheralReboot, TypeOK, Versions
  <2>2. tx_fifo' \in Seq(Packets) /\ Len(tx_fifo') <= TxFifoSize
    BY <1>11, EmptyQueues DEF PeripheralReboot
  <2>3. /\ pressed_positions' \in SUBSET Covered
        /\ pid' \in 0..(PidCount - 1) /\ radio' \in {"idle", "busy"}
        /\ tx_restarts' \in 0..TxRestartsMax /\ reboots' \in 0..MaxReboots
        /\ restart_queued' \in BOOLEAN /\ link_acked' \in BOOLEAN
        /\ tx_failed_since_tick' \in BOOLEAN /\ tx_succeeded_since_tick' \in BOOLEAN
    <3>1. pressed_positions' \in SUBSET Covered
      BY <1>11 DEF PeripheralReboot
    <3>2. /\ pid' \in 0..(PidCount - 1) /\ radio' \in {"idle", "busy"}
          /\ tx_restarts' \in 0..TxRestartsMax
      BY <1>11 DEF PeripheralReboot
    <3>3. reboots' \in 0..MaxReboots
      BY <1>11 DEF PeripheralReboot, TypeOK
    <3>4. /\ restart_queued' \in BOOLEAN /\ link_acked' \in BOOLEAN
          /\ tx_failed_since_tick' \in BOOLEAN /\ tx_succeeded_since_tick' \in BOOLEAN
      BY <1>11 DEF PeripheralReboot
    <3> QED BY <3>1, <3>2, <3>3, <3>4
  <2>4. UNCHANGED <<isr_vars, thread_vars, central_vars, silent_ticks>>
    BY <1>11 DEF PeripheralReboot
  <2> QED
    BY <2>1, <2>2, <2>3, <2>4 DEF TypeOK, isr_vars, thread_vars, central_vars
<1>12. CASE CentralReboot
  <2>1. zmk_ver' \in Versions
    BY <1>12 DEF CentralReboot, Versions
  <2>2. /\ rx_spsc' \in Seq(Bodies) /\ Len(rx_spsc') <= RxQueueSize
        /\ central_event_msgq' \in Seq(Bodies) /\ Len(central_event_msgq') <= EventQueueSize
    BY <1>12, EmptyQueues DEF CentralReboot
  <2>3. last_rx' \in {NoPacket} \union {Accepted(packet) : packet \in Packets}
    BY <1>12 DEF CentralReboot
  <2>4. /\ tracked_positions' \in SUBSET Covered /\ zmk_held' \in SUBSET Position
        /\ rx_sem' \in BOOLEAN /\ rx_running' \in BOOLEAN /\ pipe_heard' \in BOOLEAN
        /\ pipe_stale' \in BOOLEAN /\ pipe_connected' \in BOOLEAN
        /\ silent_ticks' \in 0..(TimeoutTicks + 1) /\ reboots' \in 0..MaxReboots
    <3>1. tracked_positions' \in SUBSET Covered /\ zmk_held' \in SUBSET Position
      BY <1>12 DEF CentralReboot
    <3>2. silent_ticks' \in 0..(TimeoutTicks + 1) /\ reboots' \in 0..MaxReboots
      BY <1>12 DEF CentralReboot, TypeOK
    <3>3. /\ rx_sem' \in BOOLEAN /\ rx_running' \in BOOLEAN /\ pipe_heard' \in BOOLEAN
          /\ pipe_stale' \in BOOLEAN /\ pipe_connected' \in BOOLEAN
      BY <1>12 DEF CentralReboot
    <3> QED BY <3>1, <3>2, <3>3
  <2>5. UNCHANGED <<peripheral_vars, zmk_faults, seen>>
    BY <1>12 DEF CentralReboot
  <2> QED
    BY <2>1, <2>2, <2>3, <2>4, <2>5 DEF TypeOK, peripheral_vars
<1>13. CASE UNCHANGED vars
  BY <1>13 DEF vars, TypeOK, peripheral_vars, isr_vars, thread_vars, central_vars
<1> QED
  BY <1>1, <1>2, <1>3, <1>4, <1>5, <1>6, <1>7, <1>8, <1>9, <1>10, <1>11, <1>12, <1>13 DEF Next

(* Type correctness: no queue of the link ever exceeds its configured size,  *)
(* and no failed packet is restarted past ESB_LINK_TX_RESTARTS_MAX.          *)
THEOREM TypeCorrect == Spec => []TypeOK
BY TypeInit, TypeStep, PTL DEF Spec

-----------------------------------------------------------------------------
(* What ZMK holds after a hand-over that gives every covered position either *)
(* nothing or transitions that alternate from what ZMK held before.          *)
LEMMA ForwardAlternates ==
    ASSUME StreamAlternates, NEW out, NEW v, forward_to_zmk(out, v),
           \A p \in Covered : Alternates(ZmkState(p), out[p])
    PROVE  StreamAlternates'
<1> SUFFICES ASSUME NEW p \in Covered, <<"doubled", p>> \in zmk_faults' PROVE FALSE
  BY DEF StreamAlternates
<1>1. <<"doubled", p>> \in
          {<<"doubled", q>> : q \in {r \in Position : ~Alternates(ZmkState(r), out[r])}}
  BY DEF StreamAlternates, forward_to_zmk
<1>2. PICK q \in {r \in Position : ~Alternates(ZmkState(r), out[r])} :
          <<"doubled", p>> = <<"doubled", q>>
  BY <1>1
<1> QED
  BY <1>2

(* No transition, one that changes what is held, and a release before a      *)
(* press of a held key all alternate.                                        *)
LEMMA AlternatesCases ==
    /\ \A last : Alternates(last, <<>>)
    /\ Alternates("press", <<"release">>)
    /\ Alternates("release", <<"press">>)
    /\ Alternates("press", <<"release", "press">>)
<1>1. \A last : Alternates(last, <<>>)
  BY DEF Alternates
<1>2. Alternates("press", <<"release">>)
  BY DEF Alternates
<1>3. Alternates("release", <<"press">>)
  BY DEF Alternates
<1>4. Alternates("press", <<"release", "press">>)
  BY DEF Alternates
<1> QED BY <1>1, <1>2, <1>3, <1>4

(* Replaying a bitmap flips exactly the covered positions that differ. *)
LEMMA ReplayAlternates ==
    ASSUME TypeOK, TrackedIsHeld, StreamAlternates,
           NEW target \in SUBSET Covered, NEW v, replay_position_diff(target, v)
    PROVE  StreamAlternates' /\ TrackedIsHeld'
<1> DEFINE out == [p \in Position |->
                      IF p \in Covered /\ (p \in target) # (p \in tracked_positions)
                      THEN <<Transition(p \in target)>> ELSE <<>>]
<1>1. forward_to_zmk(out, v) /\ tracked_positions' = target
  BY DEF replay_position_diff
<1>2. \A p \in Covered : p \in Position /\ (p \in zmk_held <=> p \in tracked_positions)
  BY PositionAssumption DEF TrackedIsHeld
<1>3. \A p \in Covered : \/ out[p] = <<>> /\ (p \in target <=> p \in zmk_held)
                         \/ out[p] = <<"press">> /\ p \in target /\ p \notin zmk_held
                         \/ out[p] = <<"release">> /\ p \notin target /\ p \in zmk_held
  <2> TAKE p \in Covered
  <2>1. CASE p \in target <=> p \in tracked_positions
    <3>1. out[p] = <<>>
      BY <1>2, <2>1
    <3> QED BY <1>2, <2>1, <3>1
  <2>2. CASE p \in target /\ p \notin tracked_positions
    <3>1. out[p] = <<"press">>
      BY <1>2, <2>2 DEF Transition
    <3> QED BY <1>2, <2>2, <3>1
  <2>3. CASE p \notin target /\ p \in tracked_positions
    <3>1. out[p] = <<"release">>
      BY <1>2, <2>3 DEF Transition
    <3> QED BY <1>2, <2>3, <3>1
  <2> QED BY <2>1, <2>2, <2>3
<1> HIDE DEF out
<1>4. ASSUME NEW p \in Covered PROVE Alternates(ZmkState(p), out[p])
  BY <1>3, AlternatesCases DEF ZmkState, Transition
<1>5. StreamAlternates'
  BY <1>1, <1>4, ForwardAlternates
<1>6. ASSUME NEW p \in Covered PROVE p \in zmk_held' <=> p \in target
  <2>1. p \in zmk_held' <=> IF out[p] = <<>> THEN p \in zmk_held
                            ELSE out[p][Len(out[p])] = "press"
    BY <1>1, <1>2 DEF forward_to_zmk
  <2> QED
    BY <1>3, <2>1
<1>7. TrackedIsHeld'
  BY <1>1, <1>6 DEF TrackedIsHeld
<1> QED BY <1>5, <1>7

(* A key event passes through the verdict: ZMK sees a change or nothing. *)
LEMMA DeliverAlternates ==
    ASSUME TypeOK, TrackedIsHeld, StreamAlternates,
           NEW event \in KeyEvents, deliver_key_event(event)
    PROVE  StreamAlternates' /\ TrackedIsHeld'
<1> DEFINE p       == event.position
           verdict == esb_keepalive_key_verdict(p, event.pressed)
           one     == IF verdict = "drop_orphan_release" THEN <<>>
                      ELSE IF verdict = "heal_lost_release" THEN <<"release", "press">>
                      ELSE <<Transition(event.pressed)>>
           out     == [q \in Position |-> IF q = p THEN one ELSE <<>>]
           v       == [q \in Position |-> event.ver]
<1>1. /\ forward_to_zmk(out, v)
      /\ tracked_positions' = IF p \notin Covered THEN tracked_positions
                              ELSE IF event.pressed THEN tracked_positions \union {p}
                              ELSE tracked_positions \ {p}
  BY DEF deliver_key_event
<1>2. p \in Position /\ event.pressed \in BOOLEAN
  BY DEF KeyEvents
<1>3. \A q \in Covered : q \in Position /\ (q \in zmk_held <=> q \in tracked_positions)
  BY PositionAssumption DEF TrackedIsHeld
<1>4. \A q \in Position : q # p => out[q] = <<>>
  OBVIOUS
<1>5. p \in Covered =>
          \/ out[p] = <<>> /\ ~event.pressed /\ p \notin zmk_held
          \/ out[p] = <<"release", "press">> /\ event.pressed /\ p \in zmk_held
          \/ out[p] = <<"press">> /\ event.pressed /\ p \notin zmk_held
          \/ out[p] = <<"release">> /\ ~event.pressed /\ p \in zmk_held
  BY <1>2, <1>3 DEF esb_keepalive_key_verdict, Transition
<1> HIDE DEF out, v
<1>6. ASSUME NEW q \in Covered PROVE Alternates(ZmkState(q), out[q])
  BY <1>3, <1>4, <1>5, AlternatesCases DEF ZmkState, Transition
<1>7. StreamAlternates'
  BY <1>1, <1>6, ForwardAlternates
<1>8. ASSUME NEW q \in Covered PROVE q \in zmk_held' <=> q \in tracked_positions'
  <2>1. q \in zmk_held' <=> IF out[q] = <<>> THEN q \in zmk_held
                            ELSE out[q][Len(out[q])] = "press"
    BY <1>1, <1>3 DEF forward_to_zmk
  <2>2. CASE q # p
    BY <1>1, <1>3, <1>4, <2>1, <2>2
  <2>3. CASE q = p
    <3>1. q \in tracked_positions' <=> event.pressed
      BY <1>1, <2>3
    <3>2. q \in zmk_held' <=> event.pressed
      <4>1. CASE out[p] = <<>> /\ ~event.pressed /\ p \notin zmk_held
        BY <2>1, <2>3, <4>1
      <4>2. CASE out[p] = <<"release", "press">> /\ event.pressed
        BY <2>1, <2>3, <4>2
      <4>3. CASE out[p] = <<"press">> /\ event.pressed
        BY <2>1, <2>3, <4>3
      <4>4. CASE out[p] = <<"release">> /\ ~event.pressed
        BY <2>1, <2>3, <4>4
      <4> QED BY <1>5, <2>3, <4>1, <4>2, <4>3, <4>4
    <3> QED BY <3>1, <3>2
  <2> QED BY <2>2, <2>3
<1>9. tracked_positions' \subseteq Covered
  BY <1>1 DEF TypeOK
<1>10. TrackedIsHeld'
  BY <1>8, <1>9 DEF TrackedIsHeld
<1> QED BY <1>7, <1>10

(* The stream alternates because the tracked bitmap is ZMK's state. *)
StreamInv == TypeOK /\ TrackedIsHeld /\ StreamAlternates

(* Only the system workqueue of the central talks to ZMK: a key event, a     *)
(* keepalive, a stale release.  Every other step leaves both views alone.    *)
LEMMA StreamStep == StreamInv /\ [Next]_vars => StreamInv'
<1> SUFFICES ASSUME StreamInv, [Next]_vars PROVE TrackedIsHeld' /\ StreamAlternates'
  BY TypeStep DEF StreamInv
<1> USE DEF StreamInv
<1>1. CASE UNCHANGED <<zmk_held, zmk_faults, tracked_positions>>
  BY <1>1 DEF TrackedIsHeld, StreamAlternates
<1>2. CASE central_event_work_fn
  <2> DEFINE inbound == Head(central_event_msgq)
  <2>1. inbound \in Bodies
    BY <1>2 DEF central_event_work_fn, TypeOK
  <2>2. /\ inbound.kind = "key" => deliver_key_event(inbound)
        /\ inbound.kind # "key" => replay_position_diff(inbound.bitmap, inbound.ver)
    BY <1>2 DEF central_event_work_fn
  <2> HIDE DEF inbound
  <2>3. CASE inbound.kind = "key"
    <3>1. inbound \in KeyEvents
      BY <2>1, <2>3 DEF Bodies, Keepalives
    <3> QED
      BY <2>2, <2>3, <3>1, DeliverAlternates
  <2>4. CASE inbound.kind # "key"
    <3>1. inbound.bitmap \in SUBSET Covered
      BY <2>1, <2>4 DEF Bodies, KeyEvents, Keepalives
    <3> QED
      BY <2>2, <2>4, <3>1, ReplayAlternates
  <2> QED BY <2>3, <2>4
<1>3. CASE staleness_work_fn
  <2>1. CASE release_stale_pipe
    BY <2>1, ReplayAlternates DEF release_stale_pipe
  <2> QED
    BY <1>1, <1>3, <2>1 DEF staleness_work_fn
<1>4. CASE CentralReboot
  BY <1>4 DEF CentralReboot, TrackedIsHeld, StreamAlternates
<1> QED
  BY <1>1, <1>2, <1>3, <1>4
     DEF Next, vars, central_vars, esb_peripheral_report_event, keepalive_work_fn,
         tx_restart_work_fn, TxSuccess, TxFailed, RxThreadWake, RxThreadSleep,
         central_ingest_packet, PeripheralReboot

(* ZMK never sees a covered key pressed twice or released twice in a row,    *)
(* whatever the link loses, copies, flushes or replays and whoever restarts. *)
THEOREM AlternatingStream == Spec => []StreamAlternates
<1>1. Init => StreamInv
  BY TypeInit DEF Init, StreamInv, TrackedIsHeld, StreamAlternates
<1>2. StreamInv => StreamAlternates
  BY DEF StreamInv
<1> QED
  BY <1>1, <1>2, StreamStep, PTL DEF Spec

(* The central's bitmap equals ZMK's view of the covered positions.          *)
THEOREM TrackingIsExact == Spec => []TrackedIsHeld
<1>1. Init => StreamInv
  BY TypeInit DEF Init, StreamInv, TrackedIsHeld, StreamAlternates
<1>2. StreamInv => TrackedIsHeld
  BY DEF StreamInv
<1> QED
  BY <1>1, <1>2, StreamStep, PTL DEF Spec
-----------------------------------------------------------------------------

(* Which positions a packet is about, and which version of each it carries. *)
Says(body, p)  == IF body.kind = "key" THEN body.position = p ELSE p \in Covered
VerAt(body, p) == IF body.kind = "key" THEN body.ver ELSE body.ver[p]

(* A packet tells what the switches were at its versions, which are no older *)
(* than what ZMK saw and no newer than the switches are.                     *)
Honest(body) == IF body.kind = "key"
                THEN body.ver # 0 /\ body.pressed = (body.ver % 2 = 1)
                ELSE body.bitmap = Held(body.ver)
Dated(body, from, to) ==
    \A p \in Position : Says(body, p) => from[p] <= VerAt(body, p) /\ VerAt(body, p) <= to[p]

(* The order packets travel in: never back to an older version, and a key    *)
(* event is always newer than what was said before it.                       *)
NotAfter(b, c) == \A p \in Position :
                      Says(b, p) /\ Says(c, p) => VerAt(b, p) <= VerAt(c, p)
Before(b, c)   == \A p \in Position :
                      Says(b, p) /\ Says(c, p) =>
                          /\ VerAt(b, p) <= VerAt(c, p)
                          /\ c.kind = "key" => VerAt(b, p) < VerAt(c, p)
(* A key event is newer than what is known. *)
News(body, known) == body.kind = "key" => known[body.position] < body.ver

(* The packet the FIFO repeats after its ACKs were lost is the one exception: *)
(* the driver of the central recognises it.                                   *)
Repeat(i) == i = 1 /\ Duplicate(tx_fifo[i])

(* Every packet on its way, in the FIFO, the ring or the event queue. *)
ContentInv ==
    /\ \A i \in 1..Len(tx_fifo) : Honest(tx_fifo[i].body) /\ Dated(tx_fifo[i].body, seen, ver)
    /\ \A i \in 1..Len(rx_spsc) : Honest(rx_spsc[i]) /\ Dated(rx_spsc[i], seen, ver)
    /\ \A i \in 1..Len(central_event_msgq) :
           Honest(central_event_msgq[i]) /\ Dated(central_event_msgq[i], seen, ver)

(* Event queue, ring and FIFO in turn hold the packets in the order they     *)
(* were sent in.                                                             *)
OrderInv ==
    /\ \A i, j \in 1..Len(central_event_msgq) :
           i < j => Before(central_event_msgq[i], central_event_msgq[j])
    /\ \A i \in 1..Len(central_event_msgq), j \in 1..Len(rx_spsc) :
           Before(central_event_msgq[i], rx_spsc[j])
    /\ \A i, j \in 1..Len(rx_spsc) : i < j => Before(rx_spsc[i], rx_spsc[j])
    /\ \A i \in 1..Len(central_event_msgq), j \in 1..Len(tx_fifo) :
           /\ NotAfter(central_event_msgq[i], tx_fifo[j].body)
           /\ Repeat(j) \/ Before(central_event_msgq[i], tx_fifo[j].body)
    /\ \A i \in 1..Len(rx_spsc), j \in 1..Len(tx_fifo) :
           /\ NotAfter(rx_spsc[i], tx_fifo[j].body)
           /\ Repeat(j) \/ Before(rx_spsc[i], tx_fifo[j].body)
    /\ \A i, j \in 1..Len(tx_fifo) : i < j => Before(tx_fifo[i].body, tx_fifo[j].body)

(* A key event on its way is newer than ZMK's last press of its position. *)
NewsInv ==
    /\ \A i \in 1..Len(central_event_msgq) : News(central_event_msgq[i], zmk_ver)
    /\ \A i \in 1..Len(rx_spsc) : News(rx_spsc[i], zmk_ver)
    /\ \A i \in 1..Len(tx_fifo) : Repeat(i) \/ News(tx_fifo[i].body, zmk_ver)

(* ZMK's last press is no newer than what it saw, which is no newer than the *)
(* switches; a position whose last version is a press is still held.         *)
ViewInv ==
    /\ pressed_positions = Held(ver)
    /\ \A p \in Position : zmk_ver[p] <= seen[p] /\ seen[p] <= ver[p]
    /\ \A p \in Position : zmk_ver[p] % 2 = 1 => p \in zmk_held

(* The inductive invariant. *)
TravelInv == ContentInv /\ OrderInv /\ NewsInv
SyncInv   == StreamInv /\ TravelInv /\ ViewInv

-----------------------------------------------------------------------------
(* A version a packet carries is a number. *)
LEMMA CarriedIsNat ==
    ASSUME NEW body \in Bodies, NEW p \in Position, Says(body, p)
    PROVE  VerAt(body, p) \in 0..MaxTransitions
<1>1. CASE body.kind = "key"
  <2>1. body \in KeyEvents
    BY <1>1 DEF Bodies, Keepalives
  <2> QED
    BY <1>1, <2>1 DEF VerAt, KeyEvents
<1>2. CASE body.kind # "key"
  <2>1. body \in Keepalives
    BY <1>2 DEF Bodies, KeyEvents
  <2> QED
    BY <1>2, <2>1 DEF VerAt, Keepalives, Versions
<1> QED BY <1>1, <1>2

(* What is at which place of a queue after a write. *)
LEMMA Appended ==
    ASSUME NEW S, NEW q \in Seq(S), NEW x \in S
    PROVE  /\ Len(Append(q, x)) = Len(q) + 1
           /\ \A i \in 1..Len(q) : Append(q, x)[i] = q[i]
           /\ Append(q, x)[Len(q) + 1] = x
OBVIOUS

(* ... and after a read. *)
LEMMA Removed ==
    ASSUME NEW S, NEW q \in Seq(S), q # <<>>
    PROVE  /\ Len(q) \in Nat \ {0} /\ Head(q) = q[1]
           /\ Len(Tail(q)) = Len(q) - 1
           /\ \A i \in 1..Len(Tail(q)) : i + 1 \in 1..Len(q) /\ Tail(q)[i] = q[i + 1]
OBVIOUS

(* Packets of the FIFO have bodies, and so do the queues. *)
LEMMA QueuedBodies ==
    ASSUME TypeOK
    PROVE  /\ Len(tx_fifo) \in Nat /\ Len(rx_spsc) \in Nat /\ Len(central_event_msgq) \in Nat
           /\ \A i \in 1..Len(tx_fifo) : tx_fifo[i] \in Packets /\ tx_fifo[i].body \in Bodies
           /\ \A i \in 1..Len(rx_spsc) : rx_spsc[i] \in Bodies
           /\ \A i \in 1..Len(central_event_msgq) : central_event_msgq[i] \in Bodies
<1>1. /\ tx_fifo \in Seq(Packets) /\ rx_spsc \in Seq(Bodies)
      /\ central_event_msgq \in Seq(Bodies)
  BY DEF TypeOK
<1>2. \A packet \in Packets : packet.body \in Bodies
  BY DEF Packets
<1> QED
  BY <1>1, <1>2

(* A packet written to the FIFO, newer than everything said before, keeps    *)
(* the travelling order, also when the write flushes a stalled FIFO first.   *)
LEMMA SubmitTravels ==
    ASSUME TypeOK, TypeOK', TravelInv, ViewInv,
           NEW body \in Bodies, Honest(body), Submit(body),
           UNCHANGED <<isr_vars, thread_vars, central_vars>>,
           \A p \in Position : ver[p] <= ver'[p],
           \A p \in Position : Says(body, p) =>
               /\ ver[p] <= VerAt(body, p) /\ VerAt(body, p) <= ver'[p]
               /\ body.kind = "key" => ver[p] < VerAt(body, p)
    PROVE  TravelInv'
<1>1. /\ rx_spsc' = rx_spsc /\ central_event_msgq' = central_event_msgq
      /\ last_rx' = last_rx /\ seen' = seen /\ zmk_ver' = zmk_ver
  BY DEF isr_vars, thread_vars, central_vars
<1>2. /\ \A p \in Position : ver[p] \in Nat /\ ver'[p] \in Nat /\ seen[p] \in Nat /\ zmk_ver[p] \in Nat
      /\ \A p \in Position : zmk_ver[p] <= seen[p] /\ seen[p] <= ver[p]
  BY SizeAssumption DEF TypeOK, ViewInv, Versions
<1>3. \A i \in 1..Len(tx_fifo') :
          \/ i = Len(tx_fifo') /\ tx_fifo'[i].body = body
          \/ i \in 1..Len(tx_fifo) /\ tx_fifo'[i] = tx_fifo[i]
  <2> DEFINE packet == [pid |-> (pid + 1) % PidCount, body |-> body]
  <2>1. packet.body = body
    OBVIOUS
  <2>2. tx_fifo \in Seq(Packets) /\ packet \in Packets
    BY PidWraps, SizeAssumption DEF TypeOK, Packets
  <2> HIDE DEF packet
  <2>3. CASE tx_fifo' = Append(tx_fifo, packet)
    BY <2>1, <2>2, <2>3, Appended
  <2>4. CASE tx_fifo' = tx_fifo
    BY <2>4
  <2>5. CASE tx_fifo' = <<packet>>
    BY <2>1, <2>5
  <2> QED
    BY <2>3, <2>4, <2>5 DEF Submit, packet
<1>4. Len(tx_fifo') \in Nat
  BY DEF TypeOK
<1>5. ASSUME NEW c \in Bodies, Dated(c, seen, ver)
      PROVE  Dated(c, seen', ver') /\ NotAfter(c, body) /\ Before(c, body)
  <2>1. \A p \in Position : Says(c, p) => VerAt(c, p) \in Nat
    BY CarriedIsNat, SizeAssumption
  <2>2. \A p \in Position : Says(body, p) => VerAt(body, p) \in Nat
    BY CarriedIsNat, SizeAssumption
  <2> QED
    BY <1>1, <1>2, <1>5, <2>1, <2>2 DEF Dated, NotAfter, Before
<1>6. Dated(body, seen', ver') /\ News(body, zmk_ver')
  <2>1. \A p \in Position : Says(body, p) => VerAt(body, p) \in Nat
    BY CarriedIsNat, SizeAssumption
  <2>2. Dated(body, seen', ver')
    BY <1>1, <1>2, <2>1 DEF Dated
  <2>3. ASSUME body.kind = "key" PROVE zmk_ver[body.position] < body.ver
    <3>1. body.position \in Position /\ Says(body, body.position)
      BY <2>3 DEF Bodies, KeyEvents, Keepalives, Says
    <3>2. VerAt(body, body.position) = body.ver
      BY <2>3 DEF VerAt
    <3> QED
      BY <1>2, <2>1, <2>3, <3>1, <3>2
  <2> QED
    BY <1>1, <2>2, <2>3 DEF News
<1>7. \A i \in 1..Len(tx_fifo') : tx_fifo'[i] = tx_fifo[i] => (Repeat(i)' <=> Repeat(i))
  BY <1>1 DEF Repeat, Duplicate
<1>8. ContentInv'
  BY <1>1, <1>3, <1>5, <1>6, QueuedBodies DEF TravelInv, ContentInv
<1>9. NewsInv'
  BY <1>1, <1>3, <1>6, <1>7 DEF TravelInv, NewsInv
<1>10. OrderInv'
  <2>1. \A i, j \in 1..Len(tx_fifo') : i < j => Before(tx_fifo'[i].body, tx_fifo'[j].body)
    BY <1>3, <1>4, <1>5, QueuedBodies DEF TravelInv, ContentInv, OrderInv
  <2>2. \A i \in 1..Len(central_event_msgq), j \in 1..Len(tx_fifo') :
           /\ NotAfter(central_event_msgq[i], tx_fifo'[j].body)
           /\ Repeat(j)' \/ Before(central_event_msgq[i], tx_fifo'[j].body)
    BY <1>3, <1>5, <1>7, QueuedBodies DEF TravelInv, ContentInv, OrderInv
  <2>3. \A i \in 1..Len(rx_spsc), j \in 1..Len(tx_fifo') :
           /\ NotAfter(rx_spsc[i], tx_fifo'[j].body)
           /\ Repeat(j)' \/ Before(rx_spsc[i], tx_fifo'[j].body)
    BY <1>3, <1>5, <1>7, QueuedBodies DEF TravelInv, ContentInv, OrderInv
  <2> QED
    BY <1>1, <2>1, <2>2, <2>3 DEF TravelInv, OrderInv
<1> QED
  BY <1>8, <1>9, <1>10 DEF TravelInv

(* A packet is never older than itself. *)
LEMMA NotAfterItself ==
    ASSUME NEW body \in Bodies
    PROVE  NotAfter(body, body)
BY CarriedIsNat, SizeAssumption DEF NotAfter

(* A packet the central takes off the air leaves the FIFO, is flushed from   *)
(* it, or stays as a repeat the driver will recognise.                       *)
LEMMA ArrivalTravels ==
    ASSUME TypeOK, TravelInv,
           tx_fifo # <<>>, on_esb_rx(Head(tx_fifo)),
           tx_fifo' \in {Tail(tx_fifo), tx_fifo, <<>>},
           UNCHANGED <<ver, thread_vars, central_vars>>
    PROVE  TravelInv'
<1> DEFINE head == tx_fifo[1]
<1>1. /\ central_event_msgq' = central_event_msgq
      /\ ver' = ver /\ seen' = seen /\ zmk_ver' = zmk_ver
  BY DEF thread_vars, central_vars
<1>2. /\ Len(tx_fifo) \in Nat \ {0} /\ Head(tx_fifo) = head /\ 1 \in 1..Len(tx_fifo)
      /\ head.body \in Bodies
  BY Removed, QueuedBodies DEF TypeOK
<1>3. \/ tx_fifo' = tx_fifo
      \/ /\ Len(tx_fifo') \in Nat
         /\ \A i \in 1..Len(tx_fifo') : i + 1 \in 1..Len(tx_fifo) /\ tx_fifo'[i] = tx_fifo[i + 1]
  <2>1. tx_fifo \in Seq(Packets)
    BY DEF TypeOK
  <2>2. CASE tx_fifo' = Tail(tx_fifo)
    BY <2>1, <2>2, Removed
  <2>3. CASE tx_fifo' = <<>>
    BY <2>3
  <2> QED BY <2>2, <2>3
<1>4. \/ Duplicate(head) /\ last_rx' = last_rx /\ rx_spsc' = rx_spsc
      \/ ~Duplicate(head) /\ last_rx' = Accepted(head) /\ rx_spsc' = rx_spsc
      \/ /\ ~Duplicate(head) /\ last_rx' = Accepted(head)
         /\ Len(rx_spsc') = Len(rx_spsc) + 1
         /\ \A i \in 1..Len(rx_spsc) : rx_spsc'[i] = rx_spsc[i]
         /\ rx_spsc'[Len(rx_spsc) + 1] = head.body
  BY <1>2, Appended DEF on_esb_rx, isr_vars, TypeOK
<1>5. \A j \in 1..Len(tx_fifo) : j > 1 \/ ~Duplicate(head) => ~Repeat(j)
  BY <1>2 DEF Repeat
<1>6. tx_fifo' = tx_fifo => \A j \in 1..Len(tx_fifo) : Repeat(j)' <=> j = 1
  <2> SUFFICES ASSUME tx_fifo' = tx_fifo, NEW j \in 1..Len(tx_fifo)
               PROVE  Repeat(j)' <=> j = 1
    OBVIOUS
  <2>1. last_rx' = Accepted(head)
    BY <1>4 DEF Duplicate
  <2> QED
    BY <2>1 DEF Repeat, Duplicate
<1>7. Len(rx_spsc) \in Nat /\ Len(central_event_msgq) \in Nat
  BY QueuedBodies
<1> HIDE DEF head
<1>8. \A i \in 1..Len(rx_spsc') : \/ i \in 1..Len(rx_spsc) /\ rx_spsc'[i] = rx_spsc[i]
                                  \/ ~Duplicate(head) /\ i = Len(rx_spsc) + 1 /\ rx_spsc'[i] = head.body
  BY <1>4, <1>7
<1>9. \A j \in 1..Len(tx_fifo') :
          \/ j \in 1..Len(tx_fifo) /\ tx_fifo'[j] = tx_fifo[j] /\ tx_fifo' = tx_fifo
          \/ j + 1 \in 1..Len(tx_fifo) /\ tx_fifo'[j] = tx_fifo[j + 1] /\ j + 1 > 1
  BY <1>2, <1>3
<1>10. \A j \in 1..Len(tx_fifo') : \E k \in 1..Len(tx_fifo) :
            tx_fifo'[j] = tx_fifo[k] /\ (Repeat(j)' \/ ~Repeat(k))
  BY <1>2, <1>5, <1>6, <1>9
<1>11. ContentInv'
  <2>1. \A j \in 1..Len(tx_fifo') : Honest(tx_fifo'[j].body) /\ Dated(tx_fifo'[j].body, seen', ver')
    BY <1>1, <1>9 DEF TravelInv, ContentInv
  <2>2. \A i \in 1..Len(rx_spsc') : Honest(rx_spsc'[i]) /\ Dated(rx_spsc'[i], seen', ver')
    BY <1>1, <1>2, <1>8 DEF TravelInv, ContentInv, head
  <2> QED
    BY <1>1, <2>1, <2>2 DEF TravelInv, ContentInv
<1>12. NewsInv'
  <2>1. \A j \in 1..Len(tx_fifo') : Repeat(j)' \/ News(tx_fifo'[j].body, zmk_ver')
    BY <1>1, <1>2, <1>5, <1>6, <1>9 DEF TravelInv, NewsInv
  <2>2. \A i \in 1..Len(rx_spsc') : News(rx_spsc'[i], zmk_ver')
    BY <1>1, <1>2, <1>5, <1>8 DEF TravelInv, NewsInv, head
  <2> QED
    BY <1>1, <2>1, <2>2 DEF TravelInv, NewsInv
<1>13. OrderInv'
  <2>1. \A i, j \in 1..Len(rx_spsc') : i < j => Before(rx_spsc'[i], rx_spsc'[j])
    BY <1>2, <1>5, <1>7, <1>8 DEF TravelInv, OrderInv, head
  <2>2. \A i \in 1..Len(central_event_msgq), j \in 1..Len(rx_spsc') :
            Before(central_event_msgq[i], rx_spsc'[j])
    BY <1>2, <1>5, <1>8 DEF TravelInv, OrderInv, head
  <2>3. \A i, j \in 1..Len(tx_fifo') : i < j => Before(tx_fifo'[i].body, tx_fifo'[j].body)
    <3>1. \A i, j \in 1..Len(tx_fifo) : i < j => Before(tx_fifo[i].body, tx_fifo[j].body)
      BY DEF TravelInv, OrderInv
    <3>2. CASE tx_fifo' = tx_fifo
      BY <3>1, <3>2
    <3>3. CASE tx_fifo' # tx_fifo
      <4> SUFFICES ASSUME NEW i \in 1..Len(tx_fifo'), NEW j \in 1..Len(tx_fifo'), i < j
                   PROVE  Before(tx_fifo'[i].body, tx_fifo'[j].body)
        OBVIOUS
      <4>1. i + 1 < j + 1 /\ i + 1 \in 1..Len(tx_fifo) /\ j + 1 \in 1..Len(tx_fifo)
        BY <1>3, <3>3
      <4>2. Before(tx_fifo[i + 1].body, tx_fifo[j + 1].body)
        BY <3>1, <4>1
      <4> QED BY <1>3, <3>3, <4>2
    <3> QED BY <3>2, <3>3
  <2>4. \A i \in 1..Len(central_event_msgq), j \in 1..Len(tx_fifo') :
           /\ NotAfter(central_event_msgq[i], tx_fifo'[j].body)
           /\ Repeat(j)' \/ Before(central_event_msgq[i], tx_fifo'[j].body)
    BY <1>10 DEF TravelInv, OrderInv
  <2>5. \A b, c \in Bodies : Before(b, c) => NotAfter(b, c)
    BY DEF Before, NotAfter
  <2>6. \A i \in 1..Len(rx_spsc'), j \in 1..Len(tx_fifo') :
           /\ NotAfter(rx_spsc'[i], tx_fifo'[j].body)
           /\ Repeat(j)' \/ Before(rx_spsc'[i], tx_fifo'[j].body)
    <3> TAKE i \in 1..Len(rx_spsc'), j \in 1..Len(tx_fifo')
    <3>1. CASE i \in 1..Len(rx_spsc) /\ rx_spsc'[i] = rx_spsc[i]
      BY <1>10, <3>1 DEF TravelInv, OrderInv
    <3>2. CASE rx_spsc'[i] = head.body
      <4>1. CASE tx_fifo' = tx_fifo /\ j = 1
        BY <1>2, <1>6, <3>2, <4>1, NotAfterItself DEF head
      <4>2. CASE tx_fifo' = tx_fifo /\ j # 1
        <5>1. Before(head.body, tx_fifo[j].body)
          BY <1>2, <4>2 DEF TravelInv, OrderInv, head
        <5> QED
          BY <1>2, <2>5, <3>2, <4>2, <5>1, QueuedBodies
      <4>3. CASE tx_fifo' # tx_fifo
        <5>1. j + 1 \in 1..Len(tx_fifo) /\ tx_fifo'[j] = tx_fifo[j + 1] /\ 1 < j + 1
          BY <1>9, <4>3
        <5>2. Before(head.body, tx_fifo[j + 1].body)
          BY <1>2, <5>1 DEF TravelInv, OrderInv, head
        <5> QED
          BY <1>2, <2>5, <3>2, <5>1, <5>2, QueuedBodies
      <4> QED BY <4>1, <4>2, <4>3
    <3> QED BY <1>8, <3>1, <3>2
  <2> QED
    BY <1>1, <2>1, <2>2, <2>3, <2>4, <2>6 DEF TravelInv, OrderInv
<1> QED
  BY <1>11, <1>12, <1>13 DEF TravelInv

(* rx_thread moves a packet from the ring to the event queue or drops it. *)
LEMMA IngestTravels ==
    ASSUME TypeOK, TravelInv, central_ingest_packet
    PROVE  TravelInv'
<1>1. /\ tx_fifo' = tx_fifo /\ last_rx' = last_rx
      /\ ver' = ver /\ seen' = seen /\ zmk_ver' = zmk_ver
  BY DEF central_ingest_packet, peripheral_vars, central_vars
<1>2. rx_spsc \in Seq(Bodies) /\ rx_spsc # <<>> /\ rx_spsc' = Tail(rx_spsc)
      /\ central_event_msgq \in Seq(Bodies)
  BY DEF central_ingest_packet, TypeOK
<1>3. /\ Len(rx_spsc) \in Nat \ {0} /\ Head(rx_spsc) = rx_spsc[1] /\ 1 \in 1..Len(rx_spsc)
      /\ \A i \in 1..Len(rx_spsc') : i + 1 \in 1..Len(rx_spsc) /\ rx_spsc'[i] = rx_spsc[i + 1]
      /\ rx_spsc[1] \in Bodies /\ Len(rx_spsc') \in Nat /\ Len(central_event_msgq) \in Nat
  BY <1>2, Removed
<1>4. \A i \in 1..Len(central_event_msgq') :
          \/ i \in 1..Len(central_event_msgq) /\ central_event_msgq'[i] = central_event_msgq[i]
          \/ i = Len(central_event_msgq) + 1 /\ central_event_msgq'[i] = rx_spsc[1]
  <2>1. CASE central_event_msgq' = central_event_msgq
    BY <2>1
  <2>2. CASE central_event_msgq' = Append(central_event_msgq, rx_spsc[1])
    BY <1>2, <1>3, <2>2, Appended
  <2> QED
    BY <1>3, <2>1, <2>2 DEF central_ingest_packet
<1>5. \A j : Repeat(j)' <=> Repeat(j)
  BY <1>1 DEF Repeat, Duplicate
<1>6. ContentInv'
  BY <1>1, <1>3, <1>4 DEF TravelInv, ContentInv
<1>7. NewsInv'
  BY <1>1, <1>3, <1>4, <1>5 DEF TravelInv, NewsInv
<1>8. OrderInv'
  <2>1. \A i, j \in 1..Len(central_event_msgq') :
            i < j => Before(central_event_msgq'[i], central_event_msgq'[j])
    BY <1>3, <1>4, SMTT(20) DEF TravelInv, OrderInv
  <2>2. \A i \in 1..Len(central_event_msgq'), j \in 1..Len(rx_spsc') :
            Before(central_event_msgq'[i], rx_spsc'[j])
    BY <1>3, <1>4 DEF TravelInv, OrderInv
  <2>3. ASSUME NEW i \in 1..Len(rx_spsc'), NEW j \in 1..Len(rx_spsc'), i < j
        PROVE  Before(rx_spsc'[i], rx_spsc'[j])
    <3>1. i + 1 < j + 1
      BY <1>3, <2>3
    <3> QED
      BY <1>3, <3>1 DEF TravelInv, OrderInv
  <2>4. \A i \in 1..Len(central_event_msgq'), j \in 1..Len(tx_fifo) :
           /\ NotAfter(central_event_msgq'[i], tx_fifo[j].body)
           /\ Repeat(j) \/ Before(central_event_msgq'[i], tx_fifo[j].body)
    BY <1>3, <1>4 DEF TravelInv, OrderInv
  <2>5. \A i \in 1..Len(rx_spsc'), j \in 1..Len(tx_fifo) :
           /\ NotAfter(rx_spsc'[i], tx_fifo[j].body)
           /\ Repeat(j) \/ Before(rx_spsc'[i], tx_fifo[j].body)
    BY <1>3 DEF TravelInv, OrderInv
  <2> QED
    BY <1>1, <1>5, <2>1, <2>2, <2>3, <2>4, <2>5 DEF TravelInv, OrderInv
<1> QED
  BY <1>6, <1>7, <1>8 DEF TravelInv

(* What ZMK knows of a position after a packet about it was handled: the     *)
(* packet's version and the state it tells, whether or not that took a       *)
(* press or a release.                                                       *)
Learns(body) ==
    \A p \in Position :
        /\ seen'[p] = IF Says(body, p) THEN VerAt(body, p) ELSE seen[p]
        /\ p \in zmk_held' <=> IF Says(body, p) THEN VerAt(body, p) % 2 = 1 ELSE p \in zmk_held
        /\ \/ zmk_ver'[p] = zmk_ver[p] /\ (p \in zmk_held' <=> p \in zmk_held)
           \/ Says(body, p) /\ zmk_ver'[p] = VerAt(body, p)

(* A hand-over faults a position only when it presses it at a version that   *)
(* is not newer than the last one.                                           *)
LEMMA ForwardIsNew ==
    ASSUME PressIsNew, NEW out, NEW v, forward_to_zmk(out, v),
           \A p \in Position : Presses(out[p]) => ~(v[p] <= zmk_ver[p])
    PROVE  PressIsNew'
<1> SUFFICES ASSUME NEW p \in Position, <<"repeated", p>> \in zmk_faults' PROVE FALSE
  BY DEF PressIsNew
<1>1. <<"repeated", p>> \in
          {<<"repeated", q>> : q \in {r \in Position : Presses(out[r]) /\ v[r] <= zmk_ver[r]}}
  BY DEF PressIsNew, forward_to_zmk
<1>2. PICK q \in {r \in Position : Presses(out[r]) /\ v[r] <= zmk_ver[r]} :
          <<"repeated", p>> = <<"repeated", q>>
  BY <1>1
<1> QED
  BY <1>2

(* Neither silence nor a release is a press. *)
LEMMA PressesCases ==
    ~Presses(<<>>) /\ ~Presses(<<"release">>)
BY DEF Presses

(* A key event of an older version than the last press is never forwarded as *)
(* a press again.                                                            *)
LEMMA EventLearns ==
    ASSUME TypeOK, TrackedIsHeld, ViewInv, PressIsNew,
           NEW event \in KeyEvents, Honest(event), Dated(event, seen, ver), News(event, zmk_ver),
           deliver_key_event(event)
    PROVE  Learns(event) /\ PressIsNew'
<1> DEFINE p       == event.position
           verdict == esb_keepalive_key_verdict(p, event.pressed)
           one     == IF verdict = "drop_orphan_release" THEN <<>>
                      ELSE IF verdict = "heal_lost_release" THEN <<"release", "press">>
                      ELSE <<Transition(event.pressed)>>
           out     == [q \in Position |-> IF q = p THEN one ELSE <<>>]
           v       == [q \in Position |-> event.ver]
<1>1. /\ forward_to_zmk(out, v)
      /\ seen' = [seen EXCEPT ![p] = event.ver]
  BY DEF deliver_key_event
<1>2. /\ event.kind = "key" /\ p \in Position /\ event.pressed \in BOOLEAN
      /\ event.ver \in Nat /\ event.pressed = (event.ver % 2 = 1)
      /\ zmk_ver[p] < event.ver /\ zmk_ver[p] \in Nat
  BY SizeAssumption DEF KeyEvents, Honest, News, TypeOK, Versions
<1>3. \A q \in Position : Says(event, q) <=> q = p
  BY <1>2 DEF Says
<1>4. \A q \in Position : VerAt(event, q) = event.ver
  BY <1>2 DEF VerAt
<1>5. p \in Covered => (p \in zmk_held <=> p \in tracked_positions)
  BY DEF TrackedIsHeld
<1>6. \/ one = <<>> /\ ~event.pressed /\ p \notin zmk_held
      \/ one = <<"release", "press">> /\ event.pressed
      \/ one = <<"press">> /\ event.pressed
      \/ one = <<"release">> /\ ~event.pressed
  BY <1>2, <1>5 DEF esb_keepalive_key_verdict, Transition
<1>7. \A q \in Position : out[q] = IF q = p THEN one ELSE <<>>
  OBVIOUS
<1>8. \A q \in Position : v[q] = event.ver
  OBVIOUS
<1> HIDE DEF one, out, v
<1>9. \A q \in Position :
          /\ q \in zmk_held' <=> IF out[q] = <<>> THEN q \in zmk_held
                                 ELSE out[q][Len(out[q])] = "press"
          /\ zmk_ver'[q] = IF out[q] = <<>> THEN zmk_ver[q] ELSE event.ver
  BY <1>1, <1>8 DEF forward_to_zmk
<1>10. p \in zmk_held' <=> event.pressed
  <2>1. CASE one = <<>> /\ ~event.pressed /\ p \notin zmk_held
    BY <1>2, <1>7, <1>9, <2>1
  <2>2. CASE one = <<"release", "press">> /\ event.pressed
    <3>1. one # <<>> /\ one[Len(one)] = "press"
      BY <2>2
    <3> QED BY <1>2, <1>7, <1>9, <2>2, <3>1
  <2>3. CASE one = <<"press">> /\ event.pressed
    BY <1>2, <1>7, <1>9, <2>3, SMTT(20)
  <2>4. CASE one = <<"release">> /\ ~event.pressed
    BY <1>2, <1>7, <1>9, <2>4
  <2> QED BY <1>6, <2>1, <2>2, <2>3, <2>4
<1>11. Learns(event)
  <2> SUFFICES ASSUME NEW q \in Position
               PROVE  /\ seen'[q] = IF q = p THEN event.ver ELSE seen[q]
                      /\ q \in zmk_held' <=> IF q = p THEN event.ver % 2 = 1 ELSE q \in zmk_held
                      /\ \/ zmk_ver'[q] = zmk_ver[q] /\ (q \in zmk_held' <=> q \in zmk_held)
                         \/ q = p /\ zmk_ver'[q] = event.ver
    BY <1>3, <1>4 DEF Learns
  <2>1. seen'[q] = IF q = p THEN event.ver ELSE seen[q]
    BY <1>1 DEF TypeOK, Versions
  <2>2. CASE q = p
    <3>1. q \in zmk_held' <=> event.ver % 2 = 1
      BY <1>2, <1>10, <2>2
    <3>2. CASE one = <<>>
      <4>1. zmk_ver'[q] = zmk_ver[q] /\ (q \in zmk_held' <=> q \in zmk_held)
        BY <1>7, <1>9, <2>2, <3>2
      <4> QED BY <2>1, <2>2, <3>1, <4>1
    <3>3. CASE one # <<>>
      <4>1. zmk_ver'[q] = event.ver
        BY <1>7, <1>9, <2>2, <3>3
      <4> QED BY <2>1, <2>2, <3>1, <4>1
    <3> QED BY <3>2, <3>3
  <2>3. CASE q # p
    BY <1>7, <1>9, <2>1, <2>3
  <2> QED BY <2>2, <2>3
<1>12. PressIsNew'
  <2>1. \A q \in Position : Presses(out[q]) => ~(v[q] <= zmk_ver[q])
    BY <1>2, <1>7, <1>8, PressesCases
  <2> QED
    BY <1>1, <2>1, ForwardIsNew
<1> QED BY <1>11, <1>12

(* A keepalive presses a position only at a version ZMK did not press it at: *)
(* at that version ZMK would still hold it.                                  *)
LEMMA SnapshotLearns ==
    ASSUME TypeOK, TrackedIsHeld, ViewInv, PressIsNew,
           NEW body \in Keepalives, Honest(body), Dated(body, seen, ver),
           replay_position_diff(body.bitmap, body.ver),
           seen' = [p \in Position |-> IF p \in Covered THEN body.ver[p] ELSE seen[p]]
    PROVE  Learns(body) /\ PressIsNew'
<1> DEFINE out == [p \in Position |->
                      IF p \in Covered /\ (p \in body.bitmap) # (p \in tracked_positions)
                      THEN <<Transition(p \in body.bitmap)>> ELSE <<>>]
<1>1. forward_to_zmk(out, body.ver)
  BY DEF replay_position_diff
<1>2. body.kind = "keepalive" /\ body.ver \in Versions /\ body.bitmap = Held(body.ver)
  BY DEF Keepalives, Honest
<1>3. \A p \in Position : (Says(body, p) <=> p \in Covered) /\ VerAt(body, p) = body.ver[p]
  BY <1>2 DEF Says, VerAt
<1>4. ASSUME NEW p \in Covered
      PROVE  /\ p \in Position /\ (p \in zmk_held <=> p \in tracked_positions)
             /\ p \in body.bitmap <=> body.ver[p] % 2 = 1
             /\ body.ver[p] \in Nat /\ zmk_ver[p] \in Nat /\ zmk_ver[p] <= body.ver[p]
             /\ zmk_ver[p] % 2 = 1 => p \in zmk_held
  <2>1. p \in Position /\ (p \in zmk_held <=> p \in tracked_positions)
    BY PositionAssumption DEF TrackedIsHeld
  <2>2. p \in body.bitmap <=> body.ver[p] % 2 = 1
    BY <1>2 DEF Held
  <2>3. body.ver[p] \in Nat /\ zmk_ver[p] \in Nat /\ seen[p] \in Nat
    BY <1>2, <2>1, SizeAssumption DEF TypeOK, Versions
  <2>4. zmk_ver[p] <= seen[p] /\ seen[p] <= body.ver[p]
    BY <1>3, <2>1 DEF ViewInv, Dated
  <2> QED
    BY <2>1, <2>2, <2>3, <2>4 DEF ViewInv
<1>5. \A p \in Position \ Covered : out[p] = <<>>
  OBVIOUS
<1>6. \A p \in Covered : \/ out[p] = <<>> /\ (p \in body.bitmap <=> p \in zmk_held)
                         \/ out[p] = <<"press">> /\ p \in body.bitmap /\ p \notin zmk_held
                         \/ out[p] = <<"release">> /\ p \notin body.bitmap /\ p \in zmk_held
  BY <1>4 DEF Transition
<1> HIDE DEF out
<1>7. \A p \in Position :
          /\ p \in zmk_held' <=> IF out[p] = <<>> THEN p \in zmk_held
                                 ELSE out[p][Len(out[p])] = "press"
          /\ zmk_ver'[p] = IF out[p] = <<>> THEN zmk_ver[p] ELSE body.ver[p]
  BY <1>1 DEF forward_to_zmk
<1>8. Learns(body)
  <2> SUFFICES ASSUME NEW p \in Position
               PROVE  /\ seen'[p] = IF p \in Covered THEN body.ver[p] ELSE seen[p]
                      /\ p \in zmk_held' <=> IF p \in Covered THEN body.ver[p] % 2 = 1
                                             ELSE p \in zmk_held
                      /\ \/ zmk_ver'[p] = zmk_ver[p] /\ (p \in zmk_held' <=> p \in zmk_held)
                         \/ p \in Covered /\ zmk_ver'[p] = body.ver[p]
    BY <1>3 DEF Learns
  <2>1. CASE p \notin Covered
    BY <1>5, <1>7, <2>1
  <2>2. CASE p \in Covered
    <3>1. p \in zmk_held' <=> p \in body.bitmap
      BY <1>6, <1>7, <2>2
    <3>2. \/ zmk_ver'[p] = zmk_ver[p] /\ (p \in zmk_held' <=> p \in zmk_held)
          \/ zmk_ver'[p] = body.ver[p]
      BY <1>7
    <3> QED
      BY <1>4, <2>2, <3>1, <3>2
  <2> QED BY <2>1, <2>2
<1>9. PressIsNew'
  <2>1. ASSUME NEW p \in Position, Presses(out[p]) PROVE ~(body.ver[p] <= zmk_ver[p])
    <3>1. p \in Covered /\ p \in body.bitmap /\ p \notin zmk_held
      BY <1>5, <1>6, <2>1, PressesCases
    <3> QED
      BY <1>4, <3>1
  <2> QED
    BY <1>1, <2>1, ForwardIsNew
<1> QED BY <1>8, <1>9

(* A handled packet leaves the queue; what is behind it is not older. *)
LEMMA DeliveryTravels ==
    ASSUME TypeOK, TypeOK', TravelInv, ViewInv, central_event_msgq # <<>>,
           Learns(Head(central_event_msgq)),
           central_event_msgq' = Tail(central_event_msgq),
           UNCHANGED <<peripheral_vars, isr_vars>>
    PROVE  TravelInv' /\ ViewInv'
<1> DEFINE head == central_event_msgq[1]
<1>1. /\ rx_spsc' = rx_spsc /\ tx_fifo' = tx_fifo /\ last_rx' = last_rx
      /\ ver' = ver /\ pressed_positions' = pressed_positions
  BY DEF isr_vars, peripheral_vars
<1>2. /\ Len(central_event_msgq) \in Nat \ {0} /\ Head(central_event_msgq) = head
      /\ 1 \in 1..Len(central_event_msgq) /\ head \in Bodies
      /\ Len(central_event_msgq') \in Nat
      /\ \A i \in 1..Len(central_event_msgq') :
             /\ i + 1 \in 1..Len(central_event_msgq) /\ 1 < i + 1
             /\ central_event_msgq'[i] = central_event_msgq[i + 1]
  BY Removed, QueuedBodies, SMTT(20) DEF TypeOK
<1>3. \A j : Repeat(j)' <=> Repeat(j)
  BY <1>1 DEF Repeat, Duplicate
<1>4. \A p \in Position :
          /\ ver[p] \in Nat /\ seen[p] \in Nat /\ seen'[p] \in Nat
          /\ zmk_ver[p] \in Nat /\ zmk_ver'[p] \in Nat
          /\ zmk_ver[p] <= seen[p] /\ seen[p] <= ver[p]
          /\ Says(head, p) => /\ VerAt(head, p) \in Nat
                              /\ seen[p] <= VerAt(head, p) /\ VerAt(head, p) <= ver[p]
  <2>1. \A p \in Position : Says(head, p) => VerAt(head, p) \in Nat
    BY <1>2, CarriedIsNat, SizeAssumption
  <2>2. Dated(head, seen, ver)
    BY <1>2 DEF TravelInv, ContentInv
  <2>3. \A p \in Position : /\ ver[p] \in Nat /\ seen[p] \in Nat /\ seen'[p] \in Nat
                            /\ zmk_ver[p] \in Nat /\ zmk_ver'[p] \in Nat
    BY SizeAssumption DEF TypeOK, Versions
  <2> QED
    BY <2>1, <2>2, <2>3 DEF Dated, ViewInv
<1>5. Learns(head)
  BY <1>2
<1> HIDE DEF head
<1>6. ASSUME NEW c \in Bodies, Dated(c, seen, ver), NotAfter(head, c)
      PROVE  Dated(c, seen', ver')
  BY <1>1, <1>5, <1>6 DEF Dated, NotAfter, Learns
<1>7. ASSUME NEW c \in Bodies, News(c, zmk_ver), Before(head, c)
      PROVE  News(c, zmk_ver')
  <2> SUFFICES ASSUME c.kind = "key" PROVE zmk_ver'[c.position] < c.ver
    BY DEF News
  <2>1. c.position \in Position /\ Says(c, c.position) /\ VerAt(c, c.position) = c.ver
    BY DEF Bodies, KeyEvents, Keepalives, Says, VerAt
  <2>2. zmk_ver[c.position] < c.ver
    BY <1>7 DEF News
  <2> QED
    BY <1>5, <1>7, <2>1, <2>2 DEF Before, Learns
<1>8. \A b, c \in Bodies : Before(b, c) => NotAfter(b, c)
  BY DEF Before, NotAfter
<1>9. ContentInv'
  <2>1. \A j \in 1..Len(tx_fifo) : NotAfter(head, tx_fifo[j].body)
    BY <1>2 DEF TravelInv, OrderInv, head
  <2>2. \A j \in 1..Len(rx_spsc) : NotAfter(head, rx_spsc[j])
    BY <1>2, <1>8, QueuedBodies DEF TravelInv, OrderInv, head
  <2>3. \A j \in 1..Len(central_event_msgq') : NotAfter(head, central_event_msgq'[j])
    BY <1>2, <1>8, QueuedBodies DEF TravelInv, OrderInv, head
  <2>4. \A j \in 1..Len(tx_fifo) : Dated(tx_fifo[j].body, seen', ver')
    BY <1>6, <2>1, QueuedBodies DEF TravelInv, ContentInv
  <2>5. \A j \in 1..Len(rx_spsc) : Dated(rx_spsc[j], seen', ver')
    BY <1>6, <2>2, QueuedBodies DEF TravelInv, ContentInv
  <2>6. \A j \in 1..Len(central_event_msgq') : Dated(central_event_msgq'[j], seen', ver')
    BY <1>2, <1>6, <2>3, QueuedBodies DEF TravelInv, ContentInv
  <2> QED
    BY <1>1, <1>2, <2>4, <2>5, <2>6 DEF TravelInv, ContentInv
<1>10. NewsInv'
  <2>1. \A j \in 1..Len(tx_fifo) : Repeat(j) \/ News(tx_fifo[j].body, zmk_ver')
    BY <1>2, <1>7, QueuedBodies DEF TravelInv, OrderInv, NewsInv, head
  <2>2. \A j \in 1..Len(rx_spsc) : News(rx_spsc[j], zmk_ver')
    BY <1>2, <1>7, QueuedBodies DEF TravelInv, OrderInv, NewsInv, head
  <2>3. \A j \in 1..Len(central_event_msgq') : News(central_event_msgq'[j], zmk_ver')
    BY <1>2, <1>7, QueuedBodies DEF TravelInv, OrderInv, NewsInv, head
  <2> QED
    BY <1>1, <1>3, <2>1, <2>2, <2>3 DEF NewsInv
<1>11. OrderInv'
  <2>1. ASSUME NEW i \in 1..Len(central_event_msgq'), NEW j \in 1..Len(central_event_msgq'), i < j
        PROVE  Before(central_event_msgq'[i], central_event_msgq'[j])
    <3>1. i + 1 < j + 1
      BY <1>2, <2>1
    <3> QED
      BY <1>2, <3>1 DEF TravelInv, OrderInv
  <2>2. \A i \in 1..Len(central_event_msgq'), j \in 1..Len(rx_spsc) :
            Before(central_event_msgq'[i], rx_spsc[j])
    BY <1>2 DEF TravelInv, OrderInv
  <2>3. \A i \in 1..Len(central_event_msgq'), j \in 1..Len(tx_fifo) :
           /\ NotAfter(central_event_msgq'[i], tx_fifo[j].body)
           /\ Repeat(j) \/ Before(central_event_msgq'[i], tx_fifo[j].body)
    BY <1>2 DEF TravelInv, OrderInv
  <2> QED
    BY <1>1, <1>3, <2>1, <2>2, <2>3 DEF TravelInv, OrderInv
<1>12. ViewInv'
  <2>1. \A p \in Position : zmk_ver'[p] <= seen'[p] /\ seen'[p] <= ver'[p]
    BY <1>1, <1>4, <1>5 DEF Learns
  <2>2. \A p \in Position : zmk_ver'[p] % 2 = 1 => p \in zmk_held'
    BY <1>5 DEF Learns, ViewInv
  <2> QED
    BY <1>1, <2>1, <2>2 DEF ViewInv
<1> QED
  BY <1>9, <1>10, <1>11, <1>12 DEF TravelInv

(* Whatever packet the event work item takes, ZMK learns what it says. *)
LEMMA HandledPacketLearns ==
    ASSUME TypeOK, TrackedIsHeld, TravelInv, ViewInv, PressIsNew, central_event_work_fn
    PROVE  Learns(Head(central_event_msgq)) /\ PressIsNew'
<1> DEFINE inbound == Head(central_event_msgq)
<1>1. /\ inbound \in Bodies /\ Honest(inbound) /\ Dated(inbound, seen, ver)
      /\ News(inbound, zmk_ver)
  <2>1. central_event_msgq # <<>> /\ central_event_msgq \in Seq(Bodies)
    BY DEF central_event_work_fn, TypeOK
  <2>2. inbound = central_event_msgq[1] /\ 1 \in 1..Len(central_event_msgq) /\ inbound \in Bodies
    BY <2>1, Removed
  <2> QED
    BY <2>2 DEF TravelInv, ContentInv, NewsInv
<1>2. /\ inbound.kind = "key" => deliver_key_event(inbound)
      /\ inbound.kind # "key" =>
             /\ replay_position_diff(inbound.bitmap, inbound.ver)
             /\ seen' = [p \in Position |-> IF p \in Covered THEN inbound.ver[p] ELSE seen[p]]
  BY DEF central_event_work_fn
<1> HIDE DEF inbound
<1>3. CASE inbound.kind = "key"
  <2>1. inbound \in KeyEvents
    BY <1>1, <1>3 DEF Bodies, Keepalives
  <2> QED
    BY <1>1, <1>2, <1>3, <2>1, EventLearns DEF inbound
<1>4. CASE inbound.kind # "key"
  <2>1. inbound \in Keepalives
    BY <1>1, <1>4 DEF Bodies, KeyEvents
  <2> QED
    BY <1>1, <1>2, <1>4, <2>1, SnapshotLearns DEF inbound
<1> QED BY <1>3, <1>4

(* A stale release presses nothing: it releases every covered position ZMK   *)
(* holds, and forgets at which version it was pressed.                       *)
LEMMA ReleaseForgets ==
    ASSUME TypeOK, TrackedIsHeld, PressIsNew, release_stale_pipe
    PROVE  /\ \A p \in Position :
                  \/ zmk_ver'[p] = zmk_ver[p] /\ (p \in zmk_held' <=> p \in zmk_held)
                  \/ zmk_ver'[p] = 0
           /\ zmk_held' = zmk_held \ Covered
           /\ PressIsNew'
<1> DEFINE out == [p \in Position |->
                      IF p \in Covered /\ (p \in {}) # (p \in tracked_positions)
                      THEN <<Transition(p \in {})>> ELSE <<>>]
           zero == [p \in Position |-> 0]
<1>1. forward_to_zmk(out, zero)
  BY DEF release_stale_pipe, replay_position_diff
<1>2. \A p \in Position : out[p] = IF p \in zmk_held \intersect Covered THEN <<"release">> ELSE <<>>
  BY DEF Transition, TrackedIsHeld
<1>3. \A p \in Position : zero[p] = 0
  OBVIOUS
<1> HIDE DEF out, zero
<1>4. \A p \in Position :
          /\ p \in zmk_held' <=> IF out[p] = <<>> THEN p \in zmk_held
                                 ELSE out[p][Len(out[p])] = "press"
          /\ zmk_ver'[p] = IF out[p] = <<>> THEN zmk_ver[p] ELSE 0
  BY <1>1, <1>3 DEF forward_to_zmk
<1>5. zmk_held' \subseteq Position /\ zmk_held \subseteq Position
  BY <1>1 DEF forward_to_zmk, TypeOK
<1>6. ASSUME NEW p \in Position PROVE p \in zmk_held' <=> p \in zmk_held \ Covered
  BY <1>2, <1>4
<1>7. PressIsNew'
  BY <1>1, <1>2, PressesCases, ForwardIsNew
<1> QED
  BY <1>4, <1>5, <1>6, <1>7

(* Forgetting a press leaves every key event on its way news. *)
LEMMA ForgettingTravels ==
    ASSUME TypeOK, TravelInv, UNCHANGED <<peripheral_vars, isr_vars, thread_vars, seen>>,
           \A p \in Position : zmk_ver[p] \in Nat /\ zmk_ver'[p] \in Nat /\ zmk_ver'[p] <= zmk_ver[p]
    PROVE  TravelInv'
<1>1. /\ tx_fifo' = tx_fifo /\ rx_spsc' = rx_spsc /\ central_event_msgq' = central_event_msgq
      /\ ver' = ver /\ seen' = seen /\ last_rx' = last_rx
  BY DEF peripheral_vars, isr_vars, thread_vars
<1>2. \A c \in Bodies : News(c, zmk_ver) => News(c, zmk_ver')
  <2> SUFFICES ASSUME NEW c \in Bodies, c.kind = "key", zmk_ver[c.position] < c.ver
               PROVE  zmk_ver'[c.position] < c.ver
    BY DEF News
  <2>1. c.position \in Position /\ c.ver \in Nat
    BY SizeAssumption DEF Bodies, KeyEvents, Keepalives
  <2> QED BY <2>1
<1>3. \A j : Repeat(j)' <=> Repeat(j)
  BY <1>1 DEF Repeat, Duplicate
<1>4. NewsInv'
  BY <1>1, <1>2, <1>3, QueuedBodies DEF TravelInv, NewsInv
<1>5. ContentInv' /\ OrderInv'
  BY <1>1, <1>3 DEF TravelInv, ContentInv, OrderInv
<1> QED
  BY <1>4, <1>5 DEF TravelInv

-----------------------------------------------------------------------------
(* Nothing is on its way and ZMK holds nothing. *)
LEMMA SyncInit == Init => SyncInv /\ PressIsNew
<1> SUFFICES ASSUME Init PROVE SyncInv /\ PressIsNew
  OBVIOUS
<1>1. StreamInv
  BY TypeInit DEF Init, StreamInv, TrackedIsHeld, StreamAlternates
<1>2. Len(tx_fifo) = 0 /\ Len(rx_spsc) = 0 /\ Len(central_event_msgq) = 0
  BY DEF Init
<1>3. TravelInv
  BY <1>2 DEF TravelInv, ContentInv, OrderInv, NewsInv
<1>4. ViewInv
  BY PositionAssumption DEF Init, ViewInv, Held
<1>5. PressIsNew
  BY DEF Init, PressIsNew
<1> QED
  BY <1>1, <1>3, <1>4, <1>5 DEF SyncInv

(* One case per action: what it puts on its way, moves on, hands to ZMK or   *)
(* forgets.                                                                  *)
LEMMA SyncStep == SyncInv /\ PressIsNew /\ [Next]_vars => SyncInv' /\ PressIsNew'
<1> SUFFICES ASSUME SyncInv, PressIsNew, [Next]_vars
             PROVE  TravelInv' /\ ViewInv' /\ PressIsNew'
  BY StreamStep DEF SyncInv
<1> USE DEF SyncInv
<1>0. TypeOK /\ TypeOK' /\ TrackedIsHeld
  BY TypeStep DEF StreamInv
<1>1. ASSUME NEW p \in Position, esb_peripheral_report_event(p)
      PROVE  TravelInv' /\ ViewInv' /\ PressIsNew'
  <2> DEFINE body == [kind |-> "key", position |-> p, pressed |-> ver[p] % 2 = 0,
                      ver |-> ver[p] + 1]
  <2>1. ver[p] \in 0..MaxTransitions /\ ver[p] < MaxTransitions
    BY <1>0, <1>1 DEF esb_peripheral_report_event, TypeOK, Versions
  <2>2. body \in Bodies /\ Honest(body)
    BY <2>1, SizeAssumption DEF Bodies, KeyEvents, Honest
  <2>3. /\ Submit(body) /\ ver' = [ver EXCEPT ![p] = @ + 1]
        /\ peripheral_note_key_event(p, ver[p] % 2 = 0)
        /\ UNCHANGED <<isr_vars, thread_vars, central_vars>>
    BY <1>1 DEF esb_peripheral_report_event
  <2>4. \A q \in Position : ver[q] \in Nat /\ ver'[q] = IF q = p THEN ver[q] + 1 ELSE ver[q]
    BY <1>0, <2>3, SizeAssumption DEF TypeOK, Versions
  <2>5. \A q \in Position : (Says(body, q) <=> q = p) /\ VerAt(body, q) = ver[p] + 1
    BY DEF Says, VerAt
  <2> HIDE DEF body
  <2>6. TravelInv'
    BY <1>0, <2>2, <2>3, <2>4, <2>5, SubmitTravels
  <2>7. pressed_positions' = Held(ver')
    <3>1. \A q \in Covered : q \in Position
      BY PositionAssumption
    <3>2. ASSUME NEW q \in Covered PROVE q \in pressed_positions' <=> ver'[q] % 2 = 1
      BY <2>3, <2>4, <3>1 DEF peripheral_note_key_event, ViewInv, Held
    <3> QED
      BY <1>0, <3>2 DEF TypeOK, Held
  <2>8. ViewInv' /\ PressIsNew'
    <3>1. \A q \in Position : zmk_ver[q] \in Nat /\ seen[q] \in Nat
      BY <1>0, SizeAssumption DEF TypeOK, Versions
    <3> QED
      BY <2>3, <2>4, <2>7, <3>1 DEF ViewInv, PressIsNew, central_vars
  <2> QED BY <2>6, <2>8
<1>2. CASE keepalive_work_fn
  <2> DEFINE body == [kind |-> "keepalive", bitmap |-> pressed_positions,
                      ver |-> [p \in Position |-> IF p \in Covered THEN ver[p] ELSE 0]]
  <2>1. body \in Bodies
    BY <1>0, SizeAssumption, SMTT(20) DEF Bodies, Keepalives, TypeOK, Versions
  <2>2. Honest(body)
    BY PositionAssumption DEF Honest, ViewInv, Held
  <2>3. /\ Submit(body) /\ ver' = ver /\ pressed_positions' = pressed_positions
        /\ UNCHANGED <<isr_vars, thread_vars, central_vars>>
    BY <1>2 DEF keepalive_work_fn
  <2>4. \A q \in Position : Says(body, q) => VerAt(body, q) = ver[q] /\ body.kind # "key"
    BY DEF Says, VerAt
  <2> HIDE DEF body
  <2>5. \A q \in Position : ver[q] \in Nat
    BY <1>0, SizeAssumption DEF TypeOK, Versions
  <2>6. TravelInv'
    BY <1>0, <2>1, <2>2, <2>3, <2>4, <2>5, SubmitTravels
  <2>7. ViewInv' /\ PressIsNew'
    BY <2>3 DEF ViewInv, PressIsNew, central_vars
  <2> QED BY <2>6, <2>7
<1>3. CASE TxSuccess
  <2>1. TravelInv'
    BY <1>0, <1>3, ArrivalTravels DEF TxSuccess
  <2>2. ViewInv' /\ PressIsNew'
    BY <1>3 DEF TxSuccess, ViewInv, PressIsNew, central_vars
  <2> QED BY <2>1, <2>2
<1>4. ASSUME NEW arrived \in BOOLEAN, TxFailed(arrived)
      PROVE  TravelInv' /\ ViewInv' /\ PressIsNew'
  <2>1. tx_fifo' \in {tx_fifo, <<>>} /\ UNCHANGED <<ver, pressed_positions, thread_vars,
                                 central_vars>>
    BY <1>4 DEF TxFailed, esb_link_role_retry_failed_tx
  <2>2. ASSUME arrived PROVE TravelInv'
    BY <1>0, <1>4, <2>1, <2>2, ArrivalTravels DEF TxFailed
  <2>3. ASSUME ~arrived PROVE TravelInv'
    <3>1. UNCHANGED isr_vars
      BY <1>4, <2>3 DEF TxFailed
    <3>2. CASE tx_fifo' = tx_fifo
      BY <2>1, <3>1, <3>2
         DEF TravelInv, ContentInv, OrderInv, NewsInv, Repeat, Duplicate, isr_vars, thread_vars, central_vars
    <3>3. CASE tx_fifo' = <<>>
      <4>1. Len(tx_fifo') = 0
        BY <3>3
      <4> QED
        BY <2>1, <3>1, <4>1, SMTT(20)
           DEF TravelInv, ContentInv, OrderInv, NewsInv, isr_vars, thread_vars, central_vars
    <3> QED BY <2>1, <3>2, <3>3
  <2>4. ViewInv' /\ PressIsNew'
    BY <2>1 DEF ViewInv, PressIsNew, central_vars
  <2> QED BY <2>2, <2>3, <2>4
<1>5. CASE central_ingest_packet
  <2>1. TravelInv'
    BY <1>0, <1>5, IngestTravels
  <2>2. ViewInv' /\ PressIsNew'
    BY <1>5 DEF central_ingest_packet, ViewInv, PressIsNew, central_vars, peripheral_vars
  <2> QED BY <2>1, <2>2
<1>6. CASE central_event_work_fn
  BY <1>0, <1>6, HandledPacketLearns, DeliveryTravels DEF central_event_work_fn
<1>7. CASE staleness_work_fn
  <2>1. UNCHANGED <<peripheral_vars, isr_vars, thread_vars, seen>>
    BY <1>7 DEF staleness_work_fn
  <2>2. /\ \A p \in Position : \/ zmk_ver'[p] = zmk_ver[p] /\ (p \in zmk_held' <=> p \in zmk_held)
                               \/ zmk_ver'[p] = 0
        /\ PressIsNew'
    <3>1. CASE release_stale_pipe
      BY <1>0, <3>1, ReleaseForgets
    <3>2. CASE UNCHANGED <<tracked_positions, zmk_held, zmk_faults, zmk_ver>>
      BY <3>2 DEF PressIsNew
    <3> QED BY <1>7, <3>1, <3>2 DEF staleness_work_fn
  <2>3. \A p \in Position : /\ zmk_ver'[p] \in Nat /\ zmk_ver[p] \in Nat /\ seen[p] \in Nat
                            /\ zmk_ver'[p] <= zmk_ver[p]
    <3>1. \A p \in Position : zmk_ver'[p] \in Nat /\ zmk_ver[p] \in Nat /\ seen[p] \in Nat
      BY <1>0, SizeAssumption DEF TypeOK, Versions
    <3> QED BY <2>2, <3>1
  <2>4. ViewInv'
    BY <2>1, <2>2, <2>3 DEF ViewInv, peripheral_vars
  <2>5. TravelInv'
    BY <1>0, <2>1, <2>3, ForgettingTravels
  <2> QED BY <2>2, <2>4, <2>5
<1>8. CASE PeripheralReboot
  <2>1. /\ \A p \in Position : ver[p] \in Nat /\ ver'[p] = ver[p] + (ver[p] % 2) /\ seen[p] \in Nat
        /\ pressed_positions' = {} /\ Len(tx_fifo') = 0
        /\ UNCHANGED <<isr_vars, thread_vars, central_vars>>
    BY <1>0, <1>8, SizeAssumption DEF PeripheralReboot, TypeOK, Versions
  <2>2. \A p \in Position : ver[p] <= ver'[p] /\ ver'[p] % 2 = 0 /\ ver'[p] \in Nat
    BY <2>1
  <2>3. ViewInv'
    <3>1. pressed_positions' = Held(ver')
      BY <2>1, <2>2, PositionAssumption DEF Held
    <3> QED
      BY <2>1, <2>2, <3>1 DEF ViewInv, central_vars
  <2>4. ASSUME NEW c \in Bodies, Dated(c, seen, ver) PROVE Dated(c, seen, ver')
    <3>1. \A p \in Position : Says(c, p) => VerAt(c, p) \in Nat
      BY CarriedIsNat, SizeAssumption
    <3> QED
      BY <2>1, <2>2, <2>4, <3>1 DEF Dated
  <2>5. TravelInv'
    BY <1>0, <2>1, <2>4, QueuedBodies
       DEF TravelInv, ContentInv, OrderInv, NewsInv, isr_vars, thread_vars, central_vars
  <2> QED
    BY <2>1, <2>3, <2>5 DEF PressIsNew, central_vars
<1>9. CASE CentralReboot
  <2>1. /\ Len(rx_spsc') = 0 /\ Len(central_event_msgq') = 0
        /\ tx_fifo' = tx_fifo /\ ver' = ver /\ seen' = seen
        /\ pressed_positions' = pressed_positions /\ zmk_faults' = zmk_faults
        /\ \A p \in Position : zmk_ver'[p] = 0 /\ seen[p] \in Nat /\ zmk_ver[p] \in Nat
    BY <1>0, <1>9, SizeAssumption DEF CentralReboot, peripheral_vars, TypeOK, Versions
  <2>2. ViewInv' /\ PressIsNew'
    BY <2>1 DEF ViewInv, PressIsNew
  <2>3. \A c \in Bodies : Honest(c) => News(c, zmk_ver')
    <3> SUFFICES ASSUME NEW c \in Bodies, Honest(c), c.kind = "key"
                 PROVE  zmk_ver'[c.position] < c.ver
      BY DEF News
    <3>1. c.position \in Position /\ c.ver \in Nat
      BY SizeAssumption DEF Bodies, KeyEvents, Keepalives
    <3> QED
      BY <2>1, <3>1 DEF Honest
  <2>4. TravelInv'
    BY <1>0, <2>1, <2>3, QueuedBodies DEF TravelInv, ContentInv, OrderInv, NewsInv
  <2> QED
    BY <2>2, <2>4
<1>10. CASE UNCHANGED <<ver, pressed_positions, tx_fifo, last_rx, rx_spsc, central_event_msgq,
                        central_vars>>
  BY <1>10 DEF TravelInv, ContentInv, OrderInv, NewsInv, ViewInv, PressIsNew, Repeat, Duplicate,
               central_vars
<1> QED
  BY <1>1, <1>2, <1>3, <1>4, <1>5, <1>6, <1>7, <1>8, <1>9, <1>10
     DEF Next, vars, peripheral_vars, isr_vars, thread_vars,
         tx_restart_work_fn, RxThreadWake, RxThreadSleep

(* What the link does to its packets, for every queue size, packet id range  *)
(* and number of restarts: see SyncInv.                                      *)
LEMMA TravelInvariant == Spec => [](SyncInv /\ PressIsNew)
BY SyncInit, SyncStep, PTL DEF Spec

(* One physical press reaches ZMK as at most one press, unless a stale       *)
(* release or a restart of the central comes between.                        *)
THEOREM PressesAreNew == Spec => []PressIsNew
BY TravelInvariant, PTL

(* The initial states are those of KeySync. *)
LEMMA KeySyncInit == Init => Sync!Init
BY DEF Init, Sync!Init

(* A step of the link is a switch, ZMK catching up, the peripheral given up, *)
(* a restart, or nothing that KeySync sees.                                  *)
LEMMA KeySyncStep == SyncInv /\ PressIsNew /\ [Next]_vars => [Sync!Next]_(Sync!vars)
<1> SUFFICES ASSUME SyncInv, PressIsNew, [Next]_vars PROVE [Sync!Next]_(Sync!vars)
  OBVIOUS
<1> USE DEF SyncInv
<1>0. TypeOK /\ TypeOK' /\ TrackedIsHeld
  BY TypeStep DEF StreamInv
<1>1. ASSUME NEW p \in Position, esb_peripheral_report_event(p) PROVE Sync!Next
  <2>1. Sync!Switch(p)
    BY <1>1 DEF esb_peripheral_report_event, central_vars, Sync!Switch
  <2> QED BY <2>1 DEF Sync!Next
<1>2. CASE central_event_work_fn
  <2> DEFINE body == Head(central_event_msgq)
             P    == {p \in Position : Says(body, p)}
  <2>1. Learns(body)
    BY <1>0, <1>2, HandledPacketLearns
  <2>2. body \in Bodies /\ Dated(body, seen, ver)
    <3>1. central_event_msgq # <<>> /\ central_event_msgq \in Seq(Bodies)
      BY <1>0, <1>2 DEF central_event_work_fn, TypeOK
    <3>2. body = central_event_msgq[1] /\ 1 \in 1..Len(central_event_msgq) /\ body \in Bodies
      BY <3>1, Removed
    <3> QED
      BY <3>2 DEF TravelInv, ContentInv
  <2>3. ver' = ver
    BY <1>2 DEF central_event_work_fn, peripheral_vars
  <2> HIDE DEF body
  <2>4. \A p \in P : seen'[p] >= seen[p] /\ seen'[p] <= ver[p]
    <3>1. \A p \in Position : seen[p] \in Nat /\ seen'[p] \in Nat
      BY <1>0, SizeAssumption DEF TypeOK, Versions
    <3> QED
      BY <2>1, <2>2, <3>1 DEF Dated, Learns
  <2>5. seen' = [p \in Position |-> IF p \in P THEN seen'[p] ELSE seen[p]]
    <3>1. \A p \in Position : seen'[p] = IF p \in P THEN seen'[p] ELSE seen[p]
      BY <2>1 DEF Learns
    <3>2. seen' = [p \in Position |-> seen'[p]]
      BY <1>0 DEF TypeOK, Versions
    <3> QED BY <3>1, <3>2
  <2>6. zmk_held' = {p \in Position : IF p \in P THEN seen'[p] % 2 = 1 ELSE p \in zmk_held}
    <3>1. \A p \in Position : p \in zmk_held' <=> IF p \in P THEN seen'[p] % 2 = 1 ELSE p \in zmk_held
      BY <2>1 DEF Learns
    <3> QED
      BY <1>0, <3>1 DEF TypeOK
  <2>7. P \in SUBSET Position
    OBVIOUS
  <2> HIDE DEF P
  <2>8. Sync!CatchUp(P)
    BY <2>3, <2>4, <2>5, <2>6 DEF Sync!CatchUp
  <2> QED BY <2>7, <2>8 DEF Sync!Next
<1>3. CASE staleness_work_fn
  <2>1. ver' = ver /\ seen' = seen
    BY <1>3 DEF staleness_work_fn, peripheral_vars
  <2>2. CASE release_stale_pipe
    <3>1. Sync!GiveUp
      BY <1>0, <2>1, <2>2, ReleaseForgets DEF Sync!GiveUp
    <3> QED BY <3>1 DEF Sync!Next
  <2>3. CASE zmk_held' = zmk_held
    BY <2>1, <2>3 DEF Sync!vars
  <2> QED
    BY <1>3, <2>2, <2>3 DEF staleness_work_fn
<1>4. CASE PeripheralReboot
  <2>1. Sync!SenderRestart
    BY <1>4 DEF PeripheralReboot, central_vars, Sync!SenderRestart
  <2> QED BY <2>1 DEF Sync!Next
<1>5. CASE CentralReboot
  <2>1. Sync!ReceiverRestart
    BY <1>5 DEF CentralReboot, peripheral_vars, Sync!ReceiverRestart
  <2> QED BY <2>1 DEF Sync!Next
<1>6. CASE UNCHANGED <<ver, seen, zmk_held>>
  BY <1>6 DEF Sync!vars
<1> QED
  BY <1>1, <1>2, <1>3, <1>4, <1>5, <1>6
     DEF Next, vars, peripheral_vars, central_vars, keepalive_work_fn,
         tx_restart_work_fn, TxSuccess, TxFailed, RxThreadWake, RxThreadSleep,
         central_ingest_packet

(* The key link implements KeySync: ZMK moves through states the switches    *)
(* really were in, in their order, whatever is lost, repeated, flushed,      *)
(* dropped at a full queue or replayed, and whoever restarts.                *)
THEOREM LinkImplementsKeySync == Spec => ImplementsKeySync
BY TravelInvariant, KeySyncInit, KeySyncStep, PTL DEF Spec, ImplementsKeySync, Sync!Spec

-----------------------------------------------------------------------------
(* A stale pipe that was not heard since holds nothing; one heard since is   *)
(* marked so by the next tick at the latest.                                 *)
SilenceInv ==
    /\ pipe_stale => pipe_heard /\ (silent_ticks = 0 \/ silent_ticks > TimeoutTicks)
    /\ pipe_heard /\ silent_ticks > TimeoutTicks =>
           pipe_stale /\ Drained /\ tracked_positions = {}

(* A tick either finds the peer active, or releases, or finds the pipe       *)
(* stale and silent since the release.                                       *)
LEMMA SilenceStep ==
    ASSUME TimeoutTicks # 0, StreamInv, SilenceInv, [Next]_vars
    PROVE  SilenceInv'
<1>0. TimeoutTicks \in Nat /\ silent_ticks \in Nat
  BY SizeAssumption DEF StreamInv, TypeOK
<1>1. ASSUME NEW packet, on_esb_rx(packet),
             UNCHANGED <<thread_vars, tracked_positions, pipe_stale>>
      PROVE  SilenceInv'
  <2>1. CASE Duplicate(packet)
    BY <1>1, <2>1 DEF on_esb_rx, isr_vars, thread_vars, SilenceInv, Drained
  <2>2. CASE ~Duplicate(packet)
    BY <1>0, <1>1, <2>2 DEF on_esb_rx, SilenceInv
  <2> QED BY <2>1, <2>2
<1>2. CASE UNCHANGED <<isr_vars, thread_vars, tracked_positions, pipe_stale, silent_ticks>>
  BY <1>2 DEF SilenceInv, Drained, isr_vars, thread_vars
<1>3. CASE TxSuccess
  BY <1>1, <1>3 DEF TxSuccess, central_vars
<1>4. ASSUME NEW arrived \in BOOLEAN, TxFailed(arrived) PROVE SilenceInv'
  BY <1>1, <1>2, <1>4 DEF TxFailed, central_vars
<1>5. CASE RxThreadWake
  BY <1>5 DEF RxThreadWake, central_vars, SilenceInv, Drained
<1>6. CASE RxThreadSleep
  BY <1>6 DEF RxThreadSleep, central_vars, isr_vars, SilenceInv, Drained
<1>7. CASE central_ingest_packet
  BY <1>7 DEF central_ingest_packet, central_vars, SilenceInv, Drained
<1>8. CASE central_event_work_fn
  BY <1>8 DEF central_event_work_fn, isr_vars, SilenceInv, Drained
<1>9. CASE staleness_work_fn
  <2>1. /\ UNCHANGED <<isr_vars, thread_vars>>
        /\ silent_ticks' = IF silent_ticks > TimeoutTicks THEN silent_ticks ELSE silent_ticks + 1
        /\ silent_ticks' > TimeoutTicks => Drained
    BY <1>0, <1>9 DEF staleness_work_fn
  <2>2. /\ pipe_heard => (pipe_stale' <=> silent_ticks' > TimeoutTicks)
        /\ ~pipe_heard => pipe_stale' = pipe_stale
    <3>1. silent_ticks' \in Nat /\ (silent_ticks' > TimeoutTicks <=> ~(silent_ticks' <= TimeoutTicks))
      BY <1>0, <2>1
    <3>2. pipe_stale' = IF pipe_heard THEN ~(silent_ticks' <= TimeoutTicks) ELSE pipe_stale
      BY <1>9 DEF staleness_work_fn
    <3> QED BY ONLY <3>1, <3>2
  <2>3. pipe_heard /\ silent_ticks' > TimeoutTicks /\ ~pipe_stale => tracked_positions' = {}
    <3> SUFFICES ASSUME pipe_heard, silent_ticks' > TimeoutTicks, ~pipe_stale
                 PROVE  tracked_positions' = {}
      OBVIOUS
    <3>1. release_stale_pipe
      BY <1>0, <1>9, <2>1 DEF staleness_work_fn
    <3> QED
      BY <3>1 DEF release_stale_pipe, replay_position_diff
  <2>4. pipe_stale => tracked_positions' = tracked_positions
    BY <1>9 DEF staleness_work_fn
  <2>5. CASE ~pipe_heard
    BY <2>1, <2>2, <2>5 DEF isr_vars, SilenceInv
  <2>6. CASE pipe_heard /\ ~(silent_ticks' > TimeoutTicks)
    BY <2>1, <2>2, <2>6 DEF isr_vars, SilenceInv
  <2>7. CASE pipe_heard /\ silent_ticks' > TimeoutTicks
    <3>1. Drained' /\ pipe_heard' = pipe_heard
      BY <2>1, <2>7 DEF Drained, isr_vars, thread_vars
    <3>2. tracked_positions' = {}
      BY <1>0, <2>1, <2>3, <2>4, <2>7 DEF SilenceInv
    <3> QED
      BY <2>2, <2>7, <3>1, <3>2 DEF SilenceInv
  <2> QED BY <2>5, <2>6, <2>7
<1>10. CASE CentralReboot
  BY <1>0, <1>10 DEF CentralReboot, SilenceInv
<1> QED
  BY <1>2, <1>3, <1>4, <1>5, <1>6, <1>7, <1>8, <1>9, <1>10
     DEF Next, vars, central_vars, esb_peripheral_report_event, keepalive_work_fn,
         tx_restart_work_fn, PeripheralReboot

(* A pipe silent past the timeout holds no covered key in ZMK, provided the  *)
(* timeout is at least one staleness period (STALENESS_CHECK_PERIOD_MS, 500  *)
(* ms; peripheral-timeout-ms defaults to 3000).  With a shorter one a packet *)
(* between two ticks is not noticed and what it pressed is never released.   *)
THEOREM SilentPipeIsReleased ==
    TimeoutTicks # 0 => (Spec => []SilentPipeHoldsNothing)
<1> SUFFICES ASSUME TimeoutTicks # 0 PROVE Spec => []SilentPipeHoldsNothing
  OBVIOUS
<1>1. Init => StreamInv /\ SilenceInv
  BY TypeInit, SizeAssumption
     DEF Init, StreamInv, TrackedIsHeld, StreamAlternates, SilenceInv
<1>2. StreamInv /\ SilenceInv /\ [Next]_vars => StreamInv' /\ SilenceInv'
  BY StreamStep, SilenceStep
<1>3. StreamInv /\ SilenceInv => SilentPipeHoldsNothing
  BY DEF StreamInv, SilenceInv, TrackedIsHeld, SilentPipeHoldsNothing
<1> QED
  BY <1>1, <1>2, <1>3, PTL DEF Spec
=============================================================================
