--------------------------- MODULE HopLinkProofs ---------------------------
(***************************************************************************)
(* Types of the hop link, and the bound on the replies written ahead, for   *)
(* every pool, anchor, epoch width, period and number of restarts.          *)
(***************************************************************************)
EXTENDS HopLink, WellFoundedInduction, TLAPS

(* Channels wrap inside the pool, and channel 0 is one of them. *)
LEMMA PoolWraps ==
    /\ \A n \in Nat : n % PoolCount \in Pool
    /\ 0 \in Pool /\ Pool \in Masks /\ Pool \subseteq Nat
BY PoolAssumption DEF Pool, Masks

(* Epochs wrap inside their width. *)
LEMMA EpochWraps ==
    /\ \A n \in Nat : n % EpochCount \in Epoch
    /\ 0 \in Epoch /\ 1 \in Epoch /\ Epoch \subseteq Nat
BY PoolAssumption DEF Epoch

(* FirstActive gives a channel of the pool, whatever the mask. *)
LEMMA FirstActiveInPool ==
    ASSUME NEW base \in Nat, NEW first \in {0, 1}, NEW mask, NEW otherwise \in Pool
    PROVE  FirstActive(base, first, mask, otherwise) \in Pool
<1> DEFINE steps == {s \in first..(first + PoolCount - 1) : (base + s) % PoolCount \in mask}
<1>1. CASE steps = {}
  BY <1>1 DEF FirstActive
<1>2. CASE steps # {}
  <2>1. PoolCount \in Nat
    BY PoolAssumption
  <2>2. \A s \in steps : base + s \in Nat
    BY <2>1
  <2>3. \E s \in steps : \A t \in steps : s <= t
    <3>1. steps \subseteq Nat
      BY <2>1
    <3> HIDE DEF steps
    <3>2. \E s \in steps : \A t \in steps : ~(<<t, s>> \in OpToRel(<, Nat))
      BY <1>2, <3>1, NatLessThanWellFounded, WFMin
    <3>3. \E s \in steps : \A t \in steps : ~(t < s)
      BY <3>1, <3>2 DEF OpToRel
    <3> QED BY <3>1, <3>3
  <2> QED
    BY <1>2, <2>2, <2>3, PoolWraps DEF FirstActive
<1> QED BY <1>1, <1>2

(* The channel of an epoch and the next active one are in the pool. *)
LEMMA ChannelsInPool ==
    /\ \A epoch \in Epoch, mask \in Masks : hop_policy_channel_for_epoch_masked(epoch, mask) \in Pool
    /\ \A index \in Pool, mask \in Masks : hop_policy_index_next_active(index, mask) \in Pool
    /\ \A index \in Pool : hop_policy_index_next(index) \in Pool
<1>1. ASSUME NEW epoch \in Epoch, NEW mask \in Masks
      PROVE  hop_policy_channel_for_epoch_masked(epoch, mask) \in Pool
  <2>1. epoch % PoolCount \in Pool /\ epoch % PoolCount \in Nat
    BY PoolWraps, EpochWraps
  <2> QED
    BY <2>1, FirstActiveInPool DEF hop_policy_channel_for_epoch_masked
<1>2. ASSUME NEW index \in Pool, NEW mask \in Masks
      PROVE  hop_policy_index_next_active(index, mask) \in Pool
  BY PoolWraps, FirstActiveInPool DEF hop_policy_index_next_active
<1>3. ASSUME NEW index \in Pool PROVE hop_policy_index_next(index) \in Pool
  <2>1. index + 1 \in Nat
    BY PoolWraps
  <2> QED BY <2>1, PoolWraps DEF hop_policy_index_next
<1> QED BY <1>1, <1>2, <1>3

-----------------------------------------------------------------------------
(* The peripheral's record, field by field. *)
Peripherals == [epoch : Epoch, mask : Masks, index : Pool, link_acked : BOOLEAN,
                sweep : Nat, undo : Maybe(Pool)]
Retained    == [epoch : Epoch, mask : Masks, index : Pool]

(* What a step needs to keep the types: whole records on the peripheral's    *)
(* side, and one reply at most that no ACK carried yet.                      *)
HopInv ==
    /\ TypeOK
    /\ peripheral \in Peripherals /\ retained \in Maybe(Retained)
    /\ Len(ack_fifo) <= 2 /\ (~ack_sent => Len(ack_fifo) <= 1)

(* A budget is spent one at a time. *)
LEMMA SpendTypes ==
    ASSUME budget \in Budgets, NEW kind \in {"hid", "votes", "changes", "troubles", "reboots"},
           Spend(kind)
    PROVE  budget' \in Budgets
BY WindowAssumption DEF Spend, Budgets

(* A packet the central had not seen confirms a reply before one is written. *)
LEMMA RxDoneTypes ==
    ASSUME HopInv, esb_link_role_rx_done
    PROVE  /\ latch' \in [beacon : Maybe(Epoch), mask : Maybe(Masks)]
           /\ ack_fifo' \in Seq(Replies) /\ ack_sent' \in BOOLEAN
           /\ ack_sent' => ack_fifo' # <<>>
           /\ Len(ack_fifo') <= 2 /\ (~ack_sent' => Len(ack_fifo') <= 1)
           /\ quiet' \in 0..LossDetect
<1>1. CASE packet = "seen"
  BY <1>1 DEF HopInv, TypeOK, esb_link_role_rx_done
<1>2. CASE packet # "seen"
  <2>1. /\ latch.beacon \in Maybe(Epoch) /\ latch.mask \in Maybe(Masks)
        /\ latch \in [beacon : Maybe(Epoch), mask : Maybe(Masks)]
    BY DEF HopInv, TypeOK
  <2>2. Pending \in Seq(Replies) /\ Len(Pending) \in 0..1
    <3>1. CASE latch.beacon # <<>>
      <4>1. PICK e \in Epoch : latch.beacon = <<e>>
        BY <2>1, <3>1 DEF Maybe
      <4>2. Pending = <<[kind |-> "beacon", epoch |-> e, mask |-> Pool]>>
        BY <3>1, <4>1 DEF Pending
      <4>3. [kind |-> "beacon", epoch |-> e, mask |-> Pool] \in Replies
        BY PoolWraps DEF Replies
      <4> QED BY <4>2, <4>3
    <3>2. CASE latch.beacon = <<>> /\ latch.mask # <<>>
      <4>1. PICK m \in Masks : latch.mask = <<m>>
        BY <2>1, <3>2 DEF Maybe
      <4>2. Pending = <<[kind |-> "mask", epoch |-> 0, mask |-> m]>>
        BY <3>2, <4>1 DEF Pending
      <4>3. [kind |-> "mask", epoch |-> 0, mask |-> m] \in Replies
        BY EpochWraps DEF Replies
      <4> QED BY <4>2, <4>3
    <3>3. CASE latch.beacon = <<>> /\ latch.mask = <<>>
      BY <3>3 DEF Pending
    <3> QED BY <3>1, <3>2, <3>3
  <2>3. Released \in [beacon : Maybe(Epoch), mask : Maybe(Masks)]
    BY <2>1 DEF Released, Maybe
  <2>4. Unconfirmed \in Seq(Replies) /\ Len(Unconfirmed) \in 0..1
    <3>1. /\ ack_fifo \in Seq(Replies) /\ (ack_sent => ack_fifo # <<>>)
          /\ Len(ack_fifo) <= 2 /\ (~ack_sent => Len(ack_fifo) <= 1)
      BY DEF HopInv, TypeOK
    <3>2. CASE ack_sent
      <4>1. Tail(ack_fifo) \in Seq(Replies) /\ Len(Tail(ack_fifo)) = Len(ack_fifo) - 1
            /\ Len(ack_fifo) \in Nat \ {0}
        BY <3>1, <3>2
      <4> QED BY <3>1, <3>2, <4>1 DEF Unconfirmed
    <3>3. CASE ~ack_sent
      <4>1. Len(ack_fifo) \in Nat /\ Len(ack_fifo) <= 1 /\ Unconfirmed = ack_fifo
        BY <3>1, <3>3 DEF Unconfirmed
      <4>2. \A n \in Nat : n <= 1 => n \in 0..1
        OBVIOUS
      <4> QED BY <3>1, <4>1, <4>2, Zenon
    <3> QED BY <3>2, <3>3
  <2>5. /\ Unconfirmed \o Pending \in Seq(Replies)
        /\ Len(Unconfirmed \o Pending) = Len(Unconfirmed) + Len(Pending)
        /\ Unconfirmed # <<>> <=> Len(Unconfirmed) = 1
    BY <2>2, <2>4
  <2>6. /\ ack_fifo' = Unconfirmed \o Pending /\ ack_sent' = (Unconfirmed # <<>>)
        /\ latch' = Released /\ quiet' = 0
    BY <1>2 DEF esb_link_role_rx_done
  <2>7. 0 \in 0..LossDetect
    BY WindowAssumption DEF LossDetect
  <2>8. (ack_sent' <=> Len(Unconfirmed) = 1) /\ ack_sent' \in BOOLEAN
    BY <2>5, <2>6
  <2>9. Len(ack_fifo') = Len(Unconfirmed) + Len(Pending) /\ (ack_sent' => ack_fifo' # <<>>)
    BY <2>2, <2>4, <2>5, <2>6, <2>8
  <2>10. Len(ack_fifo') <= 2 /\ (~ack_sent' => Len(ack_fifo') <= 1)
    <3>1. CASE ack_sent'
      <4>1. \A m, n \in 0..1 : m + n <= 2
        OBVIOUS
      <4> QED BY <2>2, <2>4, <2>9, <3>1, <4>1
    <3>2. CASE ~ack_sent'
      <4>1. Len(Unconfirmed) = 0
        BY <2>4, <2>8, <3>2
      <4> QED BY <2>2, <2>9, <3>2, <4>1
    <3> QED BY <3>1, <3>2
  <2> QED
    BY <2>3, <2>5, <2>6, <2>7, <2>8, <2>9, <2>10
<1> QED BY <1>1, <1>2

(* What the ACK brings is an epoch, a mask or nothing. *)
LEMMA ConsumeTypes ==
    ASSUME HopInv, hop_consume_rx(AckPayload)
    PROVE  beacon_epoch' \in Epoch /\ staged_mask' \in Maybe(Masks)
<1>1. AckPayload \in Maybe(Replies)
  <2>1. ack_fifo \in Seq(Replies) /\ (ack_sent => ack_fifo # <<>>)
    BY DEF HopInv, TypeOK
  <2>2. Unconfirmed \in Seq(Replies)
    BY <2>1 DEF Unconfirmed
  <2>3. ack_sent => Head(ack_fifo) \in Replies
    BY <2>1
  <2>4. Unconfirmed # <<>> => Head(Unconfirmed) \in Replies
    BY <2>2
  <2> QED BY <2>3, <2>4 DEF AckPayload, Maybe
<1>2. CASE AckPayload = <<>>
  BY <1>2 DEF hop_consume_rx, HopInv, TypeOK
<1>3. CASE AckPayload # <<>>
  <2>1. PICK r \in Replies : AckPayload = <<r>>
    BY <1>1, <1>3 DEF Maybe
  <2>2. AckPayload[1] = r /\ r.epoch \in Epoch /\ r.mask \in Masks
    BY <2>1 DEF Replies
  <2> HIDE DEF AckPayload
  <2> QED
    BY <1>3, <2>2 DEF hop_consume_rx, HopInv, TypeOK, Maybe
<1> QED BY <1>2, <1>3

(* A decision leaves an epoch, a channel of the pool, legal masks and at     *)
(* most PoolCount escapes.                                                   *)
LEMMA DecisionTypes ==
    ASSUME HopInv, NEW vote \in BOOLEAN, NEW mask \in Masks, decision_work_fn(vote, mask),
           budget' \in Budgets
    PROVE  HopInv'
<1> DEFINE change  == mask # central.pending
           valid   == central.pending_valid \/ change
           silent  == IF heard THEN 0
                      ELSE IF central.silent_windows < SilentWindows THEN central.silent_windows + 1
                      ELSE SilentWindows
           escapes == IF heard THEN 0 ELSE central.silent_escapes
           escape  == silent >= SilentWindows /\ escapes < PoolCount
           hop     == vote \/ escape
           epoch   == IF hop THEN (central.epoch + 1) % EpochCount ELSE central.epoch
           live    == IF hop /\ valid THEN mask ELSE central.mask
           repeats == IF change THEN RepeatWindows ELSE central.mask_repeats
           rejoin  == heard /\ central.was_lost
           refresh == PeriodFires(central.beacon_window) /\ heard
<1>1. /\ central'.epoch = epoch
      /\ central'.index = IF hop THEN hop_policy_channel_for_epoch_masked(epoch, live)
                          ELSE central.index
      /\ central'.mask = live /\ central'.pending = mask
      /\ central'.silent_escapes = IF escape THEN escapes + 1 ELSE escapes
      /\ latch' = [beacon |-> IF rejoin \/ hop_policy_should_beacon(epoch).burst \/ refresh
                              THEN <<epoch>> ELSE latch.beacon,
                   mask |-> IF ~stage_mask_update(repeats) THEN latch.mask
                            ELSE IF valid /\ ~hop THEN <<mask>> ELSE <<live>>]
      /\ decision_due' = IdlePeriod
      /\ UNCHANGED <<ack_fifo, ack_sent, quiet, peripheral_side>>
  BY DEF decision_work_fn
<1>2. /\ central.epoch \in Epoch /\ central.index \in Pool /\ central.mask \in Masks
      /\ central.silent_escapes \in 0..PoolCount
      /\ latch \in [beacon : Maybe(Epoch), mask : Maybe(Masks)]
  BY DEF HopInv, TypeOK
<1>3. epoch \in Epoch
  <2>1. central.epoch + 1 \in Nat
    <3>1. central.epoch \in Nat
      BY <1>2, EpochWraps
    <3> QED BY <3>1
  <2> QED BY <1>2, <2>1, EpochWraps
<1>4. live \in Masks
  BY <1>2
<1>5. escapes \in 0..PoolCount
  BY <1>2, PoolAssumption
<1> HIDE DEF escapes, hop, epoch, live, repeats, rejoin, refresh, valid
<1>6. central'.silent_escapes \in 0..PoolCount
  <2> HIDE DEF silent
  <2> QED BY <1>1, <1>5, PoolAssumption
<1>7. central'.index \in Pool
  BY <1>1, <1>2, <1>3, <1>4, ChannelsInPool
<1>8. latch' \in [beacon : Maybe(Epoch), mask : Maybe(Masks)]
  BY <1>1, <1>2, <1>3, <1>4 DEF Maybe
<1>9. IdlePeriod \in 0..IdlePeriod
  BY WindowAssumption
<1> QED
  BY <1>1, <1>3, <1>4, <1>6, <1>7, <1>8, <1>9 DEF HopInv, TypeOK, peripheral_side

(* A keepalive tick adopts, follows, steps off or sweeps within the pool. *)
LEMMA KeepaliveTypes ==
    ASSUME HopInv, NEW degrading \in BOOLEAN, keepalive_work_fn(degrading), budget' \in Budgets
    PROVE  HopInv'
<1> DEFINE acked == settle_link_state
<1>1. /\ peripheral \in Peripherals /\ retained \in Maybe(Retained) /\ applied \in Pool
      /\ beacon_epoch \in Epoch /\ staged_mask \in Maybe(Masks)
      /\ failed \in BOOLEAN /\ succeeded \in BOOLEAN /\ packet \in {"none", "new", "seen"}
  BY DEF HopInv, TypeOK
<1>2. acked \in BOOLEAN
  BY <1>1 DEF settle_link_state, Peripherals
<1> HIDE DEF acked
<1>3. ASSUME NEW index \in Pool, apply_hop_channel(index) PROVE applied' \in Pool
  BY <1>1, <1>3 DEF apply_hop_channel
<1>4. peripheral' \in Peripherals /\ applied' \in Pool /\ staged_mask' \in Maybe(Masks)
  <2>1. CASE adopt_epoch(acked)
    <3> DEFINE mask == IF staged_mask = <<>> THEN peripheral.mask ELSE staged_mask[1]
    <3>1. mask \in Masks
      BY <1>1 DEF Peripherals, Maybe
    <3> HIDE DEF mask
    <3>2. /\ peripheral' = [epoch |-> beacon_epoch, mask |-> mask, link_acked |-> acked,
                            index |-> hop_policy_channel_for_epoch_masked(beacon_epoch, mask),
                            sweep |-> 0, undo |-> <<>>]
          /\ staged_mask' = <<>> /\ apply_hop_channel(peripheral'.index)
      BY <2>1 DEF adopt_epoch, mask
    <3>3. hop_policy_channel_for_epoch_masked(beacon_epoch, mask) \in Pool
      BY <1>1, <3>1, ChannelsInPool
    <3>4. peripheral' \in Peripherals
      BY <1>1, <1>2, <3>1, <3>2, <3>3 DEF Peripherals, Maybe
    <3> QED
      BY <1>3, <3>2, <3>4 DEF Peripherals, Maybe
  <2>2. CASE connected_window(acked, degrading)
    <3> DEFINE index == IF degrading THEN hop_policy_index_next_active(peripheral.index, peripheral.mask)
                        ELSE peripheral.index
               undo  == IF degrading THEN <<peripheral.index>> ELSE <<>>
    <3>1. index \in Pool /\ undo \in Maybe(Pool)
      BY <1>1, ChannelsInPool DEF Peripherals, Maybe
    <3>2. peripheral' = [peripheral EXCEPT !.link_acked = acked, !.sweep = 0, !.undo = undo,
                                           !.index = index]
      BY <2>2 DEF connected_window
    <3>3. applied' = applied \/ apply_hop_channel(peripheral'.index)
      BY <2>2 DEF connected_window
    <3> HIDE DEF index, undo
    <3>4. peripheral' \in Peripherals
      BY <1>1, <1>2, <3>1, <3>2 DEF Peripherals
    <3>5. staged_mask' = staged_mask
      BY <2>2 DEF connected_window
    <3> QED
      BY <1>1, <1>3, <3>3, <3>4, <3>5 DEF Peripherals
  <2>3. CASE lost_window(acked)
    <3> DEFINE sweep == (peripheral.sweep + 1) % SweepDwell
               index == IF peripheral.undo # <<>> THEN peripheral.undo[1]
                        ELSE IF sweep = 0 THEN hop_policy_index_next(peripheral.index)
                        ELSE peripheral.index
    <3>1. sweep \in Nat
      <4>1. peripheral.sweep + 1 \in Nat /\ SweepDwell \in Nat \ {0}
        BY <1>1, WindowAssumption DEF Peripherals, SweepDwell
      <4>2. \A m \in Nat, n \in Nat \ {0} : m % n \in Nat
        OBVIOUS
      <4> QED BY <4>1, <4>2
    <3>2. index \in Pool
      BY <1>1, ChannelsInPool DEF Peripherals, Maybe
    <3>3. peripheral' = [peripheral EXCEPT !.link_acked = acked, !.sweep = sweep,
                                           !.undo = <<>>, !.index = index]
      BY <2>3 DEF lost_window
    <3>4. applied' = applied \/ apply_hop_channel(index)
      BY <2>3 DEF lost_window
    <3> HIDE DEF index, sweep
    <3>5. peripheral' \in Peripherals
      BY <1>1, <1>2, <3>1, <3>2, <3>3 DEF Peripherals, Maybe
    <3>6. staged_mask' = staged_mask
      BY <2>3 DEF lost_window
    <3> QED
      BY <1>1, <1>3, <3>2, <3>4, <3>5, <3>6
  <2> QED
    BY <2>1, <2>2, <2>3 DEF keepalive_work_fn, acked
<1>5. retained' \in Maybe(Retained)
  BY <1>1, <1>4 DEF keepalive_work_fn, retain_link_state, Peripherals, Retained, Maybe
<1>6. keepalive_due' \in Nat
  BY WindowAssumption DEF keepalive_work_fn
<1>7. /\ packet' \in {"none", "new", "seen"} /\ failed' = FALSE /\ succeeded' = FALSE
      /\ UNCHANGED <<central_side, straddles, beacon_epoch>>
  BY <1>1 DEF keepalive_work_fn
<1>8. peripheral'.epoch \in Epoch /\ peripheral'.index \in Pool /\ peripheral'.mask \in Masks
  BY <1>4 DEF Peripherals
<1> QED
  BY <1>4, <1>5, <1>6, <1>7, <1>8 DEF HopInv, TypeOK, central_side

(* A failed packet leaves the radio on a channel of the pool. *)
LEMMA TxFailedTypes ==
    ASSUME HopInv, NEW seen \in {"none", "new", "seen"}, TxFailed(seen)
    PROVE  /\ failed' \in BOOLEAN /\ succeeded' \in BOOLEAN /\ straddles' \in BOOLEAN
           /\ applied' \in Pool /\ packet' \in {"none", "new", "seen"}
           /\ UNCHANGED <<keepalive_due, peripheral, beacon_epoch, staged_mask, retained>>
BY DEF TxFailed, HopInv, TypeOK

(* Every boot mask gives an epoch, a channel and an empty history. *)
LEMMA BootedTypes ==
    ASSUME NEW mask \in BootMasks
    PROVE  /\ Booted(mask).epoch \in Epoch /\ Booted(mask).index \in Pool
           /\ Booted(mask).mask \in Masks /\ Booted(mask).pending \in Masks
           /\ Booted(mask).silent_escapes \in 0..PoolCount
<1> DEFINE epoch == IF mask = Pool THEN 0 ELSE 1
<1>1. mask \in Masks /\ epoch \in Epoch
  BY WindowAssumption, EpochWraps
<1>2. hop_policy_channel_for_epoch_masked(epoch, mask) \in Pool
  BY <1>1, ChannelsInPool
<1>3. 0 \in 0..PoolCount
  BY PoolAssumption
<1> HIDE DEF epoch
<1> QED
  BY <1>1, <1>2, <1>3, PoolWraps DEF Booted, epoch

(* A peripheral boots from an empty state or from the one it retained. *)
LEMMA RestoreTypes ==
    ASSUME NEW state \in Retained, hop_restore(state)
    PROVE  /\ peripheral' \in Peripherals /\ beacon_epoch' \in Epoch
           /\ staged_mask' \in Maybe(Masks) /\ applied' \in Pool
BY DEF hop_restore, Retained, Peripherals, Maybe

(* The initial states. *)
LEMMA HopInit == Init => HopInv
<1> SUFFICES ASSUME Init PROVE HopInv
  OBVIOUS
<1>1. PICK mask \in BootMasks : central = Booted(mask)
  BY DEF Init
<1>2. peripheral \in Peripherals
  BY PoolWraps, EpochWraps DEF Init, Peripherals, Maybe
<1>3. budget \in Budgets
  BY WindowAssumption DEF Init, Budgets
<1>4. 0 \in 0..LossDetect /\ IdlePeriod \in 0..IdlePeriod
  BY WindowAssumption DEF LossDetect
<1>5. /\ central.epoch \in Epoch /\ central.index \in Pool /\ central.mask \in Masks
      /\ central.pending \in Masks /\ central.silent_escapes \in 0..PoolCount
  BY <1>1, BootedTypes
<1>6. /\ ack_fifo = <<>> /\ ack_fifo \in Seq(Replies) /\ Len(ack_fifo) <= 1
      /\ ack_sent = FALSE
  BY DEF Init
<1>7. /\ latch \in [beacon : Maybe(Epoch), mask : Maybe(Masks)] /\ staged_mask \in Maybe(Masks)
      /\ retained \in Maybe(Retained)
  BY DEF Init, Maybe
<1>8. /\ quiet \in 0..LossDetect /\ decision_due \in 0..IdlePeriod /\ keepalive_due \in Nat
      /\ beacon_epoch \in Epoch /\ applied \in Pool /\ packet \in {"none", "new", "seen"}
      /\ straddles \in BOOLEAN /\ failed \in BOOLEAN /\ succeeded \in BOOLEAN
  BY <1>4, PoolWraps, EpochWraps DEF Init
<1>9. peripheral.epoch \in Epoch /\ peripheral.index \in Pool /\ peripheral.mask \in Masks
  BY <1>2 DEF Peripherals
<1>10. TypeOK
  BY <1>3, <1>5, <1>6, <1>7, <1>8, <1>9 DEF TypeOK
<1> QED
  BY <1>2, <1>6, <1>7, <1>10 DEF HopInv

(* One case per action. *)
LEMMA HopStep == HopInv /\ [Next]_vars => HopInv'
<1> SUFFICES ASSUME HopInv, [Next]_vars PROVE HopInv'
  OBVIOUS
<1>0. /\ budget \in Budgets /\ packet \in {"none", "new", "seen"} /\ peripheral \in Peripherals
      /\ quiet \in 0..LossDetect /\ keepalive_due \in Nat /\ decision_due \in 0..IdlePeriod
      /\ central.epoch \in Epoch /\ latch \in [beacon : Maybe(Epoch), mask : Maybe(Masks)]
      /\ IdlePeriod \in Nat /\ LossDetect \in Nat
  BY WindowAssumption DEF HopInv, TypeOK, LossDetect
<1>1. CASE Tick
  <2>1. decision_due' \in 0..IdlePeriod /\ keepalive_due' \in Nat
    BY <1>0, <1>1 DEF Tick
  <2>2. quiet' \in 0..LossDetect
    BY <1>0, <1>1 DEF Tick, hop_pipe_needs_rendezvous
  <2> QED
    BY <1>1, <2>1, <2>2 DEF Tick, HopInv, TypeOK
<1>2. CASE Decision
  <2>1. ASSUME NEW vote \in BOOLEAN, NEW mask \in Masks, decision_work_fn(vote, mask),
               budget' = budget \/ Spend("votes") \/ Spend("changes")
        PROVE  HopInv'
    BY <1>0, <2>1, SpendTypes, DecisionTypes
  <2>2. central.pending \in Masks
    BY DEF HopInv, TypeOK
  <2> QED BY <1>2, <2>1, <2>2 DEF Decision
<1>3. CASE hid_state_work_fn
  <2>1. budget' \in Budgets
    BY <1>0, <1>3, SpendTypes DEF hid_state_work_fn
  <2>2. latch' \in [beacon : Maybe(Epoch), mask : Maybe(Masks)]
    BY <1>0, <1>3 DEF hid_state_work_fn, Maybe
  <2> QED
    BY <1>3, <2>1, <2>2 DEF hid_state_work_fn, peripheral_side, HopInv, TypeOK
<1>4. CASE Keepalive
  <2>1. ASSUME NEW degrading \in BOOLEAN, keepalive_work_fn(degrading),
               budget' = budget \/ Spend("troubles")
        PROVE  HopInv'
    BY <1>0, <2>1, SpendTypes, KeepaliveTypes
  <2> QED BY <1>4, <2>1 DEF Keepalive
<1>5. CASE send_on_pipe
  BY <1>5 DEF send_on_pipe, central_side, HopInv, TypeOK
<1>6. CASE Delivered
  BY <1>6, RxDoneTypes, ConsumeTypes DEF Delivered, HopInv, TypeOK
<1>7. CASE AckLost
  <2>1. budget' \in Budgets
    BY <1>0, <1>7, SpendTypes DEF AckLost
  <2>2. TxFailed("seen") /\ esb_link_role_rx_done /\ UNCHANGED <<central, decision_due>>
    BY <1>7 DEF AckLost
  <2> QED
    BY <2>1, <2>2, RxDoneTypes, TxFailedTypes DEF HopInv, TypeOK
<1>8. CASE LostOffChannel
  <2>1. TxFailed(packet) /\ UNCHANGED <<central_side, budget>>
    BY <1>8 DEF LostOffChannel
  <2> QED
    BY <1>0, <2>1, TxFailedTypes DEF HopInv, TypeOK, central_side
<1>9. CASE LostOnChannel
  <2>1. budget' \in Budgets
    BY <1>0, <1>9, SpendTypes DEF LostOnChannel
  <2>2. TxFailed(packet) /\ UNCHANGED central_side
    BY <1>9 DEF LostOnChannel
  <2> QED
    BY <1>0, <2>1, <2>2, TxFailedTypes DEF HopInv, TypeOK, central_side
<1>10. CASE PeripheralReboot
  <2>1. budget' \in Budgets
    BY <1>0, <1>10, SpendTypes DEF PeripheralReboot
  <2>2. ColdPeripheral \in Retained
    BY PoolWraps, EpochWraps DEF ColdPeripheral, Retained
  <2>3. retained # <<>> => retained[1] \in Retained
    BY DEF HopInv, Maybe
  <2>4. /\ peripheral' \in Peripherals /\ beacon_epoch' \in Epoch
        /\ staged_mask' \in Maybe(Masks) /\ applied' \in Pool
        /\ retained' \in Maybe(Retained)
    BY <1>10, <2>2, <2>3, RestoreTypes DEF PeripheralReboot, HopInv, Maybe
  <2>5. keepalive_due' \in Nat
    BY <1>10, WindowAssumption DEF PeripheralReboot
  <2>6. peripheral'.epoch \in Epoch /\ peripheral'.index \in Pool /\ peripheral'.mask \in Masks
    BY <2>4 DEF Peripherals
  <2> QED
    BY <1>10, <2>1, <2>4, <2>5, <2>6 DEF PeripheralReboot, HopInv, TypeOK, central_side
<1>11. CASE CentralReboot
  <2>1. budget' \in Budgets
    BY <1>0, <1>11, SpendTypes DEF CentralReboot
  <2>2. /\ central'.epoch \in Epoch /\ central'.index \in Pool /\ central'.mask \in Masks
        /\ central'.pending \in Masks /\ central'.silent_escapes \in 0..PoolCount
    BY <1>11, BootedTypes DEF CentralReboot
  <2>3. /\ latch' \in [beacon : Maybe(Epoch), mask : Maybe(Masks)]
        /\ ack_fifo' = <<>> /\ ack_sent' = FALSE
        /\ quiet' \in 0..LossDetect /\ decision_due' \in 0..IdlePeriod
        /\ packet' \in {"none", "new", "seen"}
    BY <1>0, <1>11 DEF CentralReboot, Maybe
  <2>4. ack_fifo' \in Seq(Replies) /\ Len(ack_fifo') <= 1
    BY <2>3
  <2>5. TypeOK'
    BY <1>11, <2>1, <2>2, <2>3, <2>4 DEF CentralReboot, HopInv, TypeOK
  <2> QED
    BY <1>11, <2>3, <2>4, <2>5 DEF CentralReboot, HopInv
<1>12. CASE UNCHANGED vars
  BY <1>12 DEF vars, HopInv, TypeOK
<1> QED
  BY <1>1, <1>2, <1>3, <1>4, <1>5, <1>6, <1>7, <1>8, <1>9, <1>10, <1>11, <1>12 DEF Next

-----------------------------------------------------------------------------
(* Epochs, channels, masks, escapes and timers stay in their ranges, for     *)
(* every pool and every schedule of losses and restarts.                     *)
THEOREM TypesHold == Spec => []TypeOK
<1>1. HopInv => TypeOK
  BY DEF HopInv
<1> QED BY <1>1, HopInit, HopStep, PTL DEF Spec

(* One write per packet that asked for an ACK never outgrows the two replies *)
(* per pipe the ACK FIFO has room for, whatever ACKs are lost or repeated.   *)
THEOREM RepliesFit == Spec => []TwoRepliesAtMost
<1>1. HopInv => TwoRepliesAtMost
  BY DEF HopInv, TwoRepliesAtMost
<1> QED BY <1>1, HopInit, HopStep, PTL DEF Spec

-----------------------------------------------------------------------------
(* The central listens on the channel of its epoch and mask at all times: a  *)
(* mask change waits in pending until the hop that derives the channel anew. *)
CentralOnEpoch == central.index = hop_policy_channel_for_epoch_masked(central.epoch, central.mask)

(* Epoch 0 under the whole pool is channel 0, where both sides boot. *)
LEMMA BootChannel == hop_policy_channel_for_epoch_masked(0, Pool) = 0
<1> DEFINE steps == {s \in 0..(0 + PoolCount - 1) : (0 + s) % PoolCount \in Pool}
<1>1. /\ 0 % PoolCount = 0 /\ (0 + 0) % PoolCount = 0
      /\ PoolCount \in Nat \ {0}
  BY PoolAssumption
<1>2. 0 \in steps /\ \A t \in steps : t \in Nat /\ 0 <= t
  BY <1>1, PoolWraps
<1> HIDE DEF steps
<1>3. (CHOOSE s \in steps : \A t \in steps : s <= t) = 0
  <2> DEFINE first == CHOOSE s \in steps : \A t \in steps : s <= t
  <2>1. first \in steps /\ \A t \in steps : first <= t
    BY <1>2
  <2>2. first <= 0 /\ first \in Nat
    BY <1>2, <2>1
  <2> HIDE DEF first
  <2>3. first = 0
    BY <2>2
  <2> QED BY <2>3 DEF first
<1>4. steps # {}
  BY <1>2
<1> QED
  BY <1>1, <1>3, <1>4 DEF hop_policy_channel_for_epoch_masked, FirstActive, steps

(* A boot and every decision keep epoch, mask and channel together. *)
LEMMA CentralStep == CentralOnEpoch /\ [Next]_vars => CentralOnEpoch'
<1> SUFFICES ASSUME CentralOnEpoch, [Next]_vars PROVE CentralOnEpoch'
  OBVIOUS
<1>1. CASE UNCHANGED central
  BY <1>1 DEF CentralOnEpoch
<1>2. ASSUME NEW vote, NEW mask, decision_work_fn(vote, mask) PROVE CentralOnEpoch'
  BY <1>2 DEF decision_work_fn, CentralOnEpoch
<1>3. CASE CentralReboot
  BY <1>3, BootChannel DEF CentralReboot, Booted, CentralOnEpoch
<1> QED
  BY <1>1, <1>2, <1>3
     DEF Next, vars, central_side, Tick, Decision, hid_state_work_fn, Keepalive,
         keepalive_work_fn, send_on_pipe, Delivered, AckLost, LostOffChannel, LostOnChannel,
         PeripheralReboot

(* A tick that takes the peripheral to the central's epoch under the         *)
(* central's mask takes it to the channel the central listens on             *)
(* (hop_peripheral.c adopt_epoch, hop_central.c hop_to_next_epoch).          *)
AdoptionMeets ==
    [][(/\ Keepalive /\ peripheral'.epoch # peripheral.epoch
        /\ peripheral'.epoch = central.epoch /\ peripheral'.mask = central.mask)
           => peripheral'.index = central.index]_vars

(* Epoch and mask are all two ends must agree on: they never meet on an      *)
(* epoch and listen on different channels, for every pool and mask.          *)
THEOREM EpochsMeet == Spec => AdoptionMeets
<1>1. Init => CentralOnEpoch
  BY BootChannel DEF Init, Booted, CentralOnEpoch
<1>2. HopInv /\ CentralOnEpoch /\ [Next]_vars =>
          [(/\ Keepalive /\ peripheral'.epoch # peripheral.epoch
            /\ peripheral'.epoch = central.epoch /\ peripheral'.mask = central.mask)
               => peripheral'.index = central.index]_vars
  <2> SUFFICES ASSUME HopInv, CentralOnEpoch, Keepalive,
                      peripheral'.epoch # peripheral.epoch,
                      peripheral'.epoch = central.epoch, peripheral'.mask = central.mask
               PROVE  peripheral'.index = central.index
    BY DEF vars
  <2>1. PICK degrading \in BOOLEAN : keepalive_work_fn(degrading)
    BY DEF Keepalive
  <2>2. peripheral \in Peripherals
    BY DEF HopInv
  <2>3. ASSUME NEW acked, connected_window(acked, degrading) \/ lost_window(acked)
        PROVE  peripheral'.epoch = peripheral.epoch
    BY <2>2, <2>3 DEF connected_window, lost_window, Peripherals
  <2>4. adopt_epoch(settle_link_state)
    BY <2>1, <2>3 DEF keepalive_work_fn
  <2>5. peripheral'.index =
            hop_policy_channel_for_epoch_masked(peripheral'.epoch, peripheral'.mask)
    BY <2>4 DEF adopt_epoch
  <2> QED BY <2>5 DEF CentralOnEpoch
<1> QED
  BY <1>1, <1>2, HopInit, HopStep, CentralStep, PTL DEF Spec, AdoptionMeets
=============================================================================
