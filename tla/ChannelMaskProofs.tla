------------------------- MODULE ChannelMaskProofs -------------------------
(***************************************************************************)
(* For every pool, every choice of anchors, every floor and every sequence  *)
(* of windows, saves and restarts: anchors stay in use, masking respects    *)
(* the floor, scores and waits stay within their counters, and the central  *)
(* listens on a channel that is in use and changes its mask with its epoch. *)
(***************************************************************************)
EXTENDS ChannelMask, Integers, FiniteSetTheorems, WellFoundedInduction, TLAPS

(* The pool is finite, and so is every mask. *)
LEMMA MasksFinite ==
    \A mask \in SUBSET Pool : IsFiniteSet(mask) /\ Cardinality(mask) \in Nat
<1>1. IsFiniteSet(Pool)
  BY FS_Interval, PoolAssumption DEF Pool
<1> QED
  BY <1>1, FS_Subset, FS_CardinalityType

(* A larger mask has more channels. *)
LEMMA AtFloorGrows ==
    ASSUME NEW small \in SUBSET Pool, NEW large \in SUBSET Pool,
           small \subseteq large, AtFloor(small)
    PROVE  AtFloor(large)
<1>1. CASE small = Pool
  BY <1>1 DEF AtFloor
<1>2. CASE Cardinality(small) >= MinActive
  <2>1. Cardinality(small) <= Cardinality(large)
    BY MasksFinite, FS_Subset
  <2> QED
    BY <1>2, <2>1, MasksFinite, PolicyAssumption DEF AtFloor
<1> QED BY <1>1, <1>2 DEF AtFloor

(* One channel at most is the worst, and it is one of those asked for. *)
LEMMA OneWorst ==
    ASSUME NEW value \in [Pool -> Int], NEW threshold, NEW channels \in SUBSET Pool
    PROVE  /\ Worst(value, threshold, channels) \subseteq channels
           /\ \A c, d \in Worst(value, threshold, channels) : c = d
<1>1. Worst(value, threshold, channels) \subseteq channels
  BY DEF Worst
<1>2. ASSUME NEW c \in Worst(value, threshold, channels),
             NEW d \in Worst(value, threshold, channels), c # d
      PROVE  FALSE
  <2>1. c \in Nat /\ d \in Nat /\ value[c] \in Int /\ value[d] \in Int
    <3>1. c \in Pool /\ d \in Pool
      BY <1>1, <1>2
    <3> QED
      BY <3>1, PoolAssumption DEF Pool
  <2>2. value[c] > value[d] \/ (value[c] = value[d] /\ c < d)
    BY <1>2 DEF Worst
  <2>3. value[d] > value[c] \/ (value[d] = value[c] /\ d < c)
    BY <1>2 DEF Worst
  <2> QED BY <2>1, <2>2, <2>3
<1> QED BY <1>1, <1>2

(* Taking one channel out of a mask above the floor keeps the floor. *)
LEMMA MaskingKeepsFloor ==
    ASSUME NEW mask \in SUBSET Pool, AtFloor(mask), NEW worst \in SUBSET mask,
           \A c, d \in worst : c = d, worst # {} => Cardinality(mask) > MinActive
    PROVE  AtFloor(mask \ worst)
<1>1. CASE worst = {}
  <2>1. mask \ worst = mask
    BY <1>1
  <2> QED BY <2>1
<1>2. CASE worst # {}
  <2>1. PICK c \in worst : TRUE
    BY <1>2
  <2>2. worst = {c} /\ c \in mask /\ Cardinality(mask) > MinActive
    BY <1>2, <2>1
  <2>3. Cardinality(mask \ {c}) = Cardinality(mask) - 1
    BY <2>2, MasksFinite, FS_RemoveElement
  <2>4. Cardinality(mask \ worst) >= MinActive
    BY <2>2, <2>3, MasksFinite, PolicyAssumption
  <2> QED BY <2>4 DEF AtFloor
<1> QED BY <1>1, <1>2

(* Windows and survey rounds keep the anchors and the floor. *)
LEMMA WindowMasks ==
    ASSUME NEW bad \in [Pool -> Nat], NEW mask \in SUBSET Pool, AtFloor(mask)
    PROVE  /\ NewlyMasked(bad, mask) \subseteq mask \ Anchor
           /\ AtFloor(mask \ NewlyMasked(bad, mask))
<1> DEFINE worst == NewlyMasked(bad, mask)
<1>1. bad \in [Pool -> Int] /\ mask \ Anchor \in SUBSET Pool
  OBVIOUS
<1>2. worst \subseteq mask \ Anchor /\ \A c, d \in worst : c = d
  BY <1>1, OneWorst DEF NewlyMasked, hop_policy_worst_channel
<1>3. worst # {} => Cardinality(mask) > MinActive
  BY DEF NewlyMasked
<1> HIDE DEF worst
<1>4. AtFloor(mask \ worst)
  BY <1>2, <1>3, MaskingKeepsFloor
<1> QED BY <1>2, <1>4 DEF worst

LEMMA SurveyMasks ==
    ASSUME energy_dbm \in [Pool -> Int], NEW mask \in SUBSET Pool, AtFloor(mask)
    PROVE  /\ Surveyed(mask) \subseteq mask \ Anchor
           /\ AtFloor(mask \ Surveyed(mask))
<1> DEFINE worst == Surveyed(mask)
<1>1. mask \ Anchor \in SUBSET Pool
  OBVIOUS
<1>2. worst \subseteq mask \ Anchor /\ \A c, d \in worst : c = d
  BY <1>1, OneWorst DEF Surveyed, Loudest
<1>3. worst # {} => Cardinality(mask) > MinActive
  BY DEF Surveyed
<1> HIDE DEF worst
<1>4. AtFloor(mask \ worst)
  BY <1>2, <1>3, MaskingKeepsFloor
<1> QED BY <1>2, <1>4 DEF worst

(* Both ends land on a channel that is in use, from any epoch. *)
LEMMA ChannelInMask ==
    ASSUME NEW epoch \in Nat, NEW mask \in SUBSET Pool, mask # {}
    PROVE  hop_policy_channel_for_epoch_masked(epoch, mask) \in mask
<1> DEFINE base  == epoch % PoolCount
           steps == {s \in Pool : (base + s) % PoolCount \in mask}
<1>1. base \in 0..(PoolCount - 1)
  BY PoolAssumption
<1> HIDE DEF base
<1>2. PICK c \in mask : TRUE
  OBVIOUS
<1>3. c \in 0..(PoolCount - 1)
  BY <1>2 DEF Pool
<1>4. c % PoolCount = c /\ (c + PoolCount) % PoolCount = c
  BY <1>3, PoolAssumption
<1>5. steps # {}
  <2>1. CASE c >= base
    <3>1. c - base \in Pool /\ (base + (c - base)) = c
      BY <1>1, <1>3, <2>1, PoolAssumption DEF Pool
    <3>2. c - base \in steps
      BY <1>2, <1>4, <3>1
    <3> QED BY <3>2
  <2>2. CASE c < base
    <3>1. c + PoolCount - base \in Pool /\ base + (c + PoolCount - base) = c + PoolCount
      BY <1>1, <1>3, <2>2, PoolAssumption DEF Pool
    <3>2. c + PoolCount - base \in steps
      BY <1>2, <1>4, <3>1
    <3> QED BY <3>2
  <2> QED BY <1>1, <1>3, <2>1, <2>2, PoolAssumption
<1>6. \E s \in steps : \A t \in steps : s <= t
  <2>1. steps \subseteq Nat
    BY PoolAssumption DEF Pool
  <2> HIDE DEF steps
  <2>2. \E s \in steps : \A t \in steps : ~(<<t, s>> \in OpToRel(<, Nat))
    BY <1>5, <2>1, NatLessThanWellFounded, WFMin
  <2>3. \E s \in steps : \A t \in steps : ~(t < s)
    BY <2>1, <2>2 DEF OpToRel
  <2> QED
    BY <2>1, <2>3
<1>7. (CHOOSE s \in steps : \A t \in steps : s <= t) \in steps
  BY <1>6
<1> QED
  BY <1>5, <1>7 DEF hop_policy_channel_for_epoch_masked, base

-----------------------------------------------------------------------------
(* The inductive invariant: what the three properties need of each other and *)
(* of the scores.  The stored mask matters because a boot starts from it;    *)
(* until the boot is over the pool is live, under epoch 0.                   *)
MaskInv ==
    /\ active_mask \in Masks /\ pending_mask \in Masks /\ stored \in Masks
    /\ channel_bad \in [Pool -> Nat]
    /\ hop_epoch \in Nat /\ hop_index \in Pool
    /\ energy_dbm \in [Pool -> Int]
    /\ boot # "done" => active_mask = Pool /\ hop_epoch = 0
    /\ AnchorsKept /\ FloorKept /\ LiveChannelActive

(* The whole pool is in use at first. *)
LEMMA MaskInit == Init => MaskInv
<1> SUFFICES ASSUME Init PROVE MaskInv
  OBVIOUS
<1>1. /\ active_mask = Pool /\ pending_mask = Pool /\ stored = Pool
      /\ hop_epoch = 0 /\ hop_index = 0 /\ energy_dbm = Unsampled
      /\ channel_bad = [c \in Pool |-> 0]
  BY DEF Init
<1>2. 0 \in Pool /\ Anchor \subseteq Pool
  BY PoolAssumption DEF Pool
<1>3. energy_dbm \in [Pool -> Int] /\ channel_bad \in [Pool -> Nat]
  BY <1>1, PolicyAssumption DEF Unsampled
<1>4. AnchorsKept
  BY <1>1, <1>2 DEF AnchorsKept
<1>5. FloorKept /\ LiveChannelActive
  BY <1>1, <1>2 DEF FloorKept, AtFloor, LiveChannelActive
<1> QED
  BY <1>1, <1>2, <1>3, <1>4, <1>5 DEF MaskInv, Masks

(* A window scores, retests, masks and perhaps hops. *)
LEMMA WindowStep ==
    ASSUME MaskInv, NEW active \in BOOLEAN, NEW penalty \in Penalty, NEW hop \in BOOLEAN,
           decision_work_fn(active, penalty, hop)
    PROVE  MaskInv'
<1> DEFINE bad     == score_current_channel(active, penalty)
           bad_now == [c \in Pool |-> IF c \in Restored THEN 0 ELSE bad[c]]
           mask    == pending_mask \union Restored
           worst   == NewlyMasked(bad_now, mask)
<1>1. /\ pending_mask' = mask \ worst /\ channel_bad' = bad_now
      /\ stored' = stored /\ energy_dbm' = energy_dbm /\ boot' = "done"
  BY DEF decision_work_fn, recompute_mask, boot_vars
<1>2. bad_now \in [Pool -> Nat]
  <2>1. bad \in [Pool -> Nat]
    BY PolicyAssumption
       DEF MaskInv, score_current_channel, hop_policy_score_update, hop_policy_saturating_add
  <2> HIDE DEF bad
  <2> QED BY <2>1
<1>3. mask \in SUBSET Pool /\ pending_mask \in SUBSET Pool /\ pending_mask \subseteq mask
  BY DEF MaskInv, Masks, Restored
<1> HIDE DEF bad, bad_now, mask
<1>5. AtFloor(mask)
  BY <1>3, AtFloorGrows DEF MaskInv, FloorKept
<1>6. worst \subseteq mask \ Anchor /\ AtFloor(mask \ worst)
  BY <1>2, <1>3, <1>5, WindowMasks
<1> HIDE DEF worst
<1>7. pending_mask' \in Masks /\ Anchor \subseteq pending_mask' /\ AtFloor(pending_mask')
  BY <1>1, <1>3, <1>6 DEF MaskInv, AnchorsKept, Masks
<1>8. active_mask' = pending_mask' \/ active_mask' = active_mask
  BY DEF decision_work_fn, hop_to_next_epoch, commit_pending_mask
<1>9. active_mask' \in Masks /\ Anchor \subseteq active_mask' /\ AtFloor(active_mask')
  BY <1>7, <1>8 DEF MaskInv, AnchorsKept, FloorKept
<1>10. hop_epoch' \in Nat /\ hop_index' \in active_mask'
  <2>1. CASE hop
    <3>1. hop_epoch' \in Nat
      BY <2>1, PolicyAssumption DEF decision_work_fn, hop_to_next_epoch, MaskInv
    <3>2. hop_index' = hop_policy_channel_for_epoch_masked(hop_epoch', active_mask')
      BY <2>1 DEF decision_work_fn, hop_to_next_epoch
    <3>3. active_mask' # {} /\ active_mask' \in SUBSET Pool
      BY <1>9, PoolAssumption DEF Masks
    <3> QED BY <3>1, <3>2, <3>3, ChannelInMask
  <2>2. CASE ~hop
    BY <2>2 DEF decision_work_fn, hop_to_next_epoch, commit_pending_mask, MaskInv,
                LiveChannelActive
  <2> QED BY <2>1, <2>2
<1>11. AtFloor(stored') /\ stored' \in Masks /\ Anchor \subseteq stored'
  BY <1>1 DEF MaskInv, FloorKept, AnchorsKept
<1>12. /\ hop_index' \in Pool /\ channel_bad' \in [Pool -> Nat]
       /\ energy_dbm' \in [Pool -> Int] /\ boot' = "done"
  BY <1>1, <1>2, <1>9, <1>10 DEF Masks, MaskInv
<1> QED
  BY <1>7, <1>9, <1>10, <1>11, <1>12 DEF MaskInv, AnchorsKept, FloorKept, AtFloor, LiveChannelActive

(* A round of the survey takes out one channel, like a window. *)
LEMMA SurveyStep == MaskInv /\ hop_policy_survey_mask => MaskInv'
<1> SUFFICES ASSUME MaskInv, hop_policy_survey_mask PROVE MaskInv'
  OBVIOUS
<1>1. UNCHANGED <<active_mask, pending_valid, score_vars, hop_vars, boot_vars, store_vars>>
  BY DEF hop_policy_survey_mask
<1>2. pending_mask' = pending_mask \ Surveyed(pending_mask)
  BY DEF hop_policy_survey_mask
<1>3. /\ pending_mask \in SUBSET Pool /\ Anchor \subseteq pending_mask
      /\ AtFloor(pending_mask) /\ energy_dbm \in [Pool -> Int]
  BY DEF MaskInv, Masks, AnchorsKept, FloorKept
<1>4. pending_mask' \in Masks /\ Anchor \subseteq pending_mask' /\ AtFloor(pending_mask')
  BY <1>2, <1>3, SurveyMasks DEF Masks
<1>5. /\ Anchor \subseteq active_mask' /\ Anchor \subseteq stored'
      /\ AtFloor(active_mask') /\ AtFloor(stored') /\ LiveChannelActive'
  BY <1>1 DEF MaskInv, AnchorsKept, FloorKept, LiveChannelActive, hop_vars, store_vars
<1> QED
  BY <1>1, <1>4, <1>5 DEF MaskInv, AnchorsKept, FloorKept, AtFloor, LiveChannelActive,
                          score_vars, hop_vars, boot_vars, store_vars

(* The end of a boot adopts what the survey left. *)
LEMMA BootStep == MaskInv /\ hop_boot_mask => MaskInv'
<1> SUFFICES ASSUME MaskInv, hop_boot_mask PROVE MaskInv'
  OBVIOUS
<1>1. /\ active_mask' = pending_mask /\ pending_mask' = pending_mask
      /\ stored' = stored /\ channel_bad' = channel_bad /\ boot' = "done"
      /\ energy_dbm' \in [Pool -> Int]
  BY PolicyAssumption DEF hop_boot_mask, score_vars, store_vars, Unsampled
<1>2. pending_mask \in SUBSET Pool /\ Anchor \subseteq pending_mask /\ AtFloor(pending_mask)
  BY DEF MaskInv, Masks, AnchorsKept, FloorKept
<1>3. hop_epoch' \in Nat /\ hop_index' \in pending_mask
  <2>1. CASE pending_mask = Pool
    BY <2>1 DEF hop_boot_mask, hop_vars, MaskInv
  <2>2. CASE pending_mask # Pool
    <3>1. hop_epoch' \in Nat
      BY <2>2 DEF hop_boot_mask, MaskInv
    <3>2. hop_index' = hop_policy_channel_for_epoch_masked(hop_epoch', pending_mask)
      BY <2>2 DEF hop_boot_mask
    <3>3. pending_mask # {}
      BY <1>2, PoolAssumption
    <3> QED BY <1>2, <3>1, <3>2, <3>3, ChannelInMask
  <2> QED BY <2>1, <2>2
<1> QED
  BY <1>1, <1>2, <1>3
     DEF MaskInv, Masks, AnchorsKept, FloorKept, AtFloor, LiveChannelActive

(* A boot starts from the stored mask. *)
LEMMA RebootStep == MaskInv /\ Reboot => MaskInv'
<1> SUFFICES ASSUME MaskInv, Reboot PROVE MaskInv'
  OBVIOUS
<1>1. PersistedMask \in SUBSET Pool /\ Anchor \subseteq PersistedMask /\ AtFloor(PersistedMask)
  <2>1. CASE stored_valid
    <3>1. PersistedMask = stored \union Anchor
      BY <2>1 DEF PersistedMask
    <3>2. stored \in SUBSET Pool /\ AtFloor(stored)
      BY DEF MaskInv, Masks, FloorKept
    <3>3. PersistedMask \in SUBSET Pool /\ stored \subseteq PersistedMask
      BY <3>1, <3>2, PoolAssumption
    <3> QED BY <3>1, <3>2, <3>3, AtFloorGrows
  <2>2. CASE ~stored_valid
    BY <2>2, PoolAssumption DEF PersistedMask, AtFloor
  <2> QED BY <2>1, <2>2
<1>2. /\ active_mask' = Pool /\ pending_mask' = PersistedMask /\ stored' = stored
      /\ hop_epoch' = 0 /\ hop_index' = 0 /\ boot' = "sample"
      /\ channel_bad' = [c \in Pool |-> 0] /\ energy_dbm' \in [Pool -> Int]
  BY PolicyAssumption DEF Reboot, Unsampled
<1>3. 0 \in Pool /\ channel_bad' \in [Pool -> Nat]
  BY <1>2, PoolAssumption DEF Pool
<1>4. Anchor \subseteq Pool /\ AtFloor(Pool)
  BY PoolAssumption DEF AtFloor
<1> QED
  BY <1>1, <1>2, <1>3, <1>4
     DEF MaskInv, Masks, AnchorsKept, FloorKept, AtFloor, LiveChannelActive

(* Every step of the central keeps the invariant. *)
LEMMA MaskStep == MaskInv /\ [Next]_vars => MaskInv'
<1> SUFFICES ASSUME MaskInv, [Next]_vars PROVE MaskInv'
  OBVIOUS
<1>1. CASE Window
  BY <1>1, WindowStep DEF Window
<1>2. CASE mask_save_work_fn
  BY <1>2 DEF mask_save_work_fn, MaskInv, AnchorsKept, FloorKept, AtFloor, LiveChannelActive,
              mask_vars, score_vars, hop_vars, boot_vars
<1>3. CASE esb_survey_run
  <2>1. energy_dbm' \in [Pool -> Int] /\ boot # "done" /\ boot' # "done"
    BY <1>3, PolicyAssumption DEF esb_survey_run
  <2> QED
    BY <1>3, <2>1 DEF esb_survey_run, MaskInv, AnchorsKept, FloorKept, AtFloor, LiveChannelActive,
                      mask_vars, score_vars, hop_vars, store_vars
<1>4. CASE hop_policy_survey_mask
  BY <1>4, SurveyStep
<1>5. CASE hop_boot_mask
  BY <1>5, BootStep
<1>6. CASE Reboot
  BY <1>6, RebootStep
<1>7. CASE UNCHANGED vars
  BY <1>7 DEF vars, MaskInv, AnchorsKept, FloorKept, AtFloor, LiveChannelActive,
              mask_vars, score_vars, hop_vars, boot_vars, store_vars
<1> QED BY <1>1, <1>2, <1>3, <1>4, <1>5, <1>6, <1>7 DEF Next, Boot

(* MaskInv holds in every reachable state. *)
THEOREM MaskInvariant == Spec => []MaskInv
BY MaskInit, MaskStep, PTL DEF Spec

(* No window and no round of the boot survey takes an anchor out of the live *)
(* or the pending mask, and no save one out of the stored mask               *)
(* (hop_policy_worst_channel, hop_policy_survey_mask, mask_save_work_fn).    *)
THEOREM AnchorsAlwaysKept == Spec => []AnchorsKept
<1>1. MaskInv => AnchorsKept
  BY DEF MaskInv
<1> QED BY <1>1, MaskInvariant, PTL

(* Masking never goes below hop-min-active, across restarts as well.         *)
THEOREM FloorAlwaysKept == Spec => []FloorKept
<1>1. MaskInv => FloorKept
  BY DEF MaskInv
<1> QED BY <1>1, MaskInvariant, PTL

(* The live channel is always one the live mask has in use.                  *)
THEOREM LiveChannelAlwaysActive == Spec => []LiveChannelActive
<1>1. MaskInv => LiveChannelActive
  BY DEF MaskInv
<1> QED BY <1>1, MaskInvariant, PTL

(* A wait is never longer than its counter counts. *)
LEMMA WaitsFit ==
    ASSUME NEW level \in Nat
    PROVE  /\ hop_policy_retest_threshold(level) \in Int
           /\ hop_policy_retest_threshold(level) <= WindowMax
<1> DEFINE l == IF level > RetestLevelMax THEN RetestLevelMax ELSE level
           w == 2^l
<1>1. l \in Nat
  BY PolicyAssumption
<1> HIDE DEF l
<1>2. w \in Int
  <2>1. \A k \in Nat : 2^k \in Int
    OBVIOUS
  <2> QED BY <1>1, <2>1
<1> HIDE DEF w
<1>3. RestoreWindows * w \in Int
  BY <1>2, PolicyAssumption
<1> QED BY <1>3, PolicyAssumption DEF hop_policy_retest_threshold, l, w

(* Scores saturate, waits restart before their counters wrap. *)
LEMMA WindowTypes ==
    ASSUME TypeOK, NEW active \in BOOLEAN, NEW penalty \in Penalty, NEW hop \in BOOLEAN,
           decision_work_fn(active, penalty, hop)
    PROVE  /\ channel_bad' \in [Pool -> 0..ScoreMax]
           /\ channel_masked_windows' \in [Pool -> 0..(WindowMax - 1)]
           /\ channel_active_windows' \in [Pool -> 0..RestoreWindows]
           /\ channel_retest_level' \in [Pool -> 0..RetestLevelMax]
<1> DEFINE bad     == score_current_channel(active, penalty)
           bad_now == [c \in Pool |-> IF c \in Restored THEN 0 ELSE bad[c]]
           mask    == pending_mask \union Restored
           worst   == NewlyMasked(bad_now, mask)
           served  == [c \in Pool |-> channel_active_windows[c] + IF c \in Served(active) THEN 1 ELSE 0]
           level   == [c \in Pool |-> IF c \in Served(active) /\ served[c] >= RestoreWindows THEN 0
                                      ELSE channel_retest_level[c]]
<1>1. /\ channel_bad' = bad_now
      /\ channel_masked_windows' =
             [c \in Pool |-> IF c \in Restored \union worst THEN 0
                             ELSE IF c \notin pending_mask THEN Waited(c)
                             ELSE channel_masked_windows[c]]
      /\ channel_retest_level' =
             [c \in Pool |-> IF c \in worst /\ served[c] < RestoreWindows /\ level[c] < RetestLevelMax
                             THEN level[c] + 1 ELSE level[c]]
      /\ channel_active_windows' = [c \in Pool |-> IF c \in worst THEN 0 ELSE served[c]]
  BY DEF decision_work_fn, recompute_mask
<1>2. \A c \in Pool : /\ channel_bad[c] \in 0..ScoreMax
                      /\ channel_masked_windows[c] \in 0..(WindowMax - 1)
                      /\ channel_active_windows[c] \in 0..RestoreWindows
                      /\ channel_retest_level[c] \in 0..RetestLevelMax
  BY DEF TypeOK
<1>3. channel_bad' \in [Pool -> 0..ScoreMax]
  <2>1. \A score \in 0..ScoreMax : hop_policy_score_update(score, penalty) \in 0..ScoreMax
    <3>1. penalty \in Nat /\ ScoreMax \in Nat
      BY PolicyAssumption
    <3> QED BY <3>1 DEF hop_policy_score_update, hop_policy_saturating_add
  <2>2. bad \in [Pool -> 0..ScoreMax]
    BY <1>2, <2>1 DEF TypeOK, score_current_channel
  <2> HIDE DEF bad
  <2>3. 0 \in 0..ScoreMax
    BY PolicyAssumption
  <2> QED BY <1>1, <2>2, <2>3
<1>4. channel_masked_windows' \in [Pool -> 0..(WindowMax - 1)]
  <2>1. 0 \in 0..(WindowMax - 1)
    BY PolicyAssumption
  <2>2. ASSUME NEW c \in Pool \ pending_mask, c \notin Restored
        PROVE  Waited(c) \in 0..(WindowMax - 1)
    <3>1. channel_masked_windows[c] \in 0..(WindowMax - 1) /\ channel_retest_level[c] \in Nat
      BY <1>2, PolicyAssumption
    <3>2. Waited(c) = channel_masked_windows[c] + 1 /\ Waited(c) \in Nat
      <4>1. \A x \in Nat, m \in Nat : x < m => (x + 1) % (m + 1) = x + 1
        OBVIOUS
      <4>2. channel_masked_windows[c] \in Nat /\ channel_masked_windows[c] < WindowMax
        BY <3>1, PolicyAssumption
      <4> QED BY <4>1, <4>2, PolicyAssumption DEF Waited
    <3>3. ~(Waited(c) >= hop_policy_retest_threshold(channel_retest_level[c]))
      BY <2>2 DEF Restored
    <3> QED BY <3>1, <3>2, <3>3, WaitsFit, PolicyAssumption
  <2> HIDE DEF worst
  <2>3. ASSUME NEW c \in Pool PROVE channel_masked_windows'[c] \in 0..(WindowMax - 1)
    BY <1>1, <1>2, <2>1, <2>2
  <2> QED BY <1>1, <2>3
<1>5. \A c \in Pool : served[c] \in 0..RestoreWindows
  <2>1. \A c \in Served(active) : channel_active_windows[c] < RestoreWindows
    BY DEF Served
  <2> QED BY <1>2, <2>1, PolicyAssumption
<1>6. \A c \in Pool : level[c] \in 0..RetestLevelMax
  BY <1>2, PolicyAssumption
<1> HIDE DEF served, level, worst
<1>7. channel_active_windows' \in [Pool -> 0..RestoreWindows]
  BY <1>1, <1>5, PolicyAssumption
<1>8. channel_retest_level' \in [Pool -> 0..RetestLevelMax]
  BY <1>1, <1>6, PolicyAssumption
<1> QED BY <1>3, <1>4, <1>7, <1>8

(* Every step keeps the types, given the masks. *)
LEMMA TypesStep == MaskInv /\ MaskInv' /\ TypeOK /\ [Next]_vars => TypeOK'
<1> SUFFICES ASSUME MaskInv, MaskInv', TypeOK, [Next]_vars PROVE TypeOK'
  OBVIOUS
<1>1. /\ active_mask' \in Masks /\ pending_mask' \in Masks /\ stored' \in Masks
      /\ hop_index' \in Pool /\ energy_dbm' \in [Pool -> Int]
  BY DEF MaskInv
<1>2. ASSUME NEW active \in BOOLEAN, NEW penalty \in Penalty, NEW hop \in BOOLEAN,
             decision_work_fn(active, penalty, hop)
      PROVE  TypeOK'
  <2>1. /\ channel_bad' \in [Pool -> 0..ScoreMax]
        /\ channel_masked_windows' \in [Pool -> 0..(WindowMax - 1)]
        /\ channel_active_windows' \in [Pool -> 0..RestoreWindows]
        /\ channel_retest_level' \in [Pool -> 0..RetestLevelMax]
    BY <1>2, WindowTypes
  <2>2. hop_epoch' \in 0..(EpochCount - 1)
    BY <1>2, PolicyAssumption DEF decision_work_fn, hop_to_next_epoch, TypeOK
  <2>3. pending_valid' \in BOOLEAN /\ save_due' \in BOOLEAN /\ stored_valid' \in BOOLEAN
    BY <1>2 DEF decision_work_fn, hop_to_next_epoch, commit_pending_mask, schedule_mask_save, TypeOK
  <2>4. learned' \in Masks /\ reboots' \in 0..MaxReboots /\ boot' = boot
    BY <1>1, <1>2 DEF decision_work_fn, schedule_mask_save, boot_vars, TypeOK
  <2> QED BY <1>1, <2>1, <2>2, <2>3, <2>4 DEF TypeOK
<1>3. CASE mask_save_work_fn
  <2>1. UNCHANGED <<mask_vars, score_vars, hop_vars, boot_vars, learned, reboots>>
    BY <1>3 DEF mask_save_work_fn
  <2>2. save_due' = FALSE /\ stored_valid' = TRUE
    BY <1>3 DEF mask_save_work_fn
  <2> QED BY <1>1, <2>1, <2>2 DEF TypeOK, mask_vars, score_vars, hop_vars, boot_vars
<1>4. CASE Reboot
  <2>1. hop_epoch' \in 0..(EpochCount - 1)
    <3>1. hop_epoch' = 0
      BY <1>4 DEF Reboot
    <3> QED BY <3>1, PolicyAssumption
  <2>2. /\ channel_bad' \in [Pool -> 0..ScoreMax]
        /\ channel_masked_windows' \in [Pool -> 0..(WindowMax - 1)]
        /\ channel_active_windows' \in [Pool -> 0..RestoreWindows]
        /\ channel_retest_level' \in [Pool -> 0..RetestLevelMax]
    BY <1>4, PolicyAssumption DEF Reboot
  <2>3. reboots' \in 0..MaxReboots
    BY <1>4, PolicyAssumption DEF Reboot, TypeOK
  <2> QED BY <1>1, <1>4, <2>1, <2>2, <2>3 DEF Reboot, TypeOK
<1>5. CASE esb_survey_run \/ hop_policy_survey_mask
  BY <1>1, <1>5 DEF esb_survey_run, hop_policy_survey_mask, TypeOK, mask_vars, score_vars, hop_vars,
                    boot_vars, store_vars
<1>6. CASE hop_boot_mask
  <2>1. hop_epoch' \in 0..(EpochCount - 1)
    <3>1. hop_epoch = 0
      BY <1>6 DEF hop_boot_mask, MaskInv
    <3>2. hop_epoch' \in {0, 1}
      BY <1>6, <3>1 DEF hop_boot_mask, hop_vars
    <3> QED BY <3>2, PolicyAssumption
  <2>2. boot' = "done" /\ UNCHANGED <<pending_valid, score_vars, store_vars, reboots>>
    BY <1>6 DEF hop_boot_mask
  <2> QED BY <1>1, <2>1, <2>2 DEF TypeOK, score_vars, store_vars
<1>7. CASE UNCHANGED vars
  BY <1>7 DEF vars, TypeOK, mask_vars, score_vars, hop_vars, boot_vars, store_vars
<1> QED BY <1>2, <1>3, <1>4, <1>5, <1>6, <1>7 DEF Next, Window, Boot

(* Scores never leave their byte, a wait ends before its 16-bit counter      *)
(* wraps, and the retest ladder and the epoch stay in range, across restarts *)
(* (hop_policy_saturating_add, hop_policy_retest_threshold, recompute_mask). *)
THEOREM CountersFit == Spec => []TypeOK
<1>1. Init => TypeOK
  <2>1. /\ 0 \in Pool /\ 0 \in 0..ScoreMax /\ 0 \in 0..(WindowMax - 1) /\ 0 \in 0..RestoreWindows
        /\ 0 \in 0..RetestLevelMax /\ 0 \in 0..(EpochCount - 1) /\ 0 \in 0..MaxReboots
    BY PoolAssumption, PolicyAssumption DEF Pool
  <2>2. Pool \in Masks
    BY DEF Masks
  <2>3. Unsampled \in [Pool -> Int]
    BY PolicyAssumption DEF Unsampled
  <2> QED BY <2>1, <2>2, <2>3 DEF Init, TypeOK
<1> QED BY <1>1, MaskInvariant, TypesStep, PTL DEF Spec

(* Between two restarts the live mask and the channel change in the step     *)
(* that moves the epoch and in no other, and a new epoch is served on the    *)
(* channel it has under the live mask (commit_pending_mask,                  *)
(* hop_to_next_epoch, hop_boot_mask).                                        *)
THEOREM MaskChangesWithEpoch == Spec => MaskRidesEpoch
<1> DEFINE Rides ==
             IF hop_epoch' = hop_epoch THEN UNCHANGED <<active_mask, hop_index>>
             ELSE hop_index' = hop_policy_channel_for_epoch_masked(hop_epoch', active_mask')
<1>1. MaskInv /\ TypeOK /\ [Next]_vars => [reboots' = reboots => Rides]_vars
  <2> SUFFICES ASSUME MaskInv, TypeOK, Next, reboots' = reboots PROVE Rides
    OBVIOUS
  <2>1. ~Reboot
    BY PolicyAssumption DEF Reboot, TypeOK
  <2>2. CASE mask_save_work_fn \/ esb_survey_run \/ hop_policy_survey_mask
    BY <2>2 DEF mask_save_work_fn, esb_survey_run, hop_policy_survey_mask, mask_vars, hop_vars
  <2>3. CASE hop_boot_mask
    <3>1. CASE pending_mask = Pool
      BY <2>3, <3>1 DEF hop_boot_mask, hop_vars, MaskInv
    <3>2. CASE pending_mask # Pool
      BY <2>3, <3>2 DEF hop_boot_mask, MaskInv
    <3> QED BY <3>1, <3>2
  <2>4. CASE Window
    <3>1. PICK active \in BOOLEAN, penalty \in Penalty, hop \in BOOLEAN :
              decision_work_fn(active, penalty, hop)
      BY <2>4 DEF Window
    <3>2. CASE hop
      <4>1. /\ hop_epoch' = (hop_epoch + 1) % EpochCount
            /\ hop_index' = hop_policy_channel_for_epoch_masked(hop_epoch', active_mask')
        BY <3>1, <3>2 DEF decision_work_fn, hop_to_next_epoch
      <4>2. \A n \in Nat \ {0, 1} : \A e \in 0..(n - 1) : (e + 1) % n # e
        OBVIOUS
      <4>3. hop_epoch' # hop_epoch
        BY <4>1, <4>2, PolicyAssumption DEF TypeOK
      <4> QED BY <4>1, <4>3
    <3>3. CASE ~hop
      BY <3>1, <3>3 DEF decision_work_fn, hop_to_next_epoch, commit_pending_mask
    <3> QED BY <3>2, <3>3
  <2> QED BY <2>1, <2>2, <2>3, <2>4 DEF Next, Boot
<1> QED BY <1>1, MaskInvariant, CountersFit, PTL DEF Spec, MaskRidesEpoch
=============================================================================
