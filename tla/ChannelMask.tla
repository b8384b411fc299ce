---------------------------- MODULE ChannelMask ----------------------------
(***************************************************************************)
(* Adaptive frequency hopping on the central (hop_central.c, hop_policy.c): *)
(* the score of every channel, the mask of channels in use, the retest      *)
(* ladder that gives a masked channel another chance, and the mask kept in  *)
(* settings across a restart, where a survey of the spectrum joins it.      *)
(*                                                                          *)
(* A window is one decision tick.  Whether some pipe polled in it, how bad  *)
(* it was and whether the vote or the silent walk hops is an input here.    *)
(***************************************************************************)
EXTENDS Integers, FiniteSets

CONSTANTS
    PoolCount,       \* HOP_COUNT
    Anchor,          \* indices hop_is_anchor_index accepts
    MinActive,       \* hop-min-active
    MaskThreshold,   \* hop-mask-threshold
    RestoreWindows,  \* hop-restore-windows
    RetestLevelMax,  \* HOP_POLICY_RETEST_LEVEL_MAX
    Penalty,         \* graded loss of a window, HOP_POLICY_MAX_LOSS_PENALTY at most
    ScoreMax,        \* UINT8_MAX, where a score saturates
    WindowMax,       \* UINT16_MAX, where a wait saturates and its counter wraps
    EpochCount,      \* values of the uint8_t epoch
    Energies,        \* what the boot survey samples on a channel
    SurveyThreshold, \* survey-threshold-dbm
    MaxReboots       \* bound: restarts of the central

Pool == 0..(PoolCount - 1)

ASSUME PoolAssumption ==
    /\ PoolCount \in Nat \ {0} /\ Anchor \subseteq Pool /\ Anchor # {}
ASSUME PolicyAssumption ==
    /\ MinActive \in Nat /\ MaskThreshold \in Nat \ {0}
    /\ WindowMax \in Nat /\ RestoreWindows \in 1..WindowMax
    /\ RetestLevelMax \in Nat /\ Penalty \subseteq Nat /\ ScoreMax \in Nat
    /\ EpochCount \in Nat \ {0, 1} /\ MaxReboots \in Nat
    /\ Energies \subseteq Int /\ SurveyThreshold \in Int

VARIABLES
    active_mask, pending_mask, pending_valid,
    channel_bad, channel_masked_windows, channel_active_windows, channel_retest_level,
    hop_epoch, hop_index,
    boot, energy_dbm,      \* how far hop_boot_mask is, and what its survey sampled
    stored, stored_valid,  \* esb_hop/mask in settings
    save_due,              \* mask_save_work is scheduled
    learned,               \* history: the mask after the last change recompute_mask made
    reboots

mask_vars  == <<active_mask, pending_mask, pending_valid>>
score_vars == <<channel_bad, channel_masked_windows, channel_active_windows, channel_retest_level>>
hop_vars   == <<hop_epoch, hop_index>>
boot_vars  == <<boot, energy_dbm>>
store_vars == <<stored, stored_valid, save_due, learned>>
vars == <<mask_vars, score_vars, hop_vars, boot_vars, store_vars, reboots>>

-----------------------------------------------------------------------------
(* hop_policy.c *)

(* Mutant: the score does not saturate. *)
add_past_max(value, add) == value + add

hop_policy_saturating_add(value, add) == IF value + add > ScoreMax THEN ScoreMax ELSE value + add

hop_policy_score_update(score, penalty) ==
    IF penalty = 0 THEN (IF score = 0 THEN 0 ELSE score - 1)   \* CHANNEL_BAD_DECAY
    ELSE hop_policy_saturating_add(score, penalty)

(* The highest value at the threshold or above, the lowest index of a tie.   *)
(* Empty when no channel qualifies.                                          *)
Worst(value, threshold, channels) ==
    LET Candidates == {c \in channels : value[c] >= threshold}
    IN  {c \in Candidates : \A d \in Candidates \ {c} :
            value[c] > value[d] \/ (value[c] = value[d] /\ c < d)}

hop_policy_worst_channel(bad, mask) == Worst(bad, MaskThreshold, mask \ Anchor)

(* Mutant: the wait is not capped. *)
threshold_past_counter(level) ==
    RestoreWindows * 2^(IF level > RetestLevelMax THEN RetestLevelMax ELSE level)

(* The wait doubles with the level and saturates where its counter would wrap. *)
hop_policy_retest_threshold(level) ==
    LET windows == RestoreWindows * 2^(IF level > RetestLevelMax THEN RetestLevelMax ELSE level)
    IN  IF windows > WindowMax THEN WindowMax ELSE windows

(* Mutant: the epoch's own channel, in use or not. *)
channel_ignores_mask(epoch, mask) == epoch % PoolCount

(* The first active channel from the epoch's own on, around the pool. *)
hop_policy_channel_for_epoch_masked(epoch, mask) ==
    LET base  == epoch % PoolCount
        steps == {s \in Pool : (base + s) % PoolCount \in mask}
    IN  IF steps = {} THEN base
        ELSE (base + (CHOOSE s \in steps : \A t \in steps : s <= t)) % PoolCount

-----------------------------------------------------------------------------
(* One decision tick: score, recompute, perhaps hop.  The helpers take the   *)
(* scores and masks the earlier ones of the same tick left behind.           *)

score_current_channel(active, penalty) ==
    IF ~active THEN channel_bad
    ELSE [channel_bad EXCEPT ![hop_index] = hop_policy_score_update(@, penalty)]

(* Windows a masked channel has waited, this one included. *)
Waited(c) == (channel_masked_windows[c] + 1) % (WindowMax + 1)

(* Channels whose wait ends with this window go back in, with a clean score. *)
Restored ==
    {c \in Pool \ pending_mask :
        Waited(c) >= hop_policy_retest_threshold(channel_retest_level[c])}

(* Windows served live so far: only the live channel of an active window     *)
(* counts, and a whole restore period resets the retest backoff.             *)
Served(active) ==
    {c \in pending_mask : c = hop_index /\ active /\ channel_active_windows[c] < RestoreWindows}

(* Mutant: the floor is tested one channel too late. *)
masks_below_floor(bad, mask) ==
    IF Cardinality(mask) >= MinActive THEN hop_policy_worst_channel(bad, mask) ELSE {}

(* The channel this window takes out of the pool, if any. *)
NewlyMasked(bad, mask) ==
    IF Cardinality(mask) > MinActive THEN hop_policy_worst_channel(bad, mask) ELSE {}

recompute_mask(active, bad) ==
    LET bad_now == [c \in Pool |-> IF c \in Restored THEN 0 ELSE bad[c]]
        mask    == pending_mask \union Restored
        worst   == NewlyMasked(bad_now, mask)
        served  == [c \in Pool |-> channel_active_windows[c] + IF c \in Served(active) THEN 1 ELSE 0]
        level   == [c \in Pool |-> IF c \in Served(active) /\ served[c] >= RestoreWindows THEN 0
                                   ELSE channel_retest_level[c]]
    IN  /\ pending_mask' = mask \ worst
        /\ channel_bad' = bad_now
        /\ channel_masked_windows' =
               [c \in Pool |-> IF c \in Restored \union worst THEN 0
                               ELSE IF c \notin pending_mask THEN Waited(c)
                               ELSE channel_masked_windows[c]]
        /\ channel_retest_level' =
               [c \in Pool |-> IF c \in worst /\ served[c] < RestoreWindows
                                  /\ level[c] < RetestLevelMax
                               THEN level[c] + 1 ELSE level[c]]
        /\ channel_active_windows' = [c \in Pool |-> IF c \in worst THEN 0 ELSE served[c]]

(* A restored channel starts clean, so it is never masked again in the same  *)
(* window: the mask changed exactly if some channel moved.                   *)
MaskChanged == pending_mask' # pending_mask

schedule_mask_save ==
    /\ save_due' = (save_due \/ MaskChanged)
    /\ learned' = IF MaskChanged THEN pending_mask' ELSE learned

(* Mutant: the new mask is live at once, hop or no hop. *)
commit_every_window(hop) == active_mask' = pending_mask' /\ pending_valid' = FALSE

(* Only a hop makes the pending mask the live one. *)
commit_pending_mask(hop) ==
    LET valid == pending_valid \/ MaskChanged
    IN  /\ active_mask' = IF hop /\ valid THEN pending_mask' ELSE active_mask
        /\ pending_valid' = (valid /\ ~hop)

hop_to_next_epoch(hop) ==
    /\ commit_pending_mask(hop)
    /\ hop_epoch' = IF hop THEN (hop_epoch + 1) % EpochCount ELSE hop_epoch
    /\ hop_index' = IF hop THEN hop_policy_channel_for_epoch_masked(hop_epoch', active_mask')
                    ELSE hop_index

decision_work_fn(active, penalty, hop) ==
    /\ boot = "done"
    /\ ~active => penalty = 0
    /\ recompute_mask(active, score_current_channel(active, penalty))
    /\ schedule_mask_save
    /\ hop_to_next_epoch(hop)
    /\ UNCHANGED <<stored, stored_valid, boot_vars, reboots>>

(* Sixty seconds after the last change: the live mask goes to settings. *)
mask_save_work_fn ==
    /\ save_due /\ boot = "done"
    /\ save_due' = FALSE
    /\ stored' = active_mask /\ stored_valid' = TRUE
    /\ UNCHANGED <<mask_vars, score_vars, hop_vars, boot_vars, learned, reboots>>

-----------------------------------------------------------------------------
(* Boot, before any traffic: the whole pool less what the stored mask has    *)
(* benched, then the survey benches the loudest channel, again and again.    *)

Unsampled == [c \in Pool |-> SurveyThreshold]

PersistedMask == IF stored_valid THEN stored \union Anchor ELSE Pool

(* Mutant: a loud anchor is benched as well. *)
loudest_of_all(mask) == Worst(energy_dbm, SurveyThreshold, mask)

Loudest(mask) == Worst(energy_dbm, SurveyThreshold, mask \ Anchor)

(* Mutant: the floor is tested one channel too late. *)
survey_below_floor(mask) == IF Cardinality(mask) >= MinActive THEN Loudest(mask) ELSE {}

(* The channel the next round of the survey takes out, if any. *)
Surveyed(mask) == IF Cardinality(mask) > MinActive THEN Loudest(mask) ELSE {}

esb_survey_run ==
    /\ boot = "sample"
    /\ boot' = "survey" /\ energy_dbm' \in [Pool -> Energies]
    /\ UNCHANGED <<mask_vars, score_vars, hop_vars, store_vars, reboots>>

hop_policy_survey_mask ==
    /\ boot = "survey" /\ Surveyed(pending_mask) # {}
    /\ pending_mask' = pending_mask \ Surveyed(pending_mask)
    /\ UNCHANGED <<active_mask, pending_valid, score_vars, hop_vars, boot_vars, store_vars, reboots>>

(* A mask that benches nothing keeps epoch 0: a restart is then no change to *)
(* a peripheral.  Any other is adopted in place under a new epoch.           *)
hop_boot_mask ==
    /\ boot = "survey" /\ Surveyed(pending_mask) = {}
    /\ boot' = "done" /\ energy_dbm' = Unsampled
    /\ active_mask' = pending_mask
    /\ IF pending_mask = Pool THEN UNCHANGED hop_vars
       ELSE /\ hop_epoch' = hop_epoch + 1
            /\ hop_index' = hop_policy_channel_for_epoch_masked(hop_epoch', pending_mask)
    /\ UNCHANGED <<pending_mask, pending_valid, score_vars, store_vars, reboots>>

Reboot ==
    /\ reboots < MaxReboots
    /\ reboots' = reboots + 1
    /\ boot' = "sample" /\ energy_dbm' = Unsampled
    /\ active_mask' = Pool /\ pending_mask' = PersistedMask /\ pending_valid' = FALSE
    /\ hop_epoch' = 0 /\ hop_index' = 0
    /\ channel_bad' = [c \in Pool |-> 0]
    /\ channel_masked_windows' = [c \in Pool |-> 0]
    /\ channel_active_windows' = [c \in Pool |-> 0]
    /\ channel_retest_level' = [c \in Pool |-> 0]
    /\ save_due' = FALSE
    /\ UNCHANGED <<stored, stored_valid, learned>>

Init ==
    /\ boot = "sample" /\ energy_dbm = Unsampled
    /\ active_mask = Pool /\ pending_mask = Pool /\ pending_valid = FALSE
    /\ channel_bad = [c \in Pool |-> 0]
    /\ channel_masked_windows = [c \in Pool |-> 0]
    /\ channel_active_windows = [c \in Pool |-> 0]
    /\ channel_retest_level = [c \in Pool |-> 0]
    /\ hop_epoch = 0 /\ hop_index = 0
    /\ stored = Pool /\ stored_valid = FALSE /\ save_due = FALSE /\ learned = Pool
    /\ reboots = 0

Window == \E active \in BOOLEAN, penalty \in Penalty, hop \in BOOLEAN :
              decision_work_fn(active, penalty, hop)

Boot == esb_survey_run \/ hop_policy_survey_mask \/ hop_boot_mask

Next == Window \/ mask_save_work_fn \/ Boot \/ Reboot

Spec == Init /\ [][Next]_vars

(* A boot ends, the tick reschedules itself and the save timer fires. *)
FairSpec == Spec /\ WF_vars(Boot) /\ WF_vars(Window) /\ WF_vars(mask_save_work_fn)

-----------------------------------------------------------------------------
Masks == SUBSET Pool

(* A score stays within its byte, and a wait ends before its counter wraps. *)
TypeOK ==
    /\ active_mask \in Masks /\ pending_mask \in Masks /\ stored \in Masks /\ learned \in Masks
    /\ pending_valid \in BOOLEAN /\ stored_valid \in BOOLEAN /\ save_due \in BOOLEAN
    /\ channel_bad \in [Pool -> 0..ScoreMax]
    /\ channel_masked_windows \in [Pool -> 0..(WindowMax - 1)]
    /\ channel_active_windows \in [Pool -> 0..RestoreWindows]
    /\ channel_retest_level \in [Pool -> 0..RetestLevelMax]
    /\ hop_epoch \in 0..(EpochCount - 1) /\ hop_index \in Pool
    /\ boot \in {"sample", "survey", "done"} /\ energy_dbm \in [Pool -> Int]
    /\ reboots \in 0..MaxReboots

(* An anchor is in use under every mask: live, pending, stored, and after    *)
(* each round of the boot survey, however loud it is.  That is the spectrum  *)
(* both ends can always fall back on.                                        *)
AnchorsKept == \A mask \in {active_mask, pending_mask, stored} : Anchor \subseteq mask

(* Masking never goes below hop-min-active, neither by the windows nor by a  *)
(* boot that adds its survey to the mask of the last session, channel by     *)
(* channel.                                                                  *)
AtFloor(mask) == mask = Pool \/ Cardinality(mask) >= MinActive
FloorKept == AtFloor(active_mask) /\ AtFloor(pending_mask) /\ AtFloor(stored)

(* The central listens on a channel its own live mask has in use.            *)
LiveChannelActive == hop_index \in active_mask

(* While the epoch stays, so do the live mask and the channel; a new epoch   *)
(* is served on the channel it has under the live mask (hop_to_next_epoch,   *)
(* hop_boot_mask).  A peripheral that knows both finds the central there.    *)
MaskRidesEpoch ==
    [][reboots' = reboots =>
          IF hop_epoch' = hop_epoch THEN UNCHANGED <<active_mask, hop_index>>
          ELSE hop_index' = hop_policy_channel_for_epoch_masked(hop_epoch', active_mask')]_vars

(* The retest ladder: a masked channel is always given another chance.       *)
EveryChannelRetested == \A c \in Pool \ Anchor : (c \notin pending_mask) ~> (c \in pending_mask)

(* Once the debounced save has run, settings hold the mask that was learned  *)
(* (README: "the mask learned last session (persisted to settings ...)").    *)
(* It does not hold: a save before the next hop stores the mask from before  *)
(* the change, and the hop schedules no other.  No run checks it.            *)
SavedIsLearned == (stored_valid /\ ~save_due /\ reboots = 0) => stored = learned
=============================================================================
