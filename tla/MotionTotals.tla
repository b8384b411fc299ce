---------------------------- MODULE MotionTotals ----------------------------
(***************************************************************************)
(* Lossy pointer motion of one peripheral.  Its packets ask for no ACK, so  *)
(* an axis is sent as a running total and the central forwards differences: *)
(* what one packet lost arrives with the next.  The last packet of a burst  *)
(* has no next, so the keepalive carries the low half of every total and    *)
(* heals what is missing once the axis has been quiet for a hop window.     *)
(*                                                                          *)
(* Totals wrap at Total (2^32 in the code) and the keepalive's at Short     *)
(* (2^16); a gap past Resync (8192) is dropped and only moves the baseline. *)
(* As in InputKeys the link keeps order, never copies and may lose.         *)
(***************************************************************************)
EXTENDS Integers, Sequences, FiniteSets

CONSTANTS
    Axes,            \* (reg, code) pairs of the lossy axes
    Deltas,          \* motion of one report on one axis
    Total, Short,    \* moduli of the total and of its keepalive part
    Resync,          \* ESB_MOTION_RESYNC_COUNTS
    MotionSlots,     \* MOTION_SLOT_COUNT, one per lossy-codes pair
    MotionTracks,    \* MOTION_TRACKS_MAX
    BatchMax,        \* ESB_BATCH_MAX
    TxFifoSize,      \* CONFIG_ESB_TX_FIFO_SIZE
    Starts,          \* motion the peripheral made before the central started
    MaxMoves,        \* bound: reports on one axis since
    MaxReboots       \* bound: restarts of the peripheral

ASSUME ModulusAssumption ==
    /\ Resync \in Nat \ {0} /\ Short \in Nat /\ Total \in Nat
    /\ 2 * Resync < Short /\ \E n \in 1..Total : Total = n * Short
ASSUME MotionBounds ==
    /\ Deltas \subseteq Int /\ MotionSlots \in Nat /\ MotionTracks \in Nat
    /\ BatchMax \in Nat \ {0, 1} /\ TxFifoSize \in Nat \ {0}
    /\ MaxMoves \in Nat /\ MaxReboots \in Nat /\ Starts \subseteq Int

(* The short total shows a gap below half its modulus only (32768 counts in  *)
(* the code).  A larger one, all of it lost, would leave the baseline a      *)
(* whole Short off; a user does not outrun it between two samples that       *)
(* arrive, and the bounds stay below it.                                     *)
Abs(x) == IF x < 0 THEN -x ELSE x
ASSUME ReachAssumption ==
    \E reach \in 0..Short : /\ \A delta \in Deltas : Abs(delta) <= reach
                            /\ 2 * (MaxMoves * reach) < Short
(* A peripheral that had been moving has a slot for every axis. *)
ASSUME StartAssumption ==
    IsFiniteSet(Axes) /\ (Starts \subseteq {0} \/ Cardinality(Axes) <= MotionSlots)

VARIABLES
    travelled, moves,  \* history: true position of each axis, reports so far
    boot,              \* history: restarts of the peripheral so far
    motion_slots,      \* esb_peripheral.c: total of each claimed slot
    batch,             \* esb_batch.c
    tx_fifo,           \* packets on their way
    tracked_motions,   \* central_input.c: last_total of each used track
    place,             \* history: the sample applied last, with the boot of its baseline
    quiet,             \* a hop window passed since motion was heard
    input_reset, pipe_heard, pipe_stale,
    miscounted         \* history: axes that forwarded something else than was missing

peripheral_vars == <<travelled, moves, boot, motion_slots, batch>>
central_vars    == <<tracked_motions, place, quiet, input_reset, miscounted>>
vars == <<peripheral_vars, tx_fifo, central_vars, pipe_heard, pipe_stale>>

(* The two's-complement reading of x modulo m. *)
Signed(x, m) == IF 2 * (x % m) < m THEN x % m ELSE (x % m) - m

Sample(a) == [boot |-> boot, move |-> moves[a], at |-> travelled[a]]
Unseen    == [boot |-> 0, move |-> 0, at |-> 0]

-----------------------------------------------------------------------------
(* The peripheral. *)

(* Mutant: a packet overtakes those that wait. *)
submit_in_front(packet) ==
    tx_fifo' = IF Len(tx_fifo) < TxFifoSize THEN <<packet>> \o tx_fifo ELSE tx_fifo

Submit(packet) ==
    tx_fifo' = IF Len(tx_fifo) < TxFifoSize THEN Append(tx_fifo, packet) ELSE tx_fifo

(* An axis without a slot stays a plain delta. *)
motion_slot_for(a) ==
    a \in DOMAIN motion_slots \/ Cardinality(DOMAIN motion_slots) < MotionSlots

SlotTotal(a) == IF a \in DOMAIN motion_slots THEN motion_slots[a] ELSE 0

(* Mutant: a batch leaves on the sync event only. *)
flush_on_sync_only(events, sync) == sync

batch_flush_due(events, sync) == sync \/ Len(events) >= BatchMax

(* A report names an axis once and ends with sync. *)
esb_peripheral_report_event(a, delta, sync) ==
    LET total  == (SlotTotal(a) + delta) % Total
        event  == [axis |-> a, total |-> motion_slot_for(a),
                   value |-> IF motion_slot_for(a) THEN total ELSE delta,
                   sample |-> [boot |-> boot, move |-> moves[a] + 1, at |-> travelled[a] + delta]]
        events == Append(batch, event)
    IN  /\ moves[a] < MaxMoves
        /\ \A i \in 1..Len(batch) : batch[i].axis # a
        /\ travelled' = [travelled EXCEPT ![a] = @ + delta]
        /\ moves' = [moves EXCEPT ![a] = @ + 1]
        /\ motion_slots' = IF ~motion_slot_for(a) THEN motion_slots
                           ELSE [b \in DOMAIN motion_slots \union {a} |->
                                    IF b = a THEN total ELSE motion_slots[b]]
        /\ IF batch_flush_due(events, sync)
           THEN batch' = <<>> /\ Submit([kind |-> "motion", events |-> events])
           ELSE batch' = events /\ UNCHANGED tx_fifo
        /\ UNCHANGED <<boot, central_vars, pipe_heard, pipe_stale>>

motion_totals_snapshot ==
    [a \in DOMAIN motion_slots |-> [short |-> motion_slots[a] % Short, sample |-> Sample(a)]]

keepalive_work_fn ==
    /\ Submit([kind |-> "keepalive", totals |-> motion_totals_snapshot])
    /\ UNCHANGED <<peripheral_vars, central_vars, pipe_heard, pipe_stale>>

(* Motion dies alone on the air; a failed keepalive flushes the FIFO.        *)
Lost ==
    /\ tx_fifo # <<>>
    /\ tx_fifo' \in {Tail(tx_fifo), <<>>}
    /\ UNCHANGED <<peripheral_vars, central_vars, pipe_heard, pipe_stale>>

PeripheralReboot ==
    /\ boot < MaxReboots
    /\ boot' = boot + 1
    /\ travelled' = [a \in Axes |-> 0]
    /\ motion_slots' = <<>> /\ batch' = <<>> /\ tx_fifo' = <<>>
    /\ UNCHANGED <<moves, central_vars, pipe_heard, pipe_stale>>

-----------------------------------------------------------------------------
(* The central's rx thread.  A step works on the tracks as a function of     *)
(* axes; an axis that is not in its domain has no baseline.                  *)

apply_input_reset == IF input_reset THEN <<>> ELSE tracked_motions

(* Mutant: a gap past the cap leaves the baseline where it was. *)
gap_keeps_baseline(last, gap) ==
    IF Abs(gap) > Resync THEN [last |-> last, delta |-> 0]
    ELSE [last |-> (last + gap) % Total, delta |-> gap]

(* Adopts the gap either way; forwards it unless it is past the cap. *)
esb_motion_track_gap(last, gap) ==
    [last |-> (last + gap) % Total, delta |-> IF Abs(gap) > Resync THEN 0 ELSE gap]

esb_motion_track_delta(last, total) == esb_motion_track_gap(last, Signed(total - last, Total))

(* Mutant: the 16-bit gap is not sign-extended. *)
short_delta_unsigned(last, short) == esb_motion_track_gap(last, (short - last) % Short)

esb_motion_track_short_delta(last, short) ==
    esb_motion_track_gap(last, Signed(short - last, Short))

(* History: what a sample of an axis with a baseline should have forwarded.  *)
(* A restart the central has not noticed leaves it with the baseline of      *)
(* another boot, to which no sample compares.                                *)
Missing(a, sample) == IF Abs(sample.at - place[a].at) > Resync THEN 0
                      ELSE sample.at - place[a].at

Applied(a, sample) == IF place[a] = Unseen THEN sample
                      ELSE [sample EXCEPT !.boot = place[a].boot]

Miscounts(a, sample, delta) ==
    place[a] # Unseen /\ place[a].boot = sample.boot /\ delta # Missing(a, sample)

(* One packet of totals, in order, each axis at most once.  The first sample *)
(* of a track is its baseline; a full table forwards nothing.  After a reset *)
(* the axis counts as unseen again.                                          *)
EventOf(events, a) == CHOOSE e \in {events[i] : i \in 1..Len(events)} : e.axis = a

Claimed(events, tracks) ==
    {a \in Axes : \E i \in 1..Len(events) :
        /\ events[i].axis = a /\ events[i].total /\ a \notin DOMAIN tracks
        /\ Cardinality(DOMAIN tracks)
               + Cardinality({j \in 1..i : events[j].total /\ events[j].axis \notin DOMAIN tracks})
               <= MotionTracks}

central_input_deliver_event(events, tracks) ==
    LET sent  == {a \in Axes : \E i \in 1..Len(events) : events[i].axis = a /\ events[i].total}
        known == sent \intersect DOMAIN tracks
        step(a) == esb_motion_track_delta(tracks[a], EventOf(events, a).value)
        new   == Claimed(events, tracks)
    IN  /\ tracked_motions' = [a \in DOMAIN tracks \union new |->
               IF a \in known THEN step(a).last
               ELSE IF a \in new THEN EventOf(events, a).value ELSE tracks[a]]
        /\ place' = [a \in Axes |->
               IF a \in sent /\ input_reset THEN EventOf(events, a).sample
               ELSE IF a \in sent THEN Applied(a, EventOf(events, a).sample)
               ELSE IF input_reset THEN Unseen ELSE place[a]]
        /\ miscounted' = miscounted \union
               {a \in sent : ~input_reset /\
                   Miscounts(a, EventOf(events, a).sample, IF a \in known THEN step(a).delta ELSE 0)}
        /\ quiet' = (quiet /\ sent = {})

(* The keepalive only touches tracks that have a baseline, and only once no  *)
(* motion was heard for a hop window.                                        *)
heal_lost_motion(totals, tracks) ==
    LET healed  == IF quiet THEN DOMAIN totals \intersect DOMAIN tracks ELSE {}
        step(a) == esb_motion_track_short_delta(tracks[a], totals[a].short)
    IN  /\ tracked_motions' = [a \in DOMAIN tracks |->
                                  IF a \in healed THEN step(a).last ELSE tracks[a]]
        /\ place' = [a \in Axes |-> IF a \in healed THEN Applied(a, totals[a].sample)
                                    ELSE IF input_reset THEN Unseen ELSE place[a]]
        /\ miscounted' = miscounted \union
               {a \in healed : Miscounts(a, totals[a].sample, step(a).delta)}
        /\ UNCHANGED quiet

central_ingest_packet ==
    /\ tx_fifo # <<>>
    /\ tx_fifo' = Tail(tx_fifo)
    /\ pipe_heard' = TRUE /\ pipe_stale' = FALSE
    /\ input_reset' = FALSE
    /\ LET packet == Head(tx_fifo)
       IN  IF packet.kind = "motion"
           THEN central_input_deliver_event(packet.events, apply_input_reset)
           ELSE heal_lost_motion(packet.totals, apply_input_reset)
    /\ UNCHANGED peripheral_vars

esb_motion_quiet_enough ==
    /\ ~quiet
    /\ quiet' = TRUE
    /\ UNCHANGED <<peripheral_vars, tx_fifo, tracked_motions, place, input_reset, miscounted,
                   pipe_heard, pipe_stale>>

(* A silent pipe flags the tracks; the rx thread drops them with the next packet. *)
staleness_work_fn ==
    /\ pipe_heard /\ ~pipe_stale
    /\ pipe_stale' = TRUE /\ input_reset' = TRUE
    /\ UNCHANGED <<peripheral_vars, tx_fifo, tracked_motions, place, quiet, miscounted, pipe_heard>>

(* A central starts next to a peripheral that is fresh or has been moving. *)
Init ==
    /\ \E start \in Starts :
           /\ travelled = [a \in Axes |-> start]
           /\ motion_slots = IF start = 0 THEN <<>> ELSE [a \in Axes |-> start % Total]
    /\ moves = [a \in Axes |-> 0] /\ boot = 0
    /\ batch = <<>> /\ tx_fifo = <<>>
    /\ tracked_motions = <<>> /\ place = [a \in Axes |-> Unseen]
    /\ quiet = TRUE /\ input_reset = FALSE
    /\ pipe_heard = FALSE /\ pipe_stale = FALSE
    /\ miscounted = {}

Next ==
    \/ \E a \in Axes, delta \in Deltas, sync \in BOOLEAN : esb_peripheral_report_event(a, delta, sync)
    \/ keepalive_work_fn
    \/ Lost
    \/ PeripheralReboot
    \/ central_ingest_packet
    \/ esb_motion_quiet_enough
    \/ staleness_work_fn

Spec == Init /\ [][Next]_vars

(* The keepalive timer runs, time passes, and some packet gets through again *)
(* and again however many do not.                                            *)
FairSpec ==
    /\ Spec
    /\ WF_vars(keepalive_work_fn) /\ WF_vars(esb_motion_quiet_enough)
    /\ SF_vars(central_ingest_packet)

-----------------------------------------------------------------------------
Samples == [boot : 0..MaxReboots, move : 0..MaxMoves, at : Int]

TypeOK ==
    /\ moves \in [Axes -> 0..MaxMoves] /\ travelled \in [Axes -> Int] /\ boot \in 0..MaxReboots
    /\ DOMAIN motion_slots \subseteq Axes /\ Cardinality(DOMAIN motion_slots) <= MotionSlots
    /\ \A a \in DOMAIN motion_slots : motion_slots[a] \in 0..(Total - 1)
    /\ Len(batch) < BatchMax /\ Len(tx_fifo) <= TxFifoSize
    /\ DOMAIN tracked_motions \subseteq Axes /\ Cardinality(DOMAIN tracked_motions) <= MotionTracks
    /\ \A a \in DOMAIN tracked_motions : tracked_motions[a] \in 0..(Total - 1)
    /\ place \in [Axes -> Samples] /\ miscounted \subseteq Axes
    /\ quiet \in BOOLEAN /\ input_reset \in BOOLEAN
    /\ pipe_heard \in BOOLEAN /\ pipe_stale \in BOOLEAN

(* Every count that moved between two samples the central applied is         *)
(* forwarded once, across packets lost, totals and short totals wrapping and *)
(* heals racing the motion they heal; a gap past the cap forwards nothing    *)
(* (central_input.c motion_total_to_delta, heal_lost_motion).                *)
MotionExact == miscounted = {}

(* A keepalive that trails motion, or motion that trails its keepalive,      *)
(* never takes an axis back to an older sample (central_input.c              *)
(* heal_lost_motion).                                                        *)
NeverStepsBack ==
    [][\A a \in Axes : place'[a] # Unseen => place'[a].move >= place[a].move]_vars

(* When the pointer rests and the pipe stays audible, every axis that has a  *)
(* baseline in this boot of the peripheral ends at its total: no motion      *)
(* stays lost (central_input.c heal_lost_motion).                            *)
MotionConverges ==
    <>[](~pipe_stale /\ ~input_reset)
        => <>[](\A a \in DOMAIN tracked_motions \intersect DOMAIN motion_slots :
                    place[a].boot = boot => tracked_motions[a] = motion_slots[a])
=============================================================================
