# Verification of zmk-feature-split-esb

TLA+ models of the split transport that carries a ZMK keyboard over Nordic's
Enhanced ShockBurst radio, model-checked with TLC on small instances and, for
the central claims, proved with TLAPS for every value of the constants.
`PROJECT.json` lists components, runs, mutants, the definition-to-source map,
findings, hazards and theorems; this file explains them.

## The system

A **peripheral** (a keyboard half, a mouse) sends events over one radio pipe to
the **central**, which feeds ZMK. The radio is connectionless: the peripheral
transmits, the central acknowledges, and everything the central has to say
rides in an ACK payload. Four execution contexts matter on each device: the
radio ISR, the rx thread (preemptible), the system workqueue (cooperative: a
work item is never preempted by a thread) and the input thread (preemptible).

| Component | State | Operations | Hard part |
|---|---|---|---|
| key link (`esb_peripheral.c`, `esb_link*.c`, `central.c`) | pressed bitmap, TX FIFO with packet IDs, restart counter, RX ring, event queue, tracked bitmap, staleness | report event, keepalive tick, TX success and failure, restart, flush, ingest, reconcile, staleness tick | lost, copied and reordered deltas; four queues that can be full; restarts |
| lock-free latch (`spsc_latch.c`) | slots, published pointer, reader's slot | claim, publish, peek, release | ISR in the middle of a thread's copy |
| channel mask (`hop_central.c`, `hop_policy.c`) | scores, retest levels, active and pending mask, stored mask | decision tick, recompute, commit at a hop, debounced save, boot survey | floor and anchors kept on every path, retest never starves |
| hop rendezvous (`hop_central.c`, `hop_peripheral.c`, `esb_link_central.c`) | epoch and mask at both ends, latches, ACK FIFO, link state, search index | beacon, mask update, epoch adoption, search, sweep, silent escape, warm restart | two ends chasing each other over a lossy channel with stale replies |
| input keys (`central_input.c`, `peripheral_input.c`) | held tables, noted registers, reset flag | note, send, deliver, reconcile, release pipe | keepalive ahead of its press, reset by another thread, full tables |
| lossy motion (`esb_motion_total.h`, `central_input.c`, `esb_peripheral.c`, `esb_batch.c`) | totals per axis, batch, tracks | report, flush, deliver, heal, reset | unacknowledged packets, wraps, two sources for the same count |
| wire link (`wire_link.c`, `wire_frame.c`, `cobs.c`, `wire_peripheral.c`) | three transmit rings and the ring picked, receive ring, parser | enqueue, transmit and receive interrupt, parse, heartbeat, idle keepalive | frames spliced or merged, the parser out of step, one ring starving or overtaking another |
| reply path and HID relay (`esb_link_central.c`, `esb_hid_relay_*.c`) | reply queue and staged count, latched state, buttons, motion sum, pause, what the dongle delivered | stage, latch, keepalive, endpoint change, input event, poll, delivery to USB | workqueue, input thread and ISR share the queue; a refused FIFO or USB; two ways for the same state |
| radio settings, clock gate and sleep (`esb_link_peripheral.c`, `esb_link_hfclk.c`, `esb_sleep.c`) | requested, pending and applied value; gating flag, clock, mutex, delayed release; activity | request, apply, hold, release, idle, sleep, wake, restart | a release or a retry that is already under way when the state it was meant for changes |
| sensor totals | | | see the plan |
| configuration, survey, statistics, byte codecs | | | not modelled: no state of their own, pure I/O, or a layout covered by unit tests |

Interaction: the peripheral's keepalive tick is also its hop tick; a packet the
central hears refreshes staleness, the ACK FIFO and the hop decision; the
keepalive is at once the state snapshot for key, input and motion reconcile. A
dongle is a peripheral that polls, and the relay's reports ride in the same
ACKs as beacons and mask updates, behind them.

## Modules

| Module | Models | Proofs |
|---|---|---|
| `KeySync` | what a key link promises: ZMK catches up with the switches, never back | |
| `KeyLink` | one pipe of a fixed-channel link, from switch to ZMK; implements `KeySync` | `KeyLinkProofs` |
| `SpscLatch` | the latch, one memory access per step | `RadioIsrProofs` |
| `ChannelMask` | the central's mask and what it stores | `ChannelMaskProofs` |
| `HopLink` | central and one peripheral hopping together | `HopLinkProofs` |
| `InputKeys` | input-split buttons | `InputKeysProofs` |
| `MotionTotals` | lossy axes | `MotionTotalsProofs` |
| `WireLink` | the cabled transport, byte by byte | `WireLinkProofs` |
| `RelayLink` | the HID relay, from a central's reports to the dongle's USB host | `RelayLinkProofs` |
| `RadioGate` | a peripheral's radio settings, clock gate and sleep | `RadioIsrProofs` |
| `MC*` | instances for TLC | |

Actions carry the names of the functions they model. Definitions marked
*Mutant* are plausible bugs; a run must find each of them.

**KeyLink.** `ver[p]` counts physical transitions of position `p` and is
history, as are `zmk_ver`, `seen` and `zmk_faults`: packets carry it so that the
model can tell two presses apart, the code cannot. `OnAir` is what the radio's
duplicate filter compares. `Submit` covers a refused write and the stall flush;
`TxFailed(arrived)` both a packet that never arrived and one whose ACKs were
lost. Time is counted in staleness periods (`silent_ticks`). A staleness tick
that expires a pipe finds its queues empty: a packet is handled within
milliseconds, the timeout is 3 s.

**KeySync.** The abstract specification knows the switches (`ver`), the newest
transition of each that ZMK was told (`seen`) and what ZMK holds. ZMK may skip
transitions but moves only forward, to a state the switch really was in; a
pipe given up releases its keys; a restart of either end forgets what that end
knew. `ImplementsKeySync` maps `held` to `zmk_held`; queues, packets, bitmap
and timers are hidden.

**SpscLatch.** A value is two words written and read in separate steps, so a
torn read is visible as a mismatch. `isr` is chosen in the initial state and
never changes: with the ISR as consumer (control and idle replies of the
central) the reader runs atomically between any two steps of the writer, with
the ISR as producer (staged mask of the peripheral) the writer runs between any
two steps of the reader. At most one publication falls into one copy
(`MaxOverlap`): a copy takes microseconds, two packets are further apart.

**ChannelMask.** The quality of a window and the survey's energies are free
choices. A boot is a sequence of steps: `Reboot` takes up the stored mask,
`esb_survey_run` samples every channel, each `hop_policy_survey_mask` is one
round of the survey's loop and benches the loudest channel left, and
`hop_boot_mask` adopts what remains, so that the invariants are checked after
every round. Until it is over there is no traffic, no decision and no save.
Scores saturate at `ScoreMax` (255), the anchors are the channels the policy
never masks, the floor is `min_active`. `WindowMax` is the largest value of the
counter of masked windows (65535): the counter wraps there and the retest
threshold saturates there, which is why a long retest still comes.

**HopLink.** The unit of time is a hop window. `straddles` records a device
whose window boundary falls inside the peer's; the decision tick is due every
`IdlePeriod` windows; the sweep dwell, loss detection and silent-escape limits
are the code's formulas over these. Abstractions: the decision tick is atomic
with respect to the radio although the code swaps its masks one after another;
one pipe; clocks do not drift; data packets flow only on a working link
(`send_on_pipe`); unacknowledged packets are left out; a failed packet is kept
or flushed nondeterministically; losses on the right channel are bounded by a
budget, losses on a wrong channel are not.

**InputKeys and MotionTotals.** The link is what `KeyLink` shows it to be
(`ImplementsKeySync`, `PressIsNew`): in order, never twice, lossy without bound.
The staleness tick is one step; the rx thread handles a packet in one step,
because a tick that expires a pipe finds it idle. The input thread's *note* and
*send* are separate steps with the keepalive tick in between. The order of the
peripheral's slots is abstracted to a free choice of which keys a full table
takes. A pipe's stale mark is cleared by the next packet, which is exact while
`peripheral-timeout-ms` is at least the 500 ms staleness period. In
`MotionTotals` the moduli are constants; `Starts` puts the totals next to a
wrap; each sample carries its true position as history. The report action is
guarded so that a batch names an axis once. `esb_batch.c` does not enforce that:
it follows from input drivers ending every report with a sync event, which
flushes the batch. A driver that reported an axis twice before its sync would
put two totals of it in one packet; the model says nothing of it.

**WireLink.** One direction, from a wire peripheral to its receiver; the other
one runs the same code. A frame is two body bytes (a heartbeat one) and the
delimiter; that COBS keeps the delimiter out of the body and that the CRC
catches every damaged body is built in (the real CRC8 misses one in 256). One
transmit interrupt writes any number of bytes up to the chunk, which may hold
the end of one frame and the start of the next, and the peer's receive
interrupt takes them at once. `owed` lists the frames that started on the wire
and were not delivered, `allowed` how many of them the faults so far may cost.
One key and one input key stand for the two event rings; what ZMK makes of
repeated and orphan events is `KeyLink`'s and `InputKeys`'s subject.

**RelayLink.** One key report stands for the keyboard and consumer reports, one
button and one axis for the mouse report; each takes one unit of `ReplyRoom`.
The workqueue is never interrupted by a thread, the input thread is interrupted
between any two accesses, and the radio ISR runs between any two steps.
`key_ver` and `button_ver` are history: they count the states relayed, so that
an old one can be told from a new one. `ack_payload` is the reply written at
the last poll; a poll whose ACK is lost loses it, as does a beacon or mask
update that takes its turn. A poll of the dongle falls at most once between the
workqueue's `k_msgq_put` and its `atomic_inc` (`polled_in_gap`): polls are
milliseconds apart, the two statements microseconds. The 16-bit totals and their
resync cap are `MotionTotals`' subject and unbounded here.

**RadioGate.** One setting stands for the three. `requested` counts requests, so
the newest value is the largest; the driver answers a change in one of three
ways, as `apply_setting` sees them: it takes the value, it is busy (`-EBUSY`,
the value stays pending), or it rejects the value with another error. Which
values it can set (`valid`) is a free choice at each request. A rejected value
is dropped: it is neither applied nor pending, and the radio keeps what it had.
The requester gets the error (`esb_link.h:43`) when its own attempt meets it;
when the radio was busy first, the retry of the keepalive meets it and only logs
it. The config thread takes one step per access to the struct, while
`esb_link_apply_pending` runs on the workqueue, where only the ISR interrupts
it. A workqueue item is two steps: what it does before it takes
`hfclk_gate_mutex`, and the rest once the mutex is free. While the input thread
holds the mutex the item waits and threads run; otherwise an item that waits in
the queue runs before any thread (`ThreadsRun`). `release_armed` is the timer of
the delayed release and `release_queued` its place in the queue: rescheduling
sets the first and leaves the second, cancelling clears both but not an item
that runs. ZMK may change activity on the workqueue or wake from the input
thread, and goes to sleep without powering off, the case `esb_sleep.c` handles.
A clock request always succeeds here; the code ignores one that fails
(`esb_link_hfclk.c:40`), a hardware fault.

## Runs

Passing runs:

| Run | Shows |
|---|---|
| `KeyLinkConverges` | two transitions of a key with every loss, copy, restart of a packet, flush, full queue, silence and a restart of either device: each step is one `KeySync` allows, alternating stream, one press per press, tracking equals ZMK's state, a silent pipe holds nothing, and ZMK ends with the keys that are down |
| `Latch` | no torn read, no lost publication, in both uses |
| `ChannelMaskWindows` | anchors and floor in every mask, stored and mid-survey ones included; live channel in use; mask and channel change only with the epoch; every benched channel comes back |
| `HopLinkRejoin` | after a loss or a degrading window and a long sleep or restart of either end the peripheral is back on the live channel for good |
| `HopLinkMask` | both ends hold the same mask in the end, after a vote, a mask change and an out-of-turn beacon; never more than two replies in the ACK FIFO |
| `InputKeysLink` | no repeated press, stale pipe empty, table exact, convergence |
| `MotionLink` | every count once, no step back, convergence, across both wraps |
| `WireLink` | a fault costs only the frames it touches, no key event trails a snapshot that contains it, the receiver ends with the switches as they are |
| `RelayOrder` | the reply queue loses and repeats nothing, the dongle's host never goes back to an older keyboard or button state, and its pointer moves only by counts that were moved, once |
| `RelayConverges` | with a queue of one, lost ACKs, refused writes and refused USB reports the host ends with the relay's keys, button and motion |
| `RadioGate` | the newest setting reaches the radio, or is rejected and never retried, and the value noted as applied is the radio's; a woken keyboard keeps its clock, an idle one lets it go in every gap |

One run ends in a violation and records a defect:

| Run | Disagreement |
|---|---|
| `RelayResume` | a button pressed while the relay resumes is held in ZMK and never reaches the dongle: the input processor has passed it by as paused, and the resume reads the mouse report before ZMK's listener has put it there |

Statements of the documentation that the code does not keep, found while
modelling. Each is a definition of its module; no run checks it.

* `README.md:387` has the learned mask persisted (`SavedIsLearned`): a debounced
  save that fires before the next hop stores the mask from before the change
  that scheduled it, and the hop schedules no other.
* `README.md:406`, "reads the live epoch, never a stale backlog"
  (`BackFromGapReadsLive`): the first reply after a gap was written into the
  radio's FIFO before it.
* `README.md:299`, buttons reconcile up to the tracked maximum: with one slot
  (`HeldKeysMax = HeldAtOnce = 1`) `InputConverges` fails, since a slot stays
  taken by a lost release and the next button goes untracked.
* `README.md:411`, an idle keyboard's send re-acquires the crystal and holds it
  (`SendHoldsClock`): a release that waited for the mutex the sender held runs
  between hold and write. The packet fails and its restart takes the clock.

Limits of these claims that showed up while modelling, and which no run states:

* `peripheral-timeout-ms` below the 500 ms staleness tick: a pipe can return and
  fall silent again between two ticks while still marked stale, and what was
  pressed in between stays held. `SilentPipeHoldsNothing` is checked and proved
  for timeouts of at least one tick; nothing in the code rejects a shorter one.
* Positions past the 64 of the bitmap are forwarded unclassified: a lost release
  of theirs is never repaired, not even when the pipe goes stale. The properties and
  theorems about the stream speak of `Covered` positions.
* More lossy axes than `MOTION_TRACKS_MAX`: the axis without a track is
  forwarded as 0. `MotionExact` is checked and proved with a track for every
  axis.
* A gap of half the short modulus (32768 counts) or more, all of it lost: the
  heal reads it back a whole 65536 off, the baseline keeps that error, and the
  next report of the axis is taken for a gap past the cap and dropped.
  `ReachAssumption` keeps the motion below it.
* A mask learned in the same decision as a hop is committed before the
  peripheral was told: it adopts the new epoch under its old mask and catches up
  with the next update (`MaskConverges`), so the two ends do not always switch
  in one step as the comment at `hop_central.c:236` has it.
* A key event queued while a heartbeat occupies the cable overtakes a keepalive
  that waits behind it: the older bitmap is applied after the newer event and
  repaired by the next keepalive (`WireConverges` holds, monotonic application
  does not).

### Bounds

A single key is enough for `KeyLink`: positions interact only through shared
queues, and the queues of one entry are full all the time. Press and release
against two packet IDs reach the wrap of the PID (four in the radio) against a
stale `last_rx`. The retry limit is one restart, the timeout one tick. Three
transitions, three packet IDs and a FIFO of two without restarts of the devices
(1.9 million states) pass as well and are left out of the runs; what is proved
holds for every size. The latch has the code's two slots
and six publications go round them three times. Three channels with a floor of
two and one anchor give the mask two channels to trade, and saturated scores
come after two bad windows. The survey samples below, at and above its
threshold (`Energies`, `SurveyThreshold`), so that channels tie, differ and pass;
with a floor of two it may bench one channel and must stop, and after a restart
from a stored mask already at the floor it must bench none. `HopLink` uses pools of two and three channels,
where sweep and escape already chase each other, a boot mask that differs from
the peripheral's, one fault (`MaxTroubles`: a lost packet or a degrading window)
and one restart after a down time long enough to lose the link. Two buttons
against two slots are the case of room. A full table is not run: convergence
fails with one slot (see above). Of the properties, `TrackedInputIsHeld` and
`StalePipeHoldsNoButton` are proved for any number of slots. Motion wraps at 32 and 16 with a cap
of 2, in the code's order; two moves of two axes stay below half the short
modulus (32768 counts), from where on the short total is ambiguous. In
`ChannelMask` the window counter wraps after 3, below the longest retest (4), so
that the saturation matters. The
wire's rings hold two event frames, one input frame and one keepalive, chunks
are shorter than a frame as in the code, and one fault is enough for every way
the parser gets out of step. `RelayOrder` needs two queued button changes for
one to overtake the other; `RelayConverges` fills a queue of one. Both have room
for two reports in a reply, so that motion can push a queued report to the next
poll, and one endpoint change; `RelayResume` has two, the pause and the resume.
In `RadioGate` two requests are an older value and a newer one, each taken or
rejected, and a FIFO of
two lets a packet follow another and a third be refused.

### Fairness

Timers and threads run (weak fairness of ticks, work items and the rx thread).
In `KeyLink`, `InputKeys` and `MotionTotals` the radio gets *some* packet
through again and again (strong fairness of arrival), with any number of losses
in between. In `HopLink` time passes and the radio answers (`Time`: ticks,
decision, keepalive; `Air`: a packet is delivered when both ends are on one
channel and fails when they are not); losses on the right channel are finite. In
`WireLink` the interrupts and the parser keep running, bytes are dropped or
damaged finitely often, and a keepalive finds room in its ring again and again,
since the heartbeats before it drain. In `RelayLink` polls that write a reply,
and polls that bring a state and a mouse report to a host that takes them,
happen again and again (strong fairness: losses are random), and the keepalive
repeats. In `ChannelMask` a boot ends, decision ticks and the save recur. In `RadioGate` the queue takes its items in turn and leaves the threads
time; the two liveness properties assume that sends leave gaps (`Gap`), and that
the keepalive, the end of the hold and the release fall into one at times: the
hold lasts twice as long as a packet with all its retries, and an idle
keepalive period is longer still. Convergence is claimed for the time when
the pipe is no longer silent past its timeout. No fairness is assumed of the
user, of restarts or of refused writes.

## Proofs

Each theorem holds for every value of the constants that satisfies the named
`ASSUME`s of its module, which TLC evaluates in every run. Each proof module has
an inductive invariant, one lemma per action, and temporal steps only at the end.

* `KeyLinkProofs`, for any positions, queue sizes, timeouts and bounds.
  * `TypeCorrect`, `AlternatingStream`, `TrackingIsExact`. Alternation is not
    inductive alone: `StreamInv` adds that the tracked bitmap is ZMK's state of
    the covered positions, which is what lets the verdict decide from the bitmap.
  * `PressesAreNew` and the refinement `LinkImplementsKeySync`. `TravelInv` says
    that what the packets in FIFO, receive ring and event queue tell of a
    position is in version order, between what ZMK was told (`seen`) and what
    the switch did (`ver`), and true for its version (`ContentInv`). Only the head
    of the FIFO may be a copy of the last packet received (`Repeat`), and the
    duplicate filter drops that one. So every delivery moves `seen` forward, which
    is a step of `KeySync`, and an event is news unless a snapshot overtook it, in
    which case the bitmap already shows it.
  * `SilentPipeIsReleased`, for `TimeoutTicks # 0`: a pipe that is silent and
    not stale has not been silent longer than the timeout, and a stale and
    silent one holds nothing.
* `RadioIsrProofs`, the latch: `LatchConsistent`, `ReadsAreWhole`, `NothingIsLost`. The
  invariant says where the writer's slot, the reader's slot and the published
  slot may coincide.
* `ChannelMaskProofs`, for any pool, anchors and floor: `MaskInvariant`,
  `AnchorsAlwaysKept`, `FloorAlwaysKept`, `LiveChannelAlwaysActive`. The live
  mask is kept only because the pending and stored masks keep the same
  invariant: a hop and the end of a boot adopt the one, a boot starts from the
  other, and no round of the survey or of the windows takes out more than one
  channel (`OneWorst`, `MaskingKeepsFloor`). `CountersFit` rests on the saturation of the retest threshold: a
  channel whose counter could wrap is restored in that window; uncapped, the
  threshold could lie past the counter and a benched channel never come back
  (the mutant of `EveryChannelRetested`). `MaskChangesWithEpoch`: a hop always
  takes another epoch, and a boot that adopts a mask leaves epoch 0 (`MaskInv`
  has the whole pool live under epoch 0 until then). It speaks of the central
  alone: what the peripheral was told by then is `HopLink`'s subject.
* `HopLinkProofs`, for any pool and any losses: `TypesHold`, `RepliesFit` (a
  reply is written only for a packet that asked for one, and its ACK takes the
  oldest out first, so that one leftover and one new reply are the most), and
  `EpochsMeet`, which no run states: since the central's channel is always the
  one of its epoch and mask (`CentralOnEpoch`), the peripheral lands on it when it
  adopts that epoch under that mask.
* `InputKeysProofs`: `TrackedButtonsAreHeld`, `StalePipeIsReleased`,
  `NoButtonPressedTwice`. The stale release works because every path that
  presses a button notes its register (`SeenCoversHeld`). The last theorem
  assumes a slot and a register bit for every button (`EveryButtonFits`).
* `MotionTotalsProofs`, for any moduli of which the short one divides the long
  one, any cap, any axes and table sizes. `TablesHold`; `SamplesInOrder`; and
  `EveryCountOnce`, which assumes a track for every axis. The first half is arithmetic:
  a gap below half a modulus is read back from the remainders alone
  (`ReadBack`), from the total (`TotalReadBack`) and from its low part
  (`ShortReadBack`, which needs `LowPart`: the low part of a wrapped total is the
  low part of the true one). The second half is the order of samples: a sample is
  `Near` a later one when it is no further away than the reports between them can
  move it. `MotionInv` says that packets of this boot are in sample order, the
  axes' positions `Near` after them, and every track stands at the sample the
  central applied, `Near` before them. A reset forgets the tracks with their
  places, a restart empties the FIFO, so neither leaves a gap to be misread.
* `RelayLinkProofs`, for any queue size, room in a reply and number of losses:
  `QueueIsAccounted`, `KeysInOrder`, `ButtonsKeepOrder`, `MotionAppliedOnce`.
  `KeyOrder` orders the versions at the dongle, in the payload, in the queue and
  at the relay; `LatchOrder` says that a latched state is either as new as every
  queued one or taken for outdated by its stage stamp; `MotionOrder` that the
  totals grow along the same way. What one packet's reports do to the dongle, one
  after another, is an induction over their number (`UpTo`, from the smallest
  counterexample).
* `RadioIsrProofs`, settings and gate: `NewestValueWins`, `ActiveClockIsKept`. `SettingInv` says
  that between requests whoever took the pending flag applies the newest value,
  because the value is read only after the flag is taken, and that the value
  noted as applied is the radio's, which is the newest one exactly if that one
  was taken and not rejected. `ClockInv` says that
  the gate is off and the clock is held from the wake on, and that the owner of
  the gate's mutex tells where the input thread stands, so that the delayed
  release cannot slip into its critical section.
* `WireLinkProofs`, for any ring, chunk and UART sizes, any number of faults and
  an accumulator that holds a whole body (`WholeFrameFits`, as
  `WIRE_FRAME_MAX_ENCODED` sees to): `WireTypes`, `WireFramesAreNotSpliced`,
  `WireLossIsLocal`, `WireKeysInOrder`. Everything the receiver may still
  parse is one sequence of bytes, the `Stream`: what the parser has gathered,
  what waits in its ring, and the rest of the frame on the wire.
  * `Framed`: every transmit ring holds whole frames, except the one the
    interrupt is locked on, which starts inside one. That is the theorem on
    splicing, and the reason why a chunk may end in the middle of a frame.
  * `Accounted` bounds the loss. `Embedded`: every frame whose last body byte is
    in the stream is owed, and in the order of `owed`. `Balanced`: the frames
    given up, owed and spoiled are no more than those the faults may cost and
    those intact in the stream. A byte that is dropped, damaged, overrun or
    discarded yields a `Spliced` stream, and each splice touches no more
    intact frames than the model charges for it.
  * `Ordered`: a key event, in the stream or in its ring, stands behind older
    key states only. The two rings do not order their frames between each other,
    so the invariant leans on the idle rule: a snapshot is queued only when the
    event ring has drained, so that every waiting snapshot is older than every
    waiting event (`Ahead`). No event trails a snapshot that contains it, while
    an old snapshot can trail a newer event (see the limits above).
  * Counting frames in a stream is an induction on its length; it is done by the
    smallest counterexample, which needs no theorem with an operator parameter.

Every safety invariant and action property that a passing run checks is stated
by a theorem. Left to TLC: all liveness properties (convergence, rejoining,
retesting, the setting that reaches the radio, the clock that is let go), which
need fairness and `ENABLED`, beyond the prover. Three theorems assume what the
code does not enforce, a slot for every button, a track for every axis and a
timeout of at least one tick; the limits above say what happens without it.

## Not modelled

Configuration from devicetree, the boot survey's radio access, statistics and
log lines; byte layouts of packets (`esb_wire.c`, `esb_keepalive.c`), whose
fields are records here; battery and sensor fields of the keepalive; the
computation of the adaptive retransmit count; commands to peripherals and host
indicators, both newest-value deliveries over the reply path of `RelayLink`; the
dongle's LED report on its way back.

## Plan

Done, in this order: `KeyLink`, `SpscLatch`, `ChannelMask`, `HopLink`,
`InputKeys`, `MotionTotals`, `WireLink`, then `KeySync`, `RelayLink` and
`RadioGate`, with the proofs above.

Left out so far:

* `SensorTotals`: cumulative rotation over the acknowledged path.
