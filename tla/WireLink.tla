------------------------------ MODULE WireLink ------------------------------
(* The cabled transport (wire_link.c, wire_frame.c, wire_peripheral.c), in    *)
(* the direction from a wire peripheral to its receiver: three transmit rings *)
(* that share one UART, a transmit interrupt that must not splice two frames, *)
(* a receive ring that can overrun, and a parser that finds the frames again. *)
(* One key position is the "event" stream and one input key the "input"       *)
(* stream; ver[s] counts the transitions of s, odd while it is pressed.       *)
EXTENDS Integers, Sequences, FiniteSetsExt, SequencesExt

CONSTANTS
    EventRingBytes, InputRingBytes, KeepaliveRingBytes, RxRingBytes,
    ChunkBytes,         \* WIRE_LINK_CHUNK_BYTES
    UartBytes,          \* the UART's own FIFO
    AccumulatorBytes,   \* the parser's accumulator
    MaxTransitions, MaxTroubles     \* bounds of the model

ASSUME SizesAssumption ==
    {EventRingBytes, InputRingBytes, KeepaliveRingBytes, RxRingBytes,
     ChunkBytes, UartBytes, AccumulatorBytes} \subseteq Nat \ {0}
ASSUME WholeFrameFits == AccumulatorBytes >= 2  \* WIRE_FRAME_MAX_ENCODED holds any frame
ASSUME BoundsAssumption == MaxTransitions \in Nat /\ MaxTroubles \in Nat

VARIABLES
    ver, noted,                             \* switches; an input noted, not sent
    rings, wire_tx_frame_ring, tx_enabled,  \* transmitter
    idle,                                   \* idle-keepalive-ms since the last send
    rx_ring, accumulator, discarding,       \* receiver
    applied,                                \* last version handed up, per stream
    \* history: newest version handed up, frames on their way, frames that never
    \* arrived, frames the faults so far may cost, faults
    newest, owed, skipped, allowed, troubles

tx_vars    == <<rings, wire_tx_frame_ring, tx_enabled>>
rx_vars    == <<rx_ring, accumulator, discarding, applied, newest>>
count_vars == <<owed, skipped, allowed, troubles>>
vars == <<ver, noted, tx_vars, idle, rx_vars, count_vars>>

Streams == {"event", "input"}
Rings   == {"event", "input", "keepalive"}
Version == [Streams -> 0..MaxTransitions]
Transitions(v) == v["event"] + v["input"]
NoVersion == [s \in Streams |-> 0]

Frame == [kind : {"event", "input", "snapshot", "beat"}, ver : Version]
Beat  == [kind |-> "beat", ver |-> NoVersion]
Delta(s, v) == [kind |-> s, ver |-> [NoVersion EXCEPT ![s] = v[s]]]
Snapshot(v) == [kind |-> "snapshot", ver |-> v]

BodyBytes(f) == IF f.kind = "beat" THEN 1 ELSE 2
Delimiter == [of |-> Beat, at |-> 0]
Noise     == [of |-> Beat, at |-> -1]
Body(f)   == [i \in 1..BodyBytes(f) |-> [of |-> f, at |-> i]]

(* wire_frame_encode and cobs_encode: whatever the payload and its CRC are,  *)
(* the delimiter is the last byte of a frame and no other.                   *)
wire_frame_encode(f) == Append(Body(f), Delimiter)

RingBytes == [event |-> EventRingBytes, input |-> InputRingBytes,
              keepalive |-> KeepaliveRingBytes]

-----------------------------------------------------------------------------
(* Transmitting side, threads.                                               *)

Fits(r, f) == Len(rings[r]) + BodyBytes(f) + 1 <= RingBytes[r]

(* A frame that does not fit as a whole is refused (-ENOBUFS).               *)
wire_link_enqueue(r, f) ==
    /\ rings' = IF Fits(r, f) THEN [rings EXCEPT ![r] = @ \o wire_frame_encode(f)] ELSE rings
    /\ tx_enabled' = (tx_enabled \/ Fits(r, f))
    /\ UNCHANGED wire_tx_frame_ring

(* A key event is noted and sent by the same work item; a refused one lives  *)
(* on only in the bitmap of the next keepalive.                              *)
wire_peripheral_report_event ==
    /\ Transitions(ver) < MaxTransitions
    /\ ver' = [ver EXCEPT !["event"] = @ + 1]
    /\ LET f == Delta("event", ver')
       IN  wire_link_enqueue("event", f) /\ idle' = (idle /\ ~Fits("event", f))
    /\ UNCHANGED <<noted, rx_vars, count_vars>>

(* The input thread notes and sends an input key with the work queue free to *)
(* run in between.                                                           *)
peripheral_input_note_event ==
    /\ Transitions(ver) < MaxTransitions /\ ~noted
    /\ ver' = [ver EXCEPT !["input"] = @ + 1] /\ noted' = TRUE
    /\ UNCHANGED <<tx_vars, idle, rx_vars, count_vars>>

wire_link_send_input ==
    /\ noted /\ noted' = FALSE
    /\ LET f == Delta("input", ver)
       IN  wire_link_enqueue("input", f) /\ idle' = (idle /\ ~Fits("input", f))
    /\ UNCHANGED <<ver, rx_vars, count_vars>>

(* Mutant: the keepalive does not wait for a quiet wire.                     *)
fire_without_idle ==
    /\ wire_link_enqueue("keepalive", Snapshot(ver))
    /\ idle' = (idle /\ ~Fits("keepalive", Snapshot(ver)))
    /\ UNCHANGED <<ver, noted, rx_vars, count_vars>>

wire_peripheral_keepalive_fire ==
    /\ idle
    /\ wire_link_enqueue("keepalive", Snapshot(ver))
    /\ idle' = ~Fits("keepalive", Snapshot(ver))
    /\ UNCHANGED <<ver, noted, rx_vars, count_vars>>

(* The link's own heartbeat; it does not count as a send.  The one before it *)
(* has left: the period is 100 ms.                                           *)
wire_keepalive_fire ==
    /\ wire_tx_frame_ring # "keepalive" /\ Body(Beat)[1] \notin Range(rings["keepalive"])
    /\ wire_link_enqueue("keepalive", Beat)
    /\ UNCHANGED <<ver, noted, idle, rx_vars, count_vars>>

(* idle-keepalive-ms pass without a send.  What was sent before has left its *)
(* ring by then: at 115200 baud a full ring takes 23 ms, the period is 128.  *)
IdleElapses ==
    /\ ~idle /\ rings["event"] = <<>> /\ rings["input"] = <<>>
    /\ idle' = TRUE
    /\ UNCHANGED <<ver, noted, tx_vars, rx_vars, count_vars>>

-----------------------------------------------------------------------------
(* Transmit interrupt.                                                       *)

(* Mutant: the ring is picked afresh at every interrupt.                     *)
pick_without_lock ==
    IF rings["event"] # <<>> THEN "event"
    ELSE IF rings["input"] # <<>> THEN "input" ELSE "keepalive"

wire_tx_pick_ring ==
    IF wire_tx_frame_ring # "none" THEN wire_tx_frame_ring
    ELSE IF rings["event"] # <<>> THEN "event"
    ELSE IF rings["input"] # <<>> THEN "input" ELSE "keepalive"

(* The last byte sent decides: a chunk may hold the end of one frame and the *)
(* start of the next.                                                        *)
wire_tx_track_frame(r, sent) == IF Last(sent) = Delimiter THEN "none" ELSE r

(* History: the frames a chunk starts, in their order.                       *)
Kth(positions, k) == CHOOSE i \in positions : Cardinality(positions \intersect 1..i) = k
Starting(sent) ==
    LET first == {i \in 1..Len(sent) : sent[i].at = 1}
    IN  [k \in 1..Cardinality(first) |-> sent[Kth(first, k)].of]

(* A run of n lost bytes spoils the frames it touches, and a lost delimiter  *)
(* the frame after them.                                                     *)
Trouble(n, cost) ==
    /\ troubles + n <= MaxTroubles
    /\ troubles' = troubles + n /\ allowed' = allowed + cost

(* Receive interrupt: what does not fit into the ring is dropped.            *)
RxReady(bytes) ==
    LET written == Min({Len(bytes), RxRingBytes - Len(rx_ring)})
        dropped == Len(bytes) - written
    IN  /\ rx_ring' = rx_ring \o SubSeq(bytes, 1, written)
        /\ IF dropped = 0 THEN UNCHANGED <<troubles, allowed>>
           ELSE Trouble(dropped, dropped + 1)

(* On the cable a byte can be lost or read as another one.                   *)
Damaged(bytes) ==
    UNION {{RemoveAt(bytes, i), ReplaceAt(bytes, i, Delimiter), ReplaceAt(bytes, i, Noise)} :
               i \in 1..Len(bytes)} \ {bytes}

DamagedReady(bytes) ==
    /\ Len(rx_ring) + Len(bytes) <= RxRingBytes
    /\ rx_ring' = rx_ring \o bytes
    /\ Trouble(1, 2)

Chunk(n)   == SubSeq(rings[wire_tx_pick_ring], 1, n)
ChunkSizes == 1..Min({Len(rings[wire_tx_pick_ring]), ChunkBytes, UartBytes})

TxReady(n) ==
    /\ tx_enabled
    /\ rings' = [rings EXCEPT ![wire_tx_pick_ring] = SubSeq(@, n + 1, Len(@))]
    /\ wire_tx_frame_ring' = wire_tx_track_frame(wire_tx_pick_ring, Chunk(n))
    /\ owed' = owed \o Starting(Chunk(n))
    /\ UNCHANGED <<ver, noted, tx_enabled, idle, accumulator, discarding, applied, newest,
                   skipped>>

BytesArrive == \E n \in ChunkSizes : TxReady(n) /\ RxReady(Chunk(n))

BytesDamaged ==
    \E n \in ChunkSizes : TxReady(n) /\ \E bytes \in Damaged(Chunk(n)) : DamagedReady(bytes)

(* The ring picked is empty: the interrupt is switched off until the next    *)
(* frame is queued.                                                          *)
TxIdle ==
    /\ tx_enabled /\ rings[wire_tx_pick_ring] = <<>>
    /\ tx_enabled' = FALSE
    /\ UNCHANGED <<ver, noted, rings, wire_tx_frame_ring, idle, rx_vars, count_vars>>

-----------------------------------------------------------------------------
(* Receiving side, rx thread.                                                *)

(* deliver_frame: only a frame whose CRC is right is delivered; a heartbeat  *)
(* has nothing to hand up (wire_on_frame).                                   *)
Whole(bytes) == bytes # <<>> /\ bytes = Body(bytes[1].of)

(* Mutant: the snapshot repairs keys only.                                   *)
handed_up_without_inputs(f, state) ==
    IF f.kind = "snapshot" THEN [state EXCEPT !["event"] = f.ver["event"]]
    ELSE IF f.kind = "beat" THEN state
    ELSE [state EXCEPT ![f.kind] = f.ver[f.kind]]

HandedUp(f, state) ==
    IF f.kind = "snapshot" THEN f.ver
    ELSE IF f.kind = "beat" THEN state
    ELSE [state EXCEPT ![f.kind] = f.ver[f.kind]]

Newer(f) == [s \in Streams |-> Max({newest[s], HandedUp(f, newest)[s]})]

wire_on_frame(f) ==
    /\ applied' = HandedUp(f, applied)
    /\ newest' = Newer(f)
    /\ LET arrived == SelectInSeq(owed, LAMBDA g : g = f)
       IN  /\ owed' = SubSeq(owed, arrived + 1, Len(owed))
           /\ skipped' = skipped + (IF arrived = 0 THEN 0 ELSE arrived - 1)

FrameEnd ==
    /\ accumulator' = <<>> /\ discarding' = FALSE
    /\ IF ~discarding /\ Whole(accumulator) THEN wire_on_frame(accumulator[1].of)
       ELSE UNCHANGED <<applied, newest, owed, skipped>>

(* Mutant: the accumulator is not bounded.                                   *)
accumulate_without_bound(byte) ==
    /\ accumulator' = Append(accumulator, byte)
    /\ UNCHANGED <<discarding, applied, newest, owed, skipped>>

(* A frame too long to be one is discarded up to the next delimiter.         *)
Accumulate(byte) ==
    /\ discarding' = (discarding \/ Len(accumulator) >= AccumulatorBytes)
    /\ accumulator' = IF discarding' THEN <<>> ELSE Append(accumulator, byte)
    /\ UNCHANGED <<applied, newest, owed, skipped>>

wire_frame_parser_ingest(byte) == IF byte = Delimiter THEN FrameEnd ELSE Accumulate(byte)

(* The rx thread, one byte of its chunk at a time.                           *)
wire_process_ring ==
    /\ rx_ring # <<>> /\ rx_ring' = Tail(rx_ring)
    /\ wire_frame_parser_ingest(Head(rx_ring))
    /\ UNCHANGED <<ver, noted, tx_vars, idle, allowed, troubles>>

-----------------------------------------------------------------------------
(* Faults.                                                                   *)

(* The peripheral restarts in the middle of a frame; nothing is pressed.     *)
PeripheralReboot ==
    /\ ver' = [s \in Streams |-> ver[s] + (ver[s] % 2)] /\ noted' = FALSE
    /\ Transitions(ver') <= MaxTransitions
    /\ rings' = [r \in Rings |-> <<>>] /\ wire_tx_frame_ring' = "none" /\ tx_enabled' = FALSE
    /\ idle' = FALSE
    /\ Trouble(1, 2)
    /\ UNCHANGED <<rx_vars, owed, skipped>>

(* The receiver restarts and loses what it had not handed up.                *)
ReceiverReboot ==
    /\ rx_ring' = <<>> /\ accumulator' = <<>> /\ discarding' = FALSE
    /\ applied' = NoVersion
    /\ Trouble(1, Len(owed))
    /\ UNCHANGED <<ver, noted, tx_vars, idle, newest, owed, skipped>>

-----------------------------------------------------------------------------
Init ==
    /\ ver = NoVersion /\ noted = FALSE
    /\ rings = [r \in Rings |-> <<>>] /\ wire_tx_frame_ring = "none" /\ tx_enabled = FALSE
    /\ idle = FALSE
    /\ rx_ring = <<>> /\ accumulator = <<>> /\ discarding = FALSE
    /\ applied = NoVersion /\ newest = NoVersion
    /\ owed = <<>> /\ skipped = 0 /\ allowed = 0 /\ troubles = 0

Next ==
    \/ wire_peripheral_report_event
    \/ peripheral_input_note_event
    \/ wire_link_send_input
    \/ wire_peripheral_keepalive_fire
    \/ wire_keepalive_fire
    \/ IdleElapses
    \/ BytesArrive
    \/ BytesDamaged
    \/ TxIdle
    \/ wire_process_ring
    \/ PeripheralReboot
    \/ ReceiverReboot

Spec == Init /\ [][Next]_vars

(* Timers, threads and interrupts keep running.  Heartbeats are fewer than   *)
(* the bytes the cable carries, so a keepalive finds room again and again.   *)
FairSpec ==
    /\ Spec
    /\ WF_vars(IdleElapses) /\ WF_vars(BytesArrive \/ TxIdle)
    /\ WF_vars(wire_process_ring) /\ WF_vars(wire_link_send_input)
    /\ SF_vars(wire_peripheral_keepalive_fire /\ ~idle')

-----------------------------------------------------------------------------
(* Properties.                                                               *)

(* Every variable keeps its type, the bounds of rings and accumulator        *)
(* included.                                                                 *)
TypeOK ==
    /\ ver \in Version /\ applied \in Version /\ newest \in Version
    /\ noted \in BOOLEAN /\ idle \in BOOLEAN /\ tx_enabled \in BOOLEAN
    /\ wire_tx_frame_ring \in Rings \union {"none"}
    /\ \A r \in Rings : Len(rings[r]) <= RingBytes[r]
    /\ Len(rx_ring) <= RxRingBytes
    /\ Len(accumulator) <= AccumulatorBytes /\ discarding \in BOOLEAN
    /\ Range(owed) \subseteq Frame
    /\ skipped \in Nat /\ allowed \in Nat /\ troubles \in 0..MaxTroubles

(* Nothing is between the last whole frame sent and the parser.              *)
Drained == rx_ring = <<>> /\ wire_tx_frame_ring = "none"

(* A frame is lost only to a fault that touched it or the delimiter before   *)
(* it: whatever the rings interleave and however the parser is thrown out of *)
(* step, n lost bytes in a row cost at most n + 1 frames.                    *)
LossIsLocal == skipped + (IF Drained THEN Len(owed) ELSE 0) <= allowed

(* A key event is never handed up after a snapshot or an event that already  *)
(* contained it, although snapshots take a ring of their own.                *)
KeysInOrder ==
    [][\A n \in 1..MaxTransitions :
          ( /\ wire_process_ring /\ Head(rx_ring) = Delimiter /\ ~discarding
            /\ Whole(accumulator) /\ accumulator[1].of.kind = "event"
            /\ accumulator[1].of.ver["event"] = n ) => n > newest["event"]]_vars

(* Once the switches are quiet the receiver holds their state for good,      *)
(* whatever was refused, overrun, spoiled or overtaken before.               *)
WireConverges == <>[](applied = ver)
=============================================================================
