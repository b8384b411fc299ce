----------------------------- MODULE SpscLatch -----------------------------
(***************************************************************************)
(* The two-slot latest-value latch (spsc_latch.c) between a thread and the  *)
(* radio ISR.  The ISR can cut in between any two steps of the thread and   *)
(* runs to completion.  It is the consumer of the central's control and     *)
(* idle-reply latches and the producer of the peripheral's staged mask.     *)
(*                                                                          *)
(* A value is a publication number.  memcpy of a slot is two steps, so a    *)
(* copy that overlaps a write shows as two different halves.                *)
(***************************************************************************)
EXTENDS Naturals

CONSTANT MaxPublishes    \* bound: publications

ASSUME BoundAssumption == MaxPublishes \in Nat

SlotCount == 2      \* CONTROL_LATCH_SLOTS, IDLE_REPLY_SLOTS, STAGED_MASK_SLOTS
Slot == 0..(SlotCount - 1)
Null == SlotCount

(* The ISR publishes this often at most while the thread copies one slot out: *)
(* a copy takes a few cycles, a packet hundreds of microseconds.              *)
MaxOverlap == 1

VARIABLES
    isr,                    \* the side the ISR is on, fixed by the latch's user
    next_index, published,  \* struct spsc_latch
    slots,                  \* the pool the latch points into
    producer, claim,        \* producer: "idle", "claimed", "half", "written"
    consumer, peek, copy,   \* consumer: "idle", "peeked", "half", "copied"
    overlap,                \* publications since the consumer peeked
    count, taken            \* history: publications made, newest one consumed

latch_vars == <<isr, next_index, published, slots, producer, claim, consumer, peek, copy,
                overlap, count, taken>>

Halves == [lo : Nat, hi : Nat]

ThreadRuns(isr_side) == isr_side = "idle"
ProducerRuns == isr = "producer" \/ ThreadRuns(consumer)
ConsumerRuns == isr = "consumer" \/ ThreadRuns(producer)

(* Mutant: the index does not advance, every claim returns the same slot. *)
claim_same_slot ==
    /\ claim' = next_index
    /\ UNCHANGED next_index

spsc_latch_claim ==
    /\ claim' = next_index
    /\ next_index' = (next_index + 1) % SlotCount

Claim ==
    /\ ProducerRuns /\ producer = "idle"
    /\ count < MaxPublishes
    /\ consumer # "idle" => overlap < MaxOverlap
    /\ spsc_latch_claim
    /\ producer' = "claimed"
    /\ UNCHANGED <<isr, published, slots, consumer, peek, copy, overlap, count, taken>>

WriteLow ==
    /\ ProducerRuns /\ producer = "claimed"
    /\ slots' = [slots EXCEPT ![claim].lo = count + 1]
    /\ producer' = "half"
    /\ UNCHANGED <<isr, next_index, published, claim, consumer, peek, copy, overlap, count, taken>>

WriteHigh ==
    /\ ProducerRuns /\ producer = "half"
    /\ slots' = [slots EXCEPT ![claim].hi = count + 1]
    /\ producer' = "written"
    /\ UNCHANGED <<isr, next_index, published, claim, consumer, peek, copy, overlap, count, taken>>

spsc_latch_publish ==
    /\ ProducerRuns /\ producer = "written"
    /\ published' = claim
    /\ count' = count + 1
    /\ overlap' = IF consumer = "idle" THEN 0 ELSE overlap + 1
    /\ producer' = "idle"
    /\ UNCHANGED <<isr, next_index, slots, claim, consumer, peek, copy, taken>>

spsc_latch_peek ==
    /\ ConsumerRuns /\ consumer = "idle"
    /\ published # Null
    /\ peek' = published /\ overlap' = 0
    /\ consumer' = "peeked"
    /\ UNCHANGED <<isr, next_index, published, slots, producer, claim, copy, count, taken>>

CopyLow ==
    /\ ConsumerRuns /\ consumer = "peeked"
    /\ copy' = [copy EXCEPT !.lo = slots[peek].lo]
    /\ consumer' = "half"
    /\ UNCHANGED <<isr, next_index, published, slots, producer, claim, peek, overlap, count, taken>>

CopyHigh ==
    /\ ConsumerRuns /\ consumer = "half"
    /\ copy' = [copy EXCEPT !.hi = slots[peek].hi]
    /\ consumer' = "copied"
    /\ UNCHANGED <<isr, next_index, published, slots, producer, claim, peek, overlap, count, taken>>

(* Mutant: the release forgets a publication made since the peek. *)
release_whatever_is_there(expected) == published' = Null

spsc_latch_release(expected) ==
    published' = IF published = expected THEN Null ELSE published

(* Mutant: a refused write releases the slot as well. *)
done_releases_anyway(accepted) ==
    /\ spsc_latch_release(peek)
    /\ taken' = IF accepted THEN copy.lo ELSE taken

(* The value is used.  On the central the ACK FIFO can refuse it, and the    *)
(* slot then stays published (write_pending_control); the peripheral always  *)
(* takes it (adopt_staged_mask).                                             *)
ConsumerDone(accepted) ==
    IF accepted THEN spsc_latch_release(peek) /\ taken' = copy.lo
    ELSE UNCHANGED <<published, taken>>

Consume(accepted) ==
    /\ ConsumerRuns /\ consumer = "copied"
    /\ isr = "producer" => accepted
    /\ ConsumerDone(accepted)
    /\ consumer' = "idle"
    /\ overlap' = 0
    /\ UNCHANGED <<isr, next_index, slots, producer, claim, peek, copy, count>>

LatchInit ==
    /\ isr \in {"producer", "consumer"}
    /\ next_index = 0 /\ published = Null
    /\ slots = [s \in Slot |-> [lo |-> 0, hi |-> 0]]
    /\ producer = "idle" /\ claim = 0
    /\ consumer = "idle" /\ peek = 0 /\ copy = [lo |-> 0, hi |-> 0]
    /\ overlap = 0 /\ count = 0 /\ taken = 0

LatchNext ==
    \/ Claim \/ WriteLow \/ WriteHigh \/ spsc_latch_publish
    \/ spsc_latch_peek \/ CopyLow \/ CopyHigh
    \/ \E accepted \in BOOLEAN : Consume(accepted)

LatchSpec == LatchInit /\ [][LatchNext]_latch_vars

-----------------------------------------------------------------------------
TypeOK ==
    /\ isr \in {"producer", "consumer"}
    /\ next_index \in Slot /\ published \in Slot \union {Null}
    /\ slots \in [Slot -> Halves]
    /\ producer \in {"idle", "claimed", "half", "written"} /\ claim \in Slot
    /\ consumer \in {"idle", "peeked", "half", "copied"} /\ peek \in Slot
    /\ copy \in Halves
    /\ overlap \in 0..MaxOverlap
    /\ count \in Nat /\ taken \in Nat

(* What the consumer copied out is one publication, never a mix of two: the  *)
(* producer claims the slot that is neither published nor being read.        *)
NoTornRead == consumer = "copied" => copy.lo = copy.hi

(* An empty latch means that the newest publication was consumed: neither a  *)
(* publication between peek and release nor a refused write loses the value. *)
NoLostPublication == published = Null => taken = count

(* What is published is whole and is the newest.                             *)
PublishedIsNewest ==
    published # Null => slots[published] = [lo |-> count, hi |-> count]

(* The producer writes neither the published slot nor the one after it that  *)
(* the consumer still reads.                                                 *)
WriterApart ==
    /\ producer = "idle" => (published # Null => next_index # published)
    /\ producer # "idle" => /\ claim # published /\ next_index # claim
    /\ producer \in {"half", "written"} => slots[claim].lo = count + 1
    /\ producer = "written" => slots[claim].hi = count + 1

(* While the consumer copies, its slot keeps the value it had at the peek:   *)
(* the newest, or the one before once a publication has overlapped the copy. *)
ReaderSafe ==
    /\ (consumer # "idle" /\ producer # "idle") => (isr = "producer" /\ overlap = 0)
                                                   \/ isr = "consumer"
    /\ consumer # "idle" =>
         /\ overlap <= count
         /\ slots[peek] = [lo |-> count - overlap, hi |-> count - overlap]
         /\ (overlap = 0 => published = peek)
         /\ (overlap = 1 => /\ isr = "producer" /\ producer = "idle"
                            /\ published \in Slot /\ published # peek)
    /\ consumer \in {"half", "copied"} => copy.lo = count - overlap
    /\ consumer = "copied" => copy.hi = count - overlap

LatchInv == TypeOK /\ NoLostPublication /\ PublishedIsNewest /\ WriterApart /\ ReaderSafe
=============================================================================
