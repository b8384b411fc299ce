------------------------- MODULE MotionTotalsProofs -------------------------
(***************************************************************************)
(* Lossy motion, for every pair of moduli, every cap and every set of axes: *)
(* the totals a packet or a keepalive brings are read back to the counts    *)
(* that really moved, in order, across lost packets, wraps and restarts.    *)
(***************************************************************************)
EXTENDS MotionTotals, FiniteSetTheorems, SequenceTheorems, TLAPS

-----------------------------------------------------------------------------
(* Arithmetic modulo m. *)

(* Division with remainder. *)
LEMMA Divided ==
    ASSUME NEW x \in Int, NEW m \in Nat \ {0}
    PROVE  x % m \in 0..(m - 1) /\ x \div m \in Int /\ x = m * (x \div m) + (x % m)
OBVIOUS

(* A product with a number other than zero is as large as the modulus. *)
LEMMA Multiple ==
    ASSUME NEW m \in Nat \ {0}, NEW q \in Int
    PROVE  (q >= 1 => m * q >= m) /\ (q <= -1 => m * q <= -m)
OBVIOUS

(* The remainder is unique. *)
LEMMA Remainder ==
    ASSUME NEW m \in Nat \ {0}, NEW x \in Int, NEW q \in Int, NEW r \in 0..(m - 1), x = m * q + r
    PROVE  x % m = r
<1> DEFINE p == x \div m
           s == x % m
<1>1. s \in 0..(m - 1) /\ p \in Int /\ x = m * p + s
  BY Divided
<1> HIDE DEF p, s
<1>2. m * (p - q) = r - s
  BY <1>1
<1>3. p - q \in Int /\ r - s < m /\ r - s > -m
  BY <1>1
<1>4. p - q = 0
  BY <1>2, <1>3, Multiple
<1>5. m * (p - q) = 0
  BY <1>4
<1> QED BY <1>1, <1>2, <1>5 DEF s

(* A total wraps as its sum does. *)
LEMMA SumWraps ==
    ASSUME NEW m \in Nat \ {0}, NEW x \in Int, NEW d \in Int
    PROVE  ((x % m) + d) % m = (x + d) % m
<1> DEFINE r == x % m
           p == x \div m
           s == (r + d) % m
           q == (r + d) \div m
<1>1. r \in 0..(m - 1) /\ p \in Int /\ x = m * p + r
  BY Divided
<1> HIDE DEF p, r
<1>2. s \in 0..(m - 1) /\ q \in Int /\ r + d = m * q + s
  <2>1. r + d \in Int
    BY <1>1
  <2> QED BY <2>1, Divided
<1> HIDE DEF q, s
<1>3. p + q \in Int /\ x + d \in Int /\ x + d = m * (p + q) + s
  BY <1>1, <1>2
<1>4. (x + d) % m = s
  BY <1>2, <1>3, Remainder
<1> QED BY <1>4 DEF s, r

(* The low part of a total is the low part of its sum. *)
LEMMA LowPart ==
    ASSUME NEW m \in Nat \ {0}, NEW n \in Nat \ {0}, NEW x \in Int
    PROVE  (x % (n * m)) % m = x % m
<1> DEFINE w == n * m
           r == x % w
           p == x \div w
           s == r % m
           q == r \div m
<1>1. w \in Nat \ {0}
  <2>1. n * m \in Int /\ n * m >= m
    <3>1. n \in Int /\ n >= 1 /\ m * n = n * m
      OBVIOUS
    <3> QED BY <3>1, Multiple
  <2> QED BY <2>1
<1>2. r \in 0..(w - 1) /\ p \in Int /\ x = w * p + r /\ r \in Int
  <2> HIDE DEF w
  <2> QED BY <1>1, Divided
<1>3. x = (n * m) * p + r
  BY <1>2
<1> HIDE DEF w, p, r
<1>4. s \in 0..(m - 1) /\ q \in Int /\ r = m * q + s
  BY <1>2, Divided
<1> HIDE DEF q, s
<1>5. x = m * (n * p + q) + s
  <2>1. (n * m) * p = m * (n * p)
    BY <1>2
  <2>2. n * p \in Int
    BY <1>2
  <2>3. m * (n * p + q) = m * (n * p) + m * q
    BY <1>4, <2>2
  <2> QED BY <1>2, <1>3, <1>4, <2>1, <2>2, <2>3
<1>6. n * p + q \in Int
  BY <1>2, <1>4
<1>7. x % m = s
  BY <1>4, <1>5, <1>6, Remainder
<1> QED BY <1>7 DEF s, r, w

(* A gap below half the modulus is read back whatever was wrapped. *)
LEMMA ReadBack ==
    ASSUME NEW m \in Nat \ {0}, NEW q \in Int, NEW g \in Int, NEW x \in Int, x = m * q + g,
           2 * Abs(g) < m
    PROVE  Signed(x, m) = g
<1>1. 2 * g < m /\ 2 * g > -m
  BY DEF Abs
<1>2. CASE g >= 0
  <2>1. x % m = g
    <3>1. g \in 0..(m - 1)
      BY <1>1, <1>2
    <3> QED BY <3>1, Remainder
  <2> QED BY <1>1, <2>1 DEF Signed
<1>3. CASE g < 0
  <2>1. x % m = g + m
    <3>1. g + m \in 0..(m - 1) /\ q - 1 \in Int
      BY <1>1, <1>3
    <3>2. m * (q - 1) = m * q - m
      OBVIOUS
    <3>3. x = m * (q - 1) + (g + m)
      BY <3>2
    <3> QED BY <3>1, <3>3, Remainder
  <2>2. ~(2 * (g + m) < m) /\ (g + m) - m = g
    BY <1>1, <1>3
  <2> QED BY <2>1, <2>2 DEF Signed
<1> QED BY <1>2, <1>3

(* A remainder differs from its number by a multiple. *)
LEMMA Wrapped ==
    ASSUME NEW m \in Nat \ {0}, NEW x \in Int
    PROVE  \E q \in Int : x % m = m * q + x
<1> DEFINE p == x \div m
           r == x % m
<1>1. r \in 0..(m - 1) /\ p \in Int /\ x = m * p + r
  BY Divided
<1> HIDE DEF p, r
<1>2. -p \in Int /\ m * (-p) = -(m * p) /\ m * p \in Int /\ r \in Int
  BY <1>1
<1>3. r = m * (-p) + x
  BY <1>1, <1>2
<1> QED BY <1>2, <1>3 DEF r

(* And so does its difference to any other. *)
LEMMA Difference ==
    ASSUME NEW m \in Nat \ {0}, NEW x \in Int, NEW y \in Int
    PROVE  \E q \in Int : (x % m) - y = m * q + (x - y)
<1>1. PICK q \in Int : x % m = m * q + x
  BY Wrapped
<1>2. m * q \in Int
  OBVIOUS
<1>3. (x % m) - y = m * q + (x - y)
  BY <1>1, <1>2
<1> QED BY <1>3

-----------------------------------------------------------------------------
(* One axis of the central. *)

(* The moduli are moduli, and the short one divides the long one. *)
LEMMA Moduli ==
    /\ Short \in Nat \ {0} /\ Total \in Nat \ {0} /\ Short <= Total /\ Resync \in Nat
    /\ \E n \in Nat \ {0} : Total = n * Short
<1>1. PICK n \in 1..Total : Total = n * Short
  BY ModulusAssumption
<1>2. Short \in Nat \ {0} /\ Total \in Nat \ {0} /\ n \in Nat \ {0} /\ Resync \in Nat
  BY ModulusAssumption
<1>3. n * Short = Short * n
  BY <1>2
<1>4. n \in Int /\ n >= 1
  BY <1>2
<1>5. Short <= n * Short
  <2>1. Short * n >= Short
    BY <1>2, <1>4, Multiple
  <2> QED BY <1>2, <1>3, <1>4, <2>1
<1> QED BY <1>1, <1>2, <1>5

(* What a sample at s forwards to a central that stands at p. *)
Gap(p, s) == IF Abs(s - p) > Resync THEN 0 ELSE s - p

(* Any step leaves a total. *)
LEMMA TrackTypes ==
    ASSUME NEW last \in Int, NEW value \in Int
    PROVE  /\ esb_motion_track_delta(last, value).last \in 0..(Total - 1)
           /\ esb_motion_track_short_delta(last, value).last \in 0..(Total - 1)
<1>1. value - last \in Int
  OBVIOUS
<1>2. \A m \in Nat \ {0} : Signed(value - last, m) \in Int
  <2> TAKE m \in Nat \ {0}
  <2>1. (value - last) % m \in 0..(m - 1)
    BY <1>1, Divided
  <2>2. (value - last) % m \in Int
    BY <2>1
  <2> QED BY <2>2 DEF Signed
<1>3. \A gap \in Int : (last + gap) % Total \in 0..(Total - 1)
  <2> TAKE gap \in Int
  <2>1. last + gap \in Int
    OBVIOUS
  <2> QED BY <2>1, Moduli, Divided
<1> QED
  BY <1>2, <1>3, Moduli
     DEF esb_motion_track_delta, esb_motion_track_short_delta, esb_motion_track_gap

(* A step by the true gap. *)
LEMMA TrueGap ==
    ASSUME NEW p \in Int, NEW s \in Int
    PROVE  /\ esb_motion_track_gap(p % Total, s - p).last = s % Total
           /\ esb_motion_track_gap(p % Total, s - p).delta = Gap(p, s)
<1>1. ((p % Total) + (s - p)) % Total = (p + (s - p)) % Total
  <2>1. s - p \in Int
    OBVIOUS
  <2> QED BY <2>1, Moduli, SumWraps
<1>2. p + (s - p) = s
  OBVIOUS
<1> QED BY <1>1, <1>2 DEF esb_motion_track_gap, Gap

(* A total: the gap is the motion between the two samples. *)
LEMMA TotalReadBack ==
    ASSUME NEW p \in Int, NEW s \in Int, 2 * Abs(s - p) < Short
    PROVE  LET step == esb_motion_track_delta(p % Total, s % Total)
           IN  step.last = s % Total /\ step.delta = Gap(p, s)
<1>1. p % Total \in Int /\ s % Total \in Int
  <2>1. p % Total \in 0..(Total - 1) /\ s % Total \in 0..(Total - 1)
    BY Moduli, Divided
  <2> QED BY <2>1
<1>2. PICK q \in Int : (s % Total) - (p % Total) = Total * q + (s - (p % Total))
  BY <1>1, Moduli, Difference
<1>3. PICK k \in Int : p % Total = Total * k + p
  BY Moduli, Wrapped
<1> DEFINE x == (s % Total) - (p % Total)
           r == p % Total
<1>4. x \in Int /\ s - p \in Int /\ q - k \in Int
  BY <1>1
<1>5. x = Total * (q - k) + (s - p)
  <2>1. Total * (q - k) = Total * q - Total * k /\ Total * q \in Int /\ Total * k \in Int
    BY Moduli
  <2>2. x = Total * q + (s - r) /\ r \in Int /\ r = Total * k + p
    BY <1>1, <1>2, <1>3
  <2> HIDE DEF r, x
  <2> QED BY <2>1, <2>2
<1>6. 2 * Abs(s - p) < Total
  <2>1. Abs(s - p) \in Int
    BY <1>4 DEF Abs
  <2> QED BY <2>1, Moduli
<1> HIDE DEF x
<1>7. Signed(x, Total) = s - p
  <2>1. Total \in Nat \ {0}
    BY Moduli
  <2> QED BY <1>4, <1>5, <1>6, <2>1, ReadBack
<1> QED BY <1>7, TrueGap DEF esb_motion_track_delta, x

(* A short total: the same, from the low part alone. *)
LEMMA ShortReadBack ==
    ASSUME NEW p \in Int, NEW s \in Int, 2 * Abs(s - p) < Short
    PROVE  LET step == esb_motion_track_short_delta(p % Total, s % Short)
           IN  step.last = s % Total /\ step.delta = Gap(p, s)
<1>1. p % Total \in Int /\ s % Short \in Int
  <2>1. p % Total \in 0..(Total - 1) /\ s % Short \in 0..(Short - 1)
    BY Moduli, Divided
  <2> QED BY <2>1
<1>2. PICK q \in Int : (s % Short) - (p % Total) = Short * q + (s - (p % Total))
  BY <1>1, Moduli, Difference
<1>3. PICK k \in Int : p % Total = Total * k + p
  BY Moduli, Wrapped
<1>4. PICK n \in Nat \ {0} : Total = n * Short
  BY Moduli
<1> DEFINE x == (s % Short) - (p % Total)
           r == p % Total
<1>5. x \in Int /\ s - p \in Int /\ q - n * k \in Int /\ n * k \in Int
  BY <1>1
<1>6. x = Short * (q - n * k) + (s - p)
  <2>1. Total * k = Short * (n * k)
    BY <1>4, Moduli
  <2>2. Short * (q - n * k) = Short * q - Short * (n * k)
    BY <1>5, Moduli
  <2>3. Short * q \in Int /\ Short * (n * k) \in Int
    BY <1>5, Moduli
  <2>4. x = Short * q + (s - r) /\ r \in Int /\ r = Total * k + p
    BY <1>1, <1>2, <1>3
  <2> HIDE DEF r, x
  <2> QED BY <2>1, <2>2, <2>3, <2>4
<1> HIDE DEF x
<1>7. Signed(x, Short) = s - p
  BY <1>5, <1>6, Moduli, ReadBack
<1> QED BY <1>7, TrueGap DEF esb_motion_track_short_delta, x

-----------------------------------------------------------------------------
(* What travels. *)

(* A bound on one report, small enough for all of them together. *)
Bounds(reach) == /\ \A delta \in Deltas : Abs(delta) <= reach
                 /\ 2 * (MaxMoves * reach) < Short
Reach == CHOOSE reach \in 0..Short : Bounds(reach)

(* Events and packets. *)
Events  == [axis : Axes, total : BOOLEAN, value : Int, sample : Samples]
Motions == [kind : {"motion"}, events : Seq(Events)]
Keepalives ==
    [kind : {"keepalive"}, totals : UNION {[S -> [short : Int, sample : Samples]] : S \in SUBSET Axes}]
Packets == Motions \union Keepalives

(* A sample that was taken, never the central's Unseen. *)
Real(s) == s.move > 0 \/ s.at # 0

(* t was taken after s, and not further away than the reports between them. *)
Near(s, t) == s.move <= t.move /\ Abs(t.at - s.at) <= (t.move - s.move) * Reach

(* A total is the low part of the position it was sampled at. *)
TrueEvent(e)     == Real(e.sample) /\ (e.total => e.value = e.sample.at % Total)
(* A batch names each axis once. *)
Distinct(events) == \A i, j \in 1..Len(events) : events[i].axis = events[j].axis => i = j
(* A packet of true events, or of low parts of true positions. *)
TruePacket(p) ==
    /\ p.kind = "motion" => Distinct(p.events) /\ \A i \in 1..Len(p.events) : TrueEvent(p.events[i])
    /\ p.kind = "keepalive" =>
           \A a \in DOMAIN p.totals : /\ Real(p.totals[a].sample)
                                      /\ p.totals[a].short = p.totals[a].sample.at % Short

(* The samples of axis a that packet p brings. *)
Said(p, a) ==
    IF p.kind = "motion"
    THEN {p.events[i].sample : i \in {j \in 1..Len(p.events) : p.events[j].axis = a}}
    ELSE IF a \in DOMAIN p.totals THEN {p.totals[a].sample} ELSE {}

-----------------------------------------------------------------------------
(* The inductive invariant.  now is what each axis would sample now. *)

Now == [a \in Axes |-> Sample(a)]

(* Types, with what the batch and the FIFO hold. *)
MotionTypes == TypeOK /\ batch \in Seq(Events) /\ tx_fifo \in Seq(Packets)

(* A slot holds its axis' position; an axis without one has not moved or     *)
(* found the slots taken.                                                    *)
SlotInv ==
    /\ \A a \in DOMAIN motion_slots : motion_slots[a] = travelled[a] % Total /\ Real(Sample(a))
    /\ \A a \in Axes \ DOMAIN motion_slots :
           travelled[a] = 0 \/ Cardinality(DOMAIN motion_slots) >= MotionSlots

(* The batch holds each axis where it is now. *)
Held(events, now) ==
    /\ Distinct(events)
    /\ \A i \in 1..Len(events) : TrueEvent(events[i]) /\ events[i].sample = now[events[i].axis]

(* Packets are true, of this boot, and in the order of their samples. *)
InFlight(fifo, now) ==
    /\ \A i \in 1..Len(fifo) : TruePacket(fifo[i])
    /\ \A i \in 1..Len(fifo), a \in Axes : \A s \in Said(fifo[i], a) :
           s.boot = now[a].boot /\ Near(s, now[a])
    /\ \A i, j \in 1..Len(fifo), a \in Axes : i < j =>
           \A s \in Said(fifo[i], a), t \in Said(fifo[j], a) : Near(s, t)

(* The central is behind all of them. *)
Behind(p, a, fifo, now) ==
    /\ p.boot <= now[a].boot /\ p.move <= now[a].move
    /\ \A i \in 1..Len(fifo) : \A s \in Said(fifo[i], a) : p.move <= s.move

(* A track stands where the central applied a sample; within the boot of its *)
(* baseline every later sample is within reach of it.                        *)
Stands(p, a, last, fifo, now) ==
    /\ Real(p)
    /\ p.boot = now[a].boot =>
           /\ last = p.at % Total
           /\ Near(p, now[a])
           /\ \A i \in 1..Len(fifo) : \A s \in Said(fifo[i], a) : Near(p, s)

(* Central, FIFO and peripheral in one order. *)
Ordered(fifo, now, places, tracks, reset) ==
    /\ InFlight(fifo, now)
    /\ \A a \in Axes : Behind(places[a], a, fifo, now)
    /\ ~reset => \A a \in DOMAIN tracks : Stands(places[a], a, tracks[a], fifo, now)

MotionInv == /\ MotionTypes /\ SlotInv /\ Held(batch, Now)
             /\ Ordered(tx_fifo, Now, place, tracked_motions, input_reset)

(* With a track for every axis, an axis the central has seen has one. *)
SeenTracked == ~input_reset => \A a \in Axes : place[a] # Unseen => a \in DOMAIN tracked_motions

-----------------------------------------------------------------------------
(* Samples in order. *)

(* The reach exists. *)
LEMMA ReachBounds ==
    /\ Reach \in Nat /\ 2 * (MaxMoves * Reach) < Short
    /\ \A delta \in Deltas : delta \in Int /\ Abs(delta) <= Reach
<1>1. \E reach \in 0..Short : Bounds(reach)
  BY ReachAssumption DEF Bounds
<1>2. Reach \in 0..Short /\ Bounds(Reach)
  BY <1>1 DEF Reach
<1> QED BY <1>2, MotionBounds DEF Bounds

(* Fewer reports reach less far. *)
LEMMA Farther ==
    ASSUME NEW x \in Int, NEW y \in Int, x <= y
    PROVE  x * Reach \in Int /\ y * Reach \in Int /\ x * Reach <= y * Reach
<1>1. Reach \in Nat
  BY ReachBounds
<1>2. \A n \in Nat, k \in Nat : n * k \in Nat
  OBVIOUS
<1>3. (y - x) * Reach \in Nat
  BY <1>1, <1>2
<1>4. (y - x) * Reach = y * Reach - x * Reach
  BY <1>1
<1>5. x * Reach \in Int /\ y * Reach \in Int
  BY <1>1
<1> QED BY <1>3, <1>4, <1>5

(* Near is reflexive... *)
LEMMA NearItself == ASSUME NEW s \in Samples PROVE Near(s, s)
<1>1. s.move \in Int /\ s.at \in Int /\ Reach \in Nat
  BY ReachBounds, MotionBounds DEF Samples
<1>2. s.at - s.at = 0 /\ s.move - s.move = 0 /\ 0 * Reach = 0
  BY <1>1
<1> QED BY <1>1, <1>2 DEF Near, Abs

(* ...and transitive. *)
LEMMA NearThrough ==
    ASSUME NEW r \in Samples, NEW s \in Samples, NEW t \in Samples, Near(r, s), Near(s, t)
    PROVE  Near(r, t)
<1> DEFINE x == s.move - r.move
           y == t.move - s.move
           u == s.at - r.at
           v == t.at - s.at
<1>1. /\ r.move \in Int /\ s.move \in Int /\ t.move \in Int
      /\ r.at \in Int /\ s.at \in Int /\ t.at \in Int /\ Reach \in Int
  BY ReachBounds, MotionBounds DEF Samples
<1>2. x \in Int /\ y \in Int /\ u \in Int /\ v \in Int
  BY <1>1
<1>3. t.move - r.move = x + y /\ t.at - r.at = u + v
  BY <1>1
<1>4. r.move <= t.move
  BY <1>1 DEF Near
<1>5. Abs(u) <= x * Reach /\ Abs(v) <= y * Reach
  BY DEF Near
<1> HIDE DEF x, y, u, v
<1>6. (x + y) * Reach = x * Reach + y * Reach /\ x * Reach \in Int /\ y * Reach \in Int
  BY <1>1, <1>2
<1>7. Abs(u + v) <= (x + y) * Reach
  BY <1>2, <1>5, <1>6 DEF Abs
<1> QED BY <1>3, <1>4, <1>7 DEF Near

(* The next report is near. *)
LEMMA NearNext ==
    ASSUME NEW s \in Samples, NEW delta \in Deltas, NEW b
    PROVE  Near(s, [boot |-> b, move |-> s.move + 1, at |-> s.at + delta])
<1>1. s.move \in Int /\ s.at \in Int /\ Reach \in Int /\ delta \in Int /\ Abs(delta) <= Reach
  BY ReachBounds, MotionBounds DEF Samples
<1>2. (s.move + 1) - s.move = 1 /\ (s.at + delta) - s.at = delta /\ 1 * Reach = Reach
  BY <1>1
<1> QED BY <1>1, <1>2 DEF Near

(* Near samples are less than half the short modulus apart. *)
LEMMA NearHalf ==
    ASSUME NEW s \in Samples, NEW t \in Samples, Near(s, t)
    PROVE  2 * Abs(t.at - s.at) < Short
<1>1. /\ s.move \in Int /\ t.move \in Int /\ s.move >= 0 /\ t.move <= MaxMoves /\ MaxMoves \in Int
      /\ s.at \in Int /\ t.at \in Int /\ Short \in Int
  BY MotionBounds, Moduli DEF Samples
<1>2. Abs(t.at - s.at) \in Int
  BY <1>1 DEF Abs
<1>3. t.move - s.move \in Int /\ t.move - s.move <= MaxMoves
  BY <1>1
<1>4. /\ (t.move - s.move) * Reach \in Int /\ MaxMoves * Reach \in Int
      /\ (t.move - s.move) * Reach <= MaxMoves * Reach
  BY <1>1, <1>3, Farther
<1>5. Abs(t.at - s.at) <= (t.move - s.move) * Reach
  BY DEF Near
<1> QED BY <1>1, <1>2, <1>4, <1>5, ReachBounds

-----------------------------------------------------------------------------
(* The FIFO. *)

(* A packet brings samples. *)
LEMMA SaidSamples == ASSUME NEW p \in Packets, NEW a PROVE Said(p, a) \subseteq Samples
<1>1. CASE p \in Motions
  <2>1. p.kind = "motion" /\ p.events \in Seq(Events)
    BY <1>1 DEF Motions
  <2>2. \A i \in 1..Len(p.events) : p.events[i].sample \in Samples
    <3>1. \A i \in 1..Len(p.events) : p.events[i] \in Events
      BY <2>1, ElementOfSeq
    <3>2. \A e \in Events : e.sample \in Samples
      BY DEF Events
    <3> QED BY <3>1, <3>2
  <2> QED BY <2>1, <2>2 DEF Said
<1>2. CASE p \in Keepalives
  <2>1. PICK S \in SUBSET Axes : p.totals \in [S -> [short : Int, sample : Samples]]
    BY <1>2 DEF Keepalives
  <2>2. p.kind # "motion"
    BY <1>2 DEF Keepalives
  <2>3. \A b \in DOMAIN p.totals : p.totals[b].sample \in Samples
    BY <2>1
  <2> QED BY <2>2, <2>3 DEF Said
<1> QED BY <1>1, <1>2 DEF Packets

(* A packet of current samples joins the others. *)
LEMMA Joins ==
    ASSUME NEW fifo \in Seq(Packets), NEW p \in Packets, NEW now \in [Axes -> Samples],
           TruePacket(p), \A a \in Axes : Said(p, a) \subseteq {now[a]}
    PROVE  /\ InFlight(fifo, now) => InFlight(Append(fifo, p), now)
           /\ \A a \in Axes, q \in Samples :
                  Behind(q, a, fifo, now) => Behind(q, a, Append(fifo, p), now)
           /\ \A a \in Axes, q \in Samples : \A last :
                  Stands(q, a, last, fifo, now) => Stands(q, a, last, Append(fifo, p), now)
<1> DEFINE f == Append(fifo, p)
           n == Len(fifo)
<1>1. /\ n \in Nat /\ Len(f) = n + 1 /\ f[n + 1] = p
      /\ \A i \in 1..n : f[i] = fifo[i]
  OBVIOUS
<1>2. \A i \in 1..Len(f) : (i \in 1..n /\ f[i] = fifo[i]) \/ (i = n + 1 /\ f[i] = p)
  BY <1>1
<1> HIDE DEF f
<1>3. \A i \in 1..Len(f), a \in Axes : \A s :
          s \in Said(f[i], a) => (i \in 1..n /\ s \in Said(fifo[i], a)) \/ s = now[a]
  BY <1>2
<1>4. \A a \in Axes : now[a] \in Samples /\ Near(now[a], now[a])
  BY NearItself
<1>5. InFlight(fifo, now) => InFlight(f, now)
  <2> SUFFICES ASSUME InFlight(fifo, now) PROVE InFlight(f, now)
    OBVIOUS
  <2>1. \A i \in 1..Len(f) : TruePacket(f[i])
    BY <1>2 DEF InFlight
  <2>2. \A i \in 1..Len(f), a \in Axes : \A s \in Said(f[i], a) :
            s.boot = now[a].boot /\ Near(s, now[a])
    BY <1>3, <1>4 DEF InFlight
  <2>3. ASSUME NEW i \in 1..Len(f), NEW j \in 1..Len(f), NEW a \in Axes, i < j,
               NEW s \in Said(f[i], a), NEW t \in Said(f[j], a)
        PROVE  Near(s, t)
    <3>1. i \in 1..n /\ f[i] = fifo[i] /\ s \in Said(fifo[i], a)
      BY <1>1, <1>2, <2>3
    <3>2. CASE j \in 1..n
      <4>1. f[j] = fifo[j] /\ t \in Said(fifo[j], a)
        BY <1>1, <3>2
      <4> QED BY <2>3, <3>1, <3>2, <4>1 DEF InFlight
    <3>3. CASE j = n + 1
      <4>1. t = now[a]
        BY <1>1, <3>3
      <4> QED BY <2>2, <4>1
    <3> QED BY <1>2, <3>2, <3>3
  <2> QED BY <2>1, <2>2, <2>3 DEF InFlight
<1>6. \A a \in Axes, q \in Samples : Behind(q, a, fifo, now) => Behind(q, a, f, now)
  BY <1>3 DEF Behind
<1>7. \A a \in Axes, q \in Samples : \A last :
          Stands(q, a, last, fifo, now) => Stands(q, a, last, f, now)
  BY <1>3 DEF Stands
<1> QED BY <1>5, <1>6, <1>7 DEF f

(* A packet leaves, lost or received. *)
LEMMA Leaves ==
    ASSUME NEW fifo \in Seq(Packets), NEW now, fifo # <<>>
    PROVE  /\ InFlight(fifo, now) => InFlight(Tail(fifo), now)
           /\ \A a, q : Behind(q, a, fifo, now) => Behind(q, a, Tail(fifo), now)
           /\ \A a, q, last : Stands(q, a, last, fifo, now) => Stands(q, a, last, Tail(fifo), now)
<1> DEFINE f == Tail(fifo)
           n == Len(fifo)
<1>1. n \in Nat \ {0} /\ Len(f) = n - 1 /\ \A i \in 1..Len(f) : f[i] = fifo[i + 1]
  BY HeadTailProperties, EmptySeq
<1> HIDE DEF f, n
<1>2. \A i \in 1..Len(f) : i + 1 \in 1..n /\ f[i] = fifo[i + 1]
  BY <1>1
<1>3. InFlight(fifo, now) => InFlight(f, now)
  <2> SUFFICES ASSUME InFlight(fifo, now) PROVE InFlight(f, now)
    OBVIOUS
  <2>1. \A i, j \in 1..Len(f) : i < j => i + 1 < j + 1
    BY <1>1
  <2>2. \A i \in 1..Len(f) : TruePacket(f[i])
    BY <1>2 DEF InFlight, n
  <2>3. \A i \in 1..Len(f), a \in Axes : \A s \in Said(f[i], a) :
            s.boot = now[a].boot /\ Near(s, now[a])
    BY <1>2 DEF InFlight, n
  <2>4. \A i, j \in 1..Len(f), a \in Axes : i < j =>
            \A s \in Said(f[i], a), t \in Said(f[j], a) : Near(s, t)
    BY <1>2, <2>1 DEF InFlight, n
  <2> QED BY <2>2, <2>3, <2>4 DEF InFlight
<1>4. \A a, q : Behind(q, a, fifo, now) => Behind(q, a, f, now)
  BY <1>2 DEF Behind, n
<1>5. \A a, q, last : Stands(q, a, last, fifo, now) => Stands(q, a, last, f, now)
  BY <1>2 DEF Stands, n
<1> QED BY <1>3, <1>4, <1>5 DEF f

(* An empty FIFO is in order. *)
LEMMA NothingFlies == ASSUME NEW now PROVE InFlight(<<>>, now)
BY DEF InFlight

(* The axes move on. *)
LEMMA MovesOn ==
    ASSUME NEW fifo \in Seq(Packets), NEW now \in [Axes -> Samples], NEW next \in [Axes -> Samples],
           \A a \in Axes : next[a].boot = now[a].boot /\ Near(now[a], next[a])
    PROVE  /\ InFlight(fifo, now) => InFlight(fifo, next)
           /\ \A a \in Axes, q \in Samples :
                  Behind(q, a, fifo, now) => Behind(q, a, fifo, next)
           /\ \A a \in Axes, q \in Samples : \A last :
                  Stands(q, a, last, fifo, now) => Stands(q, a, last, fifo, next)
<1>1. \A i \in 1..Len(fifo), a \in Axes : Said(fifo[i], a) \subseteq Samples
  <2> TAKE i \in 1..Len(fifo), a \in Axes
  <2>1. fifo[i] \in Packets
    BY ElementOfSeq
  <2> QED BY <2>1, SaidSamples
<1>2. \A a \in Axes, s \in Samples : Near(s, now[a]) => Near(s, next[a])
  BY NearThrough
<1>3. InFlight(fifo, now) => InFlight(fifo, next)
  BY <1>1, <1>2 DEF InFlight
<1>4. ASSUME NEW a \in Axes, NEW q \in Samples, Behind(q, a, fifo, now)
      PROVE  Behind(q, a, fifo, next)
  <2>1. q.move \in Int /\ now[a].move \in Int /\ next[a].move \in Int
    BY MotionBounds DEF Samples
  <2>2. q.move <= next[a].move
    BY <1>4, <2>1 DEF Behind, Near
  <2> QED BY <1>4, <2>2 DEF Behind
<1>5. \A a \in Axes, q \in Samples : \A last :
          Stands(q, a, last, fifo, now) => Stands(q, a, last, fifo, next)
  BY <1>2 DEF Stands
<1> QED BY <1>3, <1>4, <1>5

-----------------------------------------------------------------------------
(* Tables. *)

(* A set of indices has a last one. *)
LEMMA Last ==
    ASSUME NEW n \in Nat, NEW S, S \subseteq 1..n, S # {}
    PROVE  \E x \in S : \A y \in S : y <= x
<1> DEFINE T == {n - x : x \in S}
<1>1. T \subseteq Nat /\ T # {}
  <2>1. \A x \in 1..n : n - x \in Nat
    OBVIOUS
  <2> QED BY <2>1
<1>2. \E s \in T : \A t \in T : ~(<<t, s>> \in OpToRel(<, Nat))
  <2> HIDE DEF T
  <2> QED BY <1>1, NatLessThanWellFounded, WFMin
<1>3. PICK s \in T : \A t \in T : ~(t < s)
  <2> HIDE DEF T
  <2> QED BY <1>1, <1>2 DEF OpToRel
<1>4. PICK x \in S : s = n - x
  BY <1>3
<1>5. ASSUME NEW y \in S PROVE y <= x
  <2>1. n - y \in T /\ x \in 1..n /\ y \in 1..n
    OBVIOUS
  <2>2. ~(n - y < n - x)
    BY <1>3, <1>4, <2>1
  <2> QED BY <2>1, <2>2
<1> QED BY <1>5

(* A set of axes is no larger than a finite set that covers it, with one     *)
(* index for each of them or more.                                           *)
LEMMA Covered ==
    ASSUME NEW J, IsFiniteSet(J), NEW f, NEW C, \A c \in C : \E j \in J : f[j] = c
    PROVE  IsFiniteSet(C) /\ Cardinality(C) <= Cardinality(J)
           /\ Cardinality(C) \in Nat /\ Cardinality(J) \in Nat
<1> DEFINE K == {j \in J : f[j] \in C}
           g == [j \in K |-> f[j]]
<1>1. g \in Surjection(K, C)
  <2>1. g \in [K -> C]
    OBVIOUS
  <2>2. ASSUME NEW c \in C PROVE \E j \in K : g[j] = c
    BY <2>2
  <2> QED BY <2>1, <2>2 DEF Surjection
<1>2. K \in SUBSET J
  OBVIOUS
<1>3. IsFiniteSet(K) /\ Cardinality(K) <= Cardinality(J)
  BY <1>2, FS_Subset
<1> HIDE DEF K, g
<1>4. IsFiniteSet(C) /\ Cardinality(C) <= Cardinality(K)
  BY <1>1, <1>3, FS_Surjection
<1>5. Cardinality(C) \in Nat /\ Cardinality(K) \in Nat /\ Cardinality(J) \in Nat
  BY <1>3, <1>4, FS_CardinalityType
<1> QED BY <1>3, <1>4, <1>5

(* The events among the first i that ask for a track. *)
Asking(events, tracks, i) ==
    {j \in 1..i : events[j].total /\ events[j].axis \notin DOMAIN tracks}

(* Claimed, in terms of who asks. *)
LEMMA ClaimedDef ==
    ASSUME NEW events, NEW tracks
    PROVE  Claimed(events, tracks) =
               {a \in Axes : \E i \in 1..Len(events) :
                   /\ events[i].axis = a /\ events[i].total /\ a \notin DOMAIN tracks
                   /\ Cardinality(DOMAIN tracks) + Cardinality(Asking(events, tracks, i))
                          <= MotionTracks}
BY DEF Claimed, Asking

(* A packet never claims more tracks than are free. *)
LEMMA ClaimsFit ==
    ASSUME NEW events, Len(events) \in Nat, NEW tracks, DOMAIN tracks \subseteq Axes,
           Cardinality(DOMAIN tracks) <= MotionTracks
    PROVE  /\ Claimed(events, tracks) \subseteq Axes
           /\ Cardinality(DOMAIN tracks \union Claimed(events, tracks)) <= MotionTracks
<1> DEFINE D == DOMAIN tracks
           C == Claimed(events, tracks)
           J == {i \in 1..Len(events) : /\ events[i].axis \in Axes /\ events[i].total
                                        /\ events[i].axis \notin D
                                        /\ Cardinality(D) + Cardinality(Asking(events, tracks, i))
                                               <= MotionTracks}
<1>1. C \subseteq Axes /\ \A c \in C : \E i \in J : events[i].axis = c
  BY ClaimedDef
<1>2. IsFiniteSet(D) /\ Cardinality(D) \in Nat /\ MotionTracks \in Nat
  <2>1. D \in SUBSET Axes
    OBVIOUS
  <2>2. IsFiniteSet(D)
    BY <2>1, StartAssumption, FS_Subset
  <2> QED BY <2>2, FS_CardinalityType, MotionBounds
<1>3. CASE J = {}
  <2>1. D \union C = D
    BY <1>1, <1>3
  <2> QED BY <1>1, <2>1
<1>4. CASE J # {}
  <2>1. J \subseteq 1..Len(events)
    OBVIOUS
  <2>2. PICK m \in J : \A i \in J : i <= m
    <3> HIDE DEF J
    <3> QED BY <1>4, <2>1, Last
  <2> DEFINE A == Asking(events, tracks, m)
             axis == [i \in 1..m |-> events[i].axis]
  <2>3. m \in Nat /\ A \in SUBSET (1..m) /\ IsFiniteSet(1..m)
    <3>1. m \in Nat /\ 1 \in Int /\ m \in Int
      BY <2>1
    <3> QED BY <3>1, FS_Interval DEF Asking
  <2>4. IsFiniteSet(A)
    BY <2>3, FS_Subset
  <2>5. \A c \in C : \E i \in A : axis[i] = c
    <3> TAKE c \in C
    <3>1. PICK i \in J : events[i].axis = c
      BY <1>1
    <3>2. i <= m /\ i \in 1..Len(events)
      BY <2>2
    <3>3. i \in 1..m
      BY <2>3, <3>2
    <3>4. i \in A /\ axis[i] = c
      BY <3>1, <3>3 DEF Asking
    <3> QED BY <3>4
  <2>6. Cardinality(D) + Cardinality(A) <= MotionTracks
    OBVIOUS
  <2> HIDE DEF A, axis, C, D, J
  <2>7. /\ IsFiniteSet(C) /\ Cardinality(C) <= Cardinality(A)
        /\ Cardinality(C) \in Nat /\ Cardinality(A) \in Nat
    BY <2>4, <2>5, Covered
  <2>8. IsFiniteSet(D \union C)
        /\ Cardinality(D \union C) = Cardinality(D) + Cardinality(C) - Cardinality(D \cap C)
    BY <1>2, <2>7, FS_Union
  <2>9. Cardinality(D \cap C) \in Nat
    <3>1. D \cap C \in SUBSET C
      OBVIOUS
    <3>2. IsFiniteSet(D \cap C)
      BY <2>7, <3>1, FS_Subset
    <3> QED BY <3>2, FS_CardinalityType
  <2>10. Cardinality(D \union C) <= MotionTracks
    BY <1>2, <2>6, <2>7, <2>8, <2>9
  <2> QED BY <1>1, <2>10 DEF C, D
<1> QED BY <1>3, <1>4

(* With a track for every axis, every total gets one. *)
LEMMA AllClaimed ==
    ASSUME Cardinality(Axes) <= MotionTracks, NEW tracks, DOMAIN tracks \subseteq Axes,
           NEW events \in Seq(Events), Distinct(events), NEW i \in 1..Len(events),
           events[i].total, events[i].axis \notin DOMAIN tracks
    PROVE  events[i].axis \in Claimed(events, tracks)
<1> DEFINE D == DOMAIN tracks
           A == Asking(events, tracks, i)
           Free == Axes \ D
           index == [a \in Axes |-> CHOOSE j \in A : events[j].axis = a]
<1>1. Len(events) \in Nat /\ i \in Nat /\ i <= Len(events)
  OBVIOUS
<1>2. \A j \in 1..Len(events) : events[j].axis \in Axes
  <2>1. \A j \in 1..Len(events) : events[j] \in Events
    BY ElementOfSeq
  <2>2. \A e \in Events : e.axis \in Axes
    BY DEF Events
  <2> QED BY <2>1, <2>2
<1>3. IsFiniteSet(Axes) /\ IsFiniteSet(D) /\ IsFiniteSet(Free)
  <2>1. D \in SUBSET Axes /\ Free \in SUBSET Axes
    OBVIOUS
  <2> QED BY <2>1, StartAssumption, FS_Subset
<1>4. \A j \in A : \E a \in Free : index[a] = j
  <2> TAKE j \in A
  <2>1. j \in 1..Len(events) /\ events[j].axis \notin D
    BY <1>1 DEF Asking
  <2>2. events[j].axis \in Free
    BY <1>2, <2>1
  <2>3. \A k \in A : events[k].axis = events[j].axis => k = j
    <3>1. \A k \in A : k \in 1..Len(events)
      BY <1>1 DEF Asking
    <3> QED BY <2>1, <3>1 DEF Distinct
  <2>4. index[events[j].axis] = j
    <3> HIDE DEF A
    <3> QED BY <2>2, <2>3
  <2> QED BY <2>2, <2>4
<1>5. D \union Free = Axes /\ D \cap Free = {}
  OBVIOUS
<1> HIDE DEF index, Free, A, D
<1>6. Cardinality(A) <= Cardinality(Free) /\ Cardinality(Free) \in Nat /\ Cardinality(A) \in Nat
  BY <1>3, <1>4, Covered
<1>7. Cardinality(Axes) = Cardinality(D) + Cardinality(Free) - 0
  BY <1>3, <1>5, FS_Union, FS_EmptySet
<1>8. Cardinality(D) + Cardinality(A) <= MotionTracks
  <2>1. Cardinality(D) \in Nat /\ MotionTracks \in Nat
    BY <1>3, FS_CardinalityType, MotionBounds
  <2> QED BY <1>6, <1>7, <2>1
<1> QED BY <1>2, <1>8, ClaimedDef DEF A, D

(* A slot is claimed only while one is free. *)
LEMMA SlotsFit ==
    ASSUME NEW S \in SUBSET Axes, NEW a \in Axes, NEW n \in Nat, Cardinality(S) <= n,
           a \in S \/ Cardinality(S) < n
    PROVE  Cardinality(S \union {a}) <= n /\ Cardinality(S \union {a}) >= Cardinality(S)
<1>1. IsFiniteSet(S)
  BY StartAssumption, FS_Subset
<1>2. Cardinality(S) \in Nat
  BY <1>1, FS_CardinalityType
<1>3. Cardinality(S \union {a}) = IF a \in S THEN Cardinality(S) ELSE Cardinality(S) + 1
  BY <1>1, FS_AddElement
<1> QED BY <1>2, <1>3

-----------------------------------------------------------------------------
(* What the peripheral does. *)

(* The packets it makes are true and bring what the axes sample now. *)
LEMMA MotionPacket ==
    ASSUME NEW events \in Seq(Events), NEW now, Held(events, now)
    PROVE  LET p == [kind |-> "motion", events |-> events]
           IN  p \in Packets /\ TruePacket(p) /\ \A a \in Axes : Said(p, a) \subseteq {now[a]}
<1> DEFINE p == [kind |-> "motion", events |-> events]
<1>1. p.kind = "motion" /\ p.events = events
  OBVIOUS
<1>2. p \in Packets
  BY DEF Packets, Motions
<1> HIDE DEF p
<1>3. TruePacket(p)
  BY <1>1 DEF TruePacket, Held
<1>4. \A a \in Axes : Said(p, a) \subseteq {now[a]}
  BY <1>1 DEF Said, Held
<1> QED BY <1>2, <1>3, <1>4 DEF p

(* A keepalive brings the low part of where each slot's axis is: the slot    *)
(* wrapped at Total, and Short divides it.                                   *)
LEMMA KeepalivePacket ==
    ASSUME MotionTypes, SlotInv, Now \in [Axes -> Samples]
    PROVE  LET p == [kind |-> "keepalive", totals |-> motion_totals_snapshot]
           IN  p \in Packets /\ TruePacket(p) /\ \A a \in Axes : Said(p, a) \subseteq {Now[a]}
<1> DEFINE p == [kind |-> "keepalive", totals |-> motion_totals_snapshot]
           S == DOMAIN motion_slots
           t == motion_totals_snapshot
<1>1. S \in SUBSET Axes /\ DOMAIN t = S
  BY DEF MotionTypes, TypeOK, motion_totals_snapshot
<1>2. \A a \in S : t[a].sample = Now[a] /\ t[a].short = motion_slots[a] % Short
                   /\ t[a] = [short |-> motion_slots[a] % Short, sample |-> Now[a]]
  BY <1>1 DEF Now, motion_totals_snapshot
<1>3. \A a \in S : motion_slots[a] = travelled[a] % Total /\ Real(Now[a]) /\ Now[a].at = travelled[a]
                   /\ travelled[a] \in Int
  BY <1>1 DEF SlotInv, Now, Sample, MotionTypes, TypeOK
<1>4. \A a \in S : t[a].short = Now[a].at % Short /\ t[a].short \in Int
  <2> TAKE a \in S
  <2>1. PICK n \in Nat \ {0} : Total = n * Short
    BY Moduli
  <2>2. (travelled[a] % (n * Short)) % Short = travelled[a] % Short
    BY <1>3, LowPart, Moduli
  <2>3. travelled[a] % Short \in 0..(Short - 1)
    BY <1>3, Moduli, Divided
  <2>4. travelled[a] % Short \in Int
    <3>1. \A x \in 0..(Short - 1) : x \in Int
      OBVIOUS
    <3> QED BY <2>3, <3>1
  <2>5. t[a].short = (travelled[a] % Total) % Short
    BY <1>2, <1>3
  <2>6. t[a].short = travelled[a] % Short
    BY <2>1, <2>2, <2>5
  <2>7. Now[a].at = travelled[a]
    BY <1>3
  <2> HIDE DEF t
  <2> QED BY <2>4, <2>6, <2>7
<1>5. t \in [S -> [short : Int, sample : Samples]]
  <2>1. \A a \in S : t[a] \in [short : Int, sample : Samples]
    BY <1>1, <1>2, <1>4
  <2>2. t = [a \in S |-> t[a]]
    BY DEF motion_totals_snapshot
  <2> HIDE DEF t
  <2> QED BY <2>1, <2>2
<1> HIDE DEF t
<1>6. p.kind = "keepalive" /\ p.totals = t /\ p.kind # "motion"
  BY DEF t
<1>7. p \in Packets
  <2>1. t \in UNION {[T -> [short : Int, sample : Samples]] : T \in SUBSET Axes}
    BY <1>1, <1>5
  <2> QED BY <2>1 DEF Packets, Keepalives, t
<1> HIDE DEF p
<1>8. TruePacket(p)
  BY <1>1, <1>2, <1>3, <1>4, <1>6 DEF TruePacket
<1>9. \A a \in Axes : Said(p, a) \subseteq {Now[a]}
  BY <1>1, <1>2, <1>6 DEF Said
<1> QED BY <1>7, <1>8, <1>9 DEF p

(* A submitted packet joins the FIFO or finds it full. *)
LEMMA Submitted ==
    ASSUME NEW fifo \in Seq(Packets), NEW fifo2, NEW p \in Packets, TruePacket(p),
           NEW now \in [Axes -> Samples], \A a \in Axes : Said(p, a) \subseteq {now[a]},
           NEW places \in [Axes -> Samples], NEW tracks, DOMAIN tracks \subseteq Axes, NEW reset,
           Ordered(fifo, now, places, tracks, reset), Len(fifo) <= TxFifoSize,
           fifo2 = IF Len(fifo) < TxFifoSize THEN Append(fifo, p) ELSE fifo
    PROVE  /\ fifo2 \in Seq(Packets) /\ Len(fifo2) <= TxFifoSize
           /\ Ordered(fifo2, now, places, tracks, reset)
<1>1. CASE fifo2 = fifo
  BY <1>1
<1>2. CASE fifo2 = Append(fifo, p) /\ Len(fifo) < TxFifoSize
  <2>1. fifo2 \in Seq(Packets) /\ Len(fifo2) <= TxFifoSize
    BY <1>2, MotionBounds
  <2>2. InFlight(fifo2, now)
    BY <1>2, Joins DEF Ordered
  <2>3. \A a \in Axes : Behind(places[a], a, fifo2, now)
    BY <1>2, Joins DEF Ordered
  <2>4. ~reset => \A a \in DOMAIN tracks : Stands(places[a], a, tracks[a], fifo2, now)
    BY <1>2, Joins DEF Ordered
  <2> QED BY <2>1, <2>2, <2>3, <2>4 DEF Ordered
<1> QED BY <1>1, <1>2

(* Every axis can be sampled. *)
LEMMA NowTypes == ASSUME TypeOK PROVE Now \in [Axes -> Samples]
BY DEF TypeOK, Now, Sample, Samples

(* The state after a submit. *)
LEMMA SubmitKeeps ==
    ASSUME MotionInv, NEW p \in Packets, TruePacket(p), Submit(p),
           \A a \in Axes : Said(p, a) \subseteq {Now[a]}
    PROVE  /\ tx_fifo' \in Seq(Packets) /\ Len(tx_fifo') <= TxFifoSize
           /\ Ordered(tx_fifo', Now, place, tracked_motions, input_reset)
<1>1. Now \in [Axes -> Samples]
  BY NowTypes DEF MotionInv, MotionTypes
<1>2. /\ tx_fifo \in Seq(Packets) /\ Len(tx_fifo) <= TxFifoSize /\ place \in [Axes -> Samples]
      /\ DOMAIN tracked_motions \subseteq Axes
      /\ Ordered(tx_fifo, Now, place, tracked_motions, input_reset)
  BY DEF MotionInv, MotionTypes, TypeOK
<1> QED BY <1>1, <1>2, Submitted DEF Submit

(* The axes move on under packets and tracks. *)
LEMMA OrderMovesOn ==
    ASSUME NEW fifo \in Seq(Packets), NEW now \in [Axes -> Samples], NEW next \in [Axes -> Samples],
           \A a \in Axes : next[a].boot = now[a].boot /\ Near(now[a], next[a]),
           NEW places \in [Axes -> Samples], NEW tracks, DOMAIN tracks \subseteq Axes, NEW reset,
           Ordered(fifo, now, places, tracks, reset)
    PROVE  Ordered(fifo, next, places, tracks, reset)
<1>1. InFlight(fifo, next)
  BY MovesOn DEF Ordered
<1>2. \A a \in Axes : Behind(places[a], a, fifo, next)
  BY MovesOn DEF Ordered
<1>3. ~reset => \A a \in DOMAIN tracks : Stands(places[a], a, tracks[a], fifo, next)
  BY MovesOn DEF Ordered
<1> QED BY <1>1, <1>2, <1>3 DEF Ordered

(* A report moves one axis on, in slot, batch and perhaps a packet. *)
LEMMA ReportKeeps ==
    ASSUME MotionInv, NEW a \in Axes, NEW delta \in Deltas, NEW sync \in BOOLEAN,
           esb_peripheral_report_event(a, delta, sync)
    PROVE  MotionInv'
<1> DEFINE total  == (SlotTotal(a) + delta) % Total
           new    == [boot |-> boot, move |-> moves[a] + 1, at |-> travelled[a] + delta]
           event  == [axis |-> a, total |-> motion_slot_for(a),
                      value |-> IF motion_slot_for(a) THEN total ELSE delta, sample |-> new]
           events == Append(batch, event)
           next   == [Now EXCEPT ![a] = new]
           slots  == [b \in DOMAIN motion_slots \union {a} |->
                         IF b = a THEN total ELSE motion_slots[b]]
<1>1. /\ TypeOK /\ batch \in Seq(Events) /\ tx_fifo \in Seq(Packets) /\ SlotInv
      /\ Held(batch, Now) /\ Ordered(tx_fifo, Now, place, tracked_motions, input_reset)
  BY DEF MotionInv, MotionTypes
<1>2. /\ moves[a] < MaxMoves
      /\ \A i \in 1..Len(batch) : batch[i].axis # a
      /\ travelled' = [travelled EXCEPT ![a] = @ + delta]
      /\ moves' = [moves EXCEPT ![a] = @ + 1]
      /\ motion_slots' = IF motion_slot_for(a) THEN slots ELSE motion_slots
      /\ \/ batch' = <<>> /\ Submit([kind |-> "motion", events |-> events])
         \/ ~batch_flush_due(events, sync) /\ batch' = events /\ tx_fifo' = tx_fifo
      /\ boot' = boot /\ tracked_motions' = tracked_motions /\ place' = place
      /\ quiet' = quiet /\ input_reset' = input_reset /\ miscounted' = miscounted
      /\ pipe_heard' = pipe_heard /\ pipe_stale' = pipe_stale
  BY DEF esb_peripheral_report_event, central_vars
<1>3. /\ travelled \in [Axes -> Int] /\ moves \in [Axes -> 0..MaxMoves] /\ boot \in 0..MaxReboots
      /\ delta \in Int /\ MaxMoves \in Nat /\ Now \in [Axes -> Samples]
      /\ place \in [Axes -> Samples] /\ DOMAIN tracked_motions \subseteq Axes
  BY <1>1, MotionBounds, NowTypes DEF TypeOK
<1>4. /\ moves' \in [Axes -> 0..MaxMoves] /\ travelled' \in [Axes -> Int]
      /\ moves[a] + 1 \in 1..MaxMoves /\ travelled[a] + delta \in Int
  <2>1. moves[a] + 1 \in 1..MaxMoves /\ travelled[a] + delta \in Int
    BY <1>2, <1>3
  <2>2. moves[a] + 1 \in 0..MaxMoves
    BY <2>1
  <2> QED BY <1>2, <1>3, <2>1, <2>2
<1>5. new \in Samples /\ Real(new)
  <2>1. moves[a] + 1 \in 0..MaxMoves /\ moves[a] + 1 > 0
    BY <1>4
  <2> QED BY <1>3, <1>4, <2>1 DEF Samples, Real
<1>6. Now' = next
  <2>1. Now' = [b \in Axes |-> [boot |-> boot', move |-> moves'[b], at |-> travelled'[b]]]
    BY DEF Now, Sample
  <2>2. next = [b \in Axes |-> IF b = a THEN new ELSE Sample(b)]
    BY DEF Now
  <2>3. \A b \in Axes : [boot |-> boot', move |-> moves'[b], at |-> travelled'[b]]
                            = IF b = a THEN new ELSE Sample(b)
    BY <1>2, <1>3 DEF Sample
  <2> HIDE DEF next
  <2> QED BY <2>1, <2>2, <2>3
<1>7. /\ next \in [Axes -> Samples] /\ next[a] = new
      /\ \A b \in Axes : b # a => next[b] = Now[b]
  BY <1>3, <1>5
<1>8. \A b \in Axes : next[b].boot = Now[b].boot /\ Near(Now[b], next[b])
  <2>1. Now[a] = [boot |-> boot, move |-> moves[a], at |-> travelled[a]] /\ Now[a] \in Samples
    BY <1>3 DEF Now, Sample
  <2>2. new.boot = Now[a].boot
    BY <2>1
  <2>3. Near(Now[a], new)
    BY <2>1, NearNext
  <2>4. \A b \in Axes : Near(Now[b], Now[b])
    BY <1>3, NearItself
  <2> HIDE DEF next, new
  <2> QED BY <1>7, <2>2, <2>3, <2>4
<1>9. motion_slot_for(a) => total = (travelled[a] + delta) % Total
  <2>1. CASE a \in DOMAIN motion_slots
    <3>1. SlotTotal(a) = travelled[a] % Total
      BY <1>1, <2>1 DEF SlotInv, SlotTotal
    <3>2. ((travelled[a] % Total) + delta) % Total = (travelled[a] + delta) % Total
      BY <1>3, Moduli, SumWraps
    <3> QED BY <3>1, <3>2
  <2>2. CASE a \notin DOMAIN motion_slots
    <3>1. ASSUME motion_slot_for(a) PROVE travelled[a] = 0
      <4>1. Cardinality(DOMAIN motion_slots) < MotionSlots
        BY <2>2, <3>1 DEF motion_slot_for
      <4>2. Cardinality(DOMAIN motion_slots) \in Nat /\ MotionSlots \in Nat
        <5>1. DOMAIN motion_slots \in SUBSET Axes
          BY <1>1 DEF TypeOK
        <5>2. IsFiniteSet(DOMAIN motion_slots)
          BY <5>1, StartAssumption, FS_Subset
        <5> QED BY <5>2, FS_CardinalityType, MotionBounds
      <4>3. ~(Cardinality(DOMAIN motion_slots) >= MotionSlots)
        BY <4>1, <4>2
      <4> QED BY <1>1, <2>2, <4>3 DEF SlotInv
    <3>2. SlotTotal(a) = 0
      BY <2>2 DEF SlotTotal
    <3> QED BY <3>1, <3>2
  <2> QED BY <2>1, <2>2
<1>10. total \in 0..(Total - 1)
  <2>1. SlotTotal(a) \in Int
    <3>1. a \in DOMAIN motion_slots => motion_slots[a] \in 0..(Total - 1)
      BY <1>1 DEF TypeOK
    <3> QED BY <3>1 DEF SlotTotal
  <2>2. SlotTotal(a) + delta \in Int
    BY <1>3, <2>1
  <2> QED BY <2>2, Moduli, Divided
<1>11. event \in Events /\ TrueEvent(event) /\ event.axis = a /\ event.sample = next[a]
  <2>1. total \in Int /\ motion_slot_for(a) \in BOOLEAN
    BY <1>10 DEF motion_slot_for
  <2>2. event.axis = a /\ event.sample = new /\ event.total = motion_slot_for(a)
        /\ event.value = IF motion_slot_for(a) THEN total ELSE delta
    OBVIOUS
  <2>3. event \in Events
    <3> HIDE DEF total, new
    <3> QED BY <1>3, <1>5, <2>1 DEF Events
  <2>4. new.at = travelled[a] + delta
    OBVIOUS
  <2> HIDE DEF event, total, new, next
  <2>5. TrueEvent(event)
    BY <1>5, <1>9, <2>2, <2>4 DEF TrueEvent
  <2> QED BY <1>7, <2>2, <2>3, <2>5
<1> HIDE DEF event, total, new, next
<1>12. /\ events \in Seq(Events) /\ Len(events) = Len(batch) + 1 /\ Len(batch) \in Nat
       /\ events[Len(batch) + 1] = event
       /\ \A i \in 1..Len(batch) : events[i] = batch[i]
  BY <1>1, <1>11, AppendProperties
<1>13. \A i \in 1..Len(events) : (i \in 1..Len(batch) /\ events[i] = batch[i])
                                 \/ (i = Len(batch) + 1 /\ events[i] = event)
  BY <1>12
<1>14. \A i \in 1..Len(batch) : batch[i].axis \in Axes
  <2>1. \A i \in 1..Len(batch) : batch[i] \in Events
    BY <1>1, ElementOfSeq
  <2>2. \A e \in Events : e.axis \in Axes
    BY DEF Events
  <2> QED BY <2>1, <2>2
<1> HIDE DEF events
<1>15. Held(events, next)
  <2>1. Distinct(events)
    <3>1. \A i, j \in 1..Len(batch) : batch[i].axis = batch[j].axis => i = j
      BY <1>1 DEF Held, Distinct
    <3> QED BY <1>2, <1>11, <1>13, <3>1 DEF Distinct
  <2>2. \A i \in 1..Len(batch) : TrueEvent(batch[i]) /\ batch[i].sample = next[batch[i].axis]
    BY <1>1, <1>2, <1>7, <1>14 DEF Held
  <2>3. \A i \in 1..Len(events) : TrueEvent(events[i]) /\ events[i].sample = next[events[i].axis]
    BY <1>11, <1>13, <2>2
  <2> QED BY <2>1, <2>3 DEF Held
<1>16. Ordered(tx_fifo, next, place, tracked_motions, input_reset)
  BY <1>1, <1>3, <1>7, <1>8, OrderMovesOn
<1>17. /\ batch' \in Seq(Events) /\ Len(batch') < BatchMax /\ Held(batch', next)
       /\ tx_fifo' \in Seq(Packets) /\ Len(tx_fifo') <= TxFifoSize
       /\ Ordered(tx_fifo', next, place, tracked_motions, input_reset)
  <2>1. CASE batch' = <<>> /\ Submit([kind |-> "motion", events |-> events])
    <3> DEFINE p == [kind |-> "motion", events |-> events]
    <3>1. p \in Packets /\ TruePacket(p) /\ \A b \in Axes : Said(p, b) \subseteq {next[b]}
      BY <1>12, <1>15, MotionPacket
    <3>2. tx_fifo' = IF Len(tx_fifo) < TxFifoSize THEN Append(tx_fifo, p) ELSE tx_fifo
      BY <2>1 DEF Submit
    <3>3. Len(tx_fifo) <= TxFifoSize
      BY <1>1 DEF TypeOK
    <3> HIDE DEF p
    <3>4. /\ tx_fifo' \in Seq(Packets) /\ Len(tx_fifo') <= TxFifoSize
          /\ Ordered(tx_fifo', next, place, tracked_motions, input_reset)
      BY <1>1, <1>3, <1>7, <1>16, <3>1, <3>2, <3>3, Submitted
    <3>5. batch' \in Seq(Events) /\ Len(batch') < BatchMax
      BY <2>1, MotionBounds
    <3>6. Held(batch', next)
      BY <2>1 DEF Held, Distinct
    <3> QED BY <3>4, <3>5, <3>6
  <2>2. CASE ~batch_flush_due(events, sync) /\ batch' = events /\ tx_fifo' = tx_fifo
    <3>1. Len(batch') < BatchMax
      BY <1>12, <2>2, MotionBounds DEF batch_flush_due
    <3>2. Len(tx_fifo) <= TxFifoSize
      BY <1>1 DEF TypeOK
    <3> QED BY <1>1, <1>12, <1>15, <1>16, <2>2, <3>1, <3>2
  <2> QED BY <1>2, <2>1, <2>2
<1>18. /\ DOMAIN motion_slots' \subseteq Axes /\ Cardinality(DOMAIN motion_slots') <= MotionSlots
       /\ Cardinality(DOMAIN motion_slots') >= Cardinality(DOMAIN motion_slots)
       /\ DOMAIN motion_slots \subseteq DOMAIN motion_slots'
       /\ a \in DOMAIN motion_slots' => motion_slot_for(a) /\ motion_slots'[a] = total
       /\ a \notin DOMAIN motion_slots' => ~motion_slot_for(a)
       /\ \A b \in DOMAIN motion_slots' : b # a => b \in DOMAIN motion_slots
                                                   /\ motion_slots'[b] = motion_slots[b]
  <2>1. /\ DOMAIN motion_slots \in SUBSET Axes /\ Cardinality(DOMAIN motion_slots) <= MotionSlots
        /\ MotionSlots \in Nat
    BY <1>1, MotionBounds DEF TypeOK
  <2>2. CASE motion_slot_for(a)
    <3>1. motion_slots' = slots /\ DOMAIN slots = DOMAIN motion_slots \union {a}
      BY <1>2, <2>2
    <3>2. /\ Cardinality(DOMAIN motion_slots \union {a}) <= MotionSlots
          /\ Cardinality(DOMAIN motion_slots \union {a}) >= Cardinality(DOMAIN motion_slots)
      BY <2>1, <2>2, SlotsFit DEF motion_slot_for
    <3>3. slots[a] = total /\ \A b \in DOMAIN slots : b # a => slots[b] = motion_slots[b]
      OBVIOUS
    <3> HIDE DEF slots
    <3> QED BY <2>1, <2>2, <3>1, <3>2, <3>3
  <2>3. CASE ~motion_slot_for(a)
    <3>1. motion_slots' = motion_slots /\ a \notin DOMAIN motion_slots
      BY <1>2, <2>3 DEF motion_slot_for
    <3>2. Cardinality(DOMAIN motion_slots) >= Cardinality(DOMAIN motion_slots)
      <4>1. IsFiniteSet(DOMAIN motion_slots)
        BY <2>1, StartAssumption, FS_Subset
      <4>2. Cardinality(DOMAIN motion_slots) \in Nat
        BY <4>1, FS_CardinalityType
      <4> QED BY <4>2
    <3> QED BY <2>1, <2>3, <3>1, <3>2
  <2> QED BY <2>2, <2>3
<1>19. SlotInv' /\ \A b \in DOMAIN motion_slots' : motion_slots'[b] \in 0..(Total - 1)
  <2>1. \A b \in Axes : b # a => travelled'[b] = travelled[b] /\ moves'[b] = moves[b]
    BY <1>2, <1>3
  <2>2. travelled'[a] = travelled[a] + delta
    BY <1>2, <1>3
  <2>3. ASSUME NEW b \in DOMAIN motion_slots'
        PROVE  /\ motion_slots'[b] = travelled'[b] % Total /\ Real(Sample(b)')
               /\ motion_slots'[b] \in 0..(Total - 1)
    <3>1. CASE b = a
      <4>1. Sample(a)' = Now'[a]
        BY DEF Now
      <4> QED BY <1>5, <1>6, <1>7, <1>9, <1>10, <1>18, <2>2, <3>1, <4>1
    <3>2. CASE b # a
      <4>1. b \in DOMAIN motion_slots /\ motion_slots'[b] = motion_slots[b] /\ b \in Axes
        BY <1>18, <3>2
      <4>2. Sample(b)' = Sample(b)
        BY <1>2, <2>1, <3>2, <4>1 DEF Sample
      <4> QED BY <1>1, <2>1, <3>2, <4>1, <4>2 DEF SlotInv, TypeOK
    <3> QED BY <3>1, <3>2
  <2>4. ASSUME NEW b \in Axes \ DOMAIN motion_slots'
        PROVE  travelled'[b] = 0 \/ Cardinality(DOMAIN motion_slots') >= MotionSlots
    <3>1. /\ Cardinality(DOMAIN motion_slots) \in Nat /\ Cardinality(DOMAIN motion_slots') \in Nat
          /\ MotionSlots \in Nat
      <4>1. DOMAIN motion_slots \in SUBSET Axes /\ DOMAIN motion_slots' \in SUBSET Axes
        BY <1>18
      <4>2. IsFiniteSet(DOMAIN motion_slots) /\ IsFiniteSet(DOMAIN motion_slots')
        BY <4>1, StartAssumption, FS_Subset
      <4> QED BY <4>2, FS_CardinalityType, MotionBounds
    <3>2. CASE b = a
      <4>1. ~(Cardinality(DOMAIN motion_slots) < MotionSlots)
        BY <1>18, <3>2 DEF motion_slot_for
      <4> QED BY <1>18, <3>1, <4>1
    <3>3. CASE b # a
      <4>1. travelled[b] = 0 \/ Cardinality(DOMAIN motion_slots) >= MotionSlots
        BY <1>1, <1>18, <3>3 DEF SlotInv
      <4> QED BY <1>18, <2>1, <3>1, <3>3, <4>1
    <3> QED BY <3>2, <3>3
  <2> QED BY <2>3, <2>4 DEF SlotInv
<1>20. TypeOK'
  BY <1>1, <1>2, <1>4, <1>17, <1>18, <1>19 DEF TypeOK
<1> QED BY <1>2, <1>6, <1>17, <1>19, <1>20 DEF MotionInv, MotionTypes

(* A keepalive samples every slot. *)
LEMMA KeepaliveKeeps == ASSUME MotionInv, keepalive_work_fn PROVE MotionInv'
<1>1. /\ UNCHANGED <<travelled, moves, boot, motion_slots, batch>>
      /\ UNCHANGED <<tracked_motions, place, quiet, input_reset, miscounted>>
      /\ pipe_heard' = pipe_heard /\ pipe_stale' = pipe_stale
      /\ Submit([kind |-> "keepalive", totals |-> motion_totals_snapshot])
  BY DEF keepalive_work_fn, peripheral_vars, central_vars
<1> DEFINE p == [kind |-> "keepalive", totals |-> motion_totals_snapshot]
<1>2. p \in Packets /\ TruePacket(p) /\ \A a \in Axes : Said(p, a) \subseteq {Now[a]}
  BY KeepalivePacket, NowTypes DEF MotionInv, MotionTypes
<1> HIDE DEF p
<1>3. /\ tx_fifo' \in Seq(Packets) /\ Len(tx_fifo') <= TxFifoSize
      /\ Ordered(tx_fifo', Now, place, tracked_motions, input_reset)
  BY <1>1, <1>2, SubmitKeeps DEF p
<1>4. Now' = Now /\ SlotInv' = SlotInv
  BY <1>1 DEF Now, Sample, SlotInv
<1>5. TypeOK'
  BY <1>1, <1>3 DEF MotionInv, MotionTypes, TypeOK
<1> QED BY <1>1, <1>3, <1>4, <1>5 DEF MotionInv, MotionTypes

(* Losing packets keeps the others in order. *)
LEMMA OrderLeaves ==
    ASSUME NEW fifo \in Seq(Packets), fifo # <<>>, NEW now, NEW places, NEW tracks, NEW reset,
           Ordered(fifo, now, places, tracks, reset)
    PROVE  /\ Ordered(Tail(fifo), now, places, tracks, reset)
           /\ Ordered(<<>>, now, places, tracks, reset)
<1>1. Ordered(Tail(fifo), now, places, tracks, reset)
  <2>1. InFlight(Tail(fifo), now)
    BY Leaves DEF Ordered
  <2>2. \A a \in Axes : Behind(places[a], a, Tail(fifo), now)
    BY Leaves DEF Ordered
  <2>3. ~reset => \A a \in DOMAIN tracks : Stands(places[a], a, tracks[a], Tail(fifo), now)
    BY Leaves DEF Ordered
  <2> QED BY <2>1, <2>2, <2>3 DEF Ordered
<1>2. Ordered(<<>>, now, places, tracks, reset)
  <2>1. InFlight(<<>>, now)
    BY NothingFlies
  <2>2. \A a \in Axes : Behind(places[a], a, <<>>, now)
    BY DEF Ordered, Behind
  <2>3. ~reset => \A a \in DOMAIN tracks : Stands(places[a], a, tracks[a], <<>>, now)
    BY DEF Ordered, Stands
  <2> QED BY <2>1, <2>2, <2>3 DEF Ordered
<1> QED BY <1>1, <1>2

(* A lost packet, alone or with all that wait behind it. *)
LEMMA LostKeeps == ASSUME MotionInv, Lost PROVE MotionInv'
<1>1. /\ UNCHANGED <<travelled, moves, boot, motion_slots, batch>>
      /\ UNCHANGED <<tracked_motions, place, quiet, input_reset, miscounted>>
      /\ pipe_heard' = pipe_heard /\ pipe_stale' = pipe_stale
      /\ tx_fifo # <<>> /\ tx_fifo' \in {Tail(tx_fifo), <<>>}
  BY DEF Lost, peripheral_vars, central_vars
<1>2. /\ tx_fifo \in Seq(Packets) /\ Len(tx_fifo) <= TxFifoSize
      /\ Ordered(tx_fifo, Now, place, tracked_motions, input_reset)
  BY DEF MotionInv, MotionTypes, TypeOK
<1>3. Ordered(tx_fifo', Now, place, tracked_motions, input_reset)
  BY <1>1, <1>2, OrderLeaves
<1>4. tx_fifo' \in Seq(Packets) /\ Len(tx_fifo') <= TxFifoSize
  <2>1. Tail(tx_fifo) \in Seq(Packets) /\ Len(Tail(tx_fifo)) = Len(tx_fifo) - 1 /\ Len(tx_fifo) \in Nat
    BY <1>1, <1>2, HeadTailProperties
  <2>2. <<>> \in Seq(Packets) /\ Len(<<>>) = 0
    OBVIOUS
  <2>3. TxFifoSize \in Nat
    BY MotionBounds
  <2>4. CASE tx_fifo' = Tail(tx_fifo)
    <3> DEFINE rest == Tail(tx_fifo)
               n == Len(tx_fifo)
    <3> HIDE DEF rest, n
    <3>1. rest \in Seq(Packets) /\ Len(rest) = n - 1 /\ n \in Nat /\ n <= TxFifoSize
      BY <1>2, <2>1 DEF rest, n
    <3>2. Len(rest) <= TxFifoSize
      BY <2>3, <3>1
    <3> QED BY <2>4, <3>1, <3>2 DEF rest
  <2>5. CASE tx_fifo' = <<>>
    BY <2>2, <2>3, <2>5
  <2> QED BY <1>1, <2>4, <2>5
<1>5. Now' = Now /\ SlotInv' = SlotInv
  BY <1>1 DEF Now, Sample, SlotInv
<1>6. TypeOK'
  BY <1>1, <1>4 DEF MotionInv, MotionTypes, TypeOK
<1> QED BY <1>1, <1>3, <1>4, <1>5, <1>6 DEF MotionInv, MotionTypes

(* An empty table. *)
LEMMA NoSlots == DOMAIN <<>> = {} /\ Cardinality(DOMAIN <<>>) = 0
<1>1. DOMAIN <<>> = {}
  OBVIOUS
<1> QED BY <1>1, FS_EmptySet

(* A restart forgets the way travelled and the packets on it; the baselines  *)
(* of the central are of another boot from then on.                          *)
LEMMA RebootKeeps == ASSUME MotionInv, PeripheralReboot PROVE MotionInv'
<1>1. /\ boot < MaxReboots /\ boot' = boot + 1 /\ travelled' = [a \in Axes |-> 0]
      /\ motion_slots' = <<>> /\ batch' = <<>> /\ tx_fifo' = <<>> /\ moves' = moves
      /\ UNCHANGED <<tracked_motions, place, quiet, input_reset, miscounted>>
      /\ pipe_heard' = pipe_heard /\ pipe_stale' = pipe_stale
  BY DEF PeripheralReboot, central_vars
<1>2. TypeOK /\ Ordered(tx_fifo, Now, place, tracked_motions, input_reset) /\ boot \in 0..MaxReboots
  BY DEF MotionInv, MotionTypes, TypeOK
<1>3. boot' \in 0..MaxReboots /\ boot < boot'
  BY <1>1, <1>2, MotionBounds
<1>4. DOMAIN motion_slots' = {} /\ Cardinality(DOMAIN motion_slots') = 0
  BY <1>1, NoSlots
<1>5. TypeOK'
  <2>1. batch' \in Seq(Events) /\ Len(batch') < BatchMax
        /\ Len(tx_fifo') <= TxFifoSize
    BY <1>1, MotionBounds
  <2>2. travelled' \in [Axes -> Int] /\ Cardinality(DOMAIN motion_slots') <= MotionSlots
    BY <1>1, <1>4, MotionBounds
  <2> QED BY <1>1, <1>2, <1>3, <1>4, <2>1, <2>2 DEF TypeOK
<1>6. SlotInv'
  BY <1>1, <1>4 DEF SlotInv
<1>7. Held(batch', Now')
  BY <1>1 DEF Held, Distinct
<1>8. \A a \in Axes : /\ Now[a].boot = boot /\ Now'[a].boot = boot' /\ Now'[a].move = Now[a].move
                      /\ place[a].boot \in Int
  <2>1. \A a \in Axes : place[a].boot \in Int
    BY <1>2 DEF TypeOK, Samples
  <2> QED BY <1>1, <2>1 DEF Now, Sample
<1>9. Ordered(tx_fifo', Now', place', tracked_motions', input_reset')
  <2>1. InFlight(<<>>, Now')
    BY NothingFlies
  <2>2. \A a \in Axes : place[a].boot <= boot
    BY <1>2, <1>8 DEF Ordered, Behind
  <2>3. boot \in Int /\ boot' \in Int
    BY <1>2, <1>3
  <2>4. \A a \in Axes : Behind(place[a], a, <<>>, Now')
    <3>1. \A a \in Axes : place[a].boot <= boot'
      BY <1>3, <1>8, <2>2, <2>3
    <3>2. \A a \in Axes : place[a].move <= Now'[a].move
      BY <1>2, <1>8 DEF Ordered, Behind
    <3> QED BY <1>8, <3>1, <3>2 DEF Behind
  <2>5. ~input_reset => \A a \in DOMAIN tracked_motions :
            Stands(place[a], a, tracked_motions[a], <<>>, Now')
    <3> SUFFICES ASSUME ~input_reset, NEW a \in DOMAIN tracked_motions
                 PROVE  Stands(place[a], a, tracked_motions[a], <<>>, Now')
      OBVIOUS
    <3>1. a \in Axes
      BY <1>2 DEF TypeOK
    <3>2. Real(place[a])
      BY <1>2 DEF Ordered, Stands
    <3>3. place[a].boot # Now'[a].boot
      BY <1>3, <1>8, <2>2, <2>3, <3>1
    <3> QED BY <3>2, <3>3 DEF Stands
  <2> QED BY <1>1, <2>1, <2>4, <2>5 DEF Ordered
<1>10. batch' \in Seq(Events) /\ tx_fifo' \in Seq(Packets)
  BY <1>1
<1> QED BY <1>5, <1>6, <1>7, <1>9, <1>10 DEF MotionInv, MotionTypes

(* A hop window passes. *)
LEMMA QuietKeeps == ASSUME MotionInv, esb_motion_quiet_enough PROVE MotionInv'
<1>1. /\ UNCHANGED <<travelled, moves, boot, motion_slots, batch>> /\ tx_fifo' = tx_fifo
      /\ UNCHANGED <<tracked_motions, place, input_reset, miscounted, pipe_heard, pipe_stale>>
      /\ quiet' \in BOOLEAN
  BY DEF esb_motion_quiet_enough, peripheral_vars
<1>2. Now' = Now /\ SlotInv' = SlotInv
  BY <1>1 DEF Now, Sample, SlotInv
<1>3. TypeOK'
  BY <1>1 DEF MotionInv, MotionTypes, TypeOK
<1> QED BY <1>1, <1>2, <1>3 DEF MotionInv, MotionTypes

(* The pipe goes silent: what the tracks hold no longer counts. *)
LEMMA StaleKeeps == ASSUME MotionInv, staleness_work_fn PROVE MotionInv'
<1>1. /\ UNCHANGED <<travelled, moves, boot, motion_slots, batch>> /\ tx_fifo' = tx_fifo
      /\ UNCHANGED <<tracked_motions, place, quiet, miscounted, pipe_heard>>
      /\ pipe_stale' = TRUE /\ input_reset' = TRUE
  BY DEF staleness_work_fn, peripheral_vars
<1>2. Now' = Now /\ SlotInv' = SlotInv
  BY <1>1 DEF Now, Sample, SlotInv
<1>3. TypeOK'
  BY <1>1 DEF MotionInv, MotionTypes, TypeOK
<1>4. Ordered(tx_fifo', Now', place', tracked_motions', input_reset')
  BY <1>1, <1>2 DEF MotionInv, Ordered
<1> QED BY <1>1, <1>2, <1>3, <1>4 DEF MotionInv, MotionTypes

(* Both ends start. *)
LEMMA MotionInit == ASSUME Init PROVE MotionInv
<1>1. /\ moves = [a \in Axes |-> 0] /\ boot = 0 /\ batch = <<>> /\ tx_fifo = <<>>
      /\ tracked_motions = <<>> /\ place = [a \in Axes |-> Unseen]
      /\ quiet = TRUE /\ input_reset = FALSE /\ pipe_heard = FALSE /\ pipe_stale = FALSE
      /\ miscounted = {}
  BY DEF Init
<1>2. PICK start \in Starts : /\ travelled = [a \in Axes |-> start]
                              /\ motion_slots = IF start = 0 THEN <<>>
                                                ELSE [a \in Axes |-> start % Total]
  BY DEF Init
<1>3. start \in Int
  BY MotionBounds
<1>4. /\ DOMAIN motion_slots \subseteq Axes /\ Cardinality(DOMAIN motion_slots) <= MotionSlots
      /\ start = 0 => DOMAIN motion_slots = {}
      /\ start # 0 => DOMAIN motion_slots = Axes
      /\ \A a \in DOMAIN motion_slots : motion_slots[a] = start % Total
  <2>1. CASE start = 0
    BY <1>2, <2>1, NoSlots, MotionBounds
  <2>2. CASE start # 0
    BY <1>2, <2>2, StartAssumption
  <2> QED BY <2>1, <2>2
<1>5. start % Total \in 0..(Total - 1)
  BY <1>3, Moduli, Divided
<1>6. DOMAIN tracked_motions = {} /\ Cardinality(DOMAIN tracked_motions) = 0
  BY <1>1, NoSlots
<1>7. TypeOK
  <2>1. Unseen \in Samples
    BY MotionBounds DEF Unseen, Samples
  <2>2. /\ moves \in [Axes -> 0..MaxMoves] /\ boot \in 0..MaxReboots /\ travelled \in [Axes -> Int]
    BY <1>1, <1>2, <1>3, MotionBounds
  <2>3. Len(batch) < BatchMax /\ Len(tx_fifo) <= TxFifoSize
    BY <1>1, MotionBounds
  <2>4. /\ DOMAIN tracked_motions \subseteq Axes /\ Cardinality(DOMAIN tracked_motions) <= MotionTracks
        /\ \A a \in DOMAIN tracked_motions : tracked_motions[a] \in 0..(Total - 1)
    BY <1>6, MotionBounds
  <2>5. place \in [Axes -> Samples] /\ miscounted \subseteq Axes
    BY <1>1, <2>1
  <2>6. quiet \in BOOLEAN /\ input_reset \in BOOLEAN /\ pipe_heard \in BOOLEAN /\ pipe_stale \in BOOLEAN
    BY <1>1
  <2> QED BY <1>4, <1>5, <2>2, <2>3, <2>4, <2>5, <2>6 DEF TypeOK
<1>8. SlotInv
  <2>1. \A a \in DOMAIN motion_slots : a \in Axes /\ start # 0 /\ travelled[a] = start
    BY <1>2, <1>4
  <2>2. \A a \in DOMAIN motion_slots : Real(Sample(a))
    BY <2>1 DEF Real, Sample
  <2>3. \A a \in Axes \ DOMAIN motion_slots : travelled[a] = 0
    BY <1>2, <1>4
  <2> QED BY <1>4, <2>1, <2>2, <2>3 DEF SlotInv
<1>9. Held(batch, Now)
  BY <1>1 DEF Held, Distinct
<1>10. Ordered(tx_fifo, Now, place, tracked_motions, input_reset)
  <2>1. \A a \in Axes : Behind(place[a], a, <<>>, Now)
    BY <1>1 DEF Behind, Now, Sample, Unseen
  <2> QED BY <1>1, <1>6, <2>1, NothingFlies DEF Ordered
<1>11. batch \in Seq(Events) /\ tx_fifo \in Seq(Packets)
  BY <1>1
<1> QED BY <1>7, <1>8, <1>9, <1>10, <1>11 DEF MotionInv, MotionTypes

-----------------------------------------------------------------------------
(* What the central does.  A packet leaves an axis alone, is the first after *)
(* a reset that forgets it, or takes it to a sample.                         *)

Ignored(a) ==
    /\ ~input_reset /\ place'[a] = place[a]
    /\ a \in DOMAIN tracked_motions' => /\ a \in DOMAIN tracked_motions
                                        /\ tracked_motions'[a] = tracked_motions[a]
Forgotten(a) == input_reset /\ place'[a] = Unseen /\ a \notin DOMAIN tracked_motions'
Landed(a, s) ==
    /\ s \in Said(Head(tx_fifo), a) /\ Real(s)
    /\ place'[a].move = s.move /\ place'[a].at = s.at /\ place'[a].boot \in {s.boot, place[a].boot}
    /\ a \in DOMAIN tracked_motions' /\ place'[a].boot = s.boot
           => tracked_motions'[a] = s.at % Total

(* What holds of the packet that arrives. *)
LEMMA Arriving ==
    ASSUME MotionInv, tx_fifo # <<>>
    PROVE  /\ Head(tx_fifo) \in Packets /\ TruePacket(Head(tx_fifo))
           /\ \A a \in Axes : \A s \in Said(Head(tx_fifo), a) :
                  /\ s \in Samples /\ s.boot = boot /\ place[a].move <= s.move
                  /\ \A i \in 1..Len(Tail(tx_fifo)) : \A t \in Said(Tail(tx_fifo)[i], a) : Near(s, t)
                  /\ Near(s, Now[a])
<1>1. /\ tx_fifo \in Seq(Packets) /\ InFlight(tx_fifo, Now) /\ \A a \in Axes : Now[a].boot = boot
      /\ \A a \in Axes : Behind(place[a], a, tx_fifo, Now)
  BY DEF MotionInv, MotionTypes, Ordered, Now, Sample
<1>2. Len(tx_fifo) \in Nat \ {0} /\ Head(tx_fifo) = tx_fifo[1] /\ Head(tx_fifo) \in Packets
  BY <1>1, EmptySeq, HeadTailProperties
<1>3. 1 \in 1..Len(tx_fifo)
  BY <1>2
<1>4. TruePacket(Head(tx_fifo))
  BY <1>1, <1>2, <1>3 DEF InFlight
<1>5. ASSUME NEW a \in Axes, NEW s \in Said(Head(tx_fifo), a)
      PROVE  s \in Samples /\ s.boot = boot /\ place[a].move <= s.move /\ Near(s, Now[a])
  <2>1. s \in Samples
    BY <1>2, SaidSamples
  <2>2. s.boot = Now[a].boot /\ Near(s, Now[a])
    BY <1>1, <1>2, <1>3 DEF InFlight
  <2>3. place[a].move <= s.move
    BY <1>1, <1>2, <1>3 DEF Behind
  <2> QED BY <1>1, <2>1, <2>2, <2>3
<1>6. ASSUME NEW a \in Axes, NEW s \in Said(Head(tx_fifo), a),
             NEW i \in 1..Len(Tail(tx_fifo)), NEW t \in Said(Tail(tx_fifo)[i], a)
      PROVE  Near(s, t)
  <2>1. Len(Tail(tx_fifo)) = Len(tx_fifo) - 1 /\ Tail(tx_fifo)[i] = tx_fifo[i + 1]
    BY <1>1, HeadTailProperties
  <2>2. i + 1 \in 1..Len(tx_fifo) /\ 1 < i + 1
    BY <1>2, <2>1
  <2> QED BY <1>1, <1>2, <1>3, <2>1, <2>2 DEF InFlight
<1> QED BY <1>2, <1>4, <1>5, <1>6

(* A track reads its sample back, from a total and from a short one. *)
LEMMA ReadsBack ==
    ASSUME MotionInv, tx_fifo # <<>>, ~input_reset, NEW a \in DOMAIN tracked_motions,
           NEW s \in Said(Head(tx_fifo), a), place[a].boot = boot
    PROVE  /\ LET step == esb_motion_track_delta(tracked_motions[a], s.at % Total)
              IN  step.last = s.at % Total /\ step.delta = Gap(place[a].at, s.at)
           /\ LET step == esb_motion_track_short_delta(tracked_motions[a], s.at % Short)
              IN  step.last = s.at % Total /\ step.delta = Gap(place[a].at, s.at)
<1>1. a \in Axes /\ place[a] \in Samples
  BY DEF MotionInv, MotionTypes, TypeOK
<1>2. Stands(place[a], a, tracked_motions[a], tx_fifo, Now) /\ Now[a].boot = boot
  BY <1>1 DEF MotionInv, Ordered, Now, Sample
<1>3. tracked_motions[a] = place[a].at % Total
  BY <1>2 DEF Stands
<1>4. s \in Samples
  BY <1>1, Arriving
<1>5. Near(place[a], s)
  <2>1. Len(tx_fifo) \in Nat \ {0} /\ Head(tx_fifo) = tx_fifo[1]
    BY EmptySeq DEF MotionInv, MotionTypes
  <2>2. 1 \in 1..Len(tx_fifo)
    BY <2>1
  <2> QED BY <1>2, <2>1, <2>2 DEF Stands
<1>6. place[a].at \in Int /\ s.at \in Int /\ 2 * Abs(s.at - place[a].at) < Short
  <2>1. place[a].at \in Int /\ s.at \in Int
    BY <1>1, <1>4 DEF Samples
  <2> QED BY <1>1, <1>4, <1>5, <2>1, NearHalf
<1> QED BY <1>3, <1>6, TotalReadBack, ShortReadBack

(* The event of an axis. *)
LEMMA EventFound ==
    ASSUME NEW events, Distinct(events), NEW i \in 1..Len(events)
    PROVE  EventOf(events, events[i].axis) = events[i]
<1> DEFINE E == {events[j] : j \in 1..Len(events)}
<1>1. events[i] \in E /\ \A e \in E : e.axis = events[i].axis => e = events[i]
  BY DEF Distinct
<1> HIDE DEF E
<1>2. (CHOOSE e \in E : e.axis = events[i].axis) = events[i]
  BY <1>1
<1> QED BY <1>2 DEF E, EventOf

(* The tracks a packet finds. *)
LEMMA TracksFound ==
    ASSUME MotionInv
    PROVE  /\ DOMAIN apply_input_reset \subseteq Axes
           /\ Cardinality(DOMAIN apply_input_reset) <= MotionTracks
           /\ \A a \in DOMAIN apply_input_reset :
                  /\ ~input_reset /\ a \in DOMAIN tracked_motions
                  /\ apply_input_reset[a] = tracked_motions[a]
                  /\ tracked_motions[a] \in 0..(Total - 1)
                  /\ Real(place[a]) /\ place[a] # Unseen
           /\ input_reset => DOMAIN apply_input_reset = {}
           /\ ~input_reset => apply_input_reset = tracked_motions
<1>1. CASE input_reset
  <2>1. apply_input_reset = <<>>
    BY <1>1 DEF apply_input_reset
  <2> QED BY <1>1, <2>1, NoSlots, MotionBounds
<1>2. CASE ~input_reset
  <2>1. apply_input_reset = tracked_motions
    BY <1>2 DEF apply_input_reset
  <2>2. \A a \in DOMAIN tracked_motions : Real(place[a])
    BY <1>2 DEF MotionInv, Ordered, Stands
  <2>3. \A a \in DOMAIN tracked_motions : place[a] # Unseen
    BY <2>2 DEF Real, Unseen
  <2> QED BY <1>2, <2>1, <2>2, <2>3 DEF MotionInv, MotionTypes, TypeOK
<1> QED BY <1>1, <1>2 DEF MotionInv, MotionTypes, TypeOK

(* The sample a track is taken to. *)
LEMMA AppliedTo ==
    ASSUME MotionInv, NEW a \in Axes, NEW s \in Samples
    PROVE  /\ Applied(a, s) \in Samples /\ Applied(a, s).move = s.move /\ Applied(a, s).at = s.at
           /\ Applied(a, s).boot \in {s.boot, place[a].boot}
           /\ place[a] # Unseen => Applied(a, s).boot = place[a].boot
<1>1. place[a] \in Samples
  BY DEF MotionInv, MotionTypes, TypeOK
<1> QED BY <1>1 DEF Applied, Samples

(* The events of a motion packet. *)
LEMMA EventsSay ==
    ASSUME MotionInv, tx_fifo # <<>>, Head(tx_fifo).kind = "motion"
    PROVE  LET events == Head(tx_fifo).events
           IN  /\ events \in Seq(Events) /\ Distinct(events)
               /\ \A i \in 1..Len(events) : events[i].total =>
                      /\ events[i].axis \in Axes
                      /\ EventOf(events, events[i].axis) = events[i]
                      /\ events[i].sample \in Said(Head(tx_fifo), events[i].axis)
                      /\ events[i].sample \in Samples /\ events[i].sample.boot = boot
                      /\ Real(events[i].sample)
                      /\ events[i].value = events[i].sample.at % Total
                      /\ events[i].value \in 0..(Total - 1)
<1> DEFINE p == Head(tx_fifo)
           events == p.events
<1>1. p \in Packets /\ TruePacket(p)
  BY Arriving
<1>2. p \in Motions
  BY <1>1 DEF Packets, Keepalives
<1>3. events \in Seq(Events)
  BY <1>2 DEF Motions
<1>4. Distinct(events) /\ \A i \in 1..Len(events) : TrueEvent(events[i])
  BY <1>1 DEF TruePacket
<1>5. ASSUME NEW i \in 1..Len(events), events[i].total
      PROVE  /\ events[i].axis \in Axes
             /\ EventOf(events, events[i].axis) = events[i]
             /\ events[i].sample \in Said(p, events[i].axis)
             /\ events[i].sample \in Samples /\ events[i].sample.boot = boot
             /\ Real(events[i].sample)
             /\ events[i].value = events[i].sample.at % Total
             /\ events[i].value \in 0..(Total - 1)
  <2>1. events[i].axis \in Axes /\ events[i].sample \in Samples
    <3>1. events[i] \in Events
      BY <1>3, ElementOfSeq
    <3>2. \A e \in Events : e.axis \in Axes /\ e.sample \in Samples
      BY DEF Events
    <3> QED BY <3>1, <3>2
  <2>2. EventOf(events, events[i].axis) = events[i]
    BY <1>4, EventFound
  <2>3. events[i].sample \in Said(p, events[i].axis)
    BY DEF Said
  <2>4. events[i].sample.boot = boot
    BY <2>1, <2>3, Arriving
  <2>5. Real(events[i].sample) /\ events[i].value = events[i].sample.at % Total
    BY <1>4, <1>5 DEF TrueEvent
  <2>6. events[i].sample.at % Total \in 0..(Total - 1)
    <3>1. events[i].sample.at \in Int
      BY <2>1 DEF Samples
    <3> QED BY <3>1, Moduli, Divided
  <2> QED BY <2>1, <2>2, <2>3, <2>4, <2>5, <2>6
<1> HIDE DEF events, p
<1>6. \A i \in 1..Len(events) : events[i].total =>
                      /\ events[i].axis \in Axes
                      /\ EventOf(events, events[i].axis) = events[i]
                      /\ events[i].sample \in Said(p, events[i].axis)
                      /\ events[i].sample \in Samples /\ events[i].sample.boot = boot
                      /\ Real(events[i].sample)
                      /\ events[i].value = events[i].sample.at % Total
                      /\ events[i].value \in 0..(Total - 1)
  BY <1>5
<1> QED BY <1>3, <1>4, <1>6 DEF events, p

(* The tables after a packet. *)
CentralTypes ==
    /\ DOMAIN tracked_motions \subseteq Axes /\ Cardinality(DOMAIN tracked_motions) <= MotionTracks
    /\ \A a \in DOMAIN tracked_motions : tracked_motions[a] \in 0..(Total - 1)
    /\ place \in [Axes -> Samples] /\ miscounted \subseteq Axes /\ quiet \in BOOLEAN

(* The empty place is a sample too. *)
LEMMA UnseenSample == Unseen \in Samples
BY MotionBounds DEF Unseen, Samples

(* A packet of totals takes each axis it names to its sample. *)
LEMMA MotionLands ==
    ASSUME MotionInv, tx_fifo # <<>>, Head(tx_fifo).kind = "motion",
           central_input_deliver_event(Head(tx_fifo).events, apply_input_reset)
    PROVE  /\ \A a \in Axes : Ignored(a) \/ Forgotten(a) \/ \E s : Landed(a, s)
           /\ CentralTypes'
<1> DEFINE events == Head(tx_fifo).events
           tracks == apply_input_reset
           sent   == {a \in Axes : \E i \in 1..Len(events) : events[i].axis = a /\ events[i].total}
           known  == sent \intersect DOMAIN tracks
           step(a) == esb_motion_track_delta(tracks[a], EventOf(events, a).value)
           new    == Claimed(events, tracks)
           said(a) == EventOf(events, a).sample
<1>1. /\ tracked_motions' = [a \in DOMAIN tracks \union new |->
             IF a \in known THEN step(a).last
             ELSE IF a \in new THEN EventOf(events, a).value ELSE tracks[a]]
      /\ place' = [a \in Axes |->
             IF a \in sent /\ input_reset THEN said(a)
             ELSE IF a \in sent THEN Applied(a, said(a))
             ELSE IF input_reset THEN Unseen ELSE place[a]]
      /\ miscounted' = miscounted \union
             {a \in sent : ~input_reset /\
                 Miscounts(a, said(a), IF a \in known THEN step(a).delta ELSE 0)}
      /\ quiet' = (quiet /\ sent = {})
  BY DEF central_input_deliver_event
<1>2. \A a \in sent : /\ said(a) \in Said(Head(tx_fifo), a) /\ said(a) \in Samples
                      /\ said(a).boot = boot /\ Real(said(a))
                      /\ EventOf(events, a).value = said(a).at % Total
                      /\ EventOf(events, a).value \in 0..(Total - 1)
  BY EventsSay
<1>3. new \subseteq sent /\ new \intersect DOMAIN tracks = {}
  BY DEF Claimed
<1>4. /\ DOMAIN tracks \subseteq Axes /\ Cardinality(DOMAIN tracks) <= MotionTracks
      /\ input_reset => DOMAIN tracks = {}
      /\ \A a \in DOMAIN tracks : /\ ~input_reset /\ a \in DOMAIN tracked_motions
                                  /\ tracks[a] = tracked_motions[a]
                                  /\ tracks[a] \in 0..(Total - 1)
                                  /\ place[a] # Unseen
  BY TracksFound
<1>5. /\ new \subseteq Axes /\ Cardinality(DOMAIN tracks \union new) <= MotionTracks
  <2>1. Len(events) \in Nat
    BY EventsSay, LenProperties
  <2> HIDE DEF events, tracks
  <2> QED BY <1>4, <2>1, ClaimsFit
<1> DEFINE value(a) == EventOf(events, a).value
<1>6. \A a \in known : step(a).last \in 0..(Total - 1)
  <2> TAKE a \in known
  <2>1. tracks[a] \in Int /\ value(a) \in Int
    <3>1. tracks[a] \in 0..(Total - 1) /\ value(a) \in 0..(Total - 1)
      BY <1>2, <1>4
    <3> QED BY <3>1
  <2> HIDE DEF events, tracks
  <2> QED BY <2>1, TrackTypes
<1>7. place \in [Axes -> Samples] /\ miscounted \subseteq Axes /\ quiet \in BOOLEAN
  BY DEF MotionInv, MotionTypes, TypeOK
<1>8. \A a \in sent : Applied(a, said(a)) \in Samples
  BY <1>2, AppliedTo
<1>9. ASSUME NEW a \in sent PROVE Landed(a, said(a))
  <2>1. /\ place'[a].move = said(a).move /\ place'[a].at = said(a).at
        /\ place'[a].boot \in {said(a).boot, place[a].boot}
        /\ ~input_reset /\ place[a] # Unseen => place'[a].boot = place[a].boot
    <3>1. CASE input_reset
      <4>1. place'[a] = said(a)
        BY <1>1, <3>1
      <4> QED BY <3>1, <4>1
    <3>2. CASE ~input_reset
      <4>1. place'[a] = Applied(a, said(a))
        BY <1>1, <3>2
      <4>2. said(a) \in Samples
        BY <1>2
      <4> HIDE DEF said
      <4> QED BY <4>1, <4>2, AppliedTo
    <3> QED BY <3>1, <3>2
  <2>2. ASSUME a \in DOMAIN tracked_motions', place'[a].boot = said(a).boot
        PROVE  tracked_motions'[a] = said(a).at % Total
    <3>1. a \in DOMAIN tracks \union new
      BY <1>1, <2>2
    <3>2. CASE a \in DOMAIN tracks
      <4>1. tracked_motions'[a] = step(a).last
        BY <1>1, <3>1, <3>2
      <4>2. place[a].boot = boot /\ a \in DOMAIN tracked_motions /\ ~input_reset
            /\ tracks[a] = tracked_motions[a]
        BY <1>2, <1>4, <2>1, <2>2, <3>2
      <4>3. said(a) \in Said(Head(tx_fifo), a) /\ value(a) = said(a).at % Total
        BY <1>2
      <4>4. esb_motion_track_delta(tracked_motions[a], said(a).at % Total).last = said(a).at % Total
        <5> HIDE DEF said
        <5> QED BY <4>2, <4>3, ReadsBack
      <4> QED BY <4>1, <4>2, <4>3, <4>4
    <3>3. CASE a \notin DOMAIN tracks
      <4>1. tracked_motions'[a] = value(a)
        BY <1>1, <3>1, <3>3
      <4> QED BY <1>2, <4>1
    <3> QED BY <3>2, <3>3
  <2>3. said(a) \in Said(Head(tx_fifo), a) /\ Real(said(a))
    BY <1>2
  <2> HIDE DEF said
  <2> QED BY <2>1, <2>2, <2>3 DEF Landed
<1>10. ASSUME NEW a \in Axes, a \notin sent PROVE Ignored(a) \/ Forgotten(a)
  <2>1. a \in DOMAIN tracked_motions' => a \in DOMAIN tracks /\ tracked_motions'[a] = tracks[a]
    BY <1>1, <1>3, <1>10
  <2>2. place'[a] = IF input_reset THEN Unseen ELSE place[a]
    BY <1>1, <1>10
  <2> HIDE DEF tracks, sent
  <2> QED BY <1>4, <2>1, <2>2 DEF Ignored, Forgotten
<1>11. \A a \in Axes : Ignored(a) \/ Forgotten(a) \/ \E s : Landed(a, s)
  BY <1>9, <1>10
<1>12. CentralTypes'
  <2>1. DOMAIN tracked_motions' = DOMAIN tracks \union new
    BY <1>1
  <2>2. \A a \in DOMAIN tracked_motions' : tracked_motions'[a] \in 0..(Total - 1)
    BY <1>1, <1>2, <1>3, <1>4, <1>6
  <2>3. place' \in [Axes -> Samples]
    BY <1>1, <1>2, <1>7, <1>8, UnseenSample
  <2>4. miscounted' \subseteq Axes
    BY <1>1, <1>7
  <2>5. quiet' \in BOOLEAN
    BY <1>1, <1>7
  <2> HIDE DEF tracks, new
  <2> QED BY <1>4, <1>5, <2>1, <2>2, <2>3, <2>4, <2>5 DEF CentralTypes
<1> QED BY <1>11, <1>12

(* The totals of a keepalive. *)
LEMMA TotalsSay ==
    ASSUME MotionInv, tx_fifo # <<>>, Head(tx_fifo).kind # "motion"
    PROVE  LET totals == Head(tx_fifo).totals
           IN  /\ DOMAIN totals \subseteq Axes
               /\ \A a \in DOMAIN totals :
                      /\ totals[a].sample \in Said(Head(tx_fifo), a)
                      /\ totals[a].sample \in Samples /\ totals[a].sample.boot = boot
                      /\ Real(totals[a].sample)
                      /\ totals[a].short = totals[a].sample.at % Short /\ totals[a].short \in Int
<1> DEFINE p == Head(tx_fifo)
           totals == p.totals
<1>1. p \in Packets /\ TruePacket(p)
  BY Arriving
<1>2. p \in Keepalives
  BY <1>1 DEF Packets, Motions
<1>3. p.kind = "keepalive"
  BY <1>2 DEF Keepalives
<1>4. PICK S \in SUBSET Axes : totals \in [S -> [short : Int, sample : Samples]]
  BY <1>2 DEF Keepalives
<1>5. DOMAIN totals \subseteq Axes /\ \A a \in DOMAIN totals : totals[a].sample \in Samples
                                                             /\ totals[a].short \in Int
  <2> HIDE DEF totals
  <2> QED BY <1>4
<1>6. \A a \in DOMAIN totals : totals[a].sample \in Said(p, a)
  BY <1>3 DEF Said
<1>7. \A a \in DOMAIN totals : totals[a].sample.boot = boot
  BY <1>5, <1>6, Arriving
<1>8. \A a \in DOMAIN totals : Real(totals[a].sample)
                               /\ totals[a].short = totals[a].sample.at % Short
  BY <1>1, <1>3 DEF TruePacket
<1> QED BY <1>5, <1>6, <1>7, <1>8

(* A heal takes each tracked axis to the sample of the keepalive. *)
LEMMA KeepaliveLands ==
    ASSUME MotionInv, tx_fifo # <<>>, Head(tx_fifo).kind # "motion",
           heal_lost_motion(Head(tx_fifo).totals, apply_input_reset)
    PROVE  /\ \A a \in Axes : Ignored(a) \/ Forgotten(a) \/ \E s : Landed(a, s)
           /\ CentralTypes'
<1> DEFINE totals == Head(tx_fifo).totals
           tracks == apply_input_reset
           healed == IF quiet THEN DOMAIN totals \intersect DOMAIN tracks ELSE {}
           step(a) == esb_motion_track_short_delta(tracks[a], totals[a].short)
           said(a) == totals[a].sample
<1>1. /\ tracked_motions' = [a \in DOMAIN tracks |->
             IF a \in healed THEN step(a).last ELSE tracks[a]]
      /\ place' = [a \in Axes |-> IF a \in healed THEN Applied(a, said(a))
                                  ELSE IF input_reset THEN Unseen ELSE place[a]]
      /\ miscounted' = miscounted \union
             {a \in healed : Miscounts(a, said(a), step(a).delta)}
      /\ quiet' = quiet
  BY DEF heal_lost_motion
<1>2. \A a \in healed : /\ said(a) \in Said(Head(tx_fifo), a) /\ said(a) \in Samples
                        /\ said(a).boot = boot /\ Real(said(a))
                        /\ totals[a].short = said(a).at % Short /\ totals[a].short \in Int
                        /\ a \in DOMAIN tracks /\ a \in Axes
  BY TotalsSay
<1>3. /\ DOMAIN tracks \subseteq Axes /\ Cardinality(DOMAIN tracks) <= MotionTracks
      /\ input_reset => DOMAIN tracks = {}
      /\ \A a \in DOMAIN tracks : /\ ~input_reset /\ a \in DOMAIN tracked_motions
                                  /\ tracks[a] = tracked_motions[a]
                                  /\ tracks[a] \in 0..(Total - 1)
                                  /\ place[a] # Unseen
  BY TracksFound
<1>4. \A a \in healed : step(a).last \in 0..(Total - 1)
  <2> TAKE a \in healed
  <2>1. tracks[a] \in Int /\ totals[a].short \in Int
    <3>1. tracks[a] \in 0..(Total - 1)
      BY <1>2, <1>3
    <3> QED BY <1>2, <3>1
  <2> HIDE DEF totals, tracks
  <2> QED BY <2>1, TrackTypes
<1>5. place \in [Axes -> Samples] /\ miscounted \subseteq Axes /\ quiet \in BOOLEAN
  BY DEF MotionInv, MotionTypes, TypeOK
<1>6. \A a \in healed : Applied(a, said(a)) \in Samples
  BY <1>2, AppliedTo
<1>7. ASSUME NEW a \in healed PROVE Landed(a, said(a))
  <2>1. place'[a] = Applied(a, said(a)) /\ place[a] # Unseen /\ said(a) \in Samples
    BY <1>1, <1>2, <1>3
  <2>2. /\ place'[a].move = said(a).move /\ place'[a].at = said(a).at
        /\ place'[a].boot \in {said(a).boot, place[a].boot} /\ place'[a].boot = place[a].boot
    <3> HIDE DEF said
    <3> QED BY <1>2, <2>1, AppliedTo
  <2>3. ASSUME place'[a].boot = said(a).boot PROVE tracked_motions'[a] = said(a).at % Total
    <3>1. tracked_motions'[a] = step(a).last
      BY <1>1, <1>2
    <3>2. place[a].boot = boot /\ a \in DOMAIN tracked_motions /\ ~input_reset
          /\ tracks[a] = tracked_motions[a]
      BY <1>2, <1>3, <2>2, <2>3
    <3>3. said(a) \in Said(Head(tx_fifo), a) /\ totals[a].short = said(a).at % Short
      BY <1>2
    <3>4. esb_motion_track_short_delta(tracked_motions[a], said(a).at % Short).last
              = said(a).at % Total
      <4> HIDE DEF said
      <4> QED BY <3>2, <3>3, ReadsBack
    <3> QED BY <3>1, <3>2, <3>3, <3>4
  <2>4. said(a) \in Said(Head(tx_fifo), a) /\ Real(said(a))
    BY <1>2
  <2> HIDE DEF said
  <2> QED BY <2>2, <2>3, <2>4 DEF Landed
<1>8. ASSUME NEW a \in Axes, a \notin healed PROVE Ignored(a) \/ Forgotten(a)
  <2>1. a \in DOMAIN tracked_motions' => a \in DOMAIN tracks /\ tracked_motions'[a] = tracks[a]
    BY <1>1, <1>8
  <2>2. place'[a] = IF input_reset THEN Unseen ELSE place[a]
    BY <1>1, <1>8
  <2> HIDE DEF tracks, healed
  <2> QED BY <1>3, <2>1, <2>2 DEF Ignored, Forgotten
<1>9. CentralTypes'
  <2>1. DOMAIN tracked_motions' = DOMAIN tracks
    BY <1>1
  <2>2. \A a \in DOMAIN tracked_motions' : tracked_motions'[a] \in 0..(Total - 1)
    BY <1>1, <1>3, <1>4
  <2>3. place' \in [Axes -> Samples]
    BY <1>1, <1>5, <1>6, UnseenSample
  <2>4. miscounted' \subseteq Axes
    BY <1>1, <1>2, <1>5
  <2> HIDE DEF tracks
  <2> QED BY <1>1, <1>3, <1>5, <2>1, <2>2, <2>3, <2>4 DEF CentralTypes
<1> QED BY <1>7, <1>8, <1>9

(* A packet received leaves the axes behind the rest of the FIFO. *)
LEMMA IngestLands ==
    ASSUME MotionInv, central_ingest_packet
    PROVE  /\ \A a \in Axes : Ignored(a) \/ Forgotten(a) \/ \E s : Landed(a, s)
           /\ CentralTypes'
           /\ tx_fifo # <<>> /\ tx_fifo' = Tail(tx_fifo)
           /\ UNCHANGED <<travelled, moves, boot, motion_slots, batch>>
           /\ input_reset' = FALSE /\ pipe_heard' = TRUE /\ pipe_stale' = FALSE
<1>1. /\ tx_fifo # <<>> /\ tx_fifo' = Tail(tx_fifo)
      /\ UNCHANGED <<travelled, moves, boot, motion_slots, batch>>
      /\ input_reset' = FALSE /\ pipe_heard' = TRUE /\ pipe_stale' = FALSE
      /\ IF Head(tx_fifo).kind = "motion"
         THEN central_input_deliver_event(Head(tx_fifo).events, apply_input_reset)
         ELSE heal_lost_motion(Head(tx_fifo).totals, apply_input_reset)
  BY DEF central_ingest_packet, peripheral_vars
<1>2. CASE Head(tx_fifo).kind = "motion"
  BY <1>1, <1>2, MotionLands
<1>3. CASE Head(tx_fifo).kind # "motion"
  BY <1>1, <1>3, KeepaliveLands
<1> QED BY <1>1, <1>2, <1>3

(* So a packet received keeps the order. *)
LEMMA IngestKeeps == ASSUME MotionInv, central_ingest_packet PROVE MotionInv'
<1>1. /\ CentralTypes' /\ tx_fifo # <<>> /\ tx_fifo' = Tail(tx_fifo)
      /\ UNCHANGED <<travelled, moves, boot, motion_slots, batch>>
      /\ input_reset' = FALSE /\ pipe_heard' = TRUE /\ pipe_stale' = FALSE
      /\ \A a \in Axes : Ignored(a) \/ Forgotten(a) \/ \E s : Landed(a, s)
  BY IngestLands
<1>2. Now' = Now /\ SlotInv' = SlotInv
  BY <1>1 DEF Now, Sample, SlotInv
<1>3. /\ TypeOK /\ tx_fifo \in Seq(Packets) /\ Len(tx_fifo) <= TxFifoSize
      /\ Ordered(tx_fifo, Now, place, tracked_motions, input_reset)
  BY DEF MotionInv, MotionTypes, TypeOK
<1>4. Ordered(Tail(tx_fifo), Now, place, tracked_motions, input_reset)
  BY <1>1, <1>3, OrderLeaves
<1>5. tx_fifo' \in Seq(Packets) /\ Len(tx_fifo') <= TxFifoSize
  <2>1. Tail(tx_fifo) \in Seq(Packets) /\ Len(Tail(tx_fifo)) = Len(tx_fifo) - 1 /\ Len(tx_fifo) \in Nat
    BY <1>1, <1>3, HeadTailProperties
  <2>2. TxFifoSize \in Nat
    BY MotionBounds
  <2> DEFINE n == Len(tx_fifo)
             k == Len(Tail(tx_fifo))
  <2>3. k = n - 1 /\ n \in Nat /\ n <= TxFifoSize
    BY <1>3, <2>1
  <2> HIDE DEF n, k
  <2>4. k <= TxFifoSize
    BY <2>2, <2>3
  <2> QED BY <1>1, <2>1, <2>4 DEF k
<1>6. TypeOK'
  BY <1>1, <1>3, <1>5 DEF TypeOK, CentralTypes
<1> DEFINE rest == Tail(tx_fifo)
<1>7. ASSUME NEW a \in Axes
      PROVE  /\ Behind(place'[a], a, rest, Now)
             /\ a \in DOMAIN tracked_motions'
                    => Stands(place'[a], a, tracked_motions'[a], rest, Now)
  <2>1. CASE Ignored(a)
    BY <1>4, <2>1 DEF Ignored, Ordered
  <2>2. CASE Forgotten(a)
    <3>1. \A i \in 1..Len(rest) : \A s \in Said(rest[i], a) : s \in Samples
      <4>1. \A i \in 1..Len(rest) : rest[i] \in Packets
        BY <1>1, <1>5, ElementOfSeq
      <4> QED BY <4>1, SaidSamples
    <3>2. Now[a] \in Samples
      BY <1>3, NowTypes
    <3>3. \A s \in Samples : Unseen.boot <= s.boot /\ Unseen.move <= s.move
      BY MotionBounds DEF Unseen, Samples
    <3> HIDE DEF rest
    <3>4. Behind(Unseen, a, rest, Now)
      BY <3>1, <3>2, <3>3 DEF Behind
    <3> QED BY <2>2, <3>4 DEF Forgotten
  <2>3. ASSUME NEW s, Landed(a, s)
        PROVE  /\ Behind(place'[a], a, rest, Now)
               /\ a \in DOMAIN tracked_motions'
                      => Stands(place'[a], a, tracked_motions'[a], rest, Now)
    <3>1. /\ s \in Samples /\ s.boot = boot /\ Near(s, Now[a])
          /\ \A i \in 1..Len(rest) : \A t \in Said(rest[i], a) : Near(s, t)
      BY <1>1, <2>3, Arriving DEF Landed
    <3> DEFINE q == place'[a]
    <3>2. /\ q.move = s.move /\ q.at = s.at /\ q.boot \in {boot, place[a].boot} /\ Real(s)
          /\ a \in DOMAIN tracked_motions' /\ q.boot = boot => tracked_motions'[a] = q.at % Total
      BY <2>3, <3>1 DEF Landed
    <3>3. Now[a].boot = boot /\ boot \in Int /\ place[a].boot <= Now[a].boot
      <4>1. place[a].boot <= Now[a].boot
        BY <1>3 DEF Ordered, Behind
      <4> QED BY <1>3, <4>1 DEF Now, Sample, TypeOK
    <3> HIDE DEF q, rest
    <3>4. \A t : Near(s, t) => Near(q, t) /\ q.move <= t.move
      BY <3>2 DEF Near
    <3>5. Real(q)
      BY <3>2 DEF Real
    <3>6. q.boot <= Now[a].boot
      BY <3>2, <3>3
    <3>7. Behind(q, a, rest, Now)
      BY <3>1, <3>4, <3>6 DEF Behind
    <3>8. a \in DOMAIN tracked_motions' => Stands(q, a, tracked_motions'[a], rest, Now)
      BY <3>1, <3>2, <3>3, <3>4, <3>5 DEF Stands
    <3> QED BY <3>7, <3>8 DEF q
  <2> HIDE DEF rest
  <2> QED BY <1>1, <2>1, <2>2, <2>3
<1>8. Ordered(rest, Now, place', tracked_motions', input_reset')
  <2>1. InFlight(rest, Now)
    BY <1>4 DEF Ordered
  <2>2. DOMAIN tracked_motions' \subseteq Axes
    BY <1>1 DEF CentralTypes
  <2> HIDE DEF rest
  <2> QED BY <1>7, <2>1, <2>2 DEF Ordered
<1>9. batch' \in Seq(Events) /\ Held(batch', Now')
  BY <1>1, <1>2 DEF MotionInv, MotionTypes
<1> QED BY <1>1, <1>2, <1>5, <1>6, <1>8, <1>9 DEF MotionInv, MotionTypes

(* A report, a heal, a loss, a restart and the timers all keep it. *)
LEMMA MotionNext == ASSUME MotionInv, [Next]_vars PROVE MotionInv'
<1>1. CASE UNCHANGED vars
  <2>1. /\ UNCHANGED <<travelled, moves, boot, motion_slots, batch>> /\ tx_fifo' = tx_fifo
        /\ UNCHANGED <<tracked_motions, place, quiet, input_reset, miscounted>>
        /\ pipe_heard' = pipe_heard /\ pipe_stale' = pipe_stale
    BY <1>1 DEF vars, peripheral_vars, central_vars
  <2>2. Now' = Now /\ SlotInv' = SlotInv
    BY <2>1 DEF Now, Sample, SlotInv
  <2>3. TypeOK'
    BY <2>1 DEF MotionInv, MotionTypes, TypeOK
  <2> QED BY <2>1, <2>2, <2>3 DEF MotionInv, MotionTypes
<1>2. CASE Next
  <2>1. CASE \E a \in Axes, delta \in Deltas, sync \in BOOLEAN :
                 esb_peripheral_report_event(a, delta, sync)
    BY <2>1, ReportKeeps
  <2> QED
    BY <1>2, <2>1, KeepaliveKeeps, LostKeeps, RebootKeeps, IngestKeeps, QuietKeeps, StaleKeeps
       DEF Next
<1> QED BY <1>1, <1>2

(* The central only ever gets further. *)
NoStepBack == \A a \in Axes : place'[a] # Unseen => place'[a].move >= place[a].move

(* By the order of the FIFO, no packet is older than the place. *)
LEMMA GoesForward == ASSUME MotionInv, [Next]_vars PROVE NoStepBack
<1>1. \A a \in Axes : place[a].move \in Int
  <2>1. place \in [Axes -> Samples]
    BY DEF MotionInv, MotionTypes, TypeOK
  <2>2. \A s \in Samples : s.move \in Int
    BY MotionBounds DEF Samples
  <2> QED BY <2>1, <2>2
<1>2. CASE place' = place
  BY <1>1, <1>2 DEF NoStepBack
<1>3. CASE central_ingest_packet
  <2> SUFFICES ASSUME NEW a \in Axes, place'[a] # Unseen PROVE place'[a].move >= place[a].move
    BY DEF NoStepBack
  <2>1. Ignored(a) \/ Forgotten(a) \/ \E s : Landed(a, s)
    BY <1>3, IngestLands
  <2>2. CASE Ignored(a)
    BY <1>1, <2>2 DEF Ignored
  <2>3. CASE Forgotten(a)
    BY <2>3 DEF Forgotten
  <2>4. ASSUME NEW s, Landed(a, s) PROVE place'[a].move >= place[a].move
    <3>1. place[a].move <= s.move /\ s \in Samples
      BY <1>3, <2>4, IngestLands, Arriving DEF Landed
    <3>2. s.move \in Int
      BY <3>1, MotionBounds DEF Samples
    <3> QED BY <1>1, <2>4, <3>1, <3>2 DEF Landed
  <2> QED BY <2>1, <2>2, <2>3, <2>4
<1>4. place' = place \/ central_ingest_packet
  <2>1. CASE UNCHANGED vars
    BY <2>1 DEF vars, central_vars
  <2>2. CASE Next
    BY <2>2 DEF Next, esb_peripheral_report_event, keepalive_work_fn, Lost, PeripheralReboot,
                esb_motion_quiet_enough, staleness_work_fn, central_vars
  <2> QED BY <2>1, <2>2
<1> QED BY <1>2, <1>3, <1>4

(* With a track for every axis, an applied sample forwards what was missing. *)
LEMMA ExactNext ==
    ASSUME Cardinality(Axes) <= MotionTracks, MotionInv, SeenTracked, MotionExact, [Next]_vars
    PROVE  SeenTracked' /\ MotionExact'
<1>1. ASSUME place' = place, tracked_motions' = tracked_motions, miscounted' = miscounted,
             input_reset' = input_reset \/ input_reset'
      PROVE  SeenTracked' /\ MotionExact'
  BY <1>1 DEF SeenTracked, MotionExact
<1>2. CASE central_ingest_packet /\ Head(tx_fifo).kind = "motion"
  <2> DEFINE events == Head(tx_fifo).events
             tracks == apply_input_reset
             sent   == {a \in Axes : \E i \in 1..Len(events) : events[i].axis = a /\ events[i].total}
             known  == sent \intersect DOMAIN tracks
             step(a) == esb_motion_track_delta(tracks[a], EventOf(events, a).value)
             new    == Claimed(events, tracks)
             said(a) == EventOf(events, a).sample
  <2>1. tx_fifo # <<>> /\ central_input_deliver_event(events, tracks)
    BY <1>2 DEF central_ingest_packet
  <2>2. /\ DOMAIN tracked_motions' = DOMAIN tracks \union new
        /\ place' = [a \in Axes |->
               IF a \in sent /\ input_reset THEN said(a)
               ELSE IF a \in sent THEN Applied(a, said(a))
               ELSE IF input_reset THEN Unseen ELSE place[a]]
        /\ miscounted' = miscounted \union
               {a \in sent : ~input_reset /\
                   Miscounts(a, said(a), IF a \in known THEN step(a).delta ELSE 0)}
    BY <2>1 DEF central_input_deliver_event
  <2>3. /\ DOMAIN tracks \subseteq Axes
        /\ ~input_reset => tracks = tracked_motions
    BY TracksFound
  <2>4. \A a \in sent : /\ said(a) \in Said(Head(tx_fifo), a) /\ said(a).boot = boot
                        /\ EventOf(events, a).value = said(a).at % Total
    BY <1>2, <2>1, EventsSay
  <2>5. \A a \in sent : a \in DOMAIN tracks \union new
    <3>1. events \in Seq(Events) /\ Distinct(events)
      BY <1>2, <2>1, EventsSay
    <3>2. \A i \in 1..Len(events) : events[i].total /\ events[i].axis \notin DOMAIN tracks
              => events[i].axis \in new
      <4> HIDE DEF events, tracks
      <4> QED BY <2>3, <3>1, AllClaimed
    <3> QED BY <3>2
  <2>6. ASSUME NEW a \in Axes, place'[a] # Unseen PROVE a \in DOMAIN tracked_motions'
    <3>1. CASE a \in sent
      BY <2>2, <2>5, <3>1
    <3>2. CASE a \notin sent
      <4>1. ~input_reset /\ place[a] # Unseen
        BY <2>2, <2>6, <3>2
      <4>2. a \in DOMAIN tracked_motions
        BY <4>1 DEF SeenTracked
      <4> QED BY <2>2, <2>3, <4>1, <4>2
    <3> QED BY <3>1, <3>2
  <2>7. ASSUME NEW a \in sent, ~input_reset, place[a] # Unseen, place[a].boot = said(a).boot
        PROVE  a \in known /\ step(a).delta = Missing(a, said(a))
    <3>1. a \in DOMAIN tracked_motions /\ a \in known /\ tracks[a] = tracked_motions[a]
      BY <2>3, <2>7 DEF SeenTracked
    <3>2. said(a) \in Said(Head(tx_fifo), a) /\ place[a].boot = boot
          /\ EventOf(events, a).value = said(a).at % Total
      BY <2>4, <2>7
    <3>3. esb_motion_track_delta(tracked_motions[a], said(a).at % Total).delta
              = Gap(place[a].at, said(a).at)
      <4> HIDE DEF said
      <4> QED BY <2>1, <2>7, <3>1, <3>2, ReadsBack
    <3> QED BY <3>1, <3>2, <3>3 DEF Missing, Gap
  <2>8. miscounted' = {}
    <3>1. \A a \in sent : ~(~input_reset /\
              Miscounts(a, said(a), IF a \in known THEN step(a).delta ELSE 0))
      <4> HIDE DEF said, known, sent, step
      <4> QED BY <2>7 DEF Miscounts
    <3> HIDE DEF sent, said, known, step
    <3> QED BY <2>2, <3>1 DEF MotionExact
  <2> QED BY <2>6, <2>8 DEF SeenTracked, MotionExact
<1>3. CASE central_ingest_packet /\ Head(tx_fifo).kind # "motion"
  <2> DEFINE totals == Head(tx_fifo).totals
             tracks == apply_input_reset
             healed == IF quiet THEN DOMAIN totals \intersect DOMAIN tracks ELSE {}
             step(a) == esb_motion_track_short_delta(tracks[a], totals[a].short)
             said(a) == totals[a].sample
  <2>1. tx_fifo # <<>> /\ heal_lost_motion(totals, tracks)
    BY <1>3 DEF central_ingest_packet
  <2>2. /\ DOMAIN tracked_motions' = DOMAIN tracks
        /\ place' = [a \in Axes |-> IF a \in healed THEN Applied(a, said(a))
                                    ELSE IF input_reset THEN Unseen ELSE place[a]]
        /\ miscounted' = miscounted \union
               {a \in healed : Miscounts(a, said(a), step(a).delta)}
    BY <2>1 DEF heal_lost_motion
  <2>3. /\ ~input_reset => tracks = tracked_motions
        /\ \A a \in DOMAIN tracks : ~input_reset /\ a \in DOMAIN tracked_motions
                                    /\ tracks[a] = tracked_motions[a]
    BY TracksFound
  <2>4. \A a \in healed : /\ said(a) \in Said(Head(tx_fifo), a) /\ said(a).boot = boot
                          /\ totals[a].short = said(a).at % Short /\ a \in DOMAIN tracks
    BY <1>3, <2>1, TotalsSay
  <2>5. ASSUME NEW a \in Axes, place'[a] # Unseen PROVE a \in DOMAIN tracked_motions'
    <3>1. CASE a \in healed
      BY <2>2, <2>4, <3>1
    <3>2. CASE a \notin healed
      <4>1. ~input_reset /\ place[a] # Unseen
        BY <2>2, <2>5, <3>2
      <4>2. a \in DOMAIN tracked_motions
        BY <4>1 DEF SeenTracked
      <4> QED BY <2>2, <2>3, <4>1, <4>2
    <3> QED BY <3>1, <3>2
  <2>6. ASSUME NEW a \in healed, place[a].boot = said(a).boot
        PROVE  step(a).delta = Missing(a, said(a))
    <3>1. a \in DOMAIN tracked_motions /\ ~input_reset /\ tracks[a] = tracked_motions[a]
      BY <2>3, <2>4
    <3>2. said(a) \in Said(Head(tx_fifo), a) /\ place[a].boot = boot
          /\ totals[a].short = said(a).at % Short
      BY <2>4, <2>6
    <3>3. esb_motion_track_short_delta(tracked_motions[a], said(a).at % Short).delta
              = Gap(place[a].at, said(a).at)
      <4> HIDE DEF said
      <4> QED BY <2>1, <3>1, <3>2, ReadsBack
    <3> QED BY <3>1, <3>2, <3>3 DEF Missing, Gap
  <2>7. miscounted' = {}
    <3>1. \A a \in healed : ~Miscounts(a, said(a), step(a).delta)
      <4> HIDE DEF said, healed, step
      <4> QED BY <2>6 DEF Miscounts
    <3> HIDE DEF said, healed, step
    <3> QED BY <2>2, <3>1 DEF MotionExact
  <2> QED BY <2>5, <2>7 DEF SeenTracked, MotionExact
<1>4. CASE UNCHANGED vars
  BY <1>4 DEF vars, central_vars, SeenTracked, MotionExact
<1>5. ASSUME Next, ~central_ingest_packet PROVE SeenTracked' /\ MotionExact'
  <2>1. /\ place' = place /\ tracked_motions' = tracked_motions /\ miscounted' = miscounted
        /\ input_reset' = input_reset \/ input_reset'
    BY <1>5 DEF Next, esb_peripheral_report_event, keepalive_work_fn, Lost, PeripheralReboot,
                esb_motion_quiet_enough, staleness_work_fn, central_vars
  <2> QED BY <1>1, <2>1
<1> QED BY <1>2, <1>3, <1>4, <1>5

-----------------------------------------------------------------------------
(* The theorems. *)

(* The invariant holds. *)
LEMMA MotionHolds == Spec => []MotionInv
<1>1. Init => MotionInv
  BY MotionInit
<1>2. MotionInv /\ [Next]_vars => MotionInv'
  BY MotionNext
<1> QED BY <1>1, <1>2, PTL DEF Spec

(* Slots, tracks, batch and FIFO never outgrow their tables, and a total     *)
(* stays a total whatever is lost, wrapped or restarted (esb_peripheral.c    *)
(* motion_slot_for, central_input.c motion_track_for, esb_motion_total.h).   *)
THEOREM TablesHold == Spec => []TypeOK
<1>1. MotionInv => TypeOK
  BY DEF MotionInv, MotionTypes
<1> QED BY <1>1, MotionHolds, PTL

(* No packet takes an axis back to an older sample, for every number of axes *)
(* and tracks: a keepalive and the motion around it arrive in the order they *)
(* were sampled (central_input.c heal_lost_motion).                          *)
THEOREM SamplesInOrder == Spec => NeverStepsBack
<1>1. MotionInv /\ [Next]_vars
          => [\A a \in Axes : place'[a] # Unseen => place'[a].move >= place[a].move]_vars
  BY GoesForward DEF NoStepBack
<1> QED BY <1>1, MotionHolds, PTL DEF NeverStepsBack, Spec

(* Where the central has a track for every axis, each applied packet, motion *)
(* or keepalive, forwards exactly the counts missing since the one before:   *)
(* for all moduli, caps and reports within the reach (central_input.c        *)
(* motion_total_to_delta, heal_lost_motion).                                 *)
THEOREM EveryCountOnce == Cardinality(Axes) <= MotionTracks => (Spec => []MotionExact)
<1> SUFFICES ASSUME Cardinality(Axes) <= MotionTracks PROVE Spec => []MotionExact
  OBVIOUS
<1>1. Init => SeenTracked /\ MotionExact
  BY DEF Init, SeenTracked, MotionExact
<1>2. MotionInv /\ SeenTracked /\ MotionExact /\ [Next]_vars => SeenTracked' /\ MotionExact'
  BY ExactNext
<1> QED BY <1>1, <1>2, MotionHolds, PTL DEF Spec

=============================================================================
