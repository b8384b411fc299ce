--------------------------- MODULE WireLinkProofs ---------------------------
(***************************************************************************)
(* What a fault on the cable costs, and in which order key states arrive,   *)
(* for rings, chunks and accumulators of any size and any number of faults. *)
(*                                                                          *)
(* The proofs look at the link as one stream of bytes: what the parser has  *)
(* gathered, what waits in its ring, and what is still to come of the frame *)
(* on the wire.                                                             *)
(***************************************************************************)
EXTENDS WireLink, FiniteSetTheorems, SequenceTheorems, WellFoundedInduction,
        NaturalsInduction, TLAPS

Byte == [of : Frame, at : Int]

(* The stream up to p ends with a delimiter, or is empty.                     *)
Clean(X, p) == p = 0 \/ X[p] = Delimiter

(* The last bytes of bodies, and the delimiters that end a whole frame which  *)
(* starts right after another delimiter.                                      *)
Ends(X)     == {i \in 1..Len(X) : X[i].at = BodyBytes(X[i].of)}
Start(X, i) == i - BodyBytes(X[i - 1].of) - 1
IsIntact(X, i) ==
    /\ X[i] = Delimiter /\ Start(X, i) >= 0 /\ Clean(X, Start(X, i))
    /\ \A k \in 1..BodyBytes(X[i - 1].of) :
          X[Start(X, i) + k] = [of |-> X[i - 1].of, at |-> k]
Intact(X)  == {i \in 2..Len(X) : IsIntact(X, i)}
Spoiled(X) == IF Clean(X, Len(X)) THEN 0 ELSE 1

(* Every frame whose last byte is in the stream is owed, in this order.       *)
Embeds(X, o, q) ==
    /\ q \in [Ends(X) -> 1..Len(o)]
    /\ \A i \in Ends(X) : o[q[i]] = X[i].of
    /\ \A i, j \in Ends(X) : i < j => q[i] < q[j]
Embedded(X, o) == \E q : Embeds(X, o, q)

(* Every frame owed that is not intact has been paid for by a fault.          *)
Balanced(X, o, lost, paid) ==
    lost + Len(o) + Spoiled(X) <= paid + Cardinality(Intact(X))

(* Y is X with the n bytes after the first a replaced by s that end no frame. *)
Spliced(X, Y, a, n, s) ==
    /\ a + n <= Len(X) /\ Len(Y) = (Len(X) - n) + s
    /\ \A i \in 1..a : Y[i] = X[i]
    /\ \A i \in (a + 1)..(a + s) : Y[i] \in {Delimiter, Noise}
    /\ \A i \in (a + n + 1)..Len(X) : Y[(i - n) + s] = X[i]

(* The intact frames that a splice may spoil.                                 *)
Survives(X, Y, a, n, s, i) ==
    \/ i <= a
    \/ Start(X, i) >= a + n /\ (Start(X, i) = a + n => Clean(Y, a + s))
Touched(X, Y, a, n, s) == {i \in Intact(X) : ~Survives(X, Y, a, n, s, i)}

-----------------------------------------------------------------------------
(* Frames and bytes.                                                          *)

LEMMA FrameFacts ==
    /\ Beat \in Frame /\ Delimiter \in Byte /\ Noise \in Byte
    /\ Delimiter.at = 0 /\ Noise.at = -1 /\ Delimiter # Noise
    /\ Delimiter.of = Beat /\ Noise.of = Beat
<1>1. NoVersion \in Version
  BY BoundsAssumption DEF NoVersion, Version
<1> QED
  BY <1>1 DEF Beat, Frame, Delimiter, Noise, Byte

LEMMA ByteFacts ==
    ASSUME NEW b \in Byte
    PROVE  /\ b.of \in Frame /\ b.at \in Int
           /\ BodyBytes(b.of) \in 1..2
           /\ b = [of |-> b.of, at |-> b.at]
           /\ (b.at = 0 /\ b.of = Beat) => b = Delimiter
BY DEF Byte, BodyBytes, Delimiter

LEMMA BodyFacts ==
    ASSUME NEW f \in Frame
    PROVE  /\ BodyBytes(f) \in 1..2
           /\ Body(f) \in Seq(Byte) /\ Len(Body(f)) = BodyBytes(f)
           /\ \A i \in 1..BodyBytes(f) : Body(f)[i] = [of |-> f, at |-> i]
<1>1. BodyBytes(f) \in 1..2
  BY DEF BodyBytes
<1>2. Body(f) \in [1..BodyBytes(f) -> Byte]
  BY <1>1 DEF Body, Byte
<1> QED
  BY <1>1, <1>2 DEF Body

LEMMA EncodedFacts ==
    ASSUME NEW f \in Frame
    PROVE  /\ wire_frame_encode(f) \in Seq(Byte)
           /\ Len(wire_frame_encode(f)) = BodyBytes(f) + 1
           /\ \A i \in 1..BodyBytes(f) : wire_frame_encode(f)[i] = [of |-> f, at |-> i]
           /\ wire_frame_encode(f)[BodyBytes(f) + 1] = Delimiter
<1>1. Body(f) \in Seq(Byte) /\ Len(Body(f)) = BodyBytes(f) /\ Delimiter \in Byte
  BY BodyFacts, FrameFacts
<1>2. wire_frame_encode(f) = Append(Body(f), Delimiter)
  BY DEF wire_frame_encode
<1> QED
  BY <1>1, <1>2, BodyFacts, AppendProperties

LEMMA At ==
    ASSUME NEW X \in Seq(Byte), NEW i \in 1..Len(X)
    PROVE  /\ X[i] \in Byte /\ X[i].of \in Frame /\ X[i].at \in Int
           /\ BodyBytes(X[i].of) \in 1..2
BY ElementOfSeq, ByteFacts

(* No end of a body is a delimiter or a noise byte.                           *)
LEMMA EndsArePlain ==
    ASSUME NEW X \in Seq(Byte), NEW i \in Ends(X)
    PROVE  /\ i \in 1..Len(X) /\ X[i] # Delimiter /\ X[i] # Noise
           /\ X[i].of \in Frame
<1>1. i \in 1..Len(X) /\ X[i].at = BodyBytes(X[i].of)
  BY DEF Ends
<1>2. X[i].at \in 1..2 /\ X[i].of \in Frame
  BY <1>1, At
<1> QED
  BY <1>1, <1>2, FrameFacts

(* An intact frame: where it starts, and that its bytes are its own.          *)
LEMMA IntactFacts ==
    ASSUME NEW X \in Seq(Byte), NEW i \in Intact(X)
    PROVE  /\ i \in 2..Len(X) /\ X[i] = Delimiter
           /\ BodyBytes(X[i - 1].of) \in 1..2
           /\ Start(X, i) \in 0..(i - 2)
           /\ Start(X, i) = (i - 1) - BodyBytes(X[i - 1].of)
           /\ Clean(X, Start(X, i))
           /\ i - 1 \in Ends(X)
           /\ \A j \in (Start(X, i) + 1)..(i - 1) :
                 X[j] # Delimiter /\ X[j] = [of |-> X[i - 1].of, at |-> j - Start(X, i)]
<1> DEFINE f == X[i - 1].of
           B == BodyBytes(f)
           p == Start(X, i)
<1>1. i \in 2..Len(X) /\ IsIntact(X, i) /\ Len(X) \in Nat
  BY LenProperties DEF Intact
<1>2. f \in Frame /\ B \in 1..2
  BY <1>1, At
<1>3. p = (i - 1) - B /\ p >= 0
  BY <1>1, <1>2 DEF Start, IsIntact
<1>4. p \in 0..(i - 2)
  BY <1>1, <1>2, <1>3
<1>5. ASSUME NEW j \in (p + 1)..(i - 1)
      PROVE  X[j] # Delimiter /\ X[j] = [of |-> f, at |-> j - p]
  <2>0. \A m, b, c, d \in Int :
           c = (m - 1) - b /\ d \in (c + 1)..(m - 1) => d - c \in 1..b /\ d = c + (d - c)
    OBVIOUS
  <2>1. j - p \in 1..B /\ j = p + (j - p)
    <3>1. i \in Int /\ B \in Int /\ p \in Int /\ j \in Int
      BY <1>1, <1>2, <1>4
    <3>2. j \in (p + 1)..(i - 1) /\ p = (i - 1) - B
      BY <1>3
    <3> HIDE DEF f, B, p
    <3> QED
      BY <2>0, <3>1, <3>2
  <2>2. \A k \in 1..B : X[p + k] = [of |-> f, at |-> k]
    BY <1>1 DEF IsIntact
  <2>3. X[j] = [of |-> f, at |-> j - p]
    BY <2>1, <2>2
  <2>4. X[j].at >= 1
    BY <2>3, <2>1, <1>2
  <2> QED
    BY <2>3, <2>4, FrameFacts
<1>6. i - 1 \in Ends(X)
  <2>1. i - 1 \in (p + 1)..(i - 1) /\ (i - 1) - p = B
    BY <1>1, <1>2, <1>3, <1>4
  <2>3. X[i - 1] = [of |-> f, at |-> (i - 1) - p]
    BY <2>1, <1>5
  <2>2. X[i - 1].at = B
    BY <2>1, <2>3
  <2> QED
    BY <2>2, <1>1 DEF Ends
<1>7. X[i] = Delimiter /\ Clean(X, p)
  BY <1>1 DEF IsIntact
<1> QED
  BY <1>1, <1>2, <1>3, <1>4, <1>5, <1>6, <1>7

-----------------------------------------------------------------------------
(* Splices.                                                                   *)

(* Where a byte of Y was in X.                                                *)
Back(a, n, s, j) == IF j <= a THEN j ELSE (j + n) - s

LEMMA BackFacts ==
    ASSUME NEW X \in Seq(Byte), NEW Y \in Seq(Byte), NEW a \in Nat, NEW n \in Nat, NEW s \in Nat,
           Spliced(X, Y, a, n, s), NEW j \in Ends(Y)
    PROVE  /\ Back(a, n, s, j) \in Ends(X) /\ X[Back(a, n, s, j)] = Y[j]
           /\ j \in Nat /\ (j > a => j > a + s)
<1>1. j \in 1..Len(Y) /\ Y[j] # Delimiter /\ Y[j] # Noise
  BY EndsArePlain
<1>2. Len(X) \in Nat /\ Len(Y) \in Nat /\ a + n <= Len(X) /\ Len(Y) = (Len(X) - n) + s
  BY LenProperties DEF Spliced
<1>3. j <= a \/ j > a + s
  <2>1. j \notin (a + 1)..(a + s)
    BY <1>1 DEF Spliced
  <2> QED
    BY <2>1, <1>1, <1>2
<1>4. Back(a, n, s, j) \in 1..Len(X)
  BY <1>1, <1>2, <1>3 DEF Back
<1>5. X[Back(a, n, s, j)] = Y[j]
  <2>1. CASE j <= a
    BY <2>1, <1>1 DEF Spliced, Back
  <2>2. CASE j > a + s
    <3>1. Back(a, n, s, j) = (j + n) - s
      BY <2>2, <1>1 DEF Back
    <3>2. (j + n) - s \in (a + n + 1)..Len(X) /\ ((j + n) - s - n) + s = j
      BY <2>2, <1>1, <1>2
    <3> QED
      BY <3>1, <3>2 DEF Spliced
  <2> QED
    BY <2>1, <2>2, <1>3
<1>6. Back(a, n, s, j) \in Ends(X)
  BY <1>4, <1>5 DEF Ends
<1>7. j > a => j > a + s
  BY <1>1, <1>3
<1> QED
  BY <1>1, <1>5, <1>6, <1>7

LEMMA BackKeepsOrder ==
    ASSUME NEW X \in Seq(Byte), NEW Y \in Seq(Byte), NEW a \in Nat, NEW n \in Nat, NEW s \in Nat,
           Spliced(X, Y, a, n, s), NEW i \in Ends(Y), NEW j \in Ends(Y), i < j
    PROVE  Back(a, n, s, i) < Back(a, n, s, j)
<1>1. i \in Nat /\ j \in Nat /\ (i > a => i > a + s) /\ (j > a => j > a + s)
  BY BackFacts
<1> QED
  BY <1>1 DEF Back

(* What is owed in order stays owed in order whatever a splice takes away.    *)
LEMMA SpliceEmbedded ==
    ASSUME NEW X \in Seq(Byte), NEW Y \in Seq(Byte), NEW a \in Nat, NEW n \in Nat, NEW s \in Nat,
           Spliced(X, Y, a, n, s), NEW o, Embedded(X, o)
    PROVE  Embedded(Y, o)
<1>1. PICK q : Embeds(X, o, q)
  BY DEF Embedded
<1> DEFINE p == [j \in Ends(Y) |-> q[Back(a, n, s, j)]]
<1>2. \A j \in Ends(Y) : Back(a, n, s, j) \in Ends(X) /\ X[Back(a, n, s, j)] = Y[j]
  BY BackFacts
<1>3. p \in [Ends(Y) -> 1..Len(o)]
  BY <1>1, <1>2 DEF Embeds
<1>4. \A j \in Ends(Y) : o[p[j]] = Y[j].of
  BY <1>1, <1>2 DEF Embeds
<1>5. ASSUME NEW i \in Ends(Y), NEW j \in Ends(Y), i < j
      PROVE  p[i] < p[j]
  <2>1. Back(a, n, s, i) < Back(a, n, s, j)
    BY <1>5, BackKeepsOrder
  <2> QED
    BY <2>1, <1>1, <1>2 DEF Embeds
<1> QED
  BY <1>3, <1>4, <1>5 DEF Embedded, Embeds

(* An intact frame that survives is intact in its new place.                  *)
LEMMA SurvivorBefore ==
    ASSUME NEW X \in Seq(Byte), NEW Y \in Seq(Byte), NEW a \in Nat, NEW n \in Nat, NEW s \in Nat,
           Spliced(X, Y, a, n, s), NEW i \in Intact(X), i <= a
    PROVE  i \in Intact(Y)
<1> DEFINE f == X[i - 1].of
           B == BodyBytes(f)
           p == Start(X, i)
<1>1. /\ i \in 2..Len(X) /\ p \in 0..(i - 2) /\ p = (i - 1) - B /\ B \in 1..2
      /\ X[i] = Delimiter /\ Clean(X, p)
  BY IntactFacts
<1>2. Len(X) \in Nat /\ Len(Y) \in Nat /\ a + n <= Len(X) /\ Len(Y) = (Len(X) - n) + s
  BY LenProperties DEF Spliced
<1>3. \A k \in 1..i : Y[k] = X[k]
  BY <1>1 DEF Spliced
<1>4. i \in 2..Len(Y) /\ i - 1 \in 1..i
  BY <1>1, <1>2
<1>5. Y[i - 1] = X[i - 1] /\ Y[i] = Delimiter
  BY <1>1, <1>3, <1>4
<1>6. Start(Y, i) = p
  BY <1>5 DEF Start
<1>7. Clean(Y, p)
  <2>1. CASE p = 0
    BY <2>1 DEF Clean
  <2>2. CASE p # 0
    BY <2>2, <1>1, <1>3, SMTT(20) DEF Clean
  <2> QED
    BY <2>1, <2>2
<1>8. ASSUME NEW k \in 1..B
      PROVE  Y[p + k] = [of |-> f, at |-> k]
  <2>1. \A c, d, m, b \in Int : c = (m - 1) - b /\ d \in 1..b /\ c >= 0 => c + d \in 1..m
    OBVIOUS
  <2>2. p \in Int /\ k \in Int /\ i \in Int /\ B \in Int /\ p >= 0
    BY <1>1
  <2>3. p + k \in 1..i
    BY <2>1, <2>2, <1>1
  <2>4. X[p + k] = [of |-> f, at |-> k]
    BY DEF Intact, IsIntact
  <2> QED
    BY <2>3, <2>4, <1>3
<1>9. p >= 0
  BY <1>1
<1>10. IsIntact(Y, i)
  BY <1>5, <1>6, <1>7, <1>8, <1>9 DEF IsIntact
<1> QED
  BY <1>10, <1>4 DEF Intact

LEMMA SurvivorBehind ==
    ASSUME NEW X \in Seq(Byte), NEW Y \in Seq(Byte), NEW a \in Nat, NEW n \in Nat, NEW s \in Nat,
           Spliced(X, Y, a, n, s), NEW i \in Intact(X), i > a, Survives(X, Y, a, n, s, i)
    PROVE  /\ i > a + n /\ (i - n) + s > a
           /\ (i - n) + s \in Intact(Y)
<1> DEFINE f == X[i - 1].of
           B == BodyBytes(f)
           p == Start(X, i)
           j == (i - n) + s
           r == (p - n) + s
<1>1. /\ i \in 2..Len(X) /\ p \in 0..(i - 2) /\ p = (i - 1) - B /\ B \in 1..2
      /\ X[i] = Delimiter /\ Clean(X, p)
  BY IntactFacts
<1>2. Len(X) \in Nat /\ Len(Y) \in Nat /\ a + n <= Len(X) /\ Len(Y) = (Len(X) - n) + s
  BY LenProperties DEF Spliced
<1>3. p >= a + n /\ (p = a + n => Clean(Y, a + s))
  BY <1>1 DEF Survives
<1>4. i > a + n + 1 /\ j > a /\ j \in 2..Len(Y) /\ r >= 0 /\ r = (j - 1) - B
  <2>1. \A ii, pp, bb, lx, ly, aa, nn, ss \in Int :
          /\ ii \in 2..lx /\ pp = (ii - 1) - bb /\ bb >= 1 /\ pp >= aa + nn
          /\ ly = (lx - nn) + ss /\ aa >= 0 /\ nn >= 0 /\ ss >= 0
          => /\ ii > aa + nn + 1 /\ (ii - nn) + ss > aa /\ (ii - nn) + ss \in 2..ly
             /\ (pp - nn) + ss >= 0 /\ (pp - nn) + ss = (((ii - nn) + ss) - 1) - bb
    OBVIOUS
  <2>2. /\ i \in Int /\ p \in Int /\ B \in Int /\ B >= 1 /\ Len(X) \in Int /\ Len(Y) \in Int
        /\ a \in Int /\ n \in Int /\ s \in Int /\ a >= 0 /\ n >= 0 /\ s >= 0
    BY <1>1, <1>2, SMTT(20)
  <2> HIDE DEF B, p
  <2> QED
    BY <2>1, <2>2, <1>1, <1>2, <1>3
<1>5. \A k \in (a + n + 1)..Len(X) : Y[(k - n) + s] = X[k]
  BY DEF Spliced
<1>6. Y[j] = Delimiter
  <2>1. i \in (a + n + 1)..Len(X)
    BY <1>1, <1>2, <1>4
  <2>2. Y[(i - n) + s] = X[i]
    BY <2>1, <1>5
  <2> QED
    BY <2>2, <1>1
<1>7. Y[j - 1] = X[i - 1]
  <2>1. i - 1 \in (a + n + 1)..Len(X) /\ ((i - 1) - n) + s = j - 1
    BY <1>1, <1>2, <1>4
  <2> QED
    BY <2>1, <1>5
<1>8. Start(Y, j) = r
  <2>1. Start(Y, j) = j - B - 1
    BY <1>7 DEF Start
  <2> QED
    BY <2>1, <1>4, <1>1, SMTT(20)
<1>9. Clean(Y, r)
  <2>1. CASE p = a + n
    <3>1. r = a + s
      BY <2>1
    <3> QED
      BY <3>1, <2>1, <1>3
  <2>2. CASE p # a + n
    <3>1. p \in (a + n + 1)..Len(X) /\ p # 0
      BY <2>2, <1>1, <1>2, <1>3, SMTT(20)
    <3>2. X[p] = Delimiter
      BY <3>1, <1>1 DEF Clean
    <3> QED
      BY <3>1, <3>2, <1>5 DEF Clean
  <2> QED
    BY <2>1, <2>2
<1>10. ASSUME NEW k \in 1..B
       PROVE  Y[r + k] = [of |-> f, at |-> k]
  <2>1. k \in Int /\ k >= 1 /\ k <= B
    BY <1>1
  <2>2. p + k \in (a + n + 1)..Len(X) /\ ((p + k) - n) + s = r + k
    <3>1. \A ii, pp, bb, lx, aa, nn, ss, kk \in Int :
            /\ ii <= lx /\ pp = (ii - 1) - bb /\ pp >= aa + nn /\ kk >= 1 /\ kk <= bb
            => /\ pp + kk \in (aa + nn + 1)..lx
               /\ ((pp + kk) - nn) + ss = ((pp - nn) + ss) + kk
      OBVIOUS
    <3>2. /\ i \in Int /\ p \in Int /\ B \in Int /\ Len(X) \in Int /\ i <= Len(X)
          /\ a \in Int /\ n \in Int /\ s \in Int
      BY <1>1, <1>2
    <3> HIDE DEF B, p
    <3> QED
      BY <3>1, <3>2, <2>1, <1>1, <1>3
  <2>3. X[p + k] = [of |-> f, at |-> k]
    BY DEF Intact, IsIntact
  <2> QED
    BY <2>2, <2>3, <1>5
<1>11. IsIntact(Y, j)
  BY <1>4, <1>6, <1>7, <1>8, <1>9, <1>10 DEF IsIntact
<1>12. j \in Intact(Y)
  BY <1>11, <1>4 DEF Intact
<1> QED
  BY <1>12, <1>4, <1>1

-----------------------------------------------------------------------------
(* Counting.                                                                  *)

(* A set of numbers has a least one. *)
LEMMA Smallest ==
    ASSUME NEW T, T \subseteq Nat, T # {}
    PROVE  \E s \in T : \A t \in T : s <= t
<1>1. \E s \in T : \A t \in T : ~(<<t, s>> \in OpToRel(<, Nat))
  BY NatLessThanWellFounded, WFMin
<1>2. \E s \in T : \A t \in T : ~(t < s)
  BY <1>1 DEF OpToRel
<1> QED
  BY <1>2

(* Induction up to a length, for a set of numbers. *)
LEMMA UpTo ==
    ASSUME NEW L \in Nat, NEW S, 0 \in S, \A n \in 0..(L - 1) : n \in S => n + 1 \in S
    PROVE  0..L \subseteq S
<1> DEFINE T == {n \in 0..L : n \notin S}
<1> SUFFICES ASSUME T # {} PROVE FALSE
  OBVIOUS
<1>1. T \subseteq Nat
  OBVIOUS
<1> HIDE DEF T
<1>2. PICK s \in T : \A t \in T : s <= t
  BY <1>1, Smallest
<1>3. s \in Nat /\ s # 0 /\ s <= L
  BY <1>1 DEF T
<1>4. s - 1 \in 0..(L - 1) /\ s - 1 \in 0..L /\ ~(s <= s - 1) /\ (s - 1) + 1 = s
  BY <1>3
<1>5. s - 1 \in S
  BY <1>2, <1>4 DEF T
<1>6. s \in S
  BY <1>4, <1>5
<1> QED
  BY <1>6 DEF T

(* A set that maps into another, one to one, is no larger.                    *)
LEMMA NoLarger ==
    ASSUME NEW S, NEW T, IsFiniteSet(T), NEW f \in [S -> T],
           \A x, y \in S : f[x] = f[y] => x = y
    PROVE  IsFiniteSet(S) /\ Cardinality(S) <= Cardinality(T)
<1> DEFINE R == {y \in T : \E x \in S : f[x] = y}
           g == [y \in R |-> CHOOSE x \in S : f[x] = y]
<1>1. R \in SUBSET T
  OBVIOUS
<1>2. IsFiniteSet(R) /\ Cardinality(R) <= Cardinality(T)
  BY <1>1, FS_Subset
<1>3. \A y \in R : g[y] \in S /\ f[g[y]] = y
  OBVIOUS
<1>4. \A x \in S : f[x] \in R /\ g[f[x]] = x
  BY <1>3
<1>5. g \in [R -> S]
  BY <1>3
<1> HIDE DEF R, g
<1>6. g \in Surjection(R, S)
  BY <1>4, <1>5 DEF Surjection
<1>7. IsFiniteSet(S) /\ Cardinality(S) <= Cardinality(R)
  BY <1>2, <1>6, FS_Surjection
<1>8. Cardinality(S) \in Nat /\ Cardinality(R) \in Nat /\ Cardinality(T) \in Nat
  BY <1>2, <1>7, FS_CardinalityType
<1> QED
  BY <1>2, <1>7, <1>8

LEMMA IntactFinite ==
    ASSUME NEW X \in Seq(Byte)
    PROVE  IsFiniteSet(Intact(X)) /\ Cardinality(Intact(X)) \in Nat
<1>1. Intact(X) \in SUBSET (2..Len(X)) /\ Len(X) \in Int
  BY LenProperties DEF Intact
<1>2. IsFiniteSet(Intact(X))
  BY <1>1, FS_Interval, FS_Subset
<1> QED
  BY <1>2, FS_CardinalityType

(* What a splice leaves alone is still there.                                 *)
LEMMA SpliceCount ==
    ASSUME NEW X \in Seq(Byte), NEW Y \in Seq(Byte), NEW a \in Nat, NEW n \in Nat, NEW s \in Nat,
           Spliced(X, Y, a, n, s)
    PROVE  /\ IsFiniteSet(Touched(X, Y, a, n, s))
           /\ Cardinality(Intact(X)) <= Cardinality(Intact(Y)) + Cardinality(Touched(X, Y, a, n, s))
<1> DEFINE T == Touched(X, Y, a, n, s)
           L == Intact(X) \ T
           f == [i \in L |-> IF i <= a THEN i ELSE (i - n) + s]
<1>1. \A i \in L : i \in Intact(X) /\ i \in Nat /\ Survives(X, Y, a, n, s, i)
  BY DEF Touched, Intact
<1>2. \A i \in L : f[i] \in Intact(Y) /\ (i > a => i > a + n /\ f[i] > a)
  <2> SUFFICES ASSUME NEW i \in L
               PROVE  f[i] \in Intact(Y) /\ (i > a => i > a + n /\ f[i] > a)
    OBVIOUS
  <2>1. CASE i <= a
    BY <2>1, <1>1, SurvivorBefore
  <2>2. CASE i > a
    <3>1. f[i] = (i - n) + s
      BY <2>2, <1>1
    <3> QED
      BY <2>2, <3>1, <1>1, SurvivorBehind
  <2> QED
    BY <2>1, <2>2, <1>1
<1>3. \A i \in L : f[i] = IF i <= a THEN i ELSE (i - n) + s
  OBVIOUS
<1>4. f \in [L -> Intact(Y)]
  BY <1>2
<1>5. IsFiniteSet(Intact(X)) /\ IsFiniteSet(Intact(Y))
  BY IntactFinite
<1>6. T \in SUBSET Intact(X) /\ L \in SUBSET Intact(X) /\ L \union T = Intact(X) /\ L \intersect T = {}
  BY DEF Touched
<1> HIDE DEF T, L, f
<1>7. \A x, y \in L : f[x] = f[y] => x = y
  BY <1>1, <1>2, <1>3, SMTT(20)
<1>8. Cardinality(L) <= Cardinality(Intact(Y))
  BY <1>4, <1>5, <1>7, NoLarger
<1>9. IsFiniteSet(L) /\ IsFiniteSet(T)
  BY <1>5, <1>6, FS_Subset
<1>10. Cardinality(L \union T) = Cardinality(L) + Cardinality(T) - Cardinality(L \intersect T)
  BY <1>9, FS_Union
<1>11. Cardinality(L \intersect T) = 0
  BY <1>6, FS_EmptySet
<1>12. /\ Cardinality(L) \in Nat /\ Cardinality(T) \in Nat /\ Cardinality(Intact(X)) \in Nat
       /\ Cardinality(Intact(Y)) \in Nat
  BY <1>5, <1>9, FS_CardinalityType
<1>13. Cardinality(Intact(X)) = Cardinality(L) + Cardinality(T)
  <2>1. Cardinality(L \union T) = Cardinality(Intact(X))
    BY <1>6
  <2> QED
    BY <2>1, <1>10, <1>11, <1>12
<1>14. IsFiniteSet(T) /\ Cardinality(Intact(X)) <= Cardinality(Intact(Y)) + Cardinality(T)
  BY <1>8, <1>9, <1>12, <1>13
<1> QED
  BY <1>14 DEF T

(* Behind the splice at most one intact frame is touched: the one it is in.   *)
LEMMA OneTouchedBehind ==
    ASSUME NEW X \in Seq(Byte), NEW Y \in Seq(Byte), NEW a \in Nat, NEW n \in Nat, NEW s \in Nat,
           NEW i \in Touched(X, Y, a, n, s), NEW j \in Touched(X, Y, a, n, s), i > a + n, j > a + n
    PROVE  i = j
<1>1. ASSUME NEW k \in Touched(X, Y, a, n, s), NEW m \in Touched(X, Y, a, n, s),
             k > a + n, m > a + n, k < m
      PROVE  FALSE
  <2>1. k \in Intact(X) /\ m \in Intact(X) /\ ~Survives(X, Y, a, n, s, m)
    BY DEF Touched
  <2>2. /\ k \in Nat /\ m \in Nat /\ X[k] = Delimiter /\ Start(X, m) \in 0..(m - 2)
        /\ \A h \in (Start(X, m) + 1)..(m - 1) : X[h] # Delimiter
    <3>1. X[k] = Delimiter /\ k \in 2..Len(X)
      BY <2>1, IntactFacts
    <3>2. /\ m \in 2..Len(X) /\ Start(X, m) \in 0..(m - 2)
          /\ \A h \in (Start(X, m) + 1)..(m - 1) : X[h] # Delimiter
      BY <2>1, IntactFacts
    <3> QED
      BY <3>1, <3>2
  <2>3. k <= Start(X, m)
    <3>1. k \notin (Start(X, m) + 1)..(m - 1)
      BY <2>2
    <3> QED
      BY <3>1, <2>2, <1>1
  <2>4. Start(X, m) > a + n
    BY <2>2, <2>3, <1>1
  <2> QED
    BY <2>1, <2>2, <2>4, SMTT(20) DEF Survives
<1>2. i \in Nat /\ j \in Nat
  BY DEF Touched, Intact
<1> QED
  BY <1>1, <1>2

(* n bytes in a row touch at most n frames that end among them, and one that  *)
(* ends behind.                                                               *)
LEMMA TouchedCount ==
    ASSUME NEW X \in Seq(Byte), NEW Y \in Seq(Byte), NEW a \in Nat, NEW n \in Nat, NEW s \in Nat,
           Spliced(X, Y, a, n, s), NEW m \in Nat,
           NEW M, IsFiniteSet(M), Cardinality(M) <= m,
           \A i \in Touched(X, Y, a, n, s) : i <= a + n => i \in M
    PROVE  Cardinality(Touched(X, Y, a, n, s)) <= m + (IF a + n < Len(X) THEN 1 ELSE 0)
<1> DEFINE T == Touched(X, Y, a, n, s)
           B == {i \in T : i > a + n}
<1>1. T \in SUBSET Intact(X) /\ B \in SUBSET Intact(X) /\ Intact(X) \subseteq 2..Len(X)
  BY DEF Touched, Intact
<1>2. Len(X) \in Nat
  BY LenProperties
<1>3. T \subseteq M \union B
  BY <1>1
<1>4. IsFiniteSet(B) /\ Cardinality(B) <= (IF a + n < Len(X) THEN 1 ELSE 0)
  <2> HIDE DEF T
  <2>1. CASE B = {}
    <3>1. IsFiniteSet({}) /\ Cardinality({}) = 0
      BY FS_EmptySet
    <3> HIDE DEF B
    <3>2. IsFiniteSet(B) /\ Cardinality(B) = 0
      BY <3>1, <2>1
    <3> QED
      BY <3>2
  <2>2. CASE B # {}
    <3>1. PICK i \in B : TRUE
      BY <2>2
    <3>2. \A j \in B : j = i
      BY <3>1, OneTouchedBehind DEF T
    <3>3. B = {i}
      BY <3>1, <3>2
    <3>4. i \in 2..Len(X) /\ i > a + n
      BY <3>1, <1>1
    <3>5. a + n < Len(X)
      BY <3>4, <1>2
    <3>6. IsFiniteSet({i}) /\ Cardinality({i}) = 1
      BY FS_Singleton
    <3> HIDE DEF B
    <3>7. IsFiniteSet(B) /\ Cardinality(B) = 1
      BY <3>3, <3>6
    <3> QED
      BY <3>5, <3>7
  <2> QED
    BY <2>1, <2>2
<1> HIDE DEF T, B
<1>5. IsFiniteSet(M \union B) /\ Cardinality(M \union B) = Cardinality(M) + Cardinality(B) - Cardinality(M \intersect B)
  BY <1>4, FS_Union
<1>6. Cardinality(T) <= Cardinality(M \union B) /\ IsFiniteSet(T)
  <2>1. T \in SUBSET (M \union B)
    BY <1>3
  <2> QED
    BY <2>1, <1>5, FS_Subset
<1>7. M \intersect B \in SUBSET M
  OBVIOUS
<1>8. IsFiniteSet(M \intersect B)
  BY <1>7, FS_Subset
<1>9. /\ Cardinality(M) \in Nat /\ Cardinality(B) \in Nat /\ Cardinality(T) \in Nat
      /\ Cardinality(M \union B) \in Nat /\ Cardinality(M \intersect B) \in Nat
  BY <1>4, <1>5, <1>6, <1>8, FS_CardinalityType
<1>10. Cardinality(T) <= m + (IF a + n < Len(X) THEN 1 ELSE 0)
  BY <1>4, <1>5, <1>6, <1>9, SMTT(20)
<1> QED
  BY <1>10 DEF T

-----------------------------------------------------------------------------
(* What a splice costs.                                                       *)

LEMMA SpoiledFacts ==
    ASSUME NEW X \in Seq(Byte)
    PROVE  /\ Spoiled(X) \in 0..1
           /\ Len(X) = 0 => Spoiled(X) = 0
           /\ Len(X) > 0 => (Spoiled(X) = 0 <=> X[Len(X)] = Delimiter)
BY LenProperties DEF Spoiled, Clean

LEMMA SpoiledBySplice ==
    ASSUME NEW X \in Seq(Byte), NEW Y \in Seq(Byte), NEW a \in Nat, NEW n \in Nat, NEW s \in Nat,
           Spliced(X, Y, a, n, s)
    PROVE  Spoiled(Y) <= Spoiled(X) + (IF a + n < Len(X) THEN 0 ELSE 1)
<1>1. Spoiled(X) \in 0..1 /\ Spoiled(Y) \in 0..1
  BY SpoiledFacts
<1>2. Len(X) \in Nat /\ Len(Y) \in Nat /\ a + n <= Len(X) /\ Len(Y) = (Len(X) - n) + s
  BY LenProperties DEF Spliced
<1>3. CASE a + n < Len(X)
  <2>1. Len(X) \in (a + n + 1)..Len(X)
    BY <1>2, <1>3
  <2>2. Y[(Len(X) - n) + s] = X[Len(X)]
    BY <2>1 DEF Spliced
  <2>3. Len(X) > 0 /\ Len(Y) > 0 /\ Y[Len(Y)] = X[Len(X)]
    BY <1>2, <1>3, <2>2
  <2>4. Spoiled(Y) = Spoiled(X)
    BY <2>3, <1>1, SpoiledFacts
  <2> QED
    BY <2>4, <1>1, <1>3
<1>4. CASE ~(a + n < Len(X))
  BY <1>1, <1>4
<1> QED
  BY <1>3, <1>4

LEMMA SpliceBalanced ==
    ASSUME NEW X \in Seq(Byte), NEW Y \in Seq(Byte), NEW a \in Nat, NEW n \in Nat, NEW s \in Nat,
           Spliced(X, Y, a, n, s),
           NEW o \in Seq(Frame), NEW lost \in Nat, NEW paid \in Nat, Balanced(X, o, lost, paid),
           NEW c \in Nat,
           (Spoiled(Y) - Spoiled(X)) + Cardinality(Touched(X, Y, a, n, s)) <= c
    PROVE  Balanced(Y, o, lost, paid + c)
<1>1. Spoiled(X) \in 0..1 /\ Spoiled(Y) \in 0..1 /\ Len(o) \in Nat
  BY SpoiledFacts, LenProperties
<1>2. /\ Cardinality(Intact(X)) <= Cardinality(Intact(Y)) + Cardinality(Touched(X, Y, a, n, s))
      /\ IsFiniteSet(Touched(X, Y, a, n, s))
  BY SpliceCount
<1>3. /\ Cardinality(Intact(X)) \in Nat /\ Cardinality(Intact(Y)) \in Nat
      /\ Cardinality(Touched(X, Y, a, n, s)) \in Nat
  BY <1>2, IntactFinite, FS_CardinalityType
<1>4. lost + Len(o) + Spoiled(X) <= paid + Cardinality(Intact(X))
  BY DEF Balanced
<1>5. lost + Len(o) + Spoiled(Y) <= (paid + c) + Cardinality(Intact(Y))
  <2> DEFINE L  == Len(o)
             SX == Spoiled(X)
             SY == Spoiled(Y)
             CX == Cardinality(Intact(X))
             CY == Cardinality(Intact(Y))
             CT == Cardinality(Touched(X, Y, a, n, s))
  <2>1. L \in Int /\ SX \in Int /\ SY \in Int /\ CX \in Int /\ CY \in Int /\ CT \in Int
    BY <1>1, <1>3
  <2>2. (SY - SX) + CT <= c
    OBVIOUS
  <2>3. CX <= CY + CT /\ lost + L + SX <= paid + CX
    BY <1>2, <1>4
  <2> HIDE DEF L, SX, SY, CX, CY, CT
  <2>4. lost + L + SY <= (paid + c) + CY
    BY <2>1, <2>2, <2>3
  <2> QED
    BY <2>4 DEF L, SY, CY
<1> QED
  BY <1>5 DEF Balanced

(* n bytes lost, or one read as another, spoil at most n + 1 frames.          *)
LEMMA RunCosts ==
    ASSUME NEW X \in Seq(Byte), NEW Y \in Seq(Byte), NEW a \in Nat, NEW n \in Nat, NEW s \in Nat,
           Spliced(X, Y, a, n, s),
           NEW o \in Seq(Frame), NEW lost \in Nat, NEW paid \in Nat, Balanced(X, o, lost, paid)
    PROVE  Balanced(Y, o, lost, paid + (n + 1))
<1> DEFINE T == Touched(X, Y, a, n, s)
           M == (a + 1)..(a + n)
           e == IF a + n < Len(X) THEN 1 ELSE 0
<1>1. IsFiniteSet(M) /\ Cardinality(M) <= n
  <2>1. a + 1 \in Int /\ a + n \in Int
    OBVIOUS
  <2>2. IsFiniteSet(M) /\ Cardinality(M) = IF a + 1 > a + n THEN 0 ELSE (a + n) - (a + 1) + 1
    BY <2>1, FS_Interval
  <2> QED
    BY <2>2
<1>2. \A i \in T : i <= a + n => i \in M
  BY DEF Touched, Survives, Intact
<1>3. Cardinality(T) <= n + e
  BY <1>1, <1>2, TouchedCount
<1>4. Spoiled(Y) <= Spoiled(X) + (1 - e)
  BY SpoiledBySplice
<1>5. Spoiled(X) \in 0..1 /\ Spoiled(Y) \in 0..1 /\ e \in 0..1 /\ Cardinality(T) \in Nat
  BY SpoiledFacts, SpliceCount, FS_CardinalityType
<1> HIDE DEF T, e
<1>6. (Spoiled(Y) - Spoiled(X)) + Cardinality(T) <= n + 1
  BY <1>3, <1>4, <1>5, SMTT(20)
<1>7. n + 1 \in Nat
  OBVIOUS
<1> QED
  BY <1>6, <1>7, SpliceBalanced DEF T

(* Intact frames are owed, each for itself.                                   *)
LEMMA IntactAreOwed ==
    ASSUME NEW X \in Seq(Byte), NEW o \in Seq(Frame), Embedded(X, o)
    PROVE  Cardinality(Intact(X)) <= Len(o)
<1>1. PICK q : Embeds(X, o, q)
  BY DEF Embedded
<1> DEFINE f == [i \in Intact(X) |-> q[i - 1]]
<1>2. \A i \in Intact(X) : i - 1 \in Ends(X) /\ i \in Nat
  BY IntactFacts
<1>3. f \in [Intact(X) -> 1..Len(o)]
  BY <1>1, <1>2 DEF Embeds
<1>4. \A x, y \in Intact(X) : f[x] = f[y] => x = y
  <2> SUFFICES ASSUME NEW x \in Intact(X), NEW y \in Intact(X), f[x] = f[y], x # y
               PROVE  FALSE
    OBVIOUS
  <2>1. x \in Nat /\ y \in Nat /\ x - 1 \in Ends(X) /\ y - 1 \in Ends(X) /\ q[x - 1] = q[y - 1]
    BY <1>2
  <2>2. q[x - 1] \in Nat /\ q[y - 1] \in Nat
    BY <2>1, <1>1, LenProperties DEF Embeds
  <2>3. CASE x < y
    <3>1. x - 1 < y - 1
      BY <2>1, <2>3
    <3>2. q[x - 1] < q[y - 1]
      BY <3>1, <2>1, <1>1 DEF Embeds
    <3> QED
      BY <3>2, <2>1, <2>2
  <2>4. CASE y < x
    <3>1. y - 1 < x - 1
      BY <2>1, <2>4
    <3>2. q[y - 1] < q[x - 1]
      BY <3>1, <2>1, <1>1 DEF Embeds
    <3> QED
      BY <3>2, <2>1, <2>2
  <2> QED
    BY <2>1, <2>3, <2>4
<1>5. IsFiniteSet(1..Len(o)) /\ Cardinality(1..Len(o)) = Len(o)
  <2>1. Len(o) \in Nat /\ 1 \in Int /\ Len(o) \in Int
    BY LenProperties
  <2>2. IsFiniteSet(1..Len(o)) /\ Cardinality(1..Len(o)) = IF 1 > Len(o) THEN 0 ELSE Len(o) - 1 + 1
    BY <2>1, FS_Interval
  <2> QED
    BY <2>1, <2>2
<1> HIDE DEF f
<1>6. Cardinality(Intact(X)) <= Cardinality(1..Len(o))
  BY <1>3, <1>4, <1>5, NoLarger
<1> QED
  BY <1>5, <1>6

-----------------------------------------------------------------------------
(* The parser takes a delimiter and what came before it off the stream.       *)

CutAt(X, Y, n) ==
    /\ n \in 1..Len(X) /\ X[n] = Delimiter
    /\ \A i \in 1..(n - 1) : X[i] # Delimiter
    /\ Spliced(X, Y, 0, n, 0)

LEMMA CutTouches ==
    ASSUME NEW X \in Seq(Byte), NEW Y \in Seq(Byte), NEW n, CutAt(X, Y, n)
    PROVE  /\ n \in Nat /\ n >= 1
           /\ \A i \in Touched(X, Y, 0, n, 0) : i = n /\ n \in Intact(X)
           /\ Spoiled(Y) <= Spoiled(X)
           /\ (Spoiled(Y) - Spoiled(X)) + Cardinality(Touched(X, Y, 0, n, 0)) <= 1
           /\ n \notin Intact(X) =>
                 (Spoiled(Y) - Spoiled(X)) + Cardinality(Touched(X, Y, 0, n, 0)) <= 0
<1>1. n \in Nat /\ n >= 1 /\ n <= Len(X) /\ Len(X) \in Nat /\ Len(Y) \in Nat /\ 0 \in Nat
  BY LenProperties DEF CutAt
<1>2. Spliced(X, Y, 0, n, 0) /\ X[n] = Delimiter /\ \A i \in 1..(n - 1) : X[i] # Delimiter
  BY DEF CutAt
<1>3. ASSUME NEW i \in Touched(X, Y, 0, n, 0)
      PROVE  i = n /\ n \in Intact(X)
  <2>1. i \in Intact(X) /\ ~Survives(X, Y, 0, n, 0, i)
    BY DEF Touched
  <2>2. /\ i \in 2..Len(X) /\ X[i] = Delimiter /\ Start(X, i) \in 0..(i - 2)
        /\ \A j \in (Start(X, i) + 1)..(i - 1) : X[j] # Delimiter
    BY <2>1, IntactFacts
  <2>3. ~(i < n)
    <3>1. i \notin 1..(n - 1)
      BY <2>2, <1>2
    <3> QED
      BY <3>1, <2>2, <1>1
  <2>4. ~(i > n)
    <3> SUFFICES ASSUME i > n PROVE FALSE
      OBVIOUS
    <3>1. n \notin (Start(X, i) + 1)..(i - 1)
      BY <2>2, <1>2
    <3>2. Start(X, i) >= 0 + n
      BY <3>1, <2>2, <1>1
    <3>3. Clean(Y, 0 + 0)
      BY DEF Clean
    <3> QED
      BY <3>2, <3>3, <2>1 DEF Survives
  <2>5. i = n
    BY <2>2, <2>3, <2>4, <1>1
  <2> QED
    BY <2>1, <2>5
<1>4. Spoiled(X) \in 0..1 /\ Spoiled(Y) \in 0..1
  BY SpoiledFacts
<1>5. Spoiled(Y) <= Spoiled(X)
  <2>1. CASE n < Len(X)
    <3>1. Spoiled(Y) <= Spoiled(X) + (IF 0 + n < Len(X) THEN 0 ELSE 1)
      BY <1>1, <1>2, SpoiledBySplice
    <3> QED
      BY <3>1, <2>1, <1>1, <1>4
  <2>2. CASE n = Len(X)
    <3>1. Len(Y) = 0
      BY <2>2, <1>1, <1>2 DEF Spliced
    <3>2. Spoiled(Y) = 0
      BY <3>1, SpoiledFacts
    <3> QED
      BY <3>2, <1>4
  <2> QED
    BY <2>1, <2>2, <1>1
<1> DEFINE T == Touched(X, Y, 0, n, 0)
<1>6. T \in SUBSET {n}
  BY <1>3
<1>7. IsFiniteSet({n}) /\ Cardinality({n}) = 1
  BY FS_Singleton
<1> HIDE DEF T
<1>8. Cardinality(T) <= 1 /\ IsFiniteSet(T)
  BY <1>6, <1>7, FS_Subset
<1>9. Cardinality(T) \in Nat
  BY <1>8, FS_CardinalityType
<1>10. n \notin Intact(X) => Cardinality(T) = 0
  <2> SUFFICES ASSUME n \notin Intact(X) PROVE Cardinality(T) = 0
    OBVIOUS
  <2>1. T = {}
    BY <1>3 DEF T
  <2> QED
    BY <2>1, FS_EmptySet
<1>11. /\ (Spoiled(Y) - Spoiled(X)) + Cardinality(T) <= 1
       /\ n \notin Intact(X) => (Spoiled(Y) - Spoiled(X)) + Cardinality(T) <= 0
  BY <1>4, <1>5, <1>8, <1>9, <1>10
<1> QED
  BY <1>1, <1>3, <1>5, <1>11 DEF T

(* Nothing whole ends here: the accounts stay as they are.                    *)
LEMMA CutKeepsBalance ==
    ASSUME NEW X \in Seq(Byte), NEW Y \in Seq(Byte), NEW n, CutAt(X, Y, n),
           n \notin Intact(X),
           NEW o \in Seq(Frame), NEW lost \in Nat, NEW paid \in Nat, Balanced(X, o, lost, paid)
    PROVE  Balanced(Y, o, lost, paid)
<1>1. n \in Nat /\ Spliced(X, Y, 0, n, 0) /\ 0 \in Nat
  BY CutTouches DEF CutAt
<1>2. (Spoiled(Y) - Spoiled(X)) + Cardinality(Touched(X, Y, 0, n, 0)) <= 0
  BY CutTouches
<1>3. Balanced(Y, o, lost, paid + 0)
  BY <1>1, <1>2, SpliceBalanced
<1>4. paid + 0 = paid
  OBVIOUS
<1> QED
  BY <1>3, <1>4

(* The first frame owed that equals f, and what is owed behind it.            *)
FirstOf(o, f, k) == k \in 1..Len(o) /\ o[k] = f /\ \A h \in 1..(k - 1) : o[h] # f

LEMMA SuffixFacts ==
    ASSUME NEW S, NEW o \in Seq(S), NEW k \in 0..Len(o)
    PROVE  /\ SubSeq(o, k + 1, Len(o)) \in Seq(S)
           /\ Len(SubSeq(o, k + 1, Len(o))) = Len(o) - k
           /\ \A i \in 1..(Len(o) - k) : SubSeq(o, k + 1, Len(o))[i] = o[k + i]
<1>1. Len(o) \in Nat /\ \A i \in (k + 1)..Len(o) : o[i] \in S
  <2>1. \A i \in 1..Len(o) : o[i] \in S
    BY ElementOfSeq
  <2> QED
    BY <2>1, LenProperties
<1>2. k + 1 \in Int /\ Len(o) \in Int
  BY <1>1
<1>3. /\ SubSeq(o, k + 1, Len(o)) \in Seq(S)
      /\ Len(SubSeq(o, k + 1, Len(o))) = (IF k + 1 <= Len(o) THEN Len(o) - (k + 1) + 1 ELSE 0)
      /\ \A i \in 1..(Len(o) - (k + 1) + 1) : SubSeq(o, k + 1, Len(o))[i] = o[(k + 1) + i - 1]
  BY <1>1, <1>2, SubSeqProperties
<1>4. Len(SubSeq(o, k + 1, Len(o))) = Len(o) - k
  BY <1>1, <1>3
<1>5. ASSUME NEW i \in 1..(Len(o) - k)
      PROVE  SubSeq(o, k + 1, Len(o))[i] = o[k + i]
  <2>1. i \in 1..(Len(o) - (k + 1) + 1) /\ (k + 1) + i - 1 = k + i
    BY <1>1
  <2> QED
    BY <2>1, <1>3
<1> QED
  BY <1>3, <1>4, <1>5

(* The frame that arrives first was owed: what is still on its way is owed    *)
(* behind it, and the frames skipped are accounted for.                       *)
LEMMA CutDelivers ==
    ASSUME NEW X \in Seq(Byte), NEW Y \in Seq(Byte), NEW n, CutAt(X, Y, n),
           n - 1 \in Ends(X), NEW o \in Seq(Frame), NEW lost \in Nat, NEW paid \in Nat,
           Embedded(X, o), Balanced(X, o, lost, paid)
    PROVE  /\ \E k : FirstOf(o, X[n - 1].of, k)
           /\ \A k : FirstOf(o, X[n - 1].of, k) =>
                 /\ Embedded(Y, SubSeq(o, k + 1, Len(o)))
                 /\ Balanced(Y, SubSeq(o, k + 1, Len(o)), lost + (k - 1), paid)
<1> DEFINE f == X[n - 1].of
<1>1. n \in Nat /\ n >= 1 /\ Spliced(X, Y, 0, n, 0) /\ 0 \in Nat
  BY CutTouches DEF CutAt
<1>2. PICK q : Embeds(X, o, q)
  BY DEF Embedded
<1>3. /\ q \in [Ends(X) -> 1..Len(o)] /\ \A i \in Ends(X) : o[q[i]] = X[i].of
      /\ \A i, j \in Ends(X) : i < j => q[i] < q[j]
  BY <1>2 DEF Embeds
<1>4. q[n - 1] \in 1..Len(o) /\ o[q[n - 1]] = f /\ Len(o) \in Nat
  BY <1>3, LenProperties
<1>5. \E k : FirstOf(o, f, k)
  <2> DEFINE S == {h \in 1..Len(o) : o[h] = f}
  <2>1. S \subseteq Nat /\ S # {}
    BY <1>4
  <2>2. PICK k \in S : \A h \in S : k <= h
    BY <2>1, Smallest
  <2>3. \A h \in 1..(k - 1) : h \in 1..Len(o) /\ ~(k <= h)
    BY <2>1, <2>2, <1>4
  <2> QED
    BY <2>2, <2>3 DEF FirstOf
<1>6. ASSUME NEW k, FirstOf(o, f, k)
      PROVE  /\ Embedded(Y, SubSeq(o, k + 1, Len(o)))
             /\ Balanced(Y, SubSeq(o, k + 1, Len(o)), lost + (k - 1), paid)
  <2>1. k \in 1..Len(o) /\ k \in 0..Len(o) /\ k \in Nat
    BY <1>6, <1>4 DEF FirstOf
  <2> DEFINE u == SubSeq(o, k + 1, Len(o))
  <2>2. /\ u \in Seq(Frame) /\ Len(u) = Len(o) - k
        /\ \A i \in 1..(Len(o) - k) : u[i] = o[k + i]
    BY <2>1, SuffixFacts
  <2> HIDE DEF u
  <2>3. k <= q[n - 1]
    <3>1. q[n - 1] \notin 1..(k - 1)
      BY <1>4, <1>6 DEF FirstOf
    <3> QED
      BY <3>1, <1>4, <2>1
  <2>4. \A j \in Ends(Y) : /\ j \in Nat /\ j >= 1 /\ j + n \in Ends(X) /\ X[j + n] = Y[j]
                           /\ q[j + n] \in (k + 1)..Len(o)
    <3> SUFFICES ASSUME NEW j \in Ends(Y)
                 PROVE  /\ j \in Nat /\ j >= 1 /\ j + n \in Ends(X) /\ X[j + n] = Y[j]
                        /\ q[j + n] \in (k + 1)..Len(o)
      OBVIOUS
    <3>1. /\ Back(0, n, 0, j) \in Ends(X) /\ X[Back(0, n, 0, j)] = Y[j] /\ j \in Nat
      BY <1>1, BackFacts
    <3>2. j \in 1..Len(Y)
      BY DEF Ends
    <3>3. j >= 1 /\ Back(0, n, 0, j) = j + n
      BY <3>1, <3>2, <1>1 DEF Back
    <3>4. n - 1 < j + n
      BY <3>1, <1>1
    <3>5. q[n - 1] < q[j + n]
      BY <3>1, <3>3, <3>4, <1>3
    <3>6. q[j + n] \in 1..Len(o)
      BY <3>1, <3>3, <1>3
    <3>7. q[j + n] \in (k + 1)..Len(o)
      BY <3>5, <3>6, <2>1, <2>3, <1>4
    <3> QED
      BY <3>1, <3>3, <3>7
  <2>5. Embedded(Y, u)
    <3> DEFINE p == [j \in Ends(Y) |-> q[j + n] - k]
    <3>1. ASSUME NEW j \in Ends(Y)
          PROVE  p[j] \in 1..Len(u) /\ u[p[j]] = Y[j].of
      <4>1. q[j + n] \in (k + 1)..Len(o) /\ p[j] = q[j + n] - k
        BY <2>4
      <4>0. \A w, v, l \in Int : w \in (v + 1)..l => w - v \in 1..(l - v) /\ v + (w - v) = w
        OBVIOUS
      <4>2. p[j] \in 1..(Len(o) - k) /\ k + p[j] = q[j + n]
        <5>1. q[j + n] \in Int /\ k \in Int /\ Len(o) \in Int
          BY <4>1, <2>1, <1>4
        <5>2. q[j + n] - k \in 1..(Len(o) - k) /\ k + (q[j + n] - k) = q[j + n]
          BY <4>0, <4>1, <5>1
        <5> QED
          BY <4>1, <5>2
      <4>3. u[p[j]] = o[q[j + n]]
        BY <4>2, <2>2
      <4> QED
        BY <4>2, <4>3, <2>2, <2>4, <1>3
    <3>2. ASSUME NEW i \in Ends(Y), NEW j \in Ends(Y), i < j
          PROVE  p[i] < p[j]
      <4>1. i + n < j + n
        BY <3>2, <2>4, <1>1
      <4>2. q[i + n] < q[j + n]
        BY <4>1, <2>4, <1>3
      <4>3. q[i + n] \in Nat /\ q[j + n] \in Nat
        BY <2>4, <2>1, <1>4, SMTT(20)
      <4> QED
        BY <4>2, <4>3, <2>1
    <3>3. p \in [Ends(Y) -> 1..Len(u)]
      BY <3>1
    <3>4. Embeds(Y, u, p)
      BY <3>1, <3>2, <3>3 DEF Embeds
    <3> QED
      BY <3>4 DEF Embedded
  <2>6. Balanced(Y, u, lost + (k - 1), paid)
    <3>1. (Spoiled(Y) - Spoiled(X)) + Cardinality(Touched(X, Y, 0, n, 0)) <= 1
      BY CutTouches
    <3>2. Balanced(Y, o, lost, paid + 1)
      BY <1>1, <3>1, SpliceBalanced
    <3> DEFINE SY == Spoiled(Y)
               CY == Cardinality(Intact(Y))
    <3>3. SY \in Int /\ CY \in Int
      BY SpoiledFacts, IntactFinite
    <3>4. lost + Len(o) + SY <= (paid + 1) + CY
      BY <3>2 DEF Balanced
    <3> HIDE DEF SY, CY
    <3>5. (lost + (k - 1)) + Len(u) + SY <= paid + CY
      BY <3>3, <3>4, <2>1, <2>2, <1>4
    <3> QED
      BY <3>5 DEF Balanced, SY, CY
  <2> QED
    BY <2>5, <2>6 DEF u
<1> QED
  BY <1>5, <1>6

-----------------------------------------------------------------------------
(* The stream grows by a whole frame.                                         *)

Grown(X, Y, f) ==
    /\ Len(Y) = (Len(X) + BodyBytes(f)) + 1
    /\ \A i \in 1..Len(X) : Y[i] = X[i]
    /\ \A i \in 1..BodyBytes(f) : Y[Len(X) + i] = [of |-> f, at |-> i]
    /\ Y[Len(Y)] = Delimiter

LEMMA GrownEnds ==
    ASSUME NEW X \in Seq(Byte), NEW Y \in Seq(Byte), NEW f \in Frame, Grown(X, Y, f)
    PROVE  /\ Len(X) + BodyBytes(f) \in Ends(Y) /\ Y[Len(X) + BodyBytes(f)].of = f
           /\ \A i \in Ends(X) : i \in Ends(Y) /\ Y[i] = X[i] /\ i < Len(X) + BodyBytes(f)
           /\ \A i \in Ends(Y) : i \in Ends(X) \/ i = Len(X) + BodyBytes(f)
<1> DEFINE B == BodyBytes(f)
           L == Len(X)
<1>1. B \in 1..2 /\ L \in Nat /\ Len(Y) = (L + B) + 1
  BY BodyFacts, LenProperties DEF Grown
<1>2. \A i \in 1..L : Y[i] = X[i]
  BY DEF Grown
<1>3. \A i \in 1..B : Y[L + i] = [of |-> f, at |-> i]
  BY DEF Grown
<1>4. L + B \in Ends(Y) /\ Y[L + B].of = f
  <2>1. Y[L + B] = [of |-> f, at |-> B]
    BY <1>1, <1>3
  <2>2. L + B \in 1..Len(Y)
    BY <1>1
  <2> QED
    BY <2>1, <2>2 DEF Ends
<1>5. \A i \in Ends(X) : i \in Ends(Y) /\ Y[i] = X[i] /\ i < L + B
  <2> SUFFICES ASSUME NEW i \in Ends(X)
               PROVE  i \in Ends(Y) /\ Y[i] = X[i] /\ i < L + B
    OBVIOUS
  <2>1. i \in 1..L /\ X[i].at = BodyBytes(X[i].of)
    BY DEF Ends
  <2>2. Y[i] = X[i] /\ i \in 1..Len(Y) /\ i < L + B
    BY <2>1, <1>1, <1>2
  <2> QED
    BY <2>1, <2>2 DEF Ends
<1>6. \A i \in Ends(Y) : i \in Ends(X) \/ i = L + B
  <2> SUFFICES ASSUME NEW i \in Ends(Y)
               PROVE  i \in Ends(X) \/ i = L + B
    OBVIOUS
  <2>1. i \in 1..Len(Y) /\ Y[i].at = BodyBytes(Y[i].of) /\ Y[i] # Delimiter
    BY EndsArePlain DEF Ends
  <2>2. i # Len(Y)
    BY <2>1 DEF Grown
  <2>3. CASE i <= L
    <3>1. i \in 1..L
      BY <2>1, <2>3, <1>1
    <3>2. X[i].at = BodyBytes(X[i].of)
      BY <3>1, <2>1, <1>2
    <3> QED
      BY <3>1, <3>2 DEF Ends
  <2>4. CASE i > L
    <3>1. i - L \in 1..B /\ L + (i - L) = i
      BY <2>1, <2>2, <2>4, <1>1
    <3>2. Y[i] = [of |-> f, at |-> i - L]
      BY <3>1, <1>3
    <3>3. i - L = B
      BY <3>2, <2>1
    <3> QED
      BY <3>3, <2>1, <1>1
  <2> QED
    BY <2>1, <2>3, <2>4, <1>1
<1> QED
  BY <1>4, <1>5, <1>6

LEMMA GrownEmbedded ==
    ASSUME NEW X \in Seq(Byte), NEW Y \in Seq(Byte), NEW f \in Frame, Grown(X, Y, f),
           NEW o \in Seq(Frame), Embedded(X, o)
    PROVE  Embedded(Y, Append(o, f))
<1>1. PICK q : Embeds(X, o, q)
  BY DEF Embedded
<1>2. /\ q \in [Ends(X) -> 1..Len(o)] /\ \A i \in Ends(X) : o[q[i]] = X[i].of
      /\ \A i, j \in Ends(X) : i < j => q[i] < q[j]
  BY <1>1 DEF Embeds
<1> DEFINE e == Len(X) + BodyBytes(f)
           u == Append(o, f)
           p == [j \in Ends(Y) |-> IF j \in Ends(X) THEN q[j] ELSE Len(o) + 1]
<1>3. /\ u \in Seq(Frame) /\ Len(u) = Len(o) + 1 /\ u[Len(o) + 1] = f /\ Len(o) \in Nat
      /\ \A i \in 1..Len(o) : u[i] = o[i]
  BY AppendProperties, LenProperties
<1>4. /\ e \in Ends(Y) /\ Y[e].of = f
      /\ \A i \in Ends(X) : i \in Ends(Y) /\ Y[i] = X[i] /\ i < e
      /\ \A i \in Ends(Y) : i \in Ends(X) \/ i = e
  BY GrownEnds
<1>5. \A i \in Ends(Y) : i \in Nat
  BY LenProperties DEF Ends
<1>6. e \in Nat
  BY <1>4, <1>5
<1> HIDE DEF e, u
<1>7. ASSUME NEW i \in Ends(Y)
      PROVE  p[i] \in 1..Len(u) /\ u[p[i]] = Y[i].of
  <2>1. CASE i \in Ends(X)
    <3>1. p[i] = q[i] /\ q[i] \in 1..Len(o)
      BY <2>1, <1>2
    <3>2. u[p[i]] = o[q[i]]
      BY <3>1, <1>3
    <3>3. p[i] \in 1..Len(u)
      BY <3>1, <1>3
    <3> QED
      BY <3>2, <3>3, <2>1, <1>2, <1>4
  <2>2. CASE i \notin Ends(X)
    <3>1. p[i] = Len(o) + 1 /\ i = e
      BY <2>2, <1>4
    <3> QED
      BY <3>1, <1>3, <1>4
  <2> QED
    BY <2>1, <2>2
<1>8. ASSUME NEW i \in Ends(Y), NEW j \in Ends(Y), i < j
      PROVE  p[i] < p[j]
  <2>1. i \in Ends(X)
    BY <1>8, <1>4, <1>5, <1>6
  <2>2. p[i] = q[i] /\ q[i] \in 1..Len(o)
    BY <2>1, <1>2
  <2>3. CASE j \in Ends(X)
    BY <2>1, <2>2, <2>3, <1>2, <1>8
  <2>4. CASE j \notin Ends(X)
    <3>1. p[j] = Len(o) + 1
      BY <2>4
    <3> QED
      BY <3>1, <2>2, <1>3
  <2> QED
    BY <2>3, <2>4
<1>9. p \in [Ends(Y) -> 1..Len(u)]
  BY <1>7
<1>10. Embeds(Y, u, p)
  BY <1>7, <1>8, <1>9 DEF Embeds
<1> QED
  BY <1>10 DEF Embedded, u

(* The new frame is intact unless what came before it is not closed.          *)
LEMMA GrownBalanced ==
    ASSUME NEW X \in Seq(Byte), NEW Y \in Seq(Byte), NEW f \in Frame, Grown(X, Y, f),
           NEW o \in Seq(Frame), NEW lost \in Nat, NEW paid \in Nat, Balanced(X, o, lost, paid)
    PROVE  Balanced(Y, Append(o, f), lost, paid)
<1> DEFINE B == BodyBytes(f)
           L == Len(X)
           E == (L + B) + 1
<1>1. B \in 1..2 /\ L \in Nat /\ Len(Y) = E /\ E \in Nat /\ L < E /\ E >= 2
  BY BodyFacts, LenProperties DEF Grown
<1>2. /\ \A i \in 1..L : Y[i] = X[i]
      /\ \A i \in 1..B : Y[L + i] = [of |-> f, at |-> i]
      /\ Y[E] = Delimiter
  BY <1>1 DEF Grown
<1>3. Intact(X) \subseteq Intact(Y)
  <2>1. \A i \in Intact(X) : i \in Intact(Y)
    <3> SUFFICES ASSUME NEW i \in Intact(X) PROVE i \in Intact(Y)
      OBVIOUS
    <3>1. /\ i \in 2..L /\ X[i] = Delimiter /\ BodyBytes(X[i - 1].of) \in 1..2
          /\ Start(X, i) \in 0..(i - 2) /\ Start(X, i) = (i - 1) - BodyBytes(X[i - 1].of)
          /\ Clean(X, Start(X, i))
      BY IntactFacts
    <3>2. Y[i] = Delimiter /\ Y[i - 1] = X[i - 1] /\ i \in 2..Len(Y)
      <4>1. i \in 1..L /\ i - 1 \in 1..L
        BY <3>1, <1>1
      <4> QED
        BY <4>1, <3>1, <1>1, <1>2, SMTT(20)
    <3>3. Start(Y, i) = Start(X, i)
      BY <3>2 DEF Start
    <3>4. Clean(Y, Start(X, i))
      <4>1. Start(X, i) = 0 \/ Start(X, i) \in 1..L
        BY <3>1, <1>1, SMTT(20)
      <4> QED
        BY <4>1, <3>1, <1>2 DEF Clean
    <3>5. ASSUME NEW k \in 1..BodyBytes(X[i - 1].of)
          PROVE  Y[Start(X, i) + k] = [of |-> X[i - 1].of, at |-> k]
      <4>1. X[Start(X, i) + k] = [of |-> X[i - 1].of, at |-> k]
        BY DEF Intact, IsIntact
      <4>2. Start(X, i) + k \in 1..L
        <5>1. \A st, kk, b, ii, ll \in Int :
                st >= 0 /\ kk \in 1..b /\ st = (ii - 1) - b /\ ii <= ll => st + kk \in 1..ll
          OBVIOUS
        <5>2. /\ Start(X, i) \in Int /\ k \in Int /\ BodyBytes(X[i - 1].of) \in Int /\ i \in Int
              /\ L \in Int /\ i <= L /\ Start(X, i) >= 0
          BY <3>1, <1>1
        <5> QED
          BY <5>1, <5>2, <3>1
      <4> QED
        BY <4>1, <4>2, <1>2
    <3>6. IsIntact(Y, i)
      BY <3>1, <3>2, <3>3, <3>4, <3>5 DEF IsIntact
    <3> QED
      BY <3>2, <3>6 DEF Intact
  <2> QED
    BY <2>1
<1>4. Spoiled(X) = 0 => E \in Intact(Y)
  <2> SUFFICES ASSUME Spoiled(X) = 0 PROVE E \in Intact(Y)
    OBVIOUS
  <2>1. Clean(X, L)
    BY DEF Spoiled
  <2>2. E - 1 = L + B /\ B \in 1..B
    BY <1>1
  <2>3. Y[E - 1] = [of |-> f, at |-> B]
    BY <2>2, <1>2
  <2>4. Y[E - 1].of = f
    BY <2>3
  <2>5. Start(Y, E) = L
    <3>1. Start(Y, E) = E - B - 1
      BY <2>4 DEF Start
    <3> QED
      BY <3>1, <1>1
  <2>6. Clean(Y, L)
    <3>1. L = 0 \/ L \in 1..L
      BY <1>1
    <3> QED
      BY <3>1, <2>1, <1>2 DEF Clean
  <2>7. IsIntact(Y, E)
    BY <1>1, <1>2, <2>4, <2>5, <2>6, SMTT(20) DEF IsIntact
  <2>8. E \in 2..Len(Y)
    BY <1>1
  <2> QED
    BY <2>7, <2>8 DEF Intact
<1>5. E \notin Intact(X)
  BY <1>1 DEF Intact
<1>6. Spoiled(Y) = 0
  BY <1>1, <1>2, SpoiledFacts
<1>7. Len(Append(o, f)) = Len(o) + 1 /\ Len(o) \in Nat
  BY AppendProperties, LenProperties
<1>8. IsFiniteSet(Intact(X)) /\ IsFiniteSet(Intact(Y))
  BY IntactFinite
<1>9. IsFiniteSet(Intact(X) \union {E}) /\ Cardinality(Intact(X) \union {E}) = Cardinality(Intact(X)) + 1
  BY <1>5, <1>8, FS_AddElement
<1>10. Cardinality(Intact(X)) <= Cardinality(Intact(Y))
  BY <1>3, <1>8, FS_Subset
<1>11. Spoiled(X) = 0 => Cardinality(Intact(X)) + 1 <= Cardinality(Intact(Y))
  <2> SUFFICES ASSUME Spoiled(X) = 0
               PROVE  Cardinality(Intact(X) \union {E}) <= Cardinality(Intact(Y))
    BY <1>9
  <2>1. Intact(X) \union {E} \in SUBSET Intact(Y)
    BY <1>3, <1>4
  <2> QED
    BY <2>1, <1>8, FS_Subset
<1> DEFINE SX == Spoiled(X)
           CX == Cardinality(Intact(X))
           CY == Cardinality(Intact(Y))
<1>12. SX \in 0..1 /\ CX \in Nat /\ CY \in Nat
  BY SpoiledFacts, IntactFinite
<1>13. lost + Len(o) + SX <= paid + CX
  BY DEF Balanced
<1>14. CX <= CY /\ (SX = 0 => CX + 1 <= CY)
  BY <1>10, <1>11
<1> HIDE DEF SX, CX, CY
<1>15. lost + (Len(o) + 1) + 0 <= paid + CY
  BY <1>7, <1>12, <1>13, <1>14
<1> QED
  BY <1>6, <1>7, <1>15 DEF Balanced, CY

-----------------------------------------------------------------------------
(* The numbers of the frames a chunk starts.                                  *)

Ranked(S) == \A k \in 1..Cardinality(S) : \E i \in S : Cardinality(S \intersect 1..i) = k

LEMMA RankFacts ==
    ASSUME NEW S, S \subseteq Nat, IsFiniteSet(S), NEW i \in S
    PROVE  /\ IsFiniteSet(S \intersect 1..i)
           /\ Cardinality(S \intersect 1..i) \in Nat
           /\ Cardinality(S \intersect 1..i) <= Cardinality(S)
<1>1. S \intersect 1..i \in SUBSET S
  OBVIOUS
<1>2. IsFiniteSet(S \intersect 1..i) /\ Cardinality(S \intersect 1..i) <= Cardinality(S)
  BY <1>1, FS_Subset
<1> QED
  BY <1>2, FS_CardinalityType

LEMMA RankIsUnique ==
    ASSUME NEW S, S \subseteq Nat \ {0}, IsFiniteSet(S), NEW i \in S, NEW j \in S,
           Cardinality(S \intersect 1..i) = Cardinality(S \intersect 1..j)
    PROVE  i = j
<1>1. ASSUME NEW x \in S, NEW y \in S, x < y,
             Cardinality(S \intersect 1..x) = Cardinality(S \intersect 1..y)
      PROVE  FALSE
  <2>1. S \intersect 1..x \in SUBSET (S \intersect 1..y)
    BY <1>1
  <2>2. IsFiniteSet(S \intersect 1..y)
    BY RankFacts
  <2>3. S \intersect 1..x = S \intersect 1..y
    BY <2>1, <2>2, <1>1, FS_Subset
  <2>4. y \in S \intersect 1..y /\ y \notin 1..x
    BY <1>1
  <2> QED
    BY <2>3, <2>4
<1>2. i \in Nat /\ j \in Nat
  OBVIOUS
<1> QED
  BY <1>1, <1>2

LEMMA KthGrows ==
    ASSUME NEW S, S \subseteq Nat \ {0}, IsFiniteSet(S), Ranked(S),
           NEW m \in Nat \ {0}, \A i \in S : i < m,
           NEW U, U = S \union {m}
    PROVE  /\ IsFiniteSet(U) /\ Cardinality(U) = Cardinality(S) + 1 /\ Ranked(U)
           /\ Cardinality(S) \in Nat
           /\ \A k \in 1..Cardinality(S) : Kth(U, k) = Kth(S, k) /\ Kth(S, k) \in S
           /\ Kth(U, Cardinality(S) + 1) = m
<1> DEFINE c == Cardinality(S)
<1>1. m \notin S
  OBVIOUS
<1>2. IsFiniteSet(U) /\ Cardinality(U) = c + 1 /\ c \in Nat
  BY <1>1, FS_AddElement, FS_CardinalityType
<1>3. U \subseteq Nat \ {0}
  OBVIOUS
<1>4. \A i \in S : U \intersect 1..i = S \intersect 1..i
  OBVIOUS
<1>5. U \intersect 1..m = U
  <2>1. \A i \in U : i \in Nat /\ 1 <= i /\ i <= m
    OBVIOUS
  <2>2. \A i \in U : i \in 1..m
    BY <2>1
  <2> QED
    BY <2>2
<1>6. \A i \in S : Cardinality(U \intersect 1..i) = Cardinality(S \intersect 1..i)
  BY <1>4
<1>7. Cardinality(U \intersect 1..m) = c + 1
  BY <1>2, <1>5
<1>8. \A i \in S : Cardinality(S \intersect 1..i) \in Nat /\ Cardinality(S \intersect 1..i) <= c
  BY RankFacts
<1> HIDE DEF c
<1>9. ASSUME NEW k \in 1..c
      PROVE  /\ Kth(S, k) \in S /\ Cardinality(S \intersect 1..Kth(S, k)) = k
             /\ Kth(U, k) = Kth(S, k)
  <2>1. \E i \in S : Cardinality(S \intersect 1..i) = k
    BY DEF Ranked, c
  <2>2. Kth(S, k) \in S /\ Cardinality(S \intersect 1..Kth(S, k)) = k
    BY <2>1 DEF Kth
  <2>3. Kth(S, k) \in U /\ Cardinality(U \intersect 1..Kth(S, k)) = k
    BY <2>2, <1>6
  <2>4. Kth(U, k) \in U /\ Cardinality(U \intersect 1..Kth(U, k)) = k
    BY <2>3 DEF Kth
  <2>5. Kth(U, k) = Kth(S, k)
    BY <2>3, <2>4, <1>2, <1>3, RankIsUnique
  <2> QED
    BY <2>2, <2>5
<1>10. Kth(U, c + 1) = m
  <2>1. m \in U /\ Cardinality(U \intersect 1..m) = c + 1
    BY <1>7
  <2>2. Kth(U, c + 1) \in U /\ Cardinality(U \intersect 1..Kth(U, c + 1)) = c + 1
    BY <2>1 DEF Kth
  <2> QED
    BY <2>1, <2>2, <1>2, <1>3, RankIsUnique
<1>11. Ranked(U)
  <2> SUFFICES ASSUME NEW k \in 1..(c + 1)
               PROVE  \E i \in U : Cardinality(U \intersect 1..i) = k
    BY <1>2 DEF Ranked
  <2>1. CASE k = c + 1
    BY <2>1, <1>7
  <2>2. CASE k # c + 1
    <3>1. k \in 1..c
      BY <2>2, <1>2
    <3>2. Kth(S, k) \in U /\ Cardinality(U \intersect 1..Kth(S, k)) = k
      BY <3>1, <1>9, <1>6
    <3> QED
      BY <3>2
  <2> QED
    BY <2>1, <2>2
<1> QED
  BY <1>2, <1>9, <1>10, <1>11 DEF c

(* The frames started by the first k bytes of a ring.                         *)
First(s, k)   == {i \in 1..k : s[i].at = 1}
Started(s, k) == [j \in 1..Cardinality(First(s, k)) |-> s[Kth(First(s, k), j)].of]
StartedOK(s, k) ==
    /\ IsFiniteSet(First(s, k)) /\ Ranked(First(s, k)) /\ Started(s, k) \in Seq(Frame)

LEMMA StartedNone ==
    ASSUME NEW s
    PROVE  StartedOK(s, 0) /\ Started(s, 0) = <<>>
<1>1. First(s, 0) = {}
  BY DEF First
<1>2. IsFiniteSet({}) /\ Cardinality({}) = 0
  BY FS_EmptySet
<1>3. Ranked(First(s, 0))
  <2>1. 1..Cardinality(First(s, 0)) = {}
    BY <1>1, <1>2
  <2> QED
    BY <2>1 DEF Ranked
<1>4. Started(s, 0) = [j \in 1..0 |-> s[Kth(First(s, 0), j)].of]
  BY <1>1, <1>2 DEF Started
<1>5. Started(s, 0) = <<>>
  BY <1>4
<1> QED
  BY <1>1, <1>2, <1>3, <1>5, EmptySeq DEF StartedOK

LEMMA StartedGrows ==
    ASSUME NEW s \in Seq(Byte), NEW k \in Nat, k < Len(s), StartedOK(s, k)
    PROVE  /\ StartedOK(s, k + 1)
           /\ Started(s, k + 1) = IF s[k + 1].at = 1 THEN Append(Started(s, k), s[k + 1].of)
                                  ELSE Started(s, k)
<1> DEFINE S == First(s, k)
           U == First(s, k + 1)
           c == Cardinality(S)
<1>1. IsFiniteSet(S) /\ Ranked(S) /\ Started(s, k) \in Seq(Frame)
  BY DEF StartedOK
<1>2. k + 1 \in 1..Len(s) /\ Len(s) \in Nat
  BY LenProperties
<1>3. CASE s[k + 1].at # 1
  <2>1. U = S
    BY <1>3 DEF First
  <2>2. StartedOK(s, k + 1) /\ Started(s, k + 1) = Started(s, k)
    BY <2>1, <1>1 DEF StartedOK, Started
  <2> QED
    BY <2>2, <1>3
<1>4. CASE s[k + 1].at = 1
  <2>1. U = S \union {k + 1}
    BY <1>4 DEF First
  <2>2. S \subseteq Nat \ {0} /\ \A i \in S : i < k + 1
    BY DEF First
  <2>3. k + 1 \in Nat \ {0}
    OBVIOUS
  <2> HIDE DEF U, S
  <2>20. \A m \in Nat \ {0} : (\A i \in S : i < m) /\ U = S \union {m} =>
           /\ IsFiniteSet(U) /\ Cardinality(U) = Cardinality(S) + 1 /\ Ranked(U)
           /\ Cardinality(S) \in Nat
           /\ \A j \in 1..Cardinality(S) : Kth(U, j) = Kth(S, j) /\ Kth(S, j) \in S
           /\ Kth(U, Cardinality(S) + 1) = m
    BY <1>1, <2>2, KthGrows
  <2>4. /\ IsFiniteSet(U) /\ Cardinality(U) = c + 1 /\ Ranked(U) /\ c \in Nat
        /\ \A j \in 1..c : Kth(U, j) = Kth(S, j) /\ Kth(S, j) \in S
        /\ Kth(U, c + 1) = k + 1
    BY <2>1, <2>2, <2>3, <2>20
  <2> DEFINE w == Started(s, k)
             f == s[k + 1].of
             v == Started(s, k + 1)
  <2>5. w = [j \in 1..c |-> s[Kth(S, j)].of]
    BY DEF Started, S
  <2>6. v = [j \in 1..(c + 1) |-> s[Kth(U, j)].of]
    BY <2>4 DEF Started, U
  <2>7. f \in Frame
    BY <1>2, At
  <2>8. Len(w) = c /\ w \in Seq(Frame)
    BY <1>1, <2>4, <2>5
  <2> HIDE DEF w, v
  <2>9. /\ Append(w, f) \in Seq(Frame) /\ Len(Append(w, f)) = c + 1
        /\ \A j \in 1..c : Append(w, f)[j] = w[j]
        /\ Append(w, f)[c + 1] = f
    BY <2>7, <2>8, AppendProperties
  <2>10. \A j \in 1..(c + 1) : v[j] = Append(w, f)[j]
    <3> SUFFICES ASSUME NEW j \in 1..(c + 1) PROVE v[j] = Append(w, f)[j]
      OBVIOUS
    <3>1. CASE j = c + 1
      BY <3>1, <2>4, <2>6, <2>9
    <3>2. CASE j # c + 1
      <4>1. j \in 1..c
        BY <3>2, <2>4
      <4> QED
        BY <4>1, <2>4, <2>5, <2>6, <2>9
    <3> QED
      BY <3>1, <3>2
  <2>11. Append(w, f) = [j \in 1..(c + 1) |-> Append(w, f)[j]]
    BY <2>9
  <2>12. v = Append(w, f)
    BY <2>6, <2>10, <2>11
  <2>13. v \in Seq(Frame)
    BY <2>9, <2>12
  <2> QED
    BY <1>4, <2>4, <2>12, <2>13 DEF StartedOK, U, v, w
<1> QED
  BY <1>3, <1>4

LEMMA StartingIsStarted ==
    ASSUME NEW s \in Seq(Byte), NEW k \in 0..Len(s), StartedOK(s, k)
    PROVE  Starting(SubSeq(s, 1, k)) = Started(s, k)
<1> DEFINE c == SubSeq(s, 1, k)
           S == First(s, k)
<1>1. Len(s) \in Nat /\ k \in Nat /\ k \in Int /\ 1 \in Int
  BY LenProperties
<1>2. Len(c) = k /\ \A i \in 1..k : c[i] = s[i]
  <2>1. \A i \in 1..k : s[i] \in Byte
    BY <1>1, ElementOfSeq
  <2>2. /\ Len(c) = (IF 1 <= k THEN k - 1 + 1 ELSE 0)
        /\ \A i \in 1..(k - 1 + 1) : c[i] = s[1 + i - 1]
    BY <2>1, <1>1, SubSeqProperties
  <2>3. Len(c) = k
    BY <2>2, <1>1
  <2>4. \A i \in 1..k : i \in 1..(k - 1 + 1) /\ 1 + i - 1 = i
    BY <1>1
  <2> QED
    BY <2>2, <2>3, <2>4
<1> HIDE DEF c
<1>3. {i \in 1..Len(c) : c[i].at = 1} = S
  BY <1>2 DEF First
<1>4. Starting(c) = [j \in 1..Cardinality(S) |-> c[Kth(S, j)].of]
  BY <1>3 DEF Starting
<1>5. \A j \in 1..Cardinality(S) : Kth(S, j) \in S
  BY DEF StartedOK, Ranked, Kth
<1>6. \A j \in 1..Cardinality(S) : c[Kth(S, j)] = s[Kth(S, j)]
  BY <1>2, <1>5 DEF First
<1>7. Starting(c) = [j \in 1..Cardinality(S) |-> s[Kth(S, j)].of]
  BY <1>4, <1>6
<1> QED
  BY <1>7 DEF Started, c

-----------------------------------------------------------------------------
(* Key states on the stream.                                                  *)

KeyVersion(f) == f.ver["event"]
CarriesKey(f) == f.kind \in {"event", "snapshot"}

(* The key states on the stream are older than v; a key event is newer than e *)
(* and than every key state in front of it.                                   *)
KeysBelow(X, v) == \A i \in Ends(X) : CarriesKey(X[i].of) => KeyVersion(X[i].of) < v
KeysOrdered(X, e) ==
    \A i \in Ends(X) : X[i].of.kind = "event" =>
        /\ e < KeyVersion(X[i].of)
        /\ \A j \in Ends(X) : j < i /\ CarriesKey(X[j].of) => KeyVersion(X[j].of) < KeyVersion(X[i].of)

LEMMA VersionFacts ==
    ASSUME NEW f \in Frame
    PROVE  KeyVersion(f) \in Nat /\ KeyVersion(f) <= MaxTransitions
BY BoundsAssumption DEF KeyVersion, Frame, Version, Streams

LEMMA SpliceKeys ==
    ASSUME NEW X \in Seq(Byte), NEW Y \in Seq(Byte), NEW a \in Nat, NEW n \in Nat, NEW s \in Nat,
           Spliced(X, Y, a, n, s)
    PROVE  /\ \A v : KeysBelow(X, v) => KeysBelow(Y, v)
           /\ \A e : KeysOrdered(X, e) => KeysOrdered(Y, e)
<1>1. \A j \in Ends(Y) : Back(a, n, s, j) \in Ends(X) /\ X[Back(a, n, s, j)] = Y[j]
  BY BackFacts
<1>2. \A i, j \in Ends(Y) : i < j => Back(a, n, s, i) < Back(a, n, s, j)
  BY BackKeepsOrder
<1>3. \A v : KeysBelow(X, v) => KeysBelow(Y, v)
  BY <1>1 DEF KeysBelow
<1>4. ASSUME NEW e, KeysOrdered(X, e), NEW i \in Ends(Y), Y[i].of.kind = "event"
      PROVE  /\ e < KeyVersion(Y[i].of)
             /\ \A j \in Ends(Y) : j < i /\ CarriesKey(Y[j].of) =>
                   KeyVersion(Y[j].of) < KeyVersion(Y[i].of)
  <2>1. X[Back(a, n, s, i)].of.kind = "event" /\ Back(a, n, s, i) \in Ends(X)
    BY <1>1, <1>4
  <2>2. /\ e < KeyVersion(X[Back(a, n, s, i)].of)
        /\ \A h \in Ends(X) : h < Back(a, n, s, i) /\ CarriesKey(X[h].of) =>
              KeyVersion(X[h].of) < KeyVersion(X[Back(a, n, s, i)].of)
    BY <2>1, <1>4 DEF KeysOrdered
  <2> QED
    BY <2>2, <1>1, <1>2
<1> QED
  BY <1>3, <1>4 DEF KeysOrdered

(* Behind the frame that ends first, every key event is newer than it.        *)
LEMMA CutKeys ==
    ASSUME NEW X \in Seq(Byte), NEW Y \in Seq(Byte), NEW n, CutAt(X, Y, n), n - 1 \in Ends(X),
           NEW e, KeysOrdered(X, e), CarriesKey(X[n - 1].of)
    PROVE  KeysOrdered(Y, KeyVersion(X[n - 1].of))
<1> DEFINE f == X[n - 1].of
<1>1. n \in Nat /\ n >= 1 /\ Spliced(X, Y, 0, n, 0) /\ 0 \in Nat
  BY CutTouches DEF CutAt
<1>2. KeysOrdered(Y, e)
  BY <1>1, SpliceKeys
<1>3. ASSUME NEW i \in Ends(Y), Y[i].of.kind = "event"
      PROVE  KeyVersion(f) < KeyVersion(Y[i].of)
  <2>1. Back(0, n, 0, i) \in Ends(X) /\ X[Back(0, n, 0, i)] = Y[i] /\ i \in Nat
    BY <1>1, BackFacts
  <2>2. i \in 1..Len(Y)
    BY DEF Ends
  <2>3. n - 1 < Back(0, n, 0, i)
    BY <2>1, <2>2, <1>1 DEF Back
  <2> QED
    BY <2>1, <2>3, <1>3 DEF KeysOrdered
<1> QED
  BY <1>2, <1>3 DEF KeysOrdered

LEMMA GrownKeys ==
    ASSUME NEW X \in Seq(Byte), NEW Y \in Seq(Byte), NEW f \in Frame, Grown(X, Y, f)
    PROVE  /\ \A v : KeysBelow(X, v) /\ (CarriesKey(f) => KeyVersion(f) < v) => KeysBelow(Y, v)
           /\ \A e : /\ KeysOrdered(X, e)
                     /\ f.kind = "event" => e < KeyVersion(f) /\ KeysBelow(X, KeyVersion(f))
                     => KeysOrdered(Y, e)
<1> DEFINE m == Len(X) + BodyBytes(f)
<1>1. /\ m \in Ends(Y) /\ Y[m].of = f
      /\ \A i \in Ends(X) : i \in Ends(Y) /\ Y[i] = X[i] /\ i < m
      /\ \A i \in Ends(Y) : i \in Ends(X) \/ i = m
  BY GrownEnds
<1>2. \A i \in Ends(Y) : i \in Nat
  BY LenProperties DEF Ends
<1>3. m \in Nat
  BY <1>1, <1>2
<1> HIDE DEF m
<1>4. ASSUME NEW v, KeysBelow(X, v), CarriesKey(f) => KeyVersion(f) < v
      PROVE  KeysBelow(Y, v)
  BY <1>1, <1>4 DEF KeysBelow
<1>5. ASSUME NEW e, KeysOrdered(X, e),
             f.kind = "event" => e < KeyVersion(f) /\ KeysBelow(X, KeyVersion(f)),
             NEW i \in Ends(Y), Y[i].of.kind = "event"
      PROVE  /\ e < KeyVersion(Y[i].of)
             /\ \A j \in Ends(Y) : j < i /\ CarriesKey(Y[j].of) =>
                   KeyVersion(Y[j].of) < KeyVersion(Y[i].of)
  <2>1. CASE i = m
    <3>1. e < KeyVersion(f) /\ KeysBelow(X, KeyVersion(f))
      BY <2>1, <1>1, <1>5
    <3>2. \A j \in Ends(Y) : j < i => j \in Ends(X) /\ Y[j] = X[j]
      BY <2>1, <1>1, <1>2
    <3> QED
      BY <3>1, <3>2, <2>1, <1>1 DEF KeysBelow
  <2>2. CASE i # m
    <3>1. i \in Ends(X) /\ Y[i] = X[i] /\ i < m
      BY <2>2, <1>1
    <3>2. \A j \in Ends(Y) : j < i => j \in Ends(X) /\ Y[j] = X[j]
      BY <3>1, <1>1, <1>2, <1>3
    <3> QED
      BY <3>1, <3>2, <1>5 DEF KeysOrdered
  <2> QED
    BY <2>1, <2>2
<1> QED
  BY <1>4, <1>5 DEF KeysOrdered

-----------------------------------------------------------------------------
(* What a ring holds: frames one after the other, the first of them perhaps   *)
(* cut where transmission stands.                                             *)

IsFollowed(s, i) ==
    \/ s[i] = Delimiter /\ (i < Len(s) => s[i + 1].at = 1)
    \/ /\ s[i].at \in 1..BodyBytes(s[i].of) /\ i < Len(s)
       /\ s[i].at < BodyBytes(s[i].of) => s[i + 1] = [of |-> s[i].of, at |-> s[i].at + 1]
       /\ s[i].at = BodyBytes(s[i].of) => s[i + 1] = Delimiter
Formed(s) == \A i \in 1..Len(s) : IsFollowed(s, i)

(* The first frame boundary at or after k.                                    *)
Upto(s, k) ==
    k + (IF k = Len(s) \/ s[k + 1].at = 1 THEN 0 ELSE IF s[k + 1] = Delimiter THEN 1 ELSE 2)

LEMMA UptoFacts ==
    ASSUME NEW s \in Seq(Byte), Formed(s), NEW k \in 0..Len(s)
    PROVE  /\ Upto(s, k) \in k..Len(s) /\ Upto(s, k) \in Nat
           /\ Upto(s, k) <= k + 2
           /\ Upto(s, k) > k =>
                 /\ s[Upto(s, k)] = Delimiter
                 /\ \A i \in (k + 1)..(Upto(s, k) - 1) : s[i] # Delimiter
<1>1. Len(s) \in Nat /\ k \in Nat /\ k <= Len(s)
  BY LenProperties
<1>2. CASE k = Len(s) \/ s[k + 1].at = 1
  BY <1>1, <1>2 DEF Upto
<1>3. CASE ~(k = Len(s) \/ s[k + 1].at = 1)
  <2>1. k + 1 \in 1..Len(s) /\ IsFollowed(s, k + 1)
    BY <1>1, <1>3 DEF Formed
  <2>2. CASE s[k + 1] = Delimiter
    <3>1. Upto(s, k) = k + 1
      BY <1>3, <2>2 DEF Upto
    <3>2. \A i \in (k + 1)..((k + 1) - 1) : FALSE
      BY <1>1
    <3> QED
      BY <3>1, <3>2, <2>1, <2>2, <1>1
  <2>3. CASE s[k + 1] # Delimiter
    <3>1. Upto(s, k) = k + 2
      BY <1>3, <2>3 DEF Upto
    <3>2. /\ s[k + 1].at \in 1..BodyBytes(s[k + 1].of) /\ k + 1 < Len(s)
          /\ s[k + 1].at = BodyBytes(s[k + 1].of) => s[(k + 1) + 1] = Delimiter
      BY <2>1, <2>3 DEF IsFollowed
    <3>3. BodyBytes(s[k + 1].of) \in 1..2
      BY <2>1, At
    <3>4. s[k + 1].at = BodyBytes(s[k + 1].of)
      BY <3>2, <3>3, <1>3
    <3>5. s[k + 2] = Delimiter
      BY <3>2, <3>4, <1>1
    <3>6. \A i \in (k + 1)..((k + 2) - 1) : i = k + 1
      BY <1>1
    <3> QED
      BY <3>1, <3>2, <3>5, <3>6, <2>3, <1>1
  <2> QED
    BY <2>2, <2>3
<1> QED
  BY <1>2, <1>3

LEMMA UptoSteps ==
    ASSUME NEW s \in Seq(Byte), Formed(s), NEW k \in Nat, k < Len(s)
    PROVE  /\ s[k + 1].of \in Frame
           /\ s[k + 1].at # 1 => Upto(s, k + 1) = Upto(s, k)
           /\ s[k + 1].at = 1 =>
                LET f == s[k + 1].of
                IN  /\ Upto(s, k) = k /\ Upto(s, k + 1) = (k + BodyBytes(f)) + 1
                    /\ \A i \in 1..BodyBytes(f) : s[k + i] = [of |-> f, at |-> i]
                    /\ s[(k + BodyBytes(f)) + 1] = Delimiter
<1> DEFINE f == s[k + 1].of
<1>1. Len(s) \in Nat /\ k + 1 \in 1..Len(s)
  BY LenProperties
<1>2. /\ IsFollowed(s, k + 1) /\ f \in Frame /\ BodyBytes(f) \in 1..2
      /\ s[k + 1] = [of |-> f, at |-> s[k + 1].at]
  BY <1>1, At, ByteFacts DEF Formed
<1>3. Delimiter.at = 0
  BY FrameFacts
<1>4. CASE s[k + 1].at # 1
  <2>1. CASE s[k + 1] = Delimiter
    <3>1. Upto(s, k) = k + 1
      BY <2>1, <1>4, <1>1 DEF Upto
    <3>2. k + 1 < Len(s) => s[(k + 1) + 1].at = 1
      BY <2>1, <1>2, <1>3 DEF IsFollowed
    <3>3. Upto(s, k + 1) = k + 1
      BY <3>2, <1>1 DEF Upto
    <3> QED
      BY <3>1, <3>3, <1>2, <1>4
  <2>2. CASE s[k + 1] # Delimiter
    <3>1. Upto(s, k) = k + 2
      BY <2>2, <1>4, <1>1 DEF Upto
    <3>2. /\ s[k + 1].at \in 1..BodyBytes(f) /\ k + 1 < Len(s)
          /\ s[k + 1].at = BodyBytes(f) => s[(k + 1) + 1] = Delimiter
      BY <2>2, <1>2 DEF IsFollowed
    <3>3. s[(k + 1) + 1] = Delimiter
      BY <3>2, <1>2, <1>4
    <3>4. Upto(s, k + 1) = k + 2
      BY <3>2, <3>3, <1>1, <1>3 DEF Upto
    <3> QED
      BY <3>1, <3>4, <1>2, <1>4
  <2> QED
    BY <2>1, <2>2
<1>5. CASE s[k + 1].at = 1
  <2>1. Upto(s, k) = k
    BY <1>5, <1>1 DEF Upto
  <2>2. /\ k + 1 < Len(s)
        /\ 1 < BodyBytes(f) => s[(k + 1) + 1] = [of |-> f, at |-> 1 + 1]
        /\ 1 = BodyBytes(f) => s[(k + 1) + 1] = Delimiter
    BY <1>2, <1>3, <1>5 DEF IsFollowed
  <2>3. CASE BodyBytes(f) = 1
    <3>1. s[(k + 1) + 1] = Delimiter
      BY <2>2, <2>3
    <3>2. Upto(s, k + 1) = (k + 1) + 1
      BY <3>1, <2>2, <1>1, <1>3 DEF Upto
    <3>3. \A i \in 1..BodyBytes(f) : i = 1
      BY <2>3
    <3>4. \A i \in 1..BodyBytes(f) : s[k + i] = [of |-> f, at |-> i]
      BY <3>3, <1>2, <1>5
    <3> QED
      BY <3>1, <3>2, <3>4, <2>1, <2>3, <1>2, <1>5
  <2>4. CASE BodyBytes(f) = 2
    <3>1. s[(k + 1) + 1] = [of |-> f, at |-> 2]
      BY <2>2, <2>4
    <3>2. s[(k + 1) + 1] # Delimiter /\ s[(k + 1) + 1].at = 2 /\ s[(k + 1) + 1].of = f
      BY <3>1, <1>3
    <3>3. Upto(s, k + 1) = (k + 1) + 2
      BY <3>2, <2>2, <1>1 DEF Upto
    <3>4. (k + 1) + 1 \in 1..Len(s)
      BY <2>2, <1>1
    <3>5. IsFollowed(s, (k + 1) + 1)
      BY <3>4 DEF Formed
    <3>6. s[((k + 1) + 1) + 1] = Delimiter
      BY <3>2, <3>5, <2>4 DEF IsFollowed
    <3>7. \A i \in 1..BodyBytes(f) : i = 1 \/ i = 2
      BY <2>4
    <3>8. k + 2 = (k + 1) + 1 /\ k + 3 = ((k + 1) + 1) + 1
      OBVIOUS
    <3>9. \A i \in 1..BodyBytes(f) : s[k + i] = [of |-> f, at |-> i]
      BY <3>1, <3>7, <3>8, <1>2, <1>5
    <3>10. s[(k + BodyBytes(f)) + 1] = Delimiter /\ Upto(s, k + 1) = (k + BodyBytes(f)) + 1
      BY <3>3, <3>6, <3>8, <2>4
    <3> QED
      BY <3>9, <3>10, <2>1, <1>2, <1>5
  <2> QED
    BY <2>3, <2>4, <1>2
<1> QED
  BY <1>4, <1>5

-----------------------------------------------------------------------------
(* A ring is emptied onto the stream, byte by byte: the stream behind P ends  *)
(* with the frame that the first k bytes of the ring have begun.              *)

Stage(P, s, k) == P \o SubSeq(s, 1, Upto(s, k))

LEMMA PrefixFacts ==
    ASSUME NEW S, NEW s \in Seq(S), NEW k \in 0..Len(s)
    PROVE  /\ SubSeq(s, 1, k) \in Seq(S) /\ Len(SubSeq(s, 1, k)) = k
           /\ \A i \in 1..k : SubSeq(s, 1, k)[i] = s[i]
<1>1. Len(s) \in Nat /\ k \in Nat /\ k \in Int /\ 1 \in Int
  BY LenProperties
<1>2. \A i \in 1..k : s[i] \in S
  BY <1>1, ElementOfSeq
<1>3. /\ SubSeq(s, 1, k) \in Seq(S)
      /\ Len(SubSeq(s, 1, k)) = (IF 1 <= k THEN k - 1 + 1 ELSE 0)
      /\ \A i \in 1..(k - 1 + 1) : SubSeq(s, 1, k)[i] = s[1 + i - 1]
  BY <1>1, <1>2, SubSeqProperties
<1>4. Len(SubSeq(s, 1, k)) = k
  BY <1>1, <1>3
<1>5. \A i \in 1..k : i \in 1..(k - 1 + 1) /\ 1 + i - 1 = i
  BY <1>1
<1> QED
  BY <1>3, <1>4, <1>5

LEMMA StageFacts ==
    ASSUME NEW P \in Seq(Byte), NEW s \in Seq(Byte), Formed(s), NEW k \in 0..Len(s)
    PROVE  /\ Stage(P, s, k) \in Seq(Byte)
           /\ Len(Stage(P, s, k)) = Len(P) + Upto(s, k)
           /\ \A i \in 1..Len(P) : Stage(P, s, k)[i] = P[i]
           /\ \A i \in 1..Upto(s, k) : Stage(P, s, k)[Len(P) + i] = s[i]
<1> DEFINE u == Upto(s, k)
           t == SubSeq(s, 1, u)
<1>1. u \in 0..Len(s) /\ u \in Nat
  BY UptoFacts, LenProperties
<1>2. Len(P) \in Nat
  BY LenProperties
<1> HIDE DEF u
<1>3. t \in Seq(Byte) /\ Len(t) = u /\ \A i \in 1..u : t[i] = s[i]
  BY <1>1, PrefixFacts
<1> HIDE DEF t
<1>4. /\ P \o t \in Seq(Byte) /\ Len(P \o t) = Len(P) + u
      /\ \A i \in 1..(Len(P) + u) : (P \o t)[i] = IF i <= Len(P) THEN P[i] ELSE t[i - Len(P)]
  BY <1>3, ConcatProperties
<1>5. \A i \in 1..Len(P) : (P \o t)[i] = P[i]
  BY <1>1, <1>2, <1>4
<1>6. ASSUME NEW i \in 1..u PROVE (P \o t)[Len(P) + i] = s[i]
  <2>1. Len(P) + i \in 1..(Len(P) + u) /\ ~(Len(P) + i <= Len(P)) /\ (Len(P) + i) - Len(P) = i
    BY <1>1, <1>2
  <2> QED
    BY <2>1, <1>3, <1>4
<1> QED
  BY <1>4, <1>5, <1>6 DEF Stage, t, u

LEMMA StageGrows ==
    ASSUME NEW P \in Seq(Byte), NEW s \in Seq(Byte), Formed(s), NEW k \in Nat, k < Len(s)
    PROVE  /\ Stage(P, s, k) \in Seq(Byte) /\ Stage(P, s, k + 1) \in Seq(Byte)
           /\ s[k + 1].of \in Frame
           /\ s[k + 1].at # 1 => Stage(P, s, k + 1) = Stage(P, s, k)
           /\ s[k + 1].at = 1 => Grown(Stage(P, s, k), Stage(P, s, k + 1), s[k + 1].of)
<1> DEFINE f == s[k + 1].of
           X == Stage(P, s, k)
           Y == Stage(P, s, k + 1)
           L == Len(P)
<1>1. Len(s) \in Nat /\ k \in 0..Len(s) /\ k + 1 \in 0..Len(s) /\ L \in Nat
  BY LenProperties
<1>2. /\ X \in Seq(Byte) /\ Len(X) = L + Upto(s, k)
      /\ \A i \in 1..L : X[i] = P[i]
      /\ \A i \in 1..Upto(s, k) : X[L + i] = s[i]
  BY <1>1, StageFacts
<1>3. /\ Y \in Seq(Byte) /\ Len(Y) = L + Upto(s, k + 1)
      /\ \A i \in 1..L : Y[i] = P[i]
      /\ \A i \in 1..Upto(s, k + 1) : Y[L + i] = s[i]
  BY <1>1, StageFacts
<1>4. f \in Frame /\ BodyBytes(f) \in 1..2
  BY UptoSteps, BodyFacts
<1>5. s[k + 1].at # 1 => Y = X
  <2>1. s[k + 1].at # 1 => Upto(s, k + 1) = Upto(s, k)
    BY UptoSteps
  <2> QED
    BY <2>1 DEF Stage
<1>6. ASSUME s[k + 1].at = 1
      PROVE  Grown(X, Y, f)
  <2>1. /\ Upto(s, k) = k /\ Upto(s, k + 1) = (k + BodyBytes(f)) + 1
        /\ \A i \in 1..BodyBytes(f) : s[k + i] = [of |-> f, at |-> i]
        /\ s[(k + BodyBytes(f)) + 1] = Delimiter
    BY <1>6, UptoSteps
  <2> DEFINE B == BodyBytes(f)
  <2>2. B \in Nat /\ B >= 1
    BY <1>4
  <2> HIDE DEF B, X, Y, L, f
  <2>3. Len(X) = L + k /\ Len(Y) = (L + ((k + B) + 1))
    BY <2>1, <1>2, <1>3 DEF B, f, X, Y
  <2>4. Len(Y) = (Len(X) + B) + 1
    BY <2>2, <2>3, <1>1
  <2>5. ASSUME NEW i \in 1..Len(X) PROVE Y[i] = X[i]
    <3>1. CASE i <= L
      <4>1. i \in 1..L
        BY <3>1, <2>3, <1>1
      <4> QED
        BY <4>1, <1>2, <1>3
    <3>2. CASE ~(i <= L)
      <4>1. i - L \in 1..k /\ i - L \in 1..((k + B) + 1) /\ L + (i - L) = i
        BY <3>2, <2>2, <2>3, <1>1
      <4>2. X[L + (i - L)] = s[i - L] /\ Y[L + (i - L)] = s[i - L]
        BY <4>1, <2>1, <1>2, <1>3 DEF B, f
      <4> QED
        BY <4>1, <4>2
    <3> QED
      BY <3>1, <3>2
  <2>6. ASSUME NEW i \in 1..B PROVE Y[Len(X) + i] = [of |-> f, at |-> i]
    <3>1. k + i \in 1..((k + B) + 1) /\ L + (k + i) = Len(X) + i
      BY <2>2, <2>3, <1>1
    <3>2. Y[L + (k + i)] = s[k + i]
      BY <3>1, <2>1, <1>3 DEF B, f
    <3>3. s[k + i] = [of |-> f, at |-> i]
      BY <2>1 DEF B, f
    <3> QED
      BY <3>1, <3>2, <3>3
  <2>7. Y[Len(Y)] = Delimiter
    <3>1. (k + B) + 1 \in 1..((k + B) + 1)
      BY <2>2
    <3>2. Y[L + ((k + B) + 1)] = s[(k + B) + 1]
      BY <3>1, <2>1, <1>3 DEF B, f
    <3> QED
      BY <3>2, <2>1, <2>3 DEF B, f
  <2> QED
    BY <2>4, <2>5, <2>6, <2>7 DEF Grown, B
<1> QED
  BY <1>2, <1>3, <1>4, <1>5, <1>6

LEMMA ConcatAppend ==
    ASSUME NEW S, NEW o \in Seq(S), NEW w \in Seq(S), NEW f \in S
    PROVE  o \o Append(w, f) = Append(o \o w, f)
<1>1. <<f>> \in Seq(S)
  OBVIOUS
<1>2. Append(w, f) = w \o <<f>>
  BY AppendIsConcat
<1>3. o \o w \in Seq(S)
  BY ConcatProperties
<1>4. Append(o \o w, f) = (o \o w) \o <<f>>
  BY <1>3, AppendIsConcat
<1> QED
  BY <1>1, <1>2, <1>4, ConcatAssociative

(* Sending changes no account: what a chunk starts is owed.                   *)
LEMMA ChunkAccounts ==
    ASSUME NEW P \in Seq(Byte), NEW s \in Seq(Byte), Formed(s), NEW n \in 0..Len(s),
           NEW o \in Seq(Frame), NEW lost \in Nat, NEW paid \in Nat,
           Embedded(Stage(P, s, 0), o), Balanced(Stage(P, s, 0), o, lost, paid)
    PROVE  /\ Started(s, n) \in Seq(Frame) /\ StartedOK(s, n)
           /\ o \o Started(s, n) \in Seq(Frame)
           /\ Embedded(Stage(P, s, n), o \o Started(s, n))
           /\ Balanced(Stage(P, s, n), o \o Started(s, n), lost, paid)
<1> DEFINE Good(k) == /\ StartedOK(s, k)
                      /\ Embedded(Stage(P, s, k), o \o Started(s, k))
                      /\ Balanced(Stage(P, s, k), o \o Started(s, k), lost, paid)
           G == {k \in 0..n : Good(k)}
<1>1. Len(s) \in Nat /\ n \in Nat
  BY LenProperties
<1>2. 0 \in G
  <2>1. StartedOK(s, 0) /\ Started(s, 0) = <<>>
    BY StartedNone
  <2>2. o \o <<>> = o
    BY ConcatEmptySeq
  <2>3. Good(0)
    BY <2>1, <2>2
  <2> QED
    BY <2>3, <1>1
<1>3. ASSUME NEW k \in 0..(n - 1), k \in G
      PROVE  k + 1 \in G
  <2>1. Good(k) /\ k \in Nat /\ k < Len(s) /\ k + 1 \in 0..n
    BY <1>1, <1>3
  <2> DEFINE X == Stage(P, s, k)
             Y == Stage(P, s, k + 1)
             w == Started(s, k)
             v == Started(s, k + 1)
             f == s[k + 1].of
  <2>2. /\ X \in Seq(Byte) /\ Y \in Seq(Byte) /\ f \in Frame
        /\ s[k + 1].at # 1 => Y = X
        /\ s[k + 1].at = 1 => Grown(X, Y, f)
    BY <2>1, StageGrows
  <2>3. StartedOK(s, k + 1) /\ v = IF s[k + 1].at = 1 THEN Append(w, f) ELSE w
    BY <2>1, StartedGrows
  <2>4. w \in Seq(Frame) /\ o \o w \in Seq(Frame)
    BY <2>1, ConcatProperties DEF StartedOK
  <2>5. Embedded(X, o \o w) /\ Balanced(X, o \o w, lost, paid)
    BY <2>1
  <2> HIDE DEF X, Y, w, v, f
  <2>6. Embedded(Y, o \o v) /\ Balanced(Y, o \o v, lost, paid)
    <3>1. CASE s[k + 1].at # 1
      BY <3>1, <2>2, <2>3, <2>5
    <3>2. CASE s[k + 1].at = 1
      <4>1. o \o v = Append(o \o w, f)
        BY <2>2, <2>3, <2>4, <3>2, ConcatAppend, SMTT(20)
      <4>2. Embedded(Y, Append(o \o w, f))
        BY <2>2, <2>4, <2>5, <3>2, GrownEmbedded
      <4>3. Balanced(Y, Append(o \o w, f), lost, paid)
        BY <2>2, <2>4, <2>5, <3>2, GrownBalanced
      <4> QED
        BY <4>1, <4>2, <4>3
    <3> QED
      BY <3>1, <3>2
  <2>7. Good(k + 1)
    BY <2>3, <2>6 DEF Y, v
  <2> QED
    BY <2>1, <2>7
<1> HIDE DEF G
<1>4. 0..n \subseteq G
  BY <1>1, <1>2, <1>3, UpTo
<1>5. Good(n)
  <2>1. n \in G
    BY <1>1, <1>4
  <2> QED
    BY <2>1 DEF G
<1>6. Started(s, n) \in Seq(Frame)
  BY <1>5 DEF StartedOK
<1>7. o \o Started(s, n) \in Seq(Frame)
  BY <1>6, ConcatProperties
<1> QED
  BY <1>5, <1>6, <1>7

(* The key states a ring may send behind those on the stream.                 *)
MaySend(s, X, e) ==
    \A i \in 1..Len(s) : s[i].at = 1 /\ s[i].of.kind = "event" =>
        /\ e < KeyVersion(s[i].of) /\ KeysBelow(X, KeyVersion(s[i].of))
        /\ \A j \in 1..Len(s) : j < i /\ s[j].at = 1 /\ CarriesKey(s[j].of) =>
              KeyVersion(s[j].of) < KeyVersion(s[i].of)

LEMMA ChunkKeys ==
    ASSUME NEW P \in Seq(Byte), NEW s \in Seq(Byte), Formed(s), NEW n \in 0..Len(s),
           NEW e \in Nat, KeysOrdered(Stage(P, s, 0), e), MaySend(s, Stage(P, s, 0), e)
    PROVE  /\ KeysOrdered(Stage(P, s, n), e)
           /\ \A v : /\ KeysBelow(Stage(P, s, 0), v)
                     /\ \A i \in 1..n : s[i].at = 1 /\ CarriesKey(s[i].of) => KeyVersion(s[i].of) < v
                     => KeysBelow(Stage(P, s, n), v)
<1> DEFINE Passed(k, v) ==
             \A i \in 1..k : s[i].at = 1 /\ CarriesKey(s[i].of) => KeyVersion(s[i].of) < v
           Good(k) ==
             /\ KeysOrdered(Stage(P, s, k), e)
             /\ \A v : KeysBelow(Stage(P, s, 0), v) /\ Passed(k, v) => KeysBelow(Stage(P, s, k), v)
           G == {k \in 0..n : Good(k)}
<1>1. Len(s) \in Nat /\ n \in Nat /\ n <= Len(s)
  BY LenProperties
<1>2. 0 \in G
  BY <1>1
<1>3. ASSUME NEW k \in 0..(n - 1), k \in G
      PROVE  k + 1 \in G
  <2>1. Good(k) /\ k \in Nat /\ k < Len(s) /\ k + 1 \in 0..n /\ k + 1 \in 1..Len(s)
    BY <1>1, <1>3, SMTT(20)
  <2> DEFINE X == Stage(P, s, k)
             Y == Stage(P, s, k + 1)
             f == s[k + 1].of
  <2>2. /\ X \in Seq(Byte) /\ Y \in Seq(Byte) /\ f \in Frame
        /\ s[k + 1].at # 1 => Y = X
        /\ s[k + 1].at = 1 => Grown(X, Y, f)
    BY <2>1, StageGrows
  <2>3. \A v : Passed(k + 1, v) => Passed(k, v) /\ (s[k + 1].at = 1 /\ CarriesKey(f) => KeyVersion(f) < v)
    BY <2>1
  <2>4. KeysOrdered(X, e)
    BY <2>1
  <2>5. \A v : KeysBelow(Stage(P, s, 0), v) /\ Passed(k, v) => KeysBelow(X, v)
    BY <2>1
  <2>6. s[k + 1].at = 1 /\ f.kind = "event" =>
          e < KeyVersion(f) /\ KeysBelow(Stage(P, s, 0), KeyVersion(f)) /\ Passed(k, KeyVersion(f))
    <3> SUFFICES ASSUME s[k + 1].at = 1, f.kind = "event"
                 PROVE  e < KeyVersion(f) /\ KeysBelow(Stage(P, s, 0), KeyVersion(f)) /\ Passed(k, KeyVersion(f))
      OBVIOUS
    <3>1. /\ e < KeyVersion(f) /\ KeysBelow(Stage(P, s, 0), KeyVersion(f))
          /\ \A j \in 1..Len(s) : j < k + 1 /\ s[j].at = 1 /\ CarriesKey(s[j].of) =>
                KeyVersion(s[j].of) < KeyVersion(f)
      BY <2>1 DEF MaySend
    <3>2. \A j \in 1..k : j \in 1..Len(s) /\ j < k + 1
      BY <2>1
    <3> QED
      BY <3>1, <3>2
  <2> HIDE DEF X, Y, Passed
  <2>7. CASE s[k + 1].at # 1
    <3>1. KeysOrdered(Y, e)
      BY <2>2, <2>4, <2>7
    <3>2. \A v : KeysBelow(Stage(P, s, 0), v) /\ Passed(k + 1, v) => KeysBelow(Y, v)
      BY <2>2, <2>3, <2>5, <2>7
    <3> QED
      BY <3>1, <3>2, <2>1 DEF Y
  <2>8. CASE s[k + 1].at = 1
    <3> HIDE DEF f
    <3>1. /\ \A v : KeysBelow(X, v) /\ (CarriesKey(f) => KeyVersion(f) < v) => KeysBelow(Y, v)
          /\ (f.kind = "event" => e < KeyVersion(f) /\ KeysBelow(X, KeyVersion(f)))
                => KeysOrdered(Y, e)
      BY <2>2, <2>4, <2>8, GrownKeys
    <3>2. f.kind = "event" => e < KeyVersion(f) /\ KeysBelow(X, KeyVersion(f))
      BY <2>5, <2>6, <2>8
    <3>3. KeysOrdered(Y, e)
      BY <3>1, <3>2
    <3>4. \A v : KeysBelow(Stage(P, s, 0), v) /\ Passed(k + 1, v) => KeysBelow(Y, v)
      BY <3>1, <2>3, <2>5, <2>8
    <3> QED
      BY <3>3, <3>4, <2>1 DEF Y
  <2> QED
    BY <2>7, <2>8
<1> HIDE DEF G
<1>4. 0..n \subseteq G
  BY <1>1, <1>2, <1>3, UpTo
<1>5. Good(n)
  <2>1. n \in G
    BY <1>1, <1>4
  <2> QED
    BY <2>1 DEF G
<1> QED
  BY <1>5

-----------------------------------------------------------------------------
(* Queueing a frame, and sending the first bytes of a ring.                   *)

AtBoundary(s) == s = <<>> \/ s[1].at = 1

(* What is still to come of the frame on the wire.                            *)
Remainder(s) == SubSeq(s, 1, Upto(s, 0))

LEMMA EmptyBytes ==
    ASSUME NEW s \in Seq(Byte)
    PROVE  s = <<>> <=> Len(s) = 0
BY EmptySeq

LEMMA RemainderFacts ==
    ASSUME NEW s \in Seq(Byte), Formed(s)
    PROVE  /\ Remainder(s) \in Seq(Byte) /\ Len(Remainder(s)) = Upto(s, 0)
           /\ Upto(s, 0) \in 0..Len(s) /\ Upto(s, 0) <= 2
           /\ \A i \in 1..Upto(s, 0) : Remainder(s)[i] = s[i]
           /\ AtBoundary(s) => Remainder(s) = <<>>
           /\ ~AtBoundary(s) => /\ Upto(s, 0) >= 1 /\ s[Upto(s, 0)] = Delimiter
                                /\ \A i \in 1..(Upto(s, 0) - 1) : s[i] # Delimiter
<1>1. /\ Upto(s, 0) \in 0..Len(s) /\ Upto(s, 0) <= 2
      /\ Upto(s, 0) > 0 => /\ s[Upto(s, 0)] = Delimiter
                           /\ \A i \in 1..(Upto(s, 0) - 1) : s[i] # Delimiter
  BY UptoFacts
<1>2. /\ Remainder(s) \in Seq(Byte) /\ Len(Remainder(s)) = Upto(s, 0)
      /\ \A i \in 1..Upto(s, 0) : Remainder(s)[i] = s[i]
  BY <1>1, PrefixFacts DEF Remainder
<1>3. AtBoundary(s) <=> Upto(s, 0) = 0
  BY EmptyBytes DEF AtBoundary, Upto
<1>4. AtBoundary(s) => Remainder(s) = <<>>
  BY <1>2, <1>3, EmptyBytes
<1> QED
  BY <1>1, <1>2, <1>3, <1>4

LEMMA FormedEndsClean ==
    ASSUME NEW s \in Seq(Byte), Formed(s), s # <<>>
    PROVE  Len(s) >= 1 /\ s[Len(s)] = Delimiter
<1>1. Len(s) \in Nat /\ Len(s) # 0
  BY EmptyBytes
<1>2. IsFollowed(s, Len(s))
  BY <1>1 DEF Formed
<1> QED
  BY <1>1, <1>2 DEF IsFollowed

(* t is the ring s with the frame f queued.                                   *)
Queued(s, f, t) == t = s \o wire_frame_encode(f)

LEMMA QueuedBytes ==
    ASSUME NEW s \in Seq(Byte), NEW f \in Frame, NEW t, Queued(s, f, t)
    PROVE  /\ t \in Seq(Byte) /\ Len(t) = (Len(s) + BodyBytes(f)) + 1
           /\ \A i \in 1..Len(s) : t[i] = s[i]
           /\ \A i \in 1..BodyBytes(f) : t[Len(s) + i] = [of |-> f, at |-> i]
           /\ t[(Len(s) + BodyBytes(f)) + 1] = Delimiter
           /\ t[Len(s) + 1] = [of |-> f, at |-> 1]
<1> DEFINE w == wire_frame_encode(f)
<1>1. /\ w \in Seq(Byte) /\ Len(w) = BodyBytes(f) + 1
      /\ \A i \in 1..BodyBytes(f) : w[i] = [of |-> f, at |-> i]
      /\ w[BodyBytes(f) + 1] = Delimiter
      /\ BodyBytes(f) \in 1..2
  BY EncodedFacts, BodyFacts
<1>2. t = s \o w /\ Len(s) \in Nat
  BY DEF Queued
<1> HIDE DEF w
<1>3. /\ t \in Seq(Byte) /\ Len(t) = Len(s) + Len(w)
      /\ \A i \in 1..Len(s) : t[i] = s[i]
  BY <1>1, <1>2, ConcatProperties
<1>4. \A i \in 1..(BodyBytes(f) + 1) : t[Len(s) + i] = w[i]
  <2>1. TAKE i \in 1..(BodyBytes(f) + 1)
  <2>2. Len(s) + i \in 1..(Len(s) + Len(w)) /\ Len(s) + i > Len(s) /\ (Len(s) + i) - Len(s) = i
    BY <1>1, <1>2
  <2>3. t[Len(s) + i] = w[(Len(s) + i) - Len(s)]
    BY <1>1, <1>2, <2>2, ConcatProperties
  <2> QED
    BY <2>2, <2>3
<1>5. t[(Len(s) + BodyBytes(f)) + 1] = Delimiter
  <2>1. /\ Len(s) + (BodyBytes(f) + 1) = (Len(s) + BodyBytes(f)) + 1
        /\ BodyBytes(f) + 1 \in 1..(BodyBytes(f) + 1)
    BY <1>1, <1>2
  <2>2. t[Len(s) + (BodyBytes(f) + 1)] = w[BodyBytes(f) + 1]
    BY <1>4, <2>1
  <2> QED
    BY <1>1, <2>1, <2>2
<1>6. \A i \in 1..BodyBytes(f) : t[Len(s) + i] = [of |-> f, at |-> i]
  <2>1. TAKE i \in 1..BodyBytes(f)
  <2>2. i \in 1..(BodyBytes(f) + 1)
    BY <1>1
  <2>3. t[Len(s) + i] = w[i] /\ w[i] = [of |-> f, at |-> i]
    BY <1>1, <1>4, <2>2
  <2> QED
    BY <2>3
<1> QED
  BY <1>1, <1>2, <1>3, <1>5, <1>6, SMTT(40)

(* A queued frame moves no boundary of what is already in the ring.           *)
LEMMA QueuedFacts ==
    ASSUME NEW s \in Seq(Byte), Formed(s), NEW f \in Frame, NEW t, Queued(s, f, t)
    PROVE  /\ Formed(t)
           /\ AtBoundary(t) <=> AtBoundary(s)
           /\ Remainder(t) = Remainder(s)
           /\ \A i \in 1..Len(t) : t[i].at = 1 => i <= Len(s) \/ i = Len(s) + 1
<1>1. /\ t \in Seq(Byte) /\ Len(t) = (Len(s) + BodyBytes(f)) + 1
      /\ \A i \in 1..Len(s) : t[i] = s[i]
      /\ \A i \in 1..BodyBytes(f) : t[Len(s) + i] = [of |-> f, at |-> i]
      /\ t[(Len(s) + BodyBytes(f)) + 1] = Delimiter
      /\ t[Len(s) + 1] = [of |-> f, at |-> 1]
  BY QueuedBytes
<1>2. BodyBytes(f) \in 1..2 /\ Len(s) \in Nat
  BY BodyFacts
<1>3. ASSUME NEW i \in 1..Len(s)
      PROVE  IsFollowed(t, i)
  <2>1. IsFollowed(s, i)
    BY DEF Formed
  <2>2. i < Len(s) => t[i + 1] = s[i + 1]
    BY <1>1, <1>2
  <2>3. i = Len(s) => s[i] = Delimiter /\ t[i + 1].at = 1
    BY <1>1, <1>2, <2>1 DEF IsFollowed
  <2>4. t[i] = s[i] /\ i < Len(t) /\ (i < Len(s) \/ i = Len(s))
    BY <1>1, <1>2
  <2> QED
    BY <2>1, <2>2, <2>3, <2>4 DEF IsFollowed
<1>4. ASSUME NEW j \in 1..BodyBytes(f)
      PROVE  IsFollowed(t, Len(s) + j)
  <2>0. t[Len(s) + j] = [of |-> f, at |-> j]
    BY <1>1
  <2>1. t[Len(s) + j].of = f /\ t[Len(s) + j].at = j
    BY <2>0
  <2>2. Len(s) + j < Len(t) /\ j \in 1..2 /\ (Len(s) + j) + 1 = Len(s) + (j + 1)
    BY <1>1, <1>2
  <2>3. j < BodyBytes(f) => t[Len(s) + (j + 1)] = [of |-> f, at |-> j + 1]
    <3>1. \A m \in 1..BodyBytes(f) : t[Len(s) + m] = [of |-> f, at |-> m]
      BY <1>1
    <3>2. j < BodyBytes(f) => j + 1 \in 1..BodyBytes(f)
      BY <1>2
    <3> QED
      BY <3>1, <3>2
  <2>4. j = BodyBytes(f) => t[Len(s) + (j + 1)] = Delimiter
    <3>1. Len(s) + (BodyBytes(f) + 1) = (Len(s) + BodyBytes(f)) + 1
      BY <1>2
    <3> QED
      BY <1>1, <3>1
  <2> QED
    BY <1>2, <2>1, <2>2, <2>3, <2>4 DEF IsFollowed
<1>5. IsFollowed(t, Len(t))
  BY <1>1, <1>2 DEF IsFollowed
<1>6. Formed(t)
  <2>1. SUFFICES ASSUME NEW i \in 1..Len(t) PROVE IsFollowed(t, i)
    BY DEF Formed
  <2>2. CASE i <= Len(s)
    BY <1>2, <1>3, <2>2
  <2>3. CASE i > Len(s) /\ i < Len(t)
    <3>1. i - Len(s) \in 1..BodyBytes(f) /\ Len(s) + (i - Len(s)) = i
      BY <1>1, <1>2, <2>3
    <3> QED
      BY <1>4, <3>1
  <2> QED
    BY <1>1, <1>2, <1>5, <2>2, <2>3
<1>7. AtBoundary(t) <=> AtBoundary(s)
  <2>1. CASE Len(s) = 0
    BY <1>1, <1>2, <2>1, EmptyBytes DEF AtBoundary
  <2>2. CASE Len(s) > 0
    <3>1. t[1] = s[1] /\ Len(t) # 0
      BY <1>1, <1>2, <2>2
    <3> QED
      BY <1>1, <2>2, <3>1, EmptyBytes DEF AtBoundary
  <2> QED
    BY <1>2, <2>1, <2>2
<1>8. Remainder(t) = Remainder(s)
  <2>1. CASE AtBoundary(s)
    BY <1>1, <1>6, <1>7, <2>1, RemainderFacts
  <2>2. CASE ~AtBoundary(s)
    <3>1. Len(s) > 0 /\ t[1] = s[1]
      BY <1>1, <1>2, <2>2, EmptyBytes DEF AtBoundary
    <3>2. Upto(t, 0) = Upto(s, 0)
      BY <1>1, <1>2, <3>1 DEF Upto
    <3>3. /\ Remainder(t) \in Seq(Byte) /\ Remainder(s) \in Seq(Byte)
          /\ Len(Remainder(t)) = Upto(t, 0) /\ Len(Remainder(s)) = Upto(s, 0)
          /\ \A i \in 1..Upto(t, 0) : Remainder(t)[i] = t[i]
          /\ \A i \in 1..Upto(s, 0) : Remainder(s)[i] = s[i]
          /\ Upto(s, 0) \in 0..Len(s)
      BY <1>1, <1>6, RemainderFacts
    <3>4. \A i \in 1..Upto(s, 0) : Remainder(t)[i] = Remainder(s)[i]
      <4>1. TAKE i \in 1..Upto(s, 0)
      <4>2. i \in 1..Len(s)
        BY <1>2, <3>3
      <4> QED
        BY <1>1, <3>2, <3>3, <4>2
    <3> QED
      BY <3>2, <3>3, <3>4, SeqEqual
  <2> QED
    BY <2>1, <2>2
<1>9. \A i \in 1..Len(t) : t[i].at = 1 => i <= Len(s) \/ i = Len(s) + 1
  <2>1. TAKE i \in 1..Len(t)
  <2>2. CASE i > Len(s) + 1 /\ i < Len(t)
    <3>1. i - Len(s) \in 1..BodyBytes(f) /\ Len(s) + (i - Len(s)) = i /\ i - Len(s) # 1
      BY <1>1, <1>2, <2>2
    <3>2. t[i] = [of |-> f, at |-> i - Len(s)]
      BY <1>1, <3>1
    <3> QED
      BY <3>1, <3>2
  <2>3. CASE i = Len(t)
    BY <1>1, <2>3, FrameFacts
  <2> QED
    BY <1>1, <1>2, <2>2, <2>3
<1> QED
  BY <1>6, <1>7, <1>8, <1>9

(* c is sent, t stays in the ring.                                            *)
Sent(s, n, c, t) == c = SubSeq(s, 1, n) /\ t = SubSeq(s, n + 1, Len(s))

LEMMA SentBytes ==
    ASSUME NEW s \in Seq(Byte), NEW n \in 1..Len(s), NEW c, NEW t, Sent(s, n, c, t)
    PROVE  /\ c \in Seq(Byte) /\ Len(c) = n /\ \A i \in 1..n : c[i] = s[i]
           /\ t \in Seq(Byte) /\ Len(t) = Len(s) - n
           /\ \A i \in 1..(Len(s) - n) : t[i] = s[n + i]
           /\ Last(c) = s[n] /\ c # <<>>
<1>1. n \in 0..Len(s) /\ n \in Nat /\ Len(s) \in Nat /\ n \in 1..n
  BY LenProperties
<1>2. c \in Seq(Byte) /\ Len(c) = n /\ \A i \in 1..n : c[i] = s[i]
  BY <1>1, PrefixFacts DEF Sent
<1>3. /\ t \in Seq(Byte) /\ Len(t) = Len(s) - n
      /\ \A i \in 1..(Len(s) - n) : t[i] = s[n + i]
  BY <1>1, SuffixFacts DEF Sent
<1>4. Last(c) = s[n]
  BY <1>1, <1>2 DEF Last
<1>5. c # <<>>
  BY <1>1, <1>2, EmptySeq
<1> QED
  BY <1>2, <1>3, <1>4, <1>5

(* The transmit interrupt stands at a boundary after a delimiter, and in the  *)
(* middle of a frame otherwise.                                               *)
LEMMA SentFacts ==
    ASSUME NEW s \in Seq(Byte), Formed(s), NEW n \in 1..Len(s), NEW c, NEW t, Sent(s, n, c, t)
    PROVE  /\ Formed(t)
           /\ AtBoundary(t) <=> Last(c) = Delimiter
           /\ Upto(s, n) = n + Upto(t, 0)
<1>1. /\ t \in Seq(Byte) /\ Len(t) = Len(s) - n
      /\ \A i \in 1..(Len(s) - n) : t[i] = s[n + i]
      /\ Last(c) = s[n]
  BY SentBytes
<1>2. n \in Nat /\ n >= 1 /\ n <= Len(s) /\ Len(s) \in Nat
  BY LenProperties
<1>3. ASSUME NEW i \in 1..Len(t) PROVE IsFollowed(t, i)
  <2>1. n + i \in 1..Len(s) /\ i \in 1..(Len(s) - n)
    BY <1>1, <1>2
  <2>2. IsFollowed(s, n + i)
    BY <2>1 DEF Formed
  <2>3. t[i] = s[n + i]
    BY <1>1, <2>1
  <2>4. i < Len(t) => t[i + 1] = s[(n + i) + 1]
    <3>1. i < Len(t) => i + 1 \in 1..(Len(s) - n) /\ n + (i + 1) = (n + i) + 1
      BY <1>1, <1>2
    <3>2. \A m \in 1..(Len(s) - n) : t[m] = s[n + m]
      BY <1>1
    <3> QED
      BY <3>1, <3>2
  <2>5. i < Len(t) <=> n + i < Len(s)
    BY <1>1, <1>2
  <2> QED
    BY <2>2, <2>3, <2>4, <2>5 DEF IsFollowed
<1>4. AtBoundary(t) <=> Last(c) = Delimiter
  <2>1. CASE n = Len(s)
    <3>1. t = <<>>
      BY <1>1, <1>2, <2>1, EmptyBytes
    <3>2. s # <<>>
      BY <1>2, EmptyBytes
    <3>3. s[n] = Delimiter
      BY <3>2, <2>1, FormedEndsClean
    <3> QED
      BY <1>1, <3>1, <3>3 DEF AtBoundary
  <2>2. CASE n < Len(s)
    <3>1. t # <<>> /\ 1 \in 1..(Len(s) - n)
      BY <1>1, <1>2, <2>2, EmptyBytes
    <3>2. t[1] = s[n + 1]
      BY <1>1, <3>1
    <3>3. IsFollowed(s, n)
      BY <1>2 DEF Formed
    <3>4. s[n] = Delimiter => s[n + 1].at = 1
      BY <3>3, <2>2, FrameFacts DEF IsFollowed
    <3>5. s[n] # Delimiter => s[n + 1].at # 1
      <4>1. SUFFICES ASSUME s[n] # Delimiter PROVE s[n + 1].at # 1
        OBVIOUS
      <4>2. s[n].at \in Int /\ s[n].at >= 1 /\ BodyBytes(s[n].of) \in 1..2
        BY <1>2, <3>3, <4>1, At DEF IsFollowed
      <4>3. s[n + 1] = Delimiter \/ s[n + 1] = [of |-> s[n].of, at |-> s[n].at + 1]
        BY <3>3, <4>1, <4>2 DEF IsFollowed
      <4> QED
        BY <4>2, <4>3, FrameFacts
    <3> QED
      BY <1>1, <3>1, <3>2, <3>4, <3>5 DEF AtBoundary
  <2> QED
    BY <1>2, <2>1, <2>2
<1>5. Upto(s, n) = n + Upto(t, 0)
  <2>1. CASE n = Len(s)
    BY <1>1, <1>2, <2>1 DEF Upto
  <2>2. CASE n < Len(s)
    <3>1. 1 \in 1..(Len(s) - n) /\ 0 # Len(t)
      BY <1>1, <1>2, <2>2
    <3>2. t[0 + 1] = s[n + 1]
      BY <1>1, <3>1
    <3> QED
      BY <1>1, <1>2, <2>2, <3>1, <3>2 DEF Upto
  <2> QED
    BY <1>2, <2>1, <2>2
<1>6. Formed(t)
  BY <1>3 DEF Formed
<1> QED
  BY <1>4, <1>5, <1>6

LEMMA ConcatAt ==
    ASSUME NEW P \in Seq(Byte), NEW c \in Seq(Byte)
    PROVE  /\ P \o c \in Seq(Byte) /\ Len(P \o c) = Len(P) + Len(c)
           /\ \A i \in 1..Len(P) : (P \o c)[i] = P[i]
           /\ \A i \in 1..Len(c) : (P \o c)[Len(P) + i] = c[i]
<1>1. Len(P) \in Nat /\ Len(c) \in Nat
  BY LenProperties
<1>2. /\ P \o c \in Seq(Byte) /\ Len(P \o c) = Len(P) + Len(c)
      /\ \A i \in 1..(Len(P) + Len(c)) : (P \o c)[i] = IF i <= Len(P) THEN P[i] ELSE c[i - Len(P)]
  BY ConcatProperties
<1>3. ASSUME NEW i \in 1..Len(c) PROVE (P \o c)[Len(P) + i] = c[i]
  <2>1. Len(P) + i \in 1..(Len(P) + Len(c)) /\ ~(Len(P) + i <= Len(P)) /\ (Len(P) + i) - Len(P) = i
    BY <1>1
  <2> QED
    BY <1>2, <2>1
<1>4. ASSUME NEW i \in 1..Len(P) PROVE (P \o c)[i] = P[i]
  BY <1>1, <1>2
<1> QED
  BY <1>2, <1>3, <1>4

(* What was sent and what is still to come of its last frame.                 *)
LEMMA StageIsSent ==
    ASSUME NEW P \in Seq(Byte), NEW s \in Seq(Byte), Formed(s), NEW n \in 1..Len(s),
           NEW c, NEW t, Sent(s, n, c, t)
    PROVE  Stage(P, s, n) = (P \o c) \o Remainder(t)
<1> DEFINE r == Remainder(t)
           u == Upto(t, 0)
           X == Stage(P, s, n)
           Q == P \o c
           Y == Q \o r
<1>1. /\ c \in Seq(Byte) /\ Len(c) = n /\ \A i \in 1..n : c[i] = s[i]
      /\ t \in Seq(Byte) /\ Len(t) = Len(s) - n
      /\ \A i \in 1..(Len(s) - n) : t[i] = s[n + i]
  BY SentBytes
<1>2. Formed(t) /\ Upto(s, n) = n + u
  BY SentFacts
<1>3. /\ r \in Seq(Byte) /\ Len(r) = u /\ u \in 0..(Len(s) - n)
      /\ \A i \in 1..u : r[i] = t[i]
  BY <1>1, <1>2, RemainderFacts
<1>4. n \in 0..Len(s) /\ n \in Nat /\ Len(s) \in Nat /\ Len(P) \in Nat
  BY LenProperties
<1>5. /\ X \in Seq(Byte) /\ Len(X) = Len(P) + (n + u)
      /\ \A i \in 1..Len(P) : X[i] = P[i]
      /\ \A i \in 1..(n + u) : X[Len(P) + i] = s[i]
  <2>1. /\ Stage(P, s, n) \in Seq(Byte) /\ Len(Stage(P, s, n)) = Len(P) + Upto(s, n)
        /\ \A i \in 1..Len(P) : Stage(P, s, n)[i] = P[i]
        /\ \A i \in 1..Upto(s, n) : Stage(P, s, n)[Len(P) + i] = s[i]
    BY <1>4, StageFacts
  <2> QED
    BY <1>2, <2>1
<1> HIDE DEF r, u, X
<1>6. /\ Q \in Seq(Byte) /\ Len(Q) = Len(P) + n
      /\ \A i \in 1..Len(P) : Q[i] = P[i]
      /\ \A i \in 1..n : Q[Len(P) + i] = c[i]
  BY <1>1, ConcatAt
<1> HIDE DEF Q
<1>7. /\ Y \in Seq(Byte) /\ Len(Y) = (Len(P) + n) + u
      /\ \A i \in 1..(Len(P) + n) : Y[i] = Q[i]
      /\ \A i \in 1..u : Y[(Len(P) + n) + i] = r[i]
  <2>1. /\ Y \in Seq(Byte) /\ Len(Y) = Len(Q) + Len(r)
        /\ \A i \in 1..Len(Q) : Y[i] = Q[i]
        /\ \A i \in 1..Len(r) : Y[Len(Q) + i] = r[i]
    BY <1>3, <1>6, ConcatAt
  <2> QED
    BY <1>3, <1>6, <2>1
<1> HIDE DEF Y
<1>8. ASSUME NEW i \in 1..Len(X) PROVE X[i] = Y[i]
  <2>0. i \in 1..(Len(P) + (n + u)) /\ u \in Nat /\ i \in Nat
    BY <1>3, <1>4, <1>5
  <2>1. CASE i <= Len(P)
    <3>1. i \in 1..Len(P) /\ i \in 1..(Len(P) + n)
      BY <1>4, <2>0, <2>1
    <3> QED
      BY <1>5, <1>6, <1>7, <3>1
  <2>2. CASE i > Len(P) /\ i <= Len(P) + n
    <3>1. PICK k \in 1..n : i = Len(P) + k
      <4>1. i - Len(P) \in 1..n /\ i = Len(P) + (i - Len(P))
        BY <1>4, <2>0, <2>2
      <4> QED
        BY <4>1
    <3>2. k \in 1..(n + u) /\ i \in 1..(Len(P) + n)
      BY <1>4, <2>0, <2>2
    <3>3. X[i] = s[k]
      BY <1>5, <3>1, <3>2
    <3>4. Y[i] = c[k]
      BY <1>6, <1>7, <3>1, <3>2
    <3> QED
      BY <1>1, <3>3, <3>4
  <2>3. CASE i > Len(P) + n
    <3>1. PICK k \in 1..u : i = (Len(P) + n) + k
      <4>1. i - (Len(P) + n) \in 1..u /\ i = (Len(P) + n) + (i - (Len(P) + n))
        BY <1>4, <2>0, <2>3
      <4> QED
        BY <4>1
    <3>2. n + k \in 1..(n + u) /\ i = Len(P) + (n + k) /\ k \in 1..(Len(s) - n)
      BY <1>3, <1>4, <2>0, <3>1
    <3>3. X[i] = s[n + k]
      BY <1>5, <3>2
    <3>4. Y[i] = r[k]
      BY <1>7, <3>1
    <3> QED
      BY <1>1, <1>3, <3>2, <3>3, <3>4
  <2> QED
    BY <1>4, <2>0, <2>1, <2>2, <2>3
<1>9. Len(X) = Len(Y)
  BY <1>3, <1>4, <1>5, <1>7
<1>10. X = Y
  BY <1>5, <1>7, <1>8, <1>9, SeqEqual
<1> QED
  BY <1>10 DEF X, Y, Q, r

LEMMA StageNone ==
    ASSUME NEW P, NEW s
    PROVE  Stage(P, s, 0) = P \o Remainder(s)
BY DEF Stage, Remainder

-----------------------------------------------------------------------------
(* The state: the stream, and what holds of it.                               *)

Parsed(d, acc) == IF d THEN <<Noise>> ELSE acc
Rest(rs, lock) == IF lock = "none" THEN <<>> ELSE Remainder(rs[lock])
Here(d, acc, rx) == Parsed(d, acc) \o rx
Line(d, acc, rx, rs, lock) == Here(d, acc, rx) \o Rest(rs, lock)
Stream == Line(discarding, accumulator, rx_ring, rings, wire_tx_frame_ring)

Typed ==
    /\ TypeOK
    /\ rings \in [Rings -> Seq(Byte)] /\ rx_ring \in Seq(Byte) /\ accumulator \in Seq(Byte)
    /\ owed \in Seq(Frame)

(* Every ring holds whole frames, but for the one the transmit interrupt is   *)
(* locked on, which lacks the bytes already sent.                             *)
RingsHoldFrames(rs, lock) ==
    \A r \in Rings : Formed(rs[r]) /\ (lock = r <=> ~AtBoundary(rs[r]))
Framed == RingsHoldFrames(rings, wire_tx_frame_ring)

(* The parser gathers no delimiter, and nothing while it discards.            *)
Parsing ==
    /\ \A i \in 1..Len(accumulator) : accumulator[i] # Delimiter
    /\ discarding => accumulator = <<>>

-----------------------------------------------------------------------------
(* Every ring, whichever way its bytes are counted.                           *)
LEMMA RingFacts ==
    ASSUME Typed, Framed, NEW r \in Rings
    PROVE  /\ rings[r] \in Seq(Byte) /\ Formed(rings[r])
           /\ Len(rings[r]) \in Nat /\ Len(rings[r]) <= RingBytes[r]
           /\ wire_tx_frame_ring = r <=> ~AtBoundary(rings[r])
           /\ RingBytes[r] \in Nat
<1>1. rings[r] \in Seq(Byte) /\ Len(rings[r]) <= RingBytes[r]
  BY DEF Typed, TypeOK
<1>2. Formed(rings[r]) /\ (wire_tx_frame_ring = r <=> ~AtBoundary(rings[r]))
  BY DEF Framed, RingsHoldFrames
<1>3. Len(rings[r]) \in Nat
  BY <1>1, LenProperties
<1>4. RingBytes[r] \in Nat
  BY SizesAssumption DEF RingBytes, Rings
<1> QED
  BY <1>1, <1>2, <1>3, <1>4

(* wire_link_enqueue: the stream does not notice.                             *)
LEMMA EnqueueStep ==
    ASSUME Typed, Framed, NEW r \in Rings, NEW f \in Frame, wire_link_enqueue(r, f)
    PROVE  /\ rings' \in [Rings -> Seq(Byte)] /\ tx_enabled' \in BOOLEAN
           /\ wire_tx_frame_ring' = wire_tx_frame_ring
           /\ \A q \in Rings : /\ Len(rings'[q]) <= RingBytes[q]
                               /\ \/ rings'[q] = rings[q]
                                  \/ q = r /\ Fits(r, f) /\ Queued(rings[q], f, rings'[q])
           /\ Framed' /\ Rest(rings', wire_tx_frame_ring') = Rest(rings, wire_tx_frame_ring)
<1>1. /\ rings' = IF Fits(r, f) THEN [rings EXCEPT ![r] = @ \o wire_frame_encode(f)] ELSE rings
      /\ tx_enabled' = (tx_enabled \/ Fits(r, f))
      /\ wire_tx_frame_ring' = wire_tx_frame_ring
  BY DEF wire_link_enqueue
<1>2. /\ rings \in [Rings -> Seq(Byte)] /\ tx_enabled \in BOOLEAN
      /\ wire_tx_frame_ring \in Rings \union {"none"}
  BY DEF Typed, TypeOK
<1>3. \A q \in Rings : /\ rings[q] \in Seq(Byte) /\ Formed(rings[q])
                       /\ Len(rings[q]) \in Nat /\ Len(rings[q]) <= RingBytes[q]
                       /\ wire_tx_frame_ring = q <=> ~AtBoundary(rings[q])
  BY RingFacts
<1>4. tx_enabled' \in BOOLEAN
  BY <1>1, <1>2, Zenon
<1>5. ASSUME NEW q \in Rings
      PROVE  \/ rings'[q] = rings[q]
             \/ q = r /\ Fits(r, f) /\ Queued(rings[q], f, rings'[q])
  BY <1>1, <1>2 DEF Queued
<1>6. ASSUME NEW q \in Rings
      PROVE  /\ rings'[q] \in Seq(Byte) /\ Len(rings'[q]) <= RingBytes[q]
             /\ Formed(rings'[q]) /\ (AtBoundary(rings'[q]) <=> AtBoundary(rings[q]))
             /\ Remainder(rings'[q]) = Remainder(rings[q])
  <2>1. CASE rings'[q] = rings[q]
    BY <1>3, <2>1
  <2>2. CASE q = r /\ Fits(r, f) /\ Queued(rings[q], f, rings'[q])
    <3> DEFINE s == rings[q]
               t == rings'[q]
    <3>0. s \in Seq(Byte) /\ Formed(s) /\ Queued(s, f, t)
      BY <1>3, <2>2
    <3> HIDE DEF s, t
    <3>1. t \in Seq(Byte) /\ Len(t) = (Len(s) + BodyBytes(f)) + 1
      BY <3>0, QueuedBytes, ZenonT(30)
    <3>2. Formed(t) /\ (AtBoundary(t) <=> AtBoundary(s)) /\ Remainder(t) = Remainder(s)
      BY <3>0, QueuedFacts
    <3> USE DEF s, t
    <3>3. Len(rings'[q]) <= RingBytes[q]
      BY <1>3, <2>2, <3>1, BodyFacts DEF Fits
    <3> QED
      BY <3>1, <3>2, <3>3
  <2> QED
    BY <1>5, <2>1, <2>2
<1>7. rings' \in [Rings -> Seq(Byte)]
  <2>1. rings' = [q \in Rings |-> rings'[q]]
    BY <1>1, <1>2
  <2> QED
    BY <1>6, <2>1
<1>8. Framed'
  <2>1. \A q \in Rings : Formed(rings'[q]) /\ (wire_tx_frame_ring' = q <=> ~AtBoundary(rings'[q]))
    BY <1>1, <1>3, <1>6
  <2> QED
    BY <2>1 DEF Framed, RingsHoldFrames
<1>9. Rest(rings', wire_tx_frame_ring') = Rest(rings, wire_tx_frame_ring)
  <2>1. wire_tx_frame_ring # "none" => wire_tx_frame_ring \in Rings
    BY <1>2
  <2> QED
    BY <1>1, <1>6, <2>1 DEF Rest
<1> QED
  BY <1>1, <1>4, <1>5, <1>6, <1>7, <1>8, <1>9

LEMMA PickFacts ==
    ASSUME Typed, Framed
    PROVE  /\ wire_tx_pick_ring \in Rings
           /\ wire_tx_frame_ring \in {wire_tx_pick_ring, "none"}
           /\ Rest(rings, wire_tx_frame_ring) = Remainder(rings[wire_tx_pick_ring])
           /\ \A q \in Rings : q # wire_tx_pick_ring => AtBoundary(rings[q])
<1>1. wire_tx_frame_ring \in Rings \union {"none"}
  BY DEF Typed, TypeOK
<1>2. wire_tx_pick_ring \in Rings /\ wire_tx_frame_ring \in {wire_tx_pick_ring, "none"}
  BY <1>1 DEF wire_tx_pick_ring, Rings
<1>3. \A q \in Rings : /\ rings[q] \in Seq(Byte) /\ Formed(rings[q])
                       /\ wire_tx_frame_ring = q <=> ~AtBoundary(rings[q])
  BY RingFacts
<1>4. \A q \in Rings : q # wire_tx_pick_ring => AtBoundary(rings[q])
  <2>1. "none" \notin Rings
    BY DEF Rings
  <2> QED
    BY <1>2, <1>3, <2>1
<1>5. Rest(rings, wire_tx_frame_ring) = Remainder(rings[wire_tx_pick_ring])
  <2>1. CASE wire_tx_frame_ring = "none"
    <3>1. AtBoundary(rings[wire_tx_pick_ring])
      BY <1>2, <1>3, <2>1 DEF Rings
    <3>2. Remainder(rings[wire_tx_pick_ring]) = <<>>
      BY <1>2, <1>3, <3>1, RemainderFacts
    <3> QED
      BY <2>1, <3>2 DEF Rest
  <2>2. CASE wire_tx_frame_ring # "none"
    BY <1>2, <2>2 DEF Rest
  <2> QED
    BY <2>1, <2>2
<1> QED
  BY <1>2, <1>4, <1>5

LEMMA MinOfTwo ==
    ASSUME NEW a \in Int, NEW b \in Int
    PROVE  Min({a, b}) \in {a, b} /\ Min({a, b}) <= a /\ Min({a, b}) <= b
<1>1. \E x \in {a, b} : \A y \in {a, b} : x <= y
  <2>1. a <= b \/ b <= a
    OBVIOUS
  <2> QED
    BY <2>1
<1> QED
  BY <1>1 DEF Min

LEMMA ChunkSizesFacts ==
    ASSUME NEW n \in ChunkSizes, Len(rings[wire_tx_pick_ring]) \in Nat
    PROVE  n \in 1..Len(rings[wire_tx_pick_ring])
<1> DEFINE l == Len(rings[wire_tx_pick_ring])
           S == {l, ChunkBytes, UartBytes}
<1>1. l \in Int /\ ChunkBytes \in Int /\ UartBytes \in Int
  BY SizesAssumption
<1> HIDE DEF l
<1>2. \E x \in S : \A y \in S : x <= y
  <2>1. \/ l <= ChunkBytes /\ l <= UartBytes
        \/ ChunkBytes <= l /\ ChunkBytes <= UartBytes
        \/ UartBytes <= l /\ UartBytes <= ChunkBytes
    BY <1>1
  <2> QED
    BY <1>1, <2>1
<1>3. Min(S) \in S /\ Min(S) <= l
  BY <1>2 DEF Min
<1>4. Min(S) \in Int
  BY <1>1, <1>3
<1>5. n \in 1..Min(S)
  BY DEF ChunkSizes, S, l
<1> HIDE DEF S
<1>6. n \in 1..l
  BY <1>1, <1>3, <1>4, <1>5
<1> QED
  BY <1>6 DEF l

(* What a transmit interrupt does: of the ring p = s it sends c and leaves t. *)
Sends(p, n, s, c, t) ==
    /\ p \in Rings /\ s = rings[p] /\ c = Chunk(n) /\ t = rings'[p]
    /\ n \in 1..Len(s) /\ Sent(s, n, c, t)
    /\ \A q \in Rings : q # p => rings'[q] = rings[q]
    /\ Rest(rings, wire_tx_frame_ring) = Remainder(s)
    /\ Rest(rings', wire_tx_frame_ring') = Remainder(t)

LEMMA SendStep ==
    ASSUME Typed, Framed, NEW n \in ChunkSizes, TxReady(n)
    PROVE  /\ \E p, s, c, t : Sends(p, n, s, c, t)
           /\ rings' \in [Rings -> Seq(Byte)] /\ wire_tx_frame_ring' \in Rings \union {"none"}
           /\ \A q \in Rings : Len(rings'[q]) <= RingBytes[q]
           /\ Framed'
<1> DEFINE p == wire_tx_pick_ring
           s == rings[p]
           c == Chunk(n)
           t == rings'[p]
<1>1. /\ p \in Rings /\ Rest(rings, wire_tx_frame_ring) = Remainder(s)
      /\ \A q \in Rings : q # p => AtBoundary(rings[q])
  BY PickFacts
<1>2. \A q \in Rings : /\ rings[q] \in Seq(Byte) /\ Formed(rings[q])
                       /\ Len(rings[q]) \in Nat /\ Len(rings[q]) <= RingBytes[q]
                       /\ RingBytes[q] \in Nat
                       /\ wire_tx_frame_ring = q <=> ~AtBoundary(rings[q])
  BY RingFacts
<1>3. s \in Seq(Byte) /\ Formed(s) /\ Len(s) \in Nat /\ rings \in [Rings -> Seq(Byte)]
  BY <1>1, <1>2 DEF Typed
<1>4. n \in 1..Len(s)
  BY <1>3, ChunkSizesFacts
<1>5. /\ rings' = [rings EXCEPT ![p] = SubSeq(@, n + 1, Len(@))]
      /\ wire_tx_frame_ring' = wire_tx_track_frame(p, c)
  BY DEF TxReady
<1>6. /\ rings' = [q \in Rings |-> rings'[q]]
      /\ \A q \in Rings : q # p => rings'[q] = rings[q]
      /\ t = SubSeq(s, n + 1, Len(s))
  BY <1>1, <1>3, <1>5
<1>7. Sent(s, n, c, t)
  BY <1>6 DEF Sent, Chunk
<1> HIDE DEF p, s, c, t
<1>8. /\ t \in Seq(Byte) /\ Len(t) = Len(s) - n
      /\ Formed(t) /\ (AtBoundary(t) <=> Last(c) = Delimiter)
  BY <1>3, <1>4, <1>7, SentBytes, SentFacts
<1>9. Len(t) <= Len(s) /\ Len(s) <= RingBytes[p]
  BY <1>1, <1>2, <1>3, <1>4, <1>8 DEF s
<1>10. ASSUME NEW q \in Rings
       PROVE  rings'[q] \in Seq(Byte) /\ Len(rings'[q]) <= RingBytes[q] /\ Formed(rings'[q])
  <2>1. CASE q = p
    <3>1. rings'[q] = t
      BY <2>1 DEF t
    <3>2. Len(t) <= RingBytes[p]
      BY <1>1, <1>2, <1>3, <1>8, <1>9, LenProperties
    <3> QED
      BY <1>8, <2>1, <3>1, <3>2
  <2>2. CASE q # p
    BY <1>2, <1>6, <2>2
  <2> QED
    BY <2>1, <2>2
<1>11. rings' \in [Rings -> Seq(Byte)]
  BY <1>6, <1>10
<1>12. /\ wire_tx_frame_ring' \in {p, "none"} /\ p # "none"
       /\ wire_tx_frame_ring' = p <=> ~AtBoundary(t)
  BY <1>1, <1>5, <1>8 DEF wire_tx_track_frame, Rings
<1>13. Framed'
  <2>1. ASSUME NEW q \in Rings
        PROVE  Formed(rings'[q]) /\ (wire_tx_frame_ring' = q <=> ~AtBoundary(rings'[q]))
    <3>1. CASE q = p
      BY <1>10, <1>12, <3>1 DEF t
    <3>2. CASE q # p
      <4>1. AtBoundary(rings'[q])
        BY <1>1, <1>6, <3>2
      <4>2. wire_tx_frame_ring' # q
        BY <1>12, <3>2 DEF Rings
      <4> QED
        BY <1>10, <4>1, <4>2
    <3> QED
      BY <3>1, <3>2
  <2> QED
    BY <2>1 DEF Framed, RingsHoldFrames
<1>14. Rest(rings', wire_tx_frame_ring') = Remainder(t)
  <2>1. CASE AtBoundary(t)
    <3>1. wire_tx_frame_ring' = "none" /\ Remainder(t) = <<>>
      BY <1>8, <1>12, <2>1, RemainderFacts
    <3> QED
      BY <3>1 DEF Rest
  <2>2. CASE ~AtBoundary(t)
    BY <1>12, <2>2 DEF Rest, t
  <2> QED
    BY <2>1, <2>2
<1>15. Sends(p, n, s, c, t)
  BY <1>1, <1>4, <1>6, <1>7, <1>14 DEF Sends, s, c, t
<1>16. wire_tx_frame_ring' \in Rings \union {"none"}
  BY <1>1, <1>12
<1> QED
  BY <1>10, <1>11, <1>13, <1>15, <1>16

-----------------------------------------------------------------------------
(* What the steps compute.                                                    *)

LEMMA StartedAlways ==
    ASSUME NEW s \in Seq(Byte), NEW n \in 0..Len(s)
    PROVE  StartedOK(s, n) /\ Started(s, n) \in Seq(Frame) /\ Starting(SubSeq(s, 1, n)) = Started(s, n)
<1> DEFINE G == {k \in 0..n : StartedOK(s, k)}
<1>1. Len(s) \in Nat /\ n \in Nat
  BY LenProperties
<1>2. 0 \in G
  BY <1>1, StartedNone
<1>3. ASSUME NEW k \in 0..(n - 1), k \in G
      PROVE  k + 1 \in G
  <2>1. StartedOK(s, k) /\ k \in Nat /\ k < Len(s) /\ k + 1 \in 0..n
    BY <1>1, <1>3
  <2>2. StartedOK(s, k + 1)
    BY <2>1, StartedGrows
  <2> QED
    BY <2>1, <2>2
<1> HIDE DEF G
<1>4. 0..n \subseteq G
  BY <1>1, <1>2, <1>3, UpTo
<1>5. StartedOK(s, n)
  <2>1. n \in G
    BY <1>1, <1>4
  <2> QED
    BY <2>1 DEF G
<1> QED
  BY <1>5, StartingIsStarted DEF StartedOK

LEMMA SeqRange ==
    ASSUME NEW S, NEW o \in Seq(S)
    PROVE  Range(o) \subseteq S
BY ElementOfSeq, LenProperties DEF Range

(* The first frame owed that equals f: 0 when there is none.                  *)
Arrived(o, f) == SelectInSeq(o, LAMBDA g : g = f)

LEMMA SelectFirst ==
    ASSUME NEW o \in Seq(Frame), NEW f, NEW k, k = Arrived(o, f)
    PROVE  /\ k \in 0..Len(o)
           /\ k # 0 => FirstOf(o, f, k)
           /\ k = 0 => \A h : ~FirstOf(o, f, h)
<1> DEFINE I == {i \in 1..Len(o) : o[i] = f}
<1>1. k = IF I # {} THEN Min(I) ELSE 0
  BY DEF Arrived, SelectInSeq
<1>2. Len(o) \in Nat /\ I \subseteq Nat /\ \A i \in I : i \in 1..Len(o) /\ o[i] = f
  BY LenProperties
<1>3. \A i \in 1..Len(o) : o[i] = f => i \in I
  OBVIOUS
<1> HIDE DEF I
<1>4. CASE I = {}
  BY <1>1, <1>2, <1>3, <1>4 DEF FirstOf
<1>5. CASE I # {}
  <2>1. \E x \in I : \A y \in I : x <= y
    BY <1>2, <1>5, Smallest
  <2>2. k \in I /\ \A y \in I : k <= y
    BY <1>1, <1>5, <2>1 DEF Min
  <2>3. k \in 1..Len(o) /\ o[k] = f /\ k # 0
    BY <1>2, <2>2
  <2>4. \A h \in 1..(k - 1) : o[h] # f
    <3>1. TAKE h \in 1..(k - 1)
    <3>2. h \in 1..Len(o) /\ ~(k <= h)
      BY <1>2, <2>3
    <3> QED
      BY <1>3, <2>2, <3>2
  <2>5. FirstOf(o, f, k)
    BY <2>3, <2>4 DEF FirstOf
  <2>6. k \in 0..Len(o)
    BY <1>2, <2>3
  <2> QED
    BY <2>3, <2>5, <2>6
<1> QED
  BY <1>4, <1>5

(* On the cable a byte is lost, or read as another one.                       *)
LEMMA DamagedFacts ==
    ASSUME NEW c \in Seq(Byte), NEW bytes \in Damaged(c)
    PROVE  /\ bytes \in Seq(Byte)
           /\ \E i \in 1..Len(c), e \in 0..1 : Spliced(c, bytes, i - 1, 1, e)
<1>1. PICK i \in 1..Len(c) :
        \/ bytes = RemoveAt(c, i) \/ bytes = ReplaceAt(c, i, Delimiter)
        \/ bytes = ReplaceAt(c, i, Noise)
  BY DEF Damaged
<1>2. Len(c) \in Nat /\ i \in Nat /\ i - 1 \in 0..Len(c) /\ i \in 0..Len(c)
  BY LenProperties
<1>3. CASE bytes = RemoveAt(c, i)
  <2> DEFINE h == SubSeq(c, 1, i - 1)
             t == SubSeq(c, i + 1, Len(c))
  <2>1. h \in Seq(Byte) /\ Len(h) = i - 1 /\ \A k \in 1..(i - 1) : h[k] = c[k]
    BY <1>2, PrefixFacts
  <2>2. t \in Seq(Byte) /\ Len(t) = Len(c) - i /\ \A k \in 1..(Len(c) - i) : t[k] = c[i + k]
    BY <1>2, SuffixFacts
  <2>3. bytes = h \o t
    BY <1>3 DEF RemoveAt
  <2> HIDE DEF h, t
  <2>4. /\ h \o t \in Seq(Byte) /\ Len(h \o t) = Len(h) + Len(t)
        /\ \A k \in 1..Len(h) : (h \o t)[k] = h[k]
        /\ \A k \in 1..Len(t) : (h \o t)[Len(h) + k] = t[k]
    BY <2>1, <2>2, ConcatAt
  <2>5. /\ bytes \in Seq(Byte) /\ Len(bytes) = (i - 1) + (Len(c) - i)
        /\ \A k \in 1..(i - 1) : bytes[k] = h[k]
        /\ \A k \in 1..(Len(c) - i) : bytes[(i - 1) + k] = t[k]
    BY <2>1, <2>2, <2>3, <2>4
  <2>6. \A k \in 1..(i - 1) : bytes[k] = c[k]
    BY <2>1, <2>5
  <2>7. \A k \in (((i - 1) + 1) + 1)..Len(c) : bytes[(k - 1) + 0] = c[k]
    <3>1. TAKE k \in (((i - 1) + 1) + 1)..Len(c)
    <3>2. /\ k - i \in 1..(Len(c) - i) /\ (i - 1) + (k - i) = (k - 1) + 0 /\ i + (k - i) = k
      BY <1>2
    <3> QED
      BY <2>2, <2>5, <3>2
  <2>8. Spliced(c, bytes, i - 1, 1, 0)
    <3>1. (i - 1) + 1 <= Len(c) /\ Len(bytes) = (Len(c) - 1) + 0
      BY <1>2, <2>5
    <3>2. ((i - 1) + 1)..((i - 1) + 0) = {}
      BY <1>2
    <3> QED
      BY <2>6, <2>7, <3>1, <3>2 DEF Spliced
  <2> QED
    BY <2>5, <2>8
<1>4. CASE bytes = ReplaceAt(c, i, Delimiter) \/ bytes = ReplaceAt(c, i, Noise)
  <2>1. PICK b \in {Delimiter, Noise} : bytes = [c EXCEPT ![i] = b]
    BY <1>4 DEF ReplaceAt
  <2>2. b \in Byte
    BY FrameFacts
  <2>3. /\ bytes \in Seq(Byte) /\ Len(bytes) = Len(c)
        /\ \A k \in 1..Len(c) : bytes[k] = IF k = i THEN b ELSE c[k]
    BY <2>1, <2>2, ExceptSeq
  <2>4. \A k \in 1..(i - 1) : bytes[k] = c[k]
    BY <1>2, <2>3
  <2>5. \A k \in ((i - 1) + 1)..((i - 1) + 1) : bytes[k] \in {Delimiter, Noise}
    BY <1>2, <2>3
  <2>6. \A k \in (((i - 1) + 1) + 1)..Len(c) : bytes[(k - 1) + 1] = c[k]
    <3>1. TAKE k \in (((i - 1) + 1) + 1)..Len(c)
    <3>2. k \in 1..Len(c) /\ (k - 1) + 1 = k /\ k # i
      BY <1>2
    <3> QED
      BY <2>3, <3>2
  <2>7. Spliced(c, bytes, i - 1, 1, 1)
    <3>1. (i - 1) + 1 <= Len(c) /\ Len(bytes) = (Len(c) - 1) + 1
      BY <1>2, <2>3
    <3> QED
      BY <2>4, <2>5, <2>6, <3>1 DEF Spliced
  <2> QED
    BY <2>3, <2>7
<1> QED
  BY <1>1, <1>3, <1>4

(* The receive interrupt keeps a prefix of what arrives.                      *)
Keeps(c, w) ==
    /\ w \in 0..Len(c) /\ rx_ring' = rx_ring \o SubSeq(c, 1, w)
    /\ w = Len(c) => allowed' = allowed
    /\ w < Len(c) => allowed' = allowed + ((Len(c) - w) + 1)

LEMMA TroubleStep ==
    ASSUME NEW n \in Nat, NEW cost \in Nat, Trouble(n, cost),
           troubles \in 0..MaxTroubles, allowed \in Nat
    PROVE  troubles' \in 0..MaxTroubles /\ allowed' = allowed + cost /\ allowed' \in Nat
BY BoundsAssumption DEF Trouble

LEMMA ReceiveStep ==
    ASSUME Typed, NEW c \in Seq(Byte), RxReady(c)
    PROVE  /\ \E w : Keeps(c, w)
           /\ rx_ring' \in Seq(Byte) /\ Len(rx_ring') <= RxRingBytes
           /\ troubles' \in 0..MaxTroubles /\ allowed' \in Nat
<1> DEFINE room == RxRingBytes - Len(rx_ring)
           w == Min({Len(c), room})
           dropped == Len(c) - w
<1>1. /\ rx_ring \in Seq(Byte) /\ Len(rx_ring) <= RxRingBytes /\ RxRingBytes \in Nat
      /\ troubles \in 0..MaxTroubles /\ allowed \in Nat
  BY SizesAssumption DEF Typed, TypeOK
<1>2. Len(c) \in Nat /\ Len(rx_ring) \in Nat
  BY <1>1, LenProperties
<1>3. room \in Nat
  BY <1>1, <1>2
<1>4. /\ rx_ring' = rx_ring \o SubSeq(c, 1, w)
      /\ IF dropped = 0 THEN UNCHANGED <<troubles, allowed>> ELSE Trouble(dropped, dropped + 1)
  BY DEF RxReady
<1> HIDE DEF room
<1>5. w \in {Len(c), room} /\ w <= Len(c) /\ w <= room
  <2>1. Len(c) \in Int /\ room \in Int
    BY <1>2, <1>3
  <2> QED
    BY <2>1, MinOfTwo
<1> HIDE DEF w
<1>6. w \in 0..Len(c) /\ dropped \in Nat /\ dropped + 1 \in Nat /\ w \in Nat
  BY <1>2, <1>3, <1>5
<1>7. SubSeq(c, 1, w) \in Seq(Byte) /\ Len(SubSeq(c, 1, w)) = w
  BY <1>6, PrefixFacts
<1>8. rx_ring' \in Seq(Byte) /\ Len(rx_ring') = Len(rx_ring) + w
  BY <1>1, <1>4, <1>7, ConcatProperties
<1>9. Len(rx_ring') <= RxRingBytes
  BY <1>1, <1>2, <1>3, <1>5, <1>6, <1>8 DEF room
<1>10. CASE dropped = 0
  <2>1. w = Len(c) /\ troubles' = troubles /\ allowed' = allowed
    BY <1>2, <1>4, <1>6, <1>10
  <2>2. Keeps(c, w)
    BY <1>4, <1>6, <2>1 DEF Keeps
  <2> QED
    BY <1>1, <1>8, <1>9, <2>1, <2>2
<1>11. CASE dropped # 0
  <2>1. Trouble(dropped, dropped + 1)
    BY <1>4, <1>11
  <2> HIDE DEF dropped
  <2>2. troubles' \in 0..MaxTroubles /\ allowed' = allowed + (dropped + 1) /\ allowed' \in Nat
    BY <1>1, <1>6, <2>1, TroubleStep
  <2>3. w < Len(c) /\ w # Len(c)
    BY <1>2, <1>6, <1>11 DEF dropped
  <2>4. Keeps(c, w)
    BY <1>4, <1>6, <2>2, <2>3 DEF Keeps, dropped
  <2> QED
    BY <1>8, <1>9, <2>2, <2>4
<1> QED
  BY <1>10, <1>11

LEMMA VersionType ==
    /\ NoVersion \in Version
    /\ \A v \in Version : /\ v["event"] \in 0..MaxTransitions /\ v["input"] \in 0..MaxTransitions
                          /\ Delta("event", v) \in Frame /\ Delta("input", v) \in Frame
                          /\ Snapshot(v) \in Frame
<1>1. NoVersion \in Version
  BY BoundsAssumption DEF NoVersion, Version
<1>2. ASSUME NEW v \in Version
      PROVE  /\ v["event"] \in 0..MaxTransitions /\ v["input"] \in 0..MaxTransitions
             /\ Delta("event", v) \in Frame /\ Delta("input", v) \in Frame
             /\ Snapshot(v) \in Frame
  <2>1. v["event"] \in 0..MaxTransitions /\ v["input"] \in 0..MaxTransitions
    BY DEF Version, Streams
  <2>2. \A s \in Streams : [NoVersion EXCEPT ![s] = v[s]] \in Version
    BY <1>1 DEF Version
  <2>3. Delta("event", v) \in Frame /\ Delta("input", v) \in Frame
    BY <2>2 DEF Delta, Frame, Streams
  <2> QED
    BY <2>1, <2>3 DEF Snapshot, Frame
<1> QED
  BY <1>1, <1>2

LEMMA HandedUpType ==
    ASSUME NEW f \in Frame, NEW v \in Version
    PROVE  HandedUp(f, v) \in Version
<1>1. f.kind \in {"event", "input", "snapshot", "beat"} /\ f.ver \in Version
  BY DEF Frame
<1>2. \A s \in Streams : [v EXCEPT ![s] = f.ver[s]] \in Version
  BY <1>1 DEF Version
<1>3. f.kind \notin {"snapshot", "beat"} => f.kind \in Streams
  BY <1>1 DEF Streams
<1> QED
  BY <1>1, <1>2, <1>3 DEF HandedUp

LEMMA MaxOfTwo ==
    ASSUME NEW a \in Int, NEW b \in Int
    PROVE  Max({a, b}) \in {a, b} /\ Max({a, b}) >= a /\ Max({a, b}) >= b
<1>1. \E x \in {a, b} : \A y \in {a, b} : x >= y
  <2>1. a >= b \/ b >= a
    OBVIOUS
  <2> QED
    BY <2>1
<1> QED
  BY <1>1 DEF Max

LEMMA NewerFacts ==
    ASSUME NEW f \in Frame, newest \in Version
    PROVE  /\ Newer(f) \in Version
           /\ LET h == HandedUp(f, newest)["event"]
              IN  /\ Newer(f)["event"] \in {newest["event"], h}
                  /\ Newer(f)["event"] >= newest["event"] /\ Newer(f)["event"] >= h
<1> DEFINE H == HandedUp(f, newest)
<1>1. H \in Version
  BY HandedUpType
<1> HIDE DEF H
<1>2. \A s \in Streams : newest[s] \in 0..MaxTransitions /\ H[s] \in 0..MaxTransitions
  BY <1>1 DEF Version
<1>3. \A s \in Streams : /\ Max({newest[s], H[s]}) \in {newest[s], H[s]}
                         /\ Max({newest[s], H[s]}) >= newest[s] /\ Max({newest[s], H[s]}) >= H[s]
  <2>1. TAKE s \in Streams
  <2>2. newest[s] \in Int /\ H[s] \in Int
    BY <1>2
  <2> QED
    BY <2>2, MaxOfTwo
<1>4. Newer(f) = [s \in Streams |-> Max({newest[s], H[s]})]
  BY DEF Newer, H
<1>5. \A s \in Streams : Max({newest[s], H[s]}) \in 0..MaxTransitions
  BY <1>2, <1>3
<1>6. Newer(f) \in Version
  BY <1>4, <1>5 DEF Version
<1>7. Newer(f)["event"] = Max({newest["event"], H["event"]}) /\ "event" \in Streams
  BY <1>4 DEF Streams
<1> QED
  BY <1>3, <1>6, <1>7 DEF H

-----------------------------------------------------------------------------
(* Types, rings and parser.                                                   *)

LEMMA OnFrameTypes ==
    ASSUME Typed, NEW f \in Frame, wire_on_frame(f)
    PROVE  applied' \in Version /\ newest' \in Version /\ owed' \in Seq(Frame) /\ skipped' \in Nat
<1> DEFINE k == Arrived(owed, f)
<1>1. /\ applied \in Version /\ newest \in Version /\ owed \in Seq(Frame) /\ skipped \in Nat
  BY DEF Typed, TypeOK
<1>2. /\ applied' = HandedUp(f, applied) /\ newest' = Newer(f)
      /\ owed' = SubSeq(owed, k + 1, Len(owed))
      /\ skipped' = skipped + (IF k = 0 THEN 0 ELSE k - 1)
  BY DEF wire_on_frame, Arrived
<1>3. k \in 0..Len(owed)
  BY <1>1, SelectFirst
<1> HIDE DEF k
<1>4. owed' \in Seq(Frame)
  BY <1>1, <1>2, <1>3, SuffixFacts
<1>5. Len(owed) \in Nat
  BY <1>1, LenProperties
<1>6. skipped' \in Nat
  BY <1>1, <1>2, <1>3, <1>5
<1> QED
  BY <1>1, <1>2, <1>4, <1>6, HandedUpType, NewerFacts

LEMMA ProcessTypes ==
    ASSUME Typed, Parsing, wire_process_ring
    PROVE  /\ rx_ring' \in Seq(Byte) /\ Len(rx_ring') <= RxRingBytes
           /\ accumulator' \in Seq(Byte) /\ Len(accumulator') <= AccumulatorBytes
           /\ discarding' \in BOOLEAN
           /\ applied' \in Version /\ newest' \in Version /\ owed' \in Seq(Frame) /\ skipped' \in Nat
           /\ Parsing'
<1> DEFINE byte == Head(rx_ring)
<1>1. /\ rx_ring \in Seq(Byte) /\ Len(rx_ring) <= RxRingBytes /\ accumulator \in Seq(Byte)
      /\ Len(accumulator) <= AccumulatorBytes /\ discarding \in BOOLEAN
      /\ applied \in Version /\ newest \in Version /\ owed \in Seq(Frame) /\ skipped \in Nat
      /\ RxRingBytes \in Nat /\ AccumulatorBytes \in Nat
  BY SizesAssumption DEF Typed, TypeOK
<1>2. /\ rx_ring # <<>> /\ rx_ring' = Tail(rx_ring)
      /\ IF byte = Delimiter THEN FrameEnd ELSE Accumulate(byte)
  BY DEF wire_process_ring, wire_frame_parser_ingest
<1>3. rx_ring' \in Seq(Byte) /\ Len(rx_ring') = Len(rx_ring) - 1 /\ byte \in Byte
  BY <1>1, <1>2, HeadTailProperties
<1>4. Len(rx_ring) \in Nat /\ Len(accumulator) \in Nat /\ Len(rx_ring') <= RxRingBytes
  BY <1>1, <1>3, LenProperties
<1> HIDE DEF byte
<1>5. CASE byte = Delimiter
  <2>1. /\ accumulator' = <<>> /\ discarding' = FALSE
        /\ IF ~discarding /\ Whole(accumulator) THEN wire_on_frame(accumulator[1].of)
           ELSE UNCHANGED <<applied, newest, owed, skipped>>
    BY <1>2, <1>5 DEF FrameEnd
  <2>2. /\ accumulator' \in Seq(Byte) /\ Len(accumulator') = 0 /\ discarding' \in BOOLEAN
    BY <2>1, EmptySeq
  <2>3. Parsing'
    BY <2>1, <2>2 DEF Parsing
  <2>4. applied' \in Version /\ newest' \in Version /\ owed' \in Seq(Frame) /\ skipped' \in Nat
    <3>1. CASE ~discarding /\ Whole(accumulator)
      <4>1. Len(accumulator) # 0
        BY <1>1, <3>1, EmptyBytes DEF Whole
      <4>2. accumulator[1].of \in Frame
        BY <1>1, <1>4, <4>1, At
      <4> QED
        BY <2>1, <3>1, <4>2, OnFrameTypes
    <3>2. CASE ~(~discarding /\ Whole(accumulator))
      BY <1>1, <2>1, <3>2
    <3> QED
      BY <3>1, <3>2
  <2> QED
    BY <1>1, <1>3, <1>4, <2>2, <2>3, <2>4
<1>6. CASE byte # Delimiter
  <2>1. /\ discarding' = (discarding \/ Len(accumulator) >= AccumulatorBytes)
        /\ accumulator' = IF discarding' THEN <<>> ELSE Append(accumulator, byte)
        /\ UNCHANGED <<applied, newest, owed, skipped>>
    BY <1>2, <1>6 DEF Accumulate
  <2>2. discarding' \in BOOLEAN
    BY <2>1, Zenon
  <2>3. CASE discarding'
    <3>1. accumulator' = <<>>
      BY <2>1, <2>3
    <3>2. accumulator' \in Seq(Byte) /\ Len(accumulator') = 0
      BY <3>1, EmptySeq
    <3>3. Parsing'
      BY <3>1, <3>2 DEF Parsing
    <3> QED
      BY <1>1, <1>3, <1>4, <2>1, <2>2, <3>2, <3>3
  <2>4. CASE ~discarding'
    <3>1. accumulator' = Append(accumulator, byte) /\ ~(Len(accumulator) >= AccumulatorBytes)
      BY <2>1, <2>4
    <3>2. /\ accumulator' \in Seq(Byte) /\ Len(accumulator') = Len(accumulator) + 1
          /\ \A i \in 1..Len(accumulator) : accumulator'[i] = accumulator[i]
          /\ accumulator'[Len(accumulator) + 1] = byte
      BY <1>1, <1>3, <3>1, AppendProperties
    <3>3. Len(accumulator') <= AccumulatorBytes
      BY <1>1, <1>4, <3>1, <3>2
    <3>4. \A i \in 1..Len(accumulator') : accumulator'[i] # Delimiter
      BY <1>4, <1>6, <3>2 DEF Parsing
    <3>5. Parsing'
      BY <2>4, <3>4 DEF Parsing
    <3> QED
      BY <1>1, <1>3, <1>4, <2>1, <2>2, <3>2, <3>3, <3>5
  <2> QED
    BY <2>3, <2>4
<1> QED
  BY <1>5, <1>6

LEMMA ShapeInit ==
    ASSUME Init
    PROVE  Typed /\ Framed /\ Parsing
<1>1. /\ \A r \in Rings : rings[r] = <<>>
      /\ rings = [r \in Rings |-> <<>>] /\ rx_ring = <<>> /\ accumulator = <<>> /\ owed = <<>>
      /\ wire_tx_frame_ring = "none"
  BY DEF Init
<1>2. /\ <<>> \in Seq(Byte) /\ Len(<<>>) = 0 /\ <<>> \in Seq(Frame)
  BY EmptySeq
<1>3. Range(owed) \subseteq Frame
  BY <1>1, <1>2, SeqRange
<1>4. \A r \in Rings : Len(rings[r]) <= RingBytes[r]
  BY <1>1, <1>2, SizesAssumption DEF RingBytes, Rings
<1>5. TypeOK
  <2>1. /\ ver \in Version /\ applied \in Version /\ newest \in Version
        /\ noted \in BOOLEAN /\ idle \in BOOLEAN /\ tx_enabled \in BOOLEAN
        /\ discarding \in BOOLEAN
        /\ wire_tx_frame_ring \in Rings \union {"none"}
    BY VersionType DEF Init
  <2>2. Len(rx_ring) <= RxRingBytes /\ Len(accumulator) <= AccumulatorBytes
    BY <1>1, <1>2, SizesAssumption
  <2>3. skipped \in Nat /\ allowed \in Nat /\ troubles \in 0..MaxTroubles
    BY BoundsAssumption DEF Init
  <2> QED
    BY <1>3, <1>4, <2>1, <2>2, <2>3 DEF TypeOK
<1>6. Typed
  BY <1>1, <1>2, <1>5 DEF Typed
<1>7. Framed
  <2>1. Formed(<<>>) /\ AtBoundary(<<>>)
    BY <1>2 DEF Formed, AtBoundary
  <2>2. \A r \in Rings : wire_tx_frame_ring # r
    BY <1>1 DEF Rings
  <2> QED
    BY <1>1, <2>1, <2>2 DEF Framed, RingsHoldFrames
<1>8. Parsing
  BY <1>1, <1>2 DEF Init, Parsing
<1> QED
  BY <1>6, <1>7, <1>8

LEMMA QueueShape ==
    ASSUME Typed, Framed, Parsing, NEW r \in Rings, NEW f \in Frame, wire_link_enqueue(r, f),
           ver' \in Version, noted' \in BOOLEAN, idle' \in BOOLEAN,
           UNCHANGED <<rx_vars, count_vars>>
    PROVE  Typed' /\ Framed' /\ Parsing'
<1>1. /\ rings' \in [Rings -> Seq(Byte)] /\ tx_enabled' \in BOOLEAN
      /\ wire_tx_frame_ring' = wire_tx_frame_ring /\ Framed'
      /\ \A q \in Rings : Len(rings'[q]) <= RingBytes[q]
  BY EnqueueStep
<1>2. /\ rx_ring' = rx_ring /\ accumulator' = accumulator /\ discarding' = discarding
      /\ applied' = applied /\ newest' = newest /\ owed' = owed /\ skipped' = skipped
      /\ allowed' = allowed /\ troubles' = troubles
  BY DEF rx_vars, count_vars
<1>3. Typed'
  BY <1>1, <1>2 DEF Typed, TypeOK
<1>4. Parsing'
  BY <1>2 DEF Parsing
<1> QED
  BY <1>1, <1>3, <1>4

LEMMA SendTypes ==
    ASSUME Typed, Framed, NEW n \in ChunkSizes, TxReady(n)
    PROVE  /\ Chunk(n) \in Seq(Byte) /\ owed' \in Seq(Frame)
           /\ \A p, s, c, t : Sends(p, n, s, c, t) =>
                 /\ s \in Seq(Byte) /\ Formed(s) /\ c \in Seq(Byte) /\ t \in Seq(Byte)
                 /\ Starting(c) = Started(s, n)
<1>1. ASSUME NEW p, NEW s, NEW c, NEW t, Sends(p, n, s, c, t)
      PROVE  /\ s \in Seq(Byte) /\ Formed(s) /\ c \in Seq(Byte) /\ t \in Seq(Byte)
             /\ Starting(c) = Started(s, n) /\ Started(s, n) \in Seq(Frame) /\ c = Chunk(n)
  <2>1. /\ p \in Rings /\ s = rings[p] /\ n \in 1..Len(s) /\ Sent(s, n, c, t) /\ c = Chunk(n)
    BY <1>1 DEF Sends
  <2>2. s \in Seq(Byte) /\ Formed(s)
    BY <2>1, RingFacts
  <2>3. n \in 0..Len(s) /\ c = SubSeq(s, 1, n)
    BY <2>1, <2>2, LenProperties DEF Sent
  <2>4. c \in Seq(Byte) /\ t \in Seq(Byte)
    BY <2>1, <2>2, SentBytes
  <2>5. Starting(c) = Started(s, n) /\ Started(s, n) \in Seq(Frame)
    BY <2>2, <2>3, StartedAlways
  <2> QED
    BY <2>1, <2>2, <2>4, <2>5
<1>2. PICK p, s, c, t : Sends(p, n, s, c, t)
  BY SendStep
<1>3. Chunk(n) \in Seq(Byte) /\ Starting(Chunk(n)) \in Seq(Frame)
  BY <1>1, <1>2
<1>4. owed' = owed \o Starting(Chunk(n)) /\ owed \in Seq(Frame)
  BY DEF TxReady, Typed
<1>5. owed' \in Seq(Frame)
  BY <1>3, <1>4, ConcatProperties
<1> QED
  BY <1>1, <1>3, <1>5

LEMMA SendShape ==
    ASSUME Typed, Framed, Parsing, NEW n \in ChunkSizes, TxReady(n),
           rx_ring' \in Seq(Byte), Len(rx_ring') <= RxRingBytes,
           troubles' \in 0..MaxTroubles, allowed' \in Nat
    PROVE  Typed' /\ Framed' /\ Parsing'
<1>1. /\ rings' \in [Rings -> Seq(Byte)] /\ wire_tx_frame_ring' \in Rings \union {"none"}
      /\ \A q \in Rings : Len(rings'[q]) <= RingBytes[q]
      /\ Framed'
  BY SendStep
<1>2. owed' \in Seq(Frame)
  BY SendTypes
<1>3. /\ ver' = ver /\ noted' = noted /\ tx_enabled' = tx_enabled /\ idle' = idle
      /\ accumulator' = accumulator /\ discarding' = discarding /\ applied' = applied
      /\ newest' = newest /\ skipped' = skipped
  BY DEF TxReady
<1>4. Range(owed') \subseteq Frame
  BY <1>2, SeqRange
<1>5. Typed'
  BY <1>1, <1>2, <1>3, <1>4 DEF Typed, TypeOK
<1>6. Parsing'
  BY <1>3 DEF Parsing
<1> QED
  BY <1>1, <1>5, <1>6

LEMMA ShapeStep ==
    ASSUME Typed, Framed, Parsing, [Next]_vars
    PROVE  Typed' /\ Framed' /\ Parsing'
<1>1. /\ ver \in Version /\ applied \in Version /\ newest \in Version
      /\ noted \in BOOLEAN /\ idle \in BOOLEAN /\ tx_enabled \in BOOLEAN /\ discarding \in BOOLEAN
      /\ wire_tx_frame_ring \in Rings \union {"none"}
      /\ Len(rx_ring) <= RxRingBytes /\ Len(accumulator) <= AccumulatorBytes
      /\ skipped \in Nat /\ allowed \in Nat /\ troubles \in 0..MaxTroubles
      /\ rings \in [Rings -> Seq(Byte)] /\ rx_ring \in Seq(Byte) /\ accumulator \in Seq(Byte)
      /\ owed \in Seq(Frame) /\ Range(owed) \subseteq Frame
      /\ \A r \in Rings : Len(rings[r]) <= RingBytes[r]
  BY DEF Typed, TypeOK
<1>2. ASSUME wire_peripheral_report_event PROVE Typed' /\ Framed' /\ Parsing'
  <2>1. /\ Transitions(ver) < MaxTransitions /\ ver' = [ver EXCEPT !["event"] = @ + 1]
        /\ wire_link_enqueue("event", Delta("event", ver'))
        /\ idle' = (idle /\ ~Fits("event", Delta("event", ver')))
        /\ noted' = noted /\ UNCHANGED <<rx_vars, count_vars>>
    BY <1>2 DEF wire_peripheral_report_event
  <2>2. ver' \in Version
    BY <1>1, <2>1, BoundsAssumption, SMTT(20) DEF Version, Streams, Transitions
  <2>3. idle' \in BOOLEAN
    BY <1>1, <2>1, Zenon
  <2>4. "event" \in Rings /\ Delta("event", ver') \in Frame
    BY <2>2, VersionType DEF Rings
  <2> QED
    BY <1>1, <2>1, <2>2, <2>3, <2>4, QueueShape
<1>3. ASSUME peripheral_input_note_event PROVE Typed' /\ Framed' /\ Parsing'
  <2>1. /\ Transitions(ver) < MaxTransitions /\ ver' = [ver EXCEPT !["input"] = @ + 1]
        /\ noted' = TRUE
        /\ UNCHANGED <<tx_vars, idle, rx_vars, count_vars>>
    BY <1>3 DEF peripheral_input_note_event
  <2>2. ver' \in Version
    BY <1>1, <2>1, BoundsAssumption, SMTT(20) DEF Version, Streams, Transitions
  <2> QED
    BY <1>1, <2>1, <2>2
       DEF Typed, TypeOK, Framed, RingsHoldFrames, Parsing, tx_vars, rx_vars, count_vars
<1>4. ASSUME wire_link_send_input PROVE Typed' /\ Framed' /\ Parsing'
  <2>1. /\ wire_link_enqueue("input", Delta("input", ver)) /\ noted' = FALSE
        /\ idle' = (idle /\ ~Fits("input", Delta("input", ver)))
        /\ ver' = ver /\ UNCHANGED <<rx_vars, count_vars>>
    BY <1>4 DEF wire_link_send_input
  <2>2. idle' \in BOOLEAN
    BY <1>1, <2>1, Zenon
  <2>3. "input" \in Rings /\ Delta("input", ver) \in Frame
    BY <1>1, VersionType DEF Rings
  <2> QED
    BY <1>1, <2>1, <2>2, <2>3, QueueShape
<1>5. ASSUME wire_peripheral_keepalive_fire PROVE Typed' /\ Framed' /\ Parsing'
  <2>1. /\ wire_link_enqueue("keepalive", Snapshot(ver))
        /\ idle' = ~Fits("keepalive", Snapshot(ver))
        /\ ver' = ver /\ noted' = noted /\ UNCHANGED <<rx_vars, count_vars>>
    BY <1>5 DEF wire_peripheral_keepalive_fire
  <2>2. idle' \in BOOLEAN
    BY <2>1, Zenon
  <2>3. "keepalive" \in Rings /\ Snapshot(ver) \in Frame
    BY <1>1, VersionType DEF Rings
  <2> QED
    BY <1>1, <2>1, <2>2, <2>3, QueueShape
<1>6. ASSUME wire_keepalive_fire PROVE Typed' /\ Framed' /\ Parsing'
  <2>1. /\ wire_link_enqueue("keepalive", Beat)
        /\ ver' = ver /\ noted' = noted /\ idle' = idle /\ UNCHANGED <<rx_vars, count_vars>>
    BY <1>6 DEF wire_keepalive_fire
  <2>2. "keepalive" \in Rings /\ Beat \in Frame
    BY FrameFacts DEF Rings
  <2> QED
    BY <1>1, <2>1, <2>2, QueueShape
<1>7. ASSUME IdleElapses PROVE Typed' /\ Framed' /\ Parsing'
  BY <1>1, <1>7 DEF IdleElapses, Typed, TypeOK, Framed, RingsHoldFrames, Parsing, tx_vars, rx_vars,
                    count_vars
<1>8. ASSUME BytesArrive PROVE Typed' /\ Framed' /\ Parsing'
  <2>1. PICK n \in ChunkSizes : TxReady(n) /\ RxReady(Chunk(n))
    BY <1>8 DEF BytesArrive
  <2>2. Chunk(n) \in Seq(Byte)
    BY <2>1, SendTypes
  <2> QED
    BY <2>1, <2>2, ReceiveStep, SendShape
<1>9. ASSUME BytesDamaged PROVE Typed' /\ Framed' /\ Parsing'
  <2>1. PICK n \in ChunkSizes : TxReady(n) /\ \E bytes \in Damaged(Chunk(n)) : DamagedReady(bytes)
    BY <1>9 DEF BytesDamaged
  <2>2. PICK bytes \in Damaged(Chunk(n)) : DamagedReady(bytes)
    BY <2>1
  <2>3. bytes \in Seq(Byte)
    BY <2>1, SendTypes, DamagedFacts
  <2>4. /\ Len(rx_ring) + Len(bytes) <= RxRingBytes
        /\ rx_ring' = rx_ring \o bytes /\ Trouble(1, 2)
    BY <2>2 DEF DamagedReady
  <2>5. rx_ring' \in Seq(Byte) /\ Len(rx_ring') <= RxRingBytes
    BY <1>1, <2>3, <2>4, ConcatProperties
  <2>6. troubles' \in 0..MaxTroubles /\ allowed' \in Nat
    BY <1>1, <2>4, TroubleStep
  <2> QED
    BY <2>1, <2>5, <2>6, SendShape
<1>10. ASSUME TxIdle PROVE Typed' /\ Framed' /\ Parsing'
  BY <1>1, <1>10 DEF TxIdle, Typed, TypeOK, Framed, RingsHoldFrames, Parsing, rx_vars, count_vars
<1>11. ASSUME wire_process_ring PROVE Typed' /\ Framed' /\ Parsing'
  <2>1. /\ ver' = ver /\ noted' = noted /\ rings' = rings /\ tx_enabled' = tx_enabled
        /\ wire_tx_frame_ring' = wire_tx_frame_ring /\ idle' = idle
        /\ allowed' = allowed /\ troubles' = troubles
    BY <1>11 DEF wire_process_ring, tx_vars
  <2>2. /\ rx_ring' \in Seq(Byte) /\ Len(rx_ring') <= RxRingBytes
        /\ accumulator' \in Seq(Byte) /\ Len(accumulator') <= AccumulatorBytes
        /\ discarding' \in BOOLEAN
        /\ applied' \in Version /\ newest' \in Version /\ owed' \in Seq(Frame) /\ skipped' \in Nat
        /\ Parsing'
    BY <1>11, ProcessTypes
  <2>3. Range(owed') \subseteq Frame
    BY <2>2, SeqRange
  <2> QED
    BY <1>1, <2>1, <2>2, <2>3 DEF Typed, TypeOK, Framed, RingsHoldFrames
<1>12. ASSUME PeripheralReboot PROVE Typed' /\ Framed' /\ Parsing'
  <2>1. /\ ver' = [s \in Streams |-> ver[s] + (ver[s] % 2)] /\ noted' = FALSE
        /\ Transitions(ver') <= MaxTransitions
        /\ rings' = [r \in Rings |-> <<>>] /\ wire_tx_frame_ring' = "none" /\ tx_enabled' = FALSE
        /\ idle' = FALSE /\ Trouble(1, 2)
        /\ UNCHANGED <<rx_vars, owed, skipped>>
    BY <1>12 DEF PeripheralReboot
  <2>2. ver' \in Version
    <3>1. \A s \in Streams : ver[s] \in Nat /\ ver[s] % 2 \in Nat
      BY <1>1 DEF Version
    <3>2. \A s \in Streams : ver'[s] \in Nat
      BY <2>1, <3>1
    <3>3. ver'["event"] + ver'["input"] <= MaxTransitions
      BY <2>1 DEF Transitions
    <3>4. \A s \in Streams : ver'[s] \in 0..MaxTransitions
      BY <3>2, <3>3, BoundsAssumption DEF Streams
    <3> QED
      BY <2>1, <3>4 DEF Version
  <2>3. troubles' \in 0..MaxTroubles /\ allowed' \in Nat
    BY <1>1, <2>1, TroubleStep
  <2>4. /\ <<>> \in Seq(Byte) /\ Len(<<>>) = 0
    BY EmptySeq
  <2>5. \A r \in Rings : Len(rings'[r]) <= RingBytes[r]
    BY <2>1, <2>4, SizesAssumption DEF RingBytes, Rings
  <2>6. Typed'
    BY <1>1, <2>1, <2>2, <2>3, <2>4, <2>5 DEF Typed, TypeOK, rx_vars
  <2>7. Framed'
    <3>1. Formed(<<>>) /\ AtBoundary(<<>>)
      BY <2>4 DEF Formed, AtBoundary
    <3> QED
      BY <2>1, <3>1 DEF Framed, RingsHoldFrames, Rings
  <2>8. Parsing'
    BY <2>1 DEF Parsing, rx_vars
  <2> QED
    BY <2>6, <2>7, <2>8
<1>13. ASSUME ReceiverReboot PROVE Typed' /\ Framed' /\ Parsing'
  <2>1. /\ rx_ring' = <<>> /\ accumulator' = <<>> /\ discarding' = FALSE
        /\ applied' = NoVersion /\ Trouble(1, Len(owed))
        /\ UNCHANGED <<ver, noted, tx_vars, idle, newest, owed, skipped>>
    BY <1>13 DEF ReceiverReboot
  <2>2. Len(owed) \in Nat
    BY <1>1, LenProperties
  <2>3. troubles' \in 0..MaxTroubles /\ allowed' \in Nat
    BY <1>1, <2>1, <2>2, TroubleStep
  <2>4. /\ <<>> \in Seq(Byte) /\ Len(<<>>) = 0
    BY EmptySeq
  <2>5. Len(rx_ring') <= RxRingBytes /\ Len(accumulator') <= AccumulatorBytes
    BY <2>1, <2>4, SizesAssumption
  <2>6. Typed'
    BY <1>1, <2>1, <2>3, <2>4, <2>5, VersionType DEF Typed, TypeOK, tx_vars
  <2>7. Framed'
    BY <2>1 DEF Framed, RingsHoldFrames, tx_vars
  <2>8. Parsing'
    BY <2>1, <2>4 DEF Parsing
  <2> QED
    BY <2>6, <2>7, <2>8
<1>14. ASSUME UNCHANGED vars PROVE Typed' /\ Framed' /\ Parsing'
  BY <1>1, <1>14 DEF Typed, TypeOK, Framed, RingsHoldFrames, Parsing, vars, tx_vars, rx_vars,
                     count_vars
<1> QED
  BY <1>2, <1>3, <1>4, <1>5, <1>6, <1>7, <1>8, <1>9, <1>10, <1>11, <1>12, <1>13, <1>14 DEF Next

-----------------------------------------------------------------------------
(* Where on the stream a step bites.                                          *)

(* A splice of c is a splice of any stream that c is a part of.               *)
LEMMA SpliceIn ==
    ASSUME NEW H \in Seq(Byte), NEW c \in Seq(Byte), NEW b \in Seq(Byte), NEW R \in Seq(Byte),
           NEW a \in Nat, NEW n \in Nat, NEW s \in Nat, Spliced(c, b, a, n, s)
    PROVE  Spliced((H \o c) \o R, (H \o b) \o R, Len(H) + a, n, s)
<1> DEFINE l == Len(H)
           X == (H \o c) \o R
           Y == (H \o b) \o R
<1>1. l \in Nat /\ Len(c) \in Nat /\ Len(b) \in Nat /\ Len(R) \in Nat
  BY LenProperties
<1>2. ASSUME NEW d \in Seq(Byte)
      PROVE  /\ Len((H \o d) \o R) = (l + Len(d)) + Len(R)
             /\ \A i \in 1..l : ((H \o d) \o R)[i] = H[i]
             /\ \A i \in 1..Len(d) : ((H \o d) \o R)[l + i] = d[i]
             /\ \A i \in 1..Len(R) : ((H \o d) \o R)[(l + Len(d)) + i] = R[i]
  <2> DEFINE D == H \o d
             Z == D \o R
  <2>1. /\ D \in Seq(Byte) /\ Len(D) = l + Len(d)
        /\ \A i \in 1..l : D[i] = H[i]
        /\ \A i \in 1..Len(d) : D[l + i] = d[i]
    BY ConcatAt
  <2> HIDE DEF D
  <2>2. /\ Len(Z) = Len(D) + Len(R)
        /\ \A i \in 1..Len(D) : Z[i] = D[i]
        /\ \A i \in 1..Len(R) : Z[Len(D) + i] = R[i]
    BY <2>1, ConcatAt
  <2> HIDE DEF Z, l
  <2>3. Len(d) \in Nat
    BY LenProperties
  <2>4. \A i \in 1..l : Z[i] = H[i]
    <3>1. TAKE i \in 1..l
    <3>2. i \in 1..Len(D)
      BY <1>1, <2>1, <2>3
    <3> QED
      BY <2>1, <2>2, <3>2
  <2>5. \A i \in 1..Len(d) : Z[l + i] = d[i]
    <3>1. TAKE i \in 1..Len(d)
    <3>2. l + i \in 1..Len(D)
      BY <1>1, <2>1, <2>3
    <3>3. Z[l + i] = D[l + i] /\ D[l + i] = d[i]
      BY <2>1, <2>2, <3>2
    <3> QED
      BY <3>3
  <2>6. Len(Z) = (l + Len(d)) + Len(R) /\ \A i \in 1..Len(R) : Z[(l + Len(d)) + i] = R[i]
    BY <2>1, <2>2
  <2> QED
    BY <2>4, <2>5, <2>6 DEF Z, D
<1>3. /\ Len(X) = (l + Len(c)) + Len(R)
      /\ \A i \in 1..l : X[i] = H[i]
      /\ \A i \in 1..Len(c) : X[l + i] = c[i]
      /\ \A i \in 1..Len(R) : X[(l + Len(c)) + i] = R[i]
  BY <1>2
<1>4. /\ Len(Y) = (l + Len(b)) + Len(R)
      /\ \A i \in 1..l : Y[i] = H[i]
      /\ \A i \in 1..Len(b) : Y[l + i] = b[i]
      /\ \A i \in 1..Len(R) : Y[(l + Len(b)) + i] = R[i]
  BY <1>2
<1> HIDE DEF X, Y, l
<1>5. /\ a + n <= Len(c) /\ Len(b) = (Len(c) - n) + s
      /\ \A i \in 1..a : b[i] = c[i]
      /\ \A i \in (a + 1)..(a + s) : b[i] \in {Delimiter, Noise}
      /\ \A i \in (a + n + 1)..Len(c) : b[(i - n) + s] = c[i]
  BY DEF Spliced
<1>6. (l + a) + n <= Len(X) /\ Len(Y) = (Len(X) - n) + s
  BY <1>1, <1>3, <1>4, <1>5
<1>7. ASSUME NEW i \in 1..(l + a) PROVE Y[i] = X[i]
  <2>1. CASE i <= l
    <3>1. i \in 1..l
      BY <1>1, <2>1
    <3> QED
      BY <1>3, <1>4, <3>1
  <2>2. CASE i > l
    <3>1. PICK k \in 1..a : i = l + k
      <4>1. i - l \in 1..a /\ i = l + (i - l)
        BY <1>1, <2>2
      <4> QED
        BY <4>1
    <3>2. k \in 1..Len(b) /\ k \in 1..Len(c)
      BY <1>1, <1>5, <3>1, SMTT(20)
    <3> QED
      BY <1>3, <1>4, <1>5, <3>1, <3>2
  <2> QED
    BY <1>1, <2>1, <2>2
<1>8. ASSUME NEW i \in ((l + a) + 1)..((l + a) + s) PROVE Y[i] \in {Delimiter, Noise}
  <2>1. PICK k \in (a + 1)..(a + s) : i = l + k
    <3>1. i - l \in (a + 1)..(a + s) /\ i = l + (i - l)
      BY <1>1
    <3> QED
      BY <3>1
  <2>2. k \in 1..Len(b)
    BY <1>1, <1>5, <2>1, SMTT(20)
  <2> QED
    BY <1>4, <1>5, <2>1, <2>2
<1>9. ASSUME NEW i \in ((l + a) + n + 1)..Len(X) PROVE Y[(i - n) + s] = X[i]
  <2>0. i \in Nat /\ i > (l + a) + n /\ i <= (l + Len(c)) + Len(R)
    BY <1>1, <1>3
  <2>1. CASE i <= l + Len(c)
    <3>1. PICK k \in (a + n + 1)..Len(c) : i = l + k
      <4>1. i - l \in (a + n + 1)..Len(c) /\ i = l + (i - l)
        BY <1>1, <2>0, <2>1
      <4> QED
        BY <4>1
    <3>2. /\ (k - n) + s \in 1..Len(b) /\ k \in 1..Len(c)
          /\ (i - n) + s = l + ((k - n) + s)
      BY <1>1, <1>5, <3>1
    <3>3. Y[l + ((k - n) + s)] = b[(k - n) + s]
      BY <1>4, <3>2
    <3>4. b[(k - n) + s] = c[k] /\ X[l + k] = c[k]
      BY <1>3, <1>5, <3>1, <3>2
    <3> QED
      BY <3>1, <3>2, <3>3, <3>4
  <2>2. CASE i > l + Len(c)
    <3>1. PICK k \in 1..Len(R) : i = (l + Len(c)) + k
      <4>1. i - (l + Len(c)) \in 1..Len(R) /\ i = (l + Len(c)) + (i - (l + Len(c)))
        BY <1>1, <2>0, <2>2
      <4> QED
        BY <4>1
    <3>2. (i - n) + s = (l + Len(b)) + k
      BY <1>1, <1>5, <3>1
    <3> QED
      BY <1>3, <1>4, <3>1, <3>2
  <2> QED
    BY <1>1, <2>0, <2>1, <2>2
<1>10. Spliced(X, Y, l + a, n, s)
  BY <1>6, <1>7, <1>8, <1>9 DEF Spliced
<1> QED
  BY <1>10 DEF X, Y, l

LEMMA PrefixSpliced ==
    ASSUME NEW c \in Seq(Byte), NEW w \in 0..Len(c)
    PROVE  /\ SubSeq(c, 1, w) \in Seq(Byte) /\ Len(SubSeq(c, 1, w)) = w
           /\ Len(c) - w \in Nat
           /\ Spliced(c, SubSeq(c, 1, w), w, Len(c) - w, 0)
           /\ w = Len(c) => SubSeq(c, 1, w) = c
<1> DEFINE b == SubSeq(c, 1, w)
<1>1. Len(c) \in Nat /\ w \in Nat /\ w <= Len(c)
  BY LenProperties
<1>2. b \in Seq(Byte) /\ Len(b) = w /\ \A i \in 1..w : b[i] = c[i]
  BY PrefixFacts
<1> HIDE DEF b
<1>3. /\ w + (Len(c) - w) <= Len(c) /\ Len(b) = (Len(c) - (Len(c) - w)) + 0
      /\ (w + 1)..(w + 0) = {} /\ (w + (Len(c) - w) + 1)..Len(c) = {}
  BY <1>1, <1>2
<1>4. Spliced(c, b, w, Len(c) - w, 0)
  BY <1>2, <1>3 DEF Spliced
<1>5. w = Len(c) => b = c
  BY <1>2, SeqEqual
<1> QED
  BY <1>1, <1>2, <1>4, <1>5 DEF b

(* The byte the parser takes stands between what it gathered and the rest.    *)
LEMMA NextByte ==
    ASSUME NEW P \in Seq(Byte), NEW rx \in Seq(Byte), rx # <<>>, NEW Q \in Seq(Byte)
    PROVE  /\ Head(rx) \in Byte /\ Tail(rx) \in Seq(Byte)
           /\ (P \o rx) \o Q = Append(P, Head(rx)) \o (Tail(rx) \o Q)
<1>1. Head(rx) \in Byte /\ Tail(rx) \in Seq(Byte)
  BY HeadTailProperties
<1>2. Append(P, Head(rx)) = P \o <<Head(rx)>>
  BY <1>1, AppendIsConcat
<1>3. <<Head(rx)>> \in Seq(Byte)
  BY <1>1
<1>4. rx = <<Head(rx)>> \o Tail(rx)
  BY <1>1, HeadTailProperties
<1> DEFINE h == <<Head(rx)>>
           t == Tail(rx)
           D == P \o h
<1>5. h \in Seq(Byte) /\ t \in Seq(Byte)
  BY <1>1, <1>3
<1> HIDE DEF h, t
<1>6. P \o (h \o t) = D \o t /\ D \in Seq(Byte)
  BY <1>5, ConcatAssociative, ConcatProperties, SMTT(20)
<1>7. (D \o t) \o Q = D \o (t \o Q)
  <2>1. D \in Seq(Byte)
    BY <1>6
  <2> HIDE DEF D
  <2> QED
    BY <1>5, <2>1, ConcatAssociative, SMTT(40)
<1> HIDE DEF D
<1>8. (P \o rx) \o Q = D \o (t \o Q) /\ D = Append(P, Head(rx))
  BY <1>2, <1>4, <1>6, <1>7 DEF h, t, D
<1> QED
  BY <1>1, <1>8 DEF t

(* The parser gathers bytes that are not a whole frame: they are none of the  *)
(* frames intact on the stream.                                               *)
LEMMA GatheredHead ==
    ASSUME NEW P \in Seq(Byte), NEW R \in Seq(Byte), NEW b \in Byte,
           NEW X, X = Append(P, b) \o R
    PROVE  /\ X \in Seq(Byte) /\ Len(X) = (Len(P) + 1) + Len(R)
           /\ \A i \in 1..Len(P) : X[i] = P[i]
           /\ X[Len(P) + 1] = b
           /\ \A i \in 1..Len(R) : X[(Len(P) + 1) + i] = R[i]
           /\ Len(P) \in Nat /\ Len(R) \in Nat
<1> DEFINE D == Append(P, b)
<1>1. /\ D \in Seq(Byte) /\ Len(D) = Len(P) + 1
      /\ \A i \in 1..Len(P) : D[i] = P[i]
      /\ D[Len(P) + 1] = b
  BY AppendProperties
<1>2. X = D \o R
  OBVIOUS
<1> HIDE DEF D
<1>3. /\ D \o R \in Seq(Byte) /\ Len(D \o R) = Len(D) + Len(R)
      /\ \A i \in 1..Len(D) : (D \o R)[i] = D[i]
      /\ \A i \in 1..Len(R) : (D \o R)[Len(D) + i] = R[i]
  BY <1>1, ConcatAt
<1>4. Len(P) \in Nat /\ Len(R) \in Nat
  BY LenProperties
<1>5. \A i \in 1..Len(P) : i \in 1..Len(D)
  BY <1>1, <1>4
<1>6. Len(P) + 1 \in 1..Len(D)
  BY <1>1, <1>4
<1> QED
  BY <1>1, <1>2, <1>3, <1>4, <1>5, <1>6

LEMMA CutHead ==
    ASSUME NEW P \in Seq(Byte), NEW R \in Seq(Byte), NEW X, X = Append(P, Delimiter) \o R,
           \A i \in 1..Len(P) : P[i] # Delimiter
    PROVE  CutAt(X, R, Len(P) + 1)
<1> DEFINE n == Len(P) + 1
<1>1. /\ X \in Seq(Byte) /\ Len(X) = (Len(P) + 1) + Len(R)
      /\ \A i \in 1..Len(P) : X[i] = P[i]
      /\ X[Len(P) + 1] = Delimiter
      /\ \A i \in 1..Len(R) : X[(Len(P) + 1) + i] = R[i]
      /\ Len(P) \in Nat /\ Len(R) \in Nat
  BY FrameFacts, GatheredHead
<1>2. n \in 1..Len(X) /\ 0 + n <= Len(X) /\ Len(R) = (Len(X) - n) + 0
  BY <1>1
<1>3. \A i \in 1..(n - 1) : X[i] # Delimiter
  BY <1>1
<1>4. \A i \in (0 + n + 1)..Len(X) : R[(i - n) + 0] = X[i]
  <2>1. TAKE i \in (0 + n + 1)..Len(X)
  <2>2. i - n \in 1..Len(R) /\ (i - n) + 0 = i - n /\ (Len(P) + 1) + (i - n) = i
    BY <1>1
  <2> QED
    BY <1>1, <2>2
<1>5. Spliced(X, R, 0, n, 0)
  BY <1>2, <1>4 DEF Spliced
<1> QED
  BY <1>1, <1>2, <1>3, <1>5 DEF CutAt

(* A frame is intact at the first delimiter only if it is all that was        *)
(* gathered.                                                                  *)
LEMMA FirstIntact ==
    ASSUME NEW X \in Seq(Byte), NEW m \in Nat, NEW i \in Intact(X), Start(X, i) <= m,
           \A k \in 1..m : X[k] # Delimiter
    PROVE  /\ Start(X, i) = 0 /\ i - 1 \in 1..2 /\ i - 1 = BodyBytes(X[i - 1].of)
           /\ X[i - 1].of \in Frame
           /\ \A k \in 1..(i - 1) : X[k] = [of |-> X[i - 1].of, at |-> k]
<1>1. /\ i \in 2..Len(X) /\ BodyBytes(X[i - 1].of) \in 1..2
      /\ Start(X, i) \in 0..(i - 2) /\ Start(X, i) = (i - 1) - BodyBytes(X[i - 1].of)
      /\ Clean(X, Start(X, i))
      /\ \A j \in (Start(X, i) + 1)..(i - 1) :
            X[j] # Delimiter /\ X[j] = [of |-> X[i - 1].of, at |-> j - Start(X, i)]
  BY IntactFacts
<1>2. Start(X, i) = 0
  <2>1. Start(X, i) # 0 => Start(X, i) \in 1..m
    BY <1>1
  <2> QED
    BY <1>1, <2>1 DEF Clean
<1>3. \A k \in 1..(i - 1) : X[k] = [of |-> X[i - 1].of, at |-> k]
  <2>1. TAKE k \in 1..(i - 1)
  <2>2. k \in (Start(X, i) + 1)..(i - 1) /\ k - Start(X, i) = k
    BY <1>1, <1>2
  <2> QED
    BY <1>1, <2>2
<1>4. i - 1 \in 1..2 /\ i - 1 = BodyBytes(X[i - 1].of) /\ i - 1 \in 1..Len(X)
  BY <1>1, <1>2, LenProperties
<1> QED
  BY <1>2, <1>3, <1>4, At

LEMMA CutIsWhole ==
    ASSUME NEW P \in Seq(Byte), NEW R \in Seq(Byte), NEW X, X = Append(P, Delimiter) \o R,
           \A i \in 1..Len(P) : P[i] # Delimiter,
           Len(P) + 1 \in Intact(X)
    PROVE  Whole(P) /\ P # <<>> /\ P[1] # Noise
<1> DEFINE n == Len(P) + 1
           f == X[n - 1].of
<1>1. /\ X \in Seq(Byte) /\ Len(X) = (Len(P) + 1) + Len(R)
      /\ \A i \in 1..Len(P) : X[i] = P[i]
      /\ Len(P) \in Nat /\ Len(R) \in Nat
  BY FrameFacts, GatheredHead
<1>2. n \in Intact(X) /\ n \in 1..Len(X) /\ Len(P) < n /\ n - 1 = Len(P) /\ n \in Int
  BY <1>1
<1>3. Start(X, n) <= Len(P)
  <2>1. Start(X, n) \in 0..(n - 2)
    BY <1>1, <1>2, IntactFacts
  <2> QED
    BY <1>1, <2>1
<1>4. \A k \in 1..Len(P) : X[k] # Delimiter
  BY <1>1
<1> HIDE DEF n
<1>6. /\ n - 1 \in 1..2 /\ n - 1 = BodyBytes(f) /\ f \in Frame
      /\ \A k \in 1..(n - 1) : X[k] = [of |-> f, at |-> k]
  <2> DEFINE l == Len(P)
             Z == X
  <2>1. /\ Z \in Seq(Byte) /\ l \in Nat /\ n \in Intact(Z) /\ Start(Z, n) <= l
        /\ \A k \in 1..l : Z[k] # Delimiter
    BY <1>1, <1>2, <1>3, <1>4
  <2> HIDE DEF l, Z
  <2>2. /\ n - 1 \in 1..2 /\ n - 1 = BodyBytes(Z[n - 1].of) /\ Z[n - 1].of \in Frame
        /\ \A k \in 1..(n - 1) : Z[k] = [of |-> Z[n - 1].of, at |-> k]
    BY <2>1, FirstIntact
  <2> QED
    BY <2>2 DEF Z
<1> HIDE DEF f
<1>7. Len(P) \in 1..2 /\ Len(P) = BodyBytes(f) /\ \A k \in 1..Len(P) : P[k] = [of |-> f, at |-> k]
  BY <1>1, <1>2, <1>6
<1>8. P[1] = [of |-> f, at |-> 1] /\ P # <<>>
  BY <1>7, EmptyBytes
<1>9. P = Body(f)
  <2>1. Body(f) \in Seq(Byte) /\ Len(Body(f)) = BodyBytes(f)
        /\ \A i \in 1..BodyBytes(f) : Body(f)[i] = [of |-> f, at |-> i]
    BY <1>6, BodyFacts
  <2> QED
    BY <1>7, <2>1, SeqEqual
<1>10. P[1].of = f /\ P[1].at = 1
  BY <1>8
<1>11. P[1] # Noise
  BY <1>10, FrameFacts
<1> QED
  BY <1>8, <1>9, <1>10, <1>11 DEF Whole

(* Giving up on what is too long for a frame costs nothing.                   *)
LEMMA OverflowIsFree ==
    ASSUME NEW P \in Seq(Byte), NEW R \in Seq(Byte), NEW b \in Byte, b # Delimiter,
           \A i \in 1..Len(P) : P[i] # Delimiter,
           Len(P) >= 2 \/ P = <<Noise>>,
           NEW X, X = Append(P, b) \o R, NEW Y, Y = <<Noise>> \o R,
           NEW o \in Seq(Frame), NEW lost \in Nat, NEW paid \in Nat,
           Embedded(X, o), Balanced(X, o, lost, paid)
    PROVE  /\ Spliced(X, Y, 0, Len(P) + 1, 1)
           /\ Embedded(Y, o) /\ Balanced(Y, o, lost, paid)
<1> DEFINE n == Len(P) + 1
<1>1. /\ X \in Seq(Byte) /\ Len(X) = (Len(P) + 1) + Len(R)
      /\ \A i \in 1..Len(P) : X[i] = P[i]
      /\ X[Len(P) + 1] = b
      /\ \A i \in 1..Len(R) : X[(Len(P) + 1) + i] = R[i]
      /\ Len(P) \in Nat /\ Len(R) \in Nat
  BY GatheredHead, SMTT(20)
<1>2. /\ Y \in Seq(Byte) /\ Len(Y) = 1 + Len(R) /\ Y[1] = Noise
      /\ \A i \in 1..Len(R) : Y[1 + i] = R[i]
  <2>1. <<Noise>> \in Seq(Byte) /\ Len(<<Noise>>) = 1 /\ <<Noise>>[1] = Noise /\ 1 \in 1..1
    BY FrameFacts
  <2> DEFINE N == <<Noise>>
  <2>2. N \in Seq(Byte) /\ Len(N) = 1 /\ N[1] = Noise /\ Y = N \o R
    BY <2>1
  <2> HIDE DEF N
  <2>3. /\ N \o R \in Seq(Byte) /\ Len(N \o R) = Len(N) + Len(R)
        /\ \A i \in 1..Len(N) : (N \o R)[i] = N[i]
        /\ \A i \in 1..Len(R) : (N \o R)[Len(N) + i] = R[i]
    BY <2>2, ConcatAt
  <2> QED
    BY <2>1, <2>2, <2>3
<1>3. Spliced(X, Y, 0, n, 1)
  <2>1. 0 + n <= Len(X) /\ Len(Y) = (Len(X) - n) + 1
    BY <1>1, <1>2
  <2>2. \A i \in (0 + 1)..(0 + 1) : Y[i] \in {Delimiter, Noise}
    BY <1>2
  <2>3. \A i \in (0 + n + 1)..Len(X) : Y[(i - n) + 1] = X[i]
    <3>1. TAKE i \in (0 + n + 1)..Len(X)
    <3>2. i - n \in 1..Len(R) /\ (i - n) + 1 = 1 + (i - n) /\ (Len(P) + 1) + (i - n) = i
      BY <1>1
    <3> QED
      BY <1>1, <1>2, <3>2
  <2> QED
    BY <2>1, <2>2, <2>3 DEF Spliced
<1>4. n \in Nat /\ n \in 1..Len(X) /\ \A k \in 1..n : X[k] # Delimiter
  BY <1>1
<1>5. Touched(X, Y, 0, n, 1) = {}
  <2>1. SUFFICES ASSUME NEW i \in Intact(X), ~Survives(X, Y, 0, n, 1, i) PROVE FALSE
    BY DEF Touched
  <2>2. /\ i \in 2..Len(X) /\ X[i] = Delimiter /\ Start(X, i) \in 0..(i - 2)
    BY <1>1, IntactFacts
  <2>3. i > n
    BY <1>4, <2>2, SMTT(20)
  <2>4. Start(X, i) <= n
    <3>1. ~(Start(X, i) >= 0 + n /\ (Start(X, i) = 0 + n => Clean(Y, 0 + 1)))
      BY <2>1 DEF Survives
    <3>2. ~Clean(Y, 0 + 1)
      BY <1>2, FrameFacts DEF Clean
    <3> QED
      BY <1>4, <2>2, <3>1
  <2> HIDE DEF n
  <2>6. /\ i - 1 \in 1..2 /\ \A k \in 1..(i - 1) : X[k] = [of |-> X[i - 1].of, at |-> k]
    BY <1>1, <1>4, <2>4, FirstIntact
  <2>7. X[1].at = 1
    <3>1. 1 \in 1..(i - 1)
      BY <2>6
    <3>2. X[1] = [of |-> X[i - 1].of, at |-> 1]
      BY <2>6, <3>1
    <3> QED
      BY <3>2
  <2>8. Len(P) < 2
    BY <1>1, <2>3, <2>6 DEF n
  <2>9. P[1] = Noise /\ Len(P) = 1
    BY <1>1, <2>8
  <2> QED
    BY <1>1, <2>7, <2>9, FrameFacts
<1>6. Cardinality(Touched(X, Y, 0, n, 1)) = 0
  BY <1>5, FS_EmptySet
<1>7. Spoiled(Y) <= Spoiled(X) /\ Spoiled(X) \in 0..1 /\ Spoiled(Y) \in 0..1
  <2>1. Spoiled(X) \in 0..1 /\ Spoiled(Y) \in 0..1
    BY <1>1, <1>2, SpoiledFacts
  <2>2. CASE 0 + n < Len(X)
    <3> DEFINE one == IF 0 + n < Len(X) THEN 0 ELSE 1
    <3>1. Spoiled(Y) <= Spoiled(X) + one
      BY <1>1, <1>2, <1>3, <1>4, SpoiledBySplice
    <3>2. one = 0
      BY <2>2
    <3> HIDE DEF one
    <3>3. Spoiled(Y) <= Spoiled(X)
      BY <2>1, <3>1, <3>2, SMTT(20)
    <3> QED
      BY <2>1, <3>3
  <2>3. CASE ~(0 + n < Len(X))
    <3>1. Len(X) = n /\ X[n] = b /\ Len(X) > 0
      BY <1>1, <2>3
    <3>2. Spoiled(X) # 0
      BY <1>1, <3>1, SpoiledFacts
    <3> QED
      BY <2>1, <3>2, SMTT(20)
  <2> QED
    BY <2>1, <2>2, <2>3
<1> HIDE DEF n
<1>8. Embedded(Y, o)
  BY <1>1, <1>2, <1>3, <1>4, SpliceEmbedded
<1>9. Balanced(Y, o, lost, paid + 0)
  <2>1. (Spoiled(Y) - Spoiled(X)) + Cardinality(Touched(X, Y, 0, n, 1)) <= 0
    BY <1>6, <1>7
  <2> QED
    BY <1>1, <1>2, <1>3, <1>4, <2>1, SpliceBalanced
<1>10. paid + 0 = paid
  OBVIOUS
<1> QED
  BY <1>3, <1>8, <1>9, <1>10 DEF n

-----------------------------------------------------------------------------
(* No fault costs more than it may.                                           *)

Accounted ==
    Embedded(Stream, owed) /\ Balanced(Stream, owed, skipped, allowed)

LEMMA LineFacts ==
    ASSUME Typed, Framed, Parsing
    PROVE  /\ Parsed(discarding, accumulator) \in Seq(Byte)
           /\ \A i \in 1..Len(Parsed(discarding, accumulator)) :
                 Parsed(discarding, accumulator)[i] # Delimiter
           /\ Here(discarding, accumulator, rx_ring) \in Seq(Byte)
           /\ Rest(rings, wire_tx_frame_ring) \in Seq(Byte)
           /\ Len(Rest(rings, wire_tx_frame_ring)) > 0 =>
                 /\ Rest(rings, wire_tx_frame_ring)[Len(Rest(rings, wire_tx_frame_ring))] = Delimiter
                 /\ \A i \in 1..(Len(Rest(rings, wire_tx_frame_ring)) - 1) :
                       Rest(rings, wire_tx_frame_ring)[i] # Delimiter
           /\ Stream \in Seq(Byte)
           /\ owed \in Seq(Frame) /\ skipped \in Nat /\ allowed \in Nat
<1> DEFINE P == Parsed(discarding, accumulator)
           H == Here(discarding, accumulator, rx_ring)
           R == Rest(rings, wire_tx_frame_ring)
<1>1. /\ rx_ring \in Seq(Byte) /\ accumulator \in Seq(Byte) /\ discarding \in BOOLEAN
      /\ owed \in Seq(Frame) /\ skipped \in Nat /\ allowed \in Nat
      /\ wire_tx_frame_ring \in Rings \union {"none"}
  BY DEF Typed, TypeOK
<1>2. /\ P \in Seq(Byte) /\ \A i \in 1..Len(P) : P[i] # Delimiter
  <2>1. CASE discarding
    <3>1. P = <<Noise>>
      BY <2>1 DEF Parsed
    <3>2. <<Noise>> \in Seq(Byte) /\ \A i \in 1..Len(<<Noise>>) : <<Noise>>[i] # Delimiter
      BY FrameFacts
    <3> QED
      BY <3>1, <3>2
  <2>2. CASE ~discarding
    BY <1>1, <2>2 DEF Parsed, Parsing
  <2> QED
    BY <2>1, <2>2
<1>3. H \in Seq(Byte)
  BY <1>1, <1>2, ConcatProperties DEF Here
<1>4. /\ R \in Seq(Byte)
      /\ Len(R) > 0 => R[Len(R)] = Delimiter /\ \A i \in 1..(Len(R) - 1) : R[i] # Delimiter
  <2>1. CASE wire_tx_frame_ring = "none"
    <3>1. R = <<>>
      BY <2>1 DEF Rest
    <3> QED
      BY <3>1, EmptySeq
  <2>2. CASE wire_tx_frame_ring # "none"
    <3> DEFINE s == rings[wire_tx_frame_ring]
    <3>1. s \in Seq(Byte) /\ Formed(s) /\ R = Remainder(s)
      BY <1>1, <2>2, RingFacts DEF Rest
    <3> HIDE DEF s
    <3>2. ~AtBoundary(s)
      BY <1>1, <2>2, RingFacts DEF s
    <3>3. /\ Remainder(s) \in Seq(Byte) /\ Len(Remainder(s)) = Upto(s, 0)
          /\ \A i \in 1..Upto(s, 0) : Remainder(s)[i] = s[i]
          /\ Upto(s, 0) \in 0..Len(s)
          /\ Upto(s, 0) >= 1 /\ s[Upto(s, 0)] = Delimiter
          /\ \A i \in 1..(Upto(s, 0) - 1) : s[i] # Delimiter
      BY <3>1, <3>2, RemainderFacts
    <3>4. Upto(s, 0) \in 1..Upto(s, 0) /\ \A i \in 1..(Upto(s, 0) - 1) : i \in 1..Upto(s, 0)
      BY <3>1, <3>3, LenProperties
    <3> HIDE DEF R
    <3> QED
      BY <3>1, <3>3, <3>4
  <2> QED
    BY <2>1, <2>2
<1>5. Stream = H \o R
  BY DEF Stream, Line
<1> HIDE DEF P, H, R
<1>6. H \o R \in Seq(Byte)
  BY <1>3, <1>4, ConcatProperties
<1> QED
  BY <1>1, <1>2, <1>3, <1>4, <1>5, <1>6 DEF P, H, R

(* H is what the receiver holds, gathered or waiting.                         *)
Holds(H) == H = Here(discarding, accumulator, rx_ring)

(* Before what arrives is counted, the sender has kept its accounts.          *)
LEMMA SendAccounts ==
    ASSUME Typed, Framed, Parsing, Accounted, NEW n \in ChunkSizes, TxReady(n),
           NEW p, NEW s, NEW c, NEW t, Sends(p, n, s, c, t),
           NEW H, Holds(H)
    PROVE  /\ H \in Seq(Byte) /\ s \in Seq(Byte) /\ Formed(s) /\ n \in 0..Len(s)
           /\ c \in Seq(Byte) /\ t \in Seq(Byte) /\ Remainder(t) \in Seq(Byte)
           /\ Stage(H, s, 0) = Stream
           /\ Stage(H, s, n) = (H \o c) \o Remainder(t)
           /\ Stage(H, s, n) \in Seq(Byte)
           /\ owed' \in Seq(Frame)
           /\ Embedded(Stage(H, s, n), owed')
           /\ Balanced(Stage(H, s, n), owed', skipped, allowed)
<1>1. /\ c = Chunk(n) /\ n \in 1..Len(s) /\ Sent(s, n, c, t)
      /\ Rest(rings, wire_tx_frame_ring) = Remainder(s)
  BY DEF Sends
<1>2. /\ s \in Seq(Byte) /\ Formed(s) /\ c \in Seq(Byte) /\ t \in Seq(Byte)
      /\ Starting(c) = Started(s, n) /\ owed' \in Seq(Frame)
  BY SendTypes
<1>3. H \in Seq(Byte) /\ owed \in Seq(Frame) /\ skipped \in Nat /\ allowed \in Nat
  BY LineFacts DEF Holds
<1>4. n \in 0..Len(s)
  BY <1>1, <1>2, LenProperties
<1>5. Stage(H, s, n) = (H \o c) \o Remainder(t)
  <2>1. H \in Seq(Byte) /\ s \in Seq(Byte) /\ Formed(s) /\ n \in 1..Len(s) /\ Sent(s, n, c, t)
    BY <1>1, <1>2, <1>3
  <2> QED
    BY <2>1, StageIsSent
<1>6. Stage(H, s, 0) = Stream
  BY <1>1, StageNone DEF Stream, Line, Holds
<1>7. Embedded(Stage(H, s, 0), owed) /\ Balanced(Stage(H, s, 0), owed, skipped, allowed)
  BY <1>6 DEF Accounted
<1>8. /\ Embedded(Stage(H, s, n), owed \o Started(s, n))
      /\ Balanced(Stage(H, s, n), owed \o Started(s, n), skipped, allowed)
  BY <1>2, <1>3, <1>4, <1>7, ChunkAccounts
<1>9. owed' = owed \o Started(s, n)
  BY <1>1, <1>2 DEF TxReady
<1>10. Stage(H, s, n) \in Seq(Byte)
  BY <1>2, <1>3, <1>4, StageFacts
<1>11. Remainder(t) \in Seq(Byte)
  <2>1. Formed(t)
    BY <1>1, <1>2, SentFacts
  <2> QED
    BY <1>2, <2>1, RemainderFacts
<1> QED
  BY <1>2, <1>3, <1>4, <1>5, <1>6, <1>8, <1>9, <1>10, <1>11

(* What the receive interrupt puts behind the stream it had.                  *)
LEMMA StreamAfterSend ==
    ASSUME NEW n, TxReady(n), NEW p, NEW s, NEW c, NEW t, Sends(p, n, s, c, t),
           Parsed(discarding, accumulator) \in Seq(Byte), rx_ring \in Seq(Byte),
           NEW b \in Seq(Byte), rx_ring' = rx_ring \o b
    PROVE  Stream' = (Here(discarding, accumulator, rx_ring) \o b) \o Remainder(t)
<1> DEFINE P == Parsed(discarding, accumulator)
<1>1. discarding' = discarding /\ accumulator' = accumulator
  BY DEF TxReady
<1>2. Rest(rings', wire_tx_frame_ring') = Remainder(t)
  BY DEF Sends
<1>3. P \o (rx_ring \o b) = (P \o rx_ring) \o b
  <2>1. P \in Seq(Byte)
    OBVIOUS
  <2> HIDE DEF P
  <2> QED
    BY <2>1, ConcatAssociative, SMTT(40)
<1> QED
  BY <1>1, <1>2, <1>3 DEF Stream, Line, Here

LEMMA AccountedInit ==
    ASSUME Init
    PROVE  Accounted
<1>1. /\ rings = [r \in Rings |-> <<>>] /\ wire_tx_frame_ring = "none"
      /\ rx_ring = <<>> /\ accumulator = <<>> /\ discarding = FALSE
      /\ owed = <<>> /\ skipped = 0 /\ allowed = 0
  BY DEF Init
<1>2. <<>> \in Seq(Byte) /\ Len(<<>>) = 0
  BY EmptySeq
<1>3. <<>> \o <<>> = <<>>
  BY <1>2, ConcatEmptySeq
<1>4. Stream = <<>>
  BY <1>1, <1>3 DEF Stream, Line, Here, Parsed, Rest
<1>5. Ends(<<>>) = {}
  BY <1>2 DEF Ends
<1>6. Embedded(<<>>, <<>>)
  <2>1. Embeds(<<>>, <<>>, [i \in {} |-> 0])
    BY <1>5 DEF Embeds
  <2> QED
    BY <2>1 DEF Embedded
<1>7. Spoiled(<<>>) = 0 /\ Cardinality(Intact(<<>>)) \in Nat
  BY <1>2, SpoiledFacts, IntactFinite
<1>8. Balanced(<<>>, <<>>, 0, 0)
  BY <1>2, <1>7 DEF Balanced
<1> QED
  BY <1>1, <1>4, <1>6, <1>8 DEF Accounted

LEMMA QueueAccounts ==
    ASSUME Typed, Framed, Accounted, NEW r \in Rings, NEW f \in Frame, wire_link_enqueue(r, f),
           UNCHANGED <<rx_vars, count_vars>>
    PROVE  Stream' = Stream /\ Accounted'
<1>1. Rest(rings', wire_tx_frame_ring') = Rest(rings, wire_tx_frame_ring)
  BY EnqueueStep
<1>2. /\ rx_ring' = rx_ring /\ accumulator' = accumulator /\ discarding' = discarding
      /\ owed' = owed /\ skipped' = skipped /\ allowed' = allowed
  BY DEF rx_vars, count_vars
<1>3. Stream' = Stream
  BY <1>1, <1>2 DEF Stream, Line
<1> QED
  BY <1>2, <1>3 DEF Accounted

LEMMA ArriveAccounts ==
    ASSUME Typed, Framed, Parsing, Accounted, BytesArrive
    PROVE  Accounted'
<1>1. PICK n \in ChunkSizes : TxReady(n) /\ RxReady(Chunk(n))
  BY DEF BytesArrive
<1>2. PICK p, s, c, t : Sends(p, n, s, c, t)
  BY <1>1, SendStep
<1>3. PICK H : Holds(H)
  BY DEF Holds
<1> DEFINE R == Remainder(t)
           X == (H \o c) \o R
<1>4. /\ H \in Seq(Byte) /\ c \in Seq(Byte) /\ R \in Seq(Byte) /\ X \in Seq(Byte)
      /\ owed' \in Seq(Frame) /\ Embedded(X, owed') /\ Balanced(X, owed', skipped, allowed)
  <2>1. /\ H \in Seq(Byte) /\ c \in Seq(Byte) /\ R \in Seq(Byte)
        /\ Stage(H, s, n) = X /\ Stage(H, s, n) \in Seq(Byte)
        /\ owed' \in Seq(Frame)
        /\ Embedded(Stage(H, s, n), owed')
        /\ Balanced(Stage(H, s, n), owed', skipped, allowed)
    BY <1>1, <1>2, <1>3, SendAccounts, SMTT(20)
  <2> HIDE DEF X
  <2> QED
    BY <2>1
<1>5. c = Chunk(n)
  BY <1>2 DEF Sends
<1>6. PICK w : Keeps(c, w)
  BY <1>1, <1>4, <1>5, ReceiveStep
<1> DEFINE b == SubSeq(c, 1, w)
           d == Len(c) - w
           Y == (H \o b) \o R
<1>7. /\ w \in 0..Len(c) /\ rx_ring' = rx_ring \o b
      /\ w = Len(c) => allowed' = allowed
      /\ w < Len(c) => allowed' = allowed + (d + 1)
  BY <1>6 DEF Keeps
<1>8. b \in Seq(Byte) /\ d \in Nat /\ Spliced(c, b, w, d, 0) /\ (w = Len(c) => b = c)
  BY <1>4, <1>7, PrefixSpliced
<1>9. /\ Parsed(discarding, accumulator) \in Seq(Byte) /\ rx_ring \in Seq(Byte)
      /\ skipped \in Nat /\ allowed \in Nat
  BY LineFacts DEF Typed
<1>10. skipped' = skipped
  BY <1>1 DEF TxReady
<1> HIDE DEF b
<1>11. Stream' = Y
  BY <1>1, <1>2, <1>3, <1>7, <1>8, <1>9, StreamAfterSend DEF Holds
<1> HIDE DEF R
<1>12. CASE w = Len(c)
  <2>1. Y = X /\ allowed' = allowed
    BY <1>7, <1>8, <1>12
  <2> QED
    BY <1>4, <1>10, <1>11, <2>1 DEF Accounted
<1>13. CASE w # Len(c)
  <2>1. w < Len(c) /\ allowed' = allowed + (d + 1) /\ Len(H) + w \in Nat /\ w \in Nat /\ 0 \in Nat
    BY <1>4, <1>7, <1>13, LenProperties
  <2> HIDE DEF d
  <2>2. Spliced(X, Y, Len(H) + w, d, 0)
    BY <1>4, <1>8, <2>1, SpliceIn
  <2>3. Y \in Seq(Byte)
    <3>1. H \o b \in Seq(Byte)
      BY <1>4, <1>8, ConcatProperties
    <3> QED
      BY <1>4, <3>1, ConcatProperties
  <2> HIDE DEF X, Y
  <2>4. Embedded(Y, owed')
    BY <1>4, <1>8, <2>1, <2>2, <2>3, SpliceEmbedded
  <2>5. Balanced(Y, owed', skipped, allowed + (d + 1))
    BY <1>4, <1>8, <1>9, <2>1, <2>2, <2>3, RunCosts
  <2> QED
    BY <1>10, <1>11, <2>1, <2>4, <2>5 DEF Accounted
<1> QED
  BY <1>12, <1>13

LEMMA DamagedAccounts ==
    ASSUME Typed, Framed, Parsing, Accounted, BytesDamaged
    PROVE  Accounted'
<1>1. PICK n \in ChunkSizes : TxReady(n) /\ \E bytes \in Damaged(Chunk(n)) : DamagedReady(bytes)
  BY DEF BytesDamaged
<1>2. PICK p, s, c, t : Sends(p, n, s, c, t)
  BY <1>1, SendStep
<1>3. PICK H : Holds(H)
  BY DEF Holds
<1>4. PICK b \in Damaged(Chunk(n)) : DamagedReady(b)
  BY <1>1
<1> DEFINE R == Remainder(t)
           X == (H \o c) \o R
           Y == (H \o b) \o R
<1>5. /\ H \in Seq(Byte) /\ c \in Seq(Byte) /\ R \in Seq(Byte) /\ X \in Seq(Byte)
      /\ owed' \in Seq(Frame) /\ Embedded(X, owed') /\ Balanced(X, owed', skipped, allowed)
  <2>1. /\ H \in Seq(Byte) /\ c \in Seq(Byte) /\ R \in Seq(Byte)
        /\ Stage(H, s, n) = X /\ Stage(H, s, n) \in Seq(Byte)
        /\ owed' \in Seq(Frame)
        /\ Embedded(Stage(H, s, n), owed')
        /\ Balanced(Stage(H, s, n), owed', skipped, allowed)
    BY <1>1, <1>2, <1>3, SendAccounts, SMTT(20)
  <2> HIDE DEF X
  <2> QED
    BY <2>1
<1>6. c = Chunk(n)
  BY <1>2 DEF Sends
<1>7. b \in Seq(Byte) /\ \E i \in 1..Len(c), e \in 0..1 : Spliced(c, b, i - 1, 1, e)
  BY <1>4, <1>5, <1>6, DamagedFacts
<1>8. PICK i \in 1..Len(c), e \in 0..1 : Spliced(c, b, i - 1, 1, e)
  BY <1>7
<1>9. /\ Parsed(discarding, accumulator) \in Seq(Byte) /\ rx_ring \in Seq(Byte)
      /\ skipped \in Nat /\ allowed \in Nat /\ troubles \in 0..MaxTroubles
  BY LineFacts DEF Typed, TypeOK
<1>10. skipped' = skipped
  BY <1>1 DEF TxReady
<1>11. rx_ring' = rx_ring \o b /\ allowed' = allowed + 2
  BY <1>4 DEF DamagedReady, Trouble
<1>12. Stream' = Y
  BY <1>1, <1>2, <1>3, <1>7, <1>9, <1>11, StreamAfterSend DEF Holds
<1> HIDE DEF R
<1>13. i - 1 \in Nat /\ 1 \in Nat /\ e \in Nat /\ Len(H) + (i - 1) \in Nat
  BY <1>5, LenProperties
<1>14. Spliced(X, Y, Len(H) + (i - 1), 1, e)
  BY <1>5, <1>7, <1>8, <1>13, SpliceIn
<1>15. Y \in Seq(Byte)
  <2>1. H \o b \in Seq(Byte)
    BY <1>5, <1>7, ConcatProperties
  <2> QED
    BY <1>5, <2>1, ConcatProperties
<1> HIDE DEF X, Y
<1>16. Embedded(Y, owed')
  BY <1>5, <1>13, <1>14, <1>15, SpliceEmbedded
<1>17. Balanced(Y, owed', skipped, allowed + (1 + 1))
  BY <1>5, <1>9, <1>13, <1>14, <1>15, RunCosts
<1>18. Balanced(Y, owed', skipped', allowed')
  BY <1>9, <1>10, <1>11, <1>17
<1> QED
  BY <1>12, <1>16, <1>18 DEF Accounted

LEMMA DropSpliced ==
    ASSUME NEW c \in Seq(Byte)
    PROVE  Spliced(c, <<>>, 0, Len(c), 0)
<1>1. Len(c) \in Nat /\ Len(<<>>) = 0
  BY LenProperties, EmptySeq
<1>2. /\ 0 + Len(c) <= Len(c) /\ Len(<<>>) = (Len(c) - Len(c)) + 0
      /\ 1..0 = {} /\ (0 + 1)..(0 + 0) = {} /\ (0 + Len(c) + 1)..Len(c) = {}
  BY <1>1
<1> QED
  BY <1>2 DEF Spliced

(* A peripheral that restarts in the middle of a frame costs this frame and   *)
(* the one that is sent behind its remains.                                   *)
LEMMA PeripheralAccounts ==
    ASSUME Typed, Framed, Parsing, Accounted, PeripheralReboot
    PROVE  Accounted'
<1>1. PICK H : Holds(H)
  BY DEF Holds
<1> DEFINE R == Rest(rings, wire_tx_frame_ring)
           X == H \o R
           a == Len(H)
           n == Len(R)
<1>2. /\ H \in Seq(Byte) /\ R \in Seq(Byte) /\ owed \in Seq(Frame)
      /\ skipped \in Nat /\ allowed \in Nat
      /\ Len(R) > 0 => R[Len(R)] = Delimiter /\ \A i \in 1..(Len(R) - 1) : R[i] # Delimiter
  BY <1>1, LineFacts DEF Holds
<1>3. Stream = X /\ Stream \in Seq(Byte)
  BY <1>1, LineFacts DEF Stream, Line, Holds
<1>4. /\ rings' = [r \in Rings |-> <<>>] /\ wire_tx_frame_ring' = "none"
      /\ rx_ring' = rx_ring /\ accumulator' = accumulator /\ discarding' = discarding
      /\ owed' = owed /\ skipped' = skipped /\ allowed' = allowed + 2
  BY DEF PeripheralReboot, rx_vars, Trouble
<1> HIDE DEF R
<1>5. <<>> \in Seq(Byte) /\ Len(<<>>) = 0
  BY EmptySeq
<1>6. H \o <<>> = H
  BY <1>2, ConcatEmptySeq
<1>7. Stream' = H
  BY <1>1, <1>4, <1>6 DEF Stream, Line, Rest, Holds
<1>8. /\ X \in Seq(Byte) /\ Len(X) = a + n /\ a \in Nat /\ n \in Nat
      /\ \A i \in 1..n : X[a + i] = R[i]
  BY <1>2, ConcatAt, LenProperties
<1>9. Spliced(X, H, a, n, 0)
  <2>1. Spliced(R, <<>>, 0, n, 0)
    BY <1>2, DropSpliced
  <2>2. Spliced((H \o R) \o <<>>, (H \o <<>>) \o <<>>, Len(H) + 0, n, 0)
    BY <1>2, <1>5, <1>8, <2>1, SpliceIn
  <2>3. (H \o R) \o <<>> = X
    BY <1>8, ConcatEmptySeq
  <2>4. Len(H) + 0 = a
    BY <1>8
  <2> HIDE DEF X, a, n
  <2> QED
    BY <1>6, <2>2, <2>3, <2>4
<1>10. ASSUME NEW i \in Touched(X, H, a, n, 0) PROVE i \in {Len(X)}
  <2>1. i \in Intact(X) /\ ~(i <= a)
    BY DEF Touched, Survives
  <2>2. i \in 2..Len(X) /\ X[i] = Delimiter
    BY <1>8, <2>1, IntactFacts
  <2> HIDE DEF X, a, n
  <2>3. PICK k \in 1..n : i = a + k
    <3>1. i - a \in 1..n /\ i = a + (i - a)
      BY <1>8, <2>1, <2>2
    <3> QED
      BY <3>1
  <2>4. R[k] = Delimiter /\ n > 0
    BY <1>8, <2>2, <2>3
  <2>5. k \notin 1..(n - 1)
    BY <1>2, <2>4 DEF n
  <2>6. k = n
    BY <1>8, <2>3, <2>5
  <2> QED
    BY <1>8, <2>3, <2>6
<1> DEFINE M == {Len(X)}
           touched == Cardinality(Touched(X, H, a, n, 0))
<1> HIDE DEF X, a, n
<1>11. IsFiniteSet(M) /\ Cardinality(M) <= 1
  <2>1. IsFiniteSet(M) /\ Cardinality(M) = 1
    BY FS_Singleton
  <2> QED
    BY <2>1
<1>12. touched <= 1 /\ touched \in Nat
  <2>1. touched <= 1 + (IF a + n < Len(X) THEN 1 ELSE 0)
    BY <1>2, <1>8, <1>9, <1>10, <1>11, TouchedCount
  <2>2. touched \in Nat
    BY <1>2, <1>8, <1>9, SpliceCount, FS_CardinalityType
  <2> HIDE DEF touched
  <2> QED
    BY <1>8, <2>1, <2>2
<1>13. Spoiled(H) - Spoiled(X) <= 1
  BY <1>2, <1>8, SpoiledFacts, SMTT(20)
<1>14. (Spoiled(H) - Spoiled(X)) + touched <= 2
  <2>1. Spoiled(H) \in Int /\ Spoiled(X) \in Int
    BY <1>2, <1>8, SpoiledFacts
  <2> HIDE DEF touched
  <2> QED
    BY <1>12, <1>13, <2>1
<1>15. Embedded(X, owed) /\ Balanced(X, owed, skipped, allowed)
  BY <1>3 DEF Accounted
<1>16. Embedded(H, owed)
  BY <1>2, <1>8, <1>9, <1>15, SpliceEmbedded
<1>17. Balanced(H, owed, skipped, allowed + 2)
  BY <1>2, <1>8, <1>9, <1>14, <1>15, SpliceBalanced
<1> QED
  BY <1>4, <1>7, <1>16, <1>17 DEF Accounted

(* A receiver that restarts may lose whatever was on its way.                 *)
LEMMA ReceiverAccounts ==
    ASSUME Typed, Framed, Parsing, Accounted, ReceiverReboot
    PROVE  Accounted'
<1>1. PICK H : Holds(H)
  BY DEF Holds
<1> DEFINE R == Rest(rings, wire_tx_frame_ring)
           X == H \o R
<1>2. /\ H \in Seq(Byte) /\ R \in Seq(Byte) /\ owed \in Seq(Frame)
      /\ skipped \in Nat /\ allowed \in Nat
      /\ Len(R) > 0 => R[Len(R)] = Delimiter
  BY <1>1, LineFacts DEF Holds
<1>3. Stream = X /\ Stream \in Seq(Byte)
  BY <1>1, LineFacts DEF Stream, Line, Holds
<1>4. /\ rings' = rings /\ wire_tx_frame_ring' = wire_tx_frame_ring
      /\ rx_ring' = <<>> /\ accumulator' = <<>> /\ discarding' = FALSE
      /\ owed' = owed /\ skipped' = skipped /\ allowed' = allowed + Len(owed)
  BY DEF ReceiverReboot, tx_vars, Trouble
<1>5. <<>> \in Seq(Byte) /\ Len(<<>>) = 0 /\ <<>> \o <<>> = <<>>
  BY EmptySeq, ConcatEmptySeq
<1>6. <<>> \o R = R /\ <<>> \o H = H
  BY <1>2, ConcatEmptySeq
<1>7. Stream' = R
  BY <1>4, <1>5, <1>6 DEF Stream, Line, Here, Parsed
<1> HIDE DEF R
<1>8. Embedded(X, owed) /\ Balanced(X, owed, skipped, allowed)
  BY <1>3 DEF Accounted
<1>9. Embedded(R, owed)
  <2>1. Spliced(H, <<>>, 0, Len(H), 0) /\ Len(H) \in Nat /\ 0 \in Nat
    BY <1>2, DropSpliced, LenProperties
  <2> DEFINE E == <<>>
  <2>2. Spliced((E \o H) \o R, (E \o E) \o R, Len(E) + 0, Len(H), 0)
    <3>1. E \in Seq(Byte) /\ Spliced(H, E, 0, Len(H), 0)
      BY <1>5, <2>1
    <3> HIDE DEF E
    <3> QED
      BY <1>2, <2>1, <3>1, SpliceIn
  <2>3. Spliced(X, R, 0, Len(H), 0)
    BY <1>5, <1>6, <2>2
  <2>4. X \in Seq(Byte)
    BY <1>3
  <2> HIDE DEF X
  <2> QED
    BY <1>2, <1>8, <2>1, <2>3, <2>4, SpliceEmbedded
<1>10. Balanced(R, owed, skipped, allowed + Len(owed))
  <2>1. X \in Seq(Byte)
    BY <1>3
  <2> HIDE DEF X
  <2>2. Cardinality(Intact(X)) <= Len(owed)
    BY <1>2, <1>8, <2>1, IntactAreOwed
  <2>3. skipped + Len(owed) + Spoiled(X) <= allowed + Cardinality(Intact(X))
    BY <1>8 DEF Balanced
  <2>4. Spoiled(X) \in 0..1 /\ Cardinality(Intact(X)) \in Nat /\ Len(owed) \in Nat
    BY <1>2, <2>1, SpoiledFacts, IntactFinite, LenProperties
  <2>5. skipped <= allowed
    BY <1>2, <2>2, <2>3, <2>4
  <2>6. Spoiled(R) = 0
    <3>1. Len(R) \in Nat
      BY <1>2, LenProperties
    <3> QED
      BY <1>2, <3>1, SpoiledFacts
  <2>7. Cardinality(Intact(R)) \in Nat
    BY <1>2, IntactFinite
  <2>8. skipped + Len(owed) + Spoiled(R) <= (allowed + Len(owed)) + Cardinality(Intact(R))
    BY <1>2, <2>4, <2>5, <2>6, <2>7
  <2> QED
    BY <2>8 DEF Balanced
<1> QED
  BY <1>4, <1>7, <1>9, <1>10 DEF Accounted

-----------------------------------------------------------------------------
(* The parser.                                                                *)

(* The parser has gathered P, takes b, and R is behind it.                    *)
Takes(P, b, R) ==
    /\ P = Parsed(discarding, accumulator) /\ b = Head(rx_ring)
    /\ R = Tail(rx_ring) \o Rest(rings, wire_tx_frame_ring)

LEMMA TakesFacts ==
    ASSUME Typed, Framed, Parsing, wire_process_ring, NEW P, NEW b, NEW R, Takes(P, b, R)
    PROVE  /\ P \in Seq(Byte) /\ \A i \in 1..Len(P) : P[i] # Delimiter
           /\ b \in Byte /\ R \in Seq(Byte)
           /\ Stream = Append(P, b) \o R /\ Stream \in Seq(Byte)
           /\ Stream' = Parsed(discarding', accumulator') \o R
<1> DEFINE Q == Rest(rings, wire_tx_frame_ring)
           rx == rx_ring
           T == Tail(rx)
<1>1. /\ P \in Seq(Byte) /\ \A i \in 1..Len(P) : P[i] # Delimiter
      /\ Q \in Seq(Byte) /\ Stream \in Seq(Byte)
  BY LineFacts DEF Takes
<1>2. rx \in Seq(Byte) /\ rx # <<>>
  BY DEF Typed, wire_process_ring
<1>3. /\ rx_ring' = T /\ rings' = rings /\ wire_tx_frame_ring' = wire_tx_frame_ring
  BY DEF wire_process_ring, tx_vars
<1>4. b = Head(rx) /\ R = T \o Q
  BY DEF Takes
<1>5. Stream = (P \o rx) \o Q
  BY DEF Takes, Stream, Line, Here
<1>6. Stream' = (Parsed(discarding', accumulator') \o T) \o Q
  BY <1>3 DEF Stream, Line, Here
<1>7. Parsed(discarding', accumulator') \in Seq(Byte)
  <2>1. Typed' /\ Framed' /\ Parsing'
    BY ShapeStep DEF Next
  <2>2. accumulator' \in Seq(Byte) /\ discarding' \in BOOLEAN
    BY <2>1 DEF Typed, TypeOK
  <2>3. <<Noise>> \in Seq(Byte)
    BY FrameFacts
  <2> QED
    BY <2>2, <2>3 DEF Parsed
<1> HIDE DEF Q, rx
<1>8. Head(rx) \in Byte /\ T \in Seq(Byte) /\ (P \o rx) \o Q = Append(P, Head(rx)) \o (T \o Q)
  BY <1>1, <1>2, NextByte, SMTT(20)
<1>9. Stream = Append(P, b) \o R /\ b \in Byte
  BY <1>4, <1>5, <1>8
<1> HIDE DEF T
<1>10. R \in Seq(Byte)
  BY <1>1, <1>4, <1>8, ConcatProperties
<1> DEFINE D == Parsed(discarding', accumulator')
<1> HIDE DEF D
<1>11. (D \o T) \o Q = D \o (T \o Q)
  <2>1. D \in Seq(Byte) /\ T \in Seq(Byte) /\ Q \in Seq(Byte)
    BY <1>1, <1>7, <1>8 DEF D
  <2> QED
    BY <2>1, ConcatAssociative, SMTT(20)
<1>12. Stream' = D \o R
  BY <1>4, <1>6, <1>11 DEF D
<1> QED
  BY <1>1, <1>9, <1>10, <1>12 DEF D

Delivers(f) ==
    /\ Head(rx_ring) = Delimiter /\ ~discarding /\ Whole(accumulator)
    /\ f = accumulator[1].of

(* A delimiter ends the whole frame f.                                        *)
LEMMA ParserDelivers ==
    ASSUME Typed, Framed, Parsing, wire_process_ring, NEW f, Delivers(f)
    PROVE  /\ f \in Frame /\ wire_on_frame(f) /\ allowed' = allowed
           /\ Stream \in Seq(Byte) /\ Stream' \in Seq(Byte)
           /\ \E n : CutAt(Stream, Stream', n) /\ n - 1 \in Ends(Stream) /\ Stream[n - 1].of = f
<1>1. PICK P, b, R : Takes(P, b, R)
  BY DEF Takes
<1>2. /\ P \in Seq(Byte) /\ \A i \in 1..Len(P) : P[i] # Delimiter
      /\ R \in Seq(Byte)
      /\ Stream = Append(P, b) \o R /\ Stream \in Seq(Byte)
      /\ Stream' = Parsed(discarding', accumulator') \o R
  BY <1>1, TakesFacts
<1>3. b = Delimiter /\ ~discarding /\ Whole(accumulator) /\ f = accumulator[1].of /\ P = accumulator
  BY <1>1 DEF Delivers, Takes, Parsed
<1>4. /\ wire_on_frame(f) /\ accumulator' = <<>> /\ discarding' = FALSE /\ allowed' = allowed
  BY <1>1, <1>3 DEF wire_process_ring, wire_frame_parser_ingest, FrameEnd, Takes
<1>5. Stream' = R
  BY <1>2, <1>4, ConcatEmptySeq DEF Parsed
<1>6. P # <<>> /\ P = Body(f)
  BY <1>3 DEF Whole
<1>7. f \in Frame
  <2>1. Len(P) # 0 /\ Len(P) \in Nat
    BY <1>2, <1>6, EmptyBytes, LenProperties
  <2>2. 1 \in 1..Len(P)
    BY <2>1
  <2> QED
    BY <1>2, <1>3, <2>2, At
<1>8. Len(P) = BodyBytes(f) /\ Len(P) \in 1..2 /\ P[Len(P)] = [of |-> f, at |-> Len(P)]
  <2>1. /\ BodyBytes(f) \in 1..2 /\ Len(P) = BodyBytes(f)
        /\ \A i \in 1..BodyBytes(f) : P[i] = [of |-> f, at |-> i]
    BY <1>6, <1>7, BodyFacts
  <2>2. BodyBytes(f) \in 1..BodyBytes(f)
    BY <2>1
  <2> QED
    BY <2>1, <2>2
<1> DEFINE X == Stream
           n == Len(P) + 1
<1>9. X = Append(P, Delimiter) \o R
  BY <1>2, <1>3
<1> HIDE DEF X
<1>10. CutAt(X, R, n)
  BY <1>2, <1>9, CutHead
<1>11. /\ Len(X) = (Len(P) + 1) + Len(R) /\ \A i \in 1..Len(P) : X[i] = P[i]
       /\ Len(R) \in Nat
  BY <1>2, <1>9, FrameFacts, GatheredHead, SMTT(20)
<1>12. n - 1 = Len(P) /\ Len(P) \in 1..Len(X) /\ X[Len(P)] = [of |-> f, at |-> Len(P)]
  BY <1>8, <1>11
<1>13. n - 1 \in Ends(X) /\ X[n - 1].of = f
  BY <1>8, <1>12 DEF Ends
<1> QED
  BY <1>2, <1>4, <1>5, <1>7, <1>10, <1>13 DEF X

LEMMA SpliceNothing ==
    ASSUME NEW X \in Seq(Byte)
    PROVE  Spliced(X, X, 0, 0, 0)
<1>1. Len(X) \in Nat
  BY LenProperties
<1>2. /\ 0 + 0 <= Len(X) /\ Len(X) = (Len(X) - 0) + 0
      /\ 1..0 = {} /\ (0 + 1)..(0 + 0) = {}
  BY <1>1
<1>3. \A i \in (0 + 0 + 1)..Len(X) : X[(i - 0) + 0] = X[i]
  <2>1. TAKE i \in (0 + 0 + 1)..Len(X)
  <2>2. (i - 0) + 0 = i
    BY <1>1
  <2> QED
    BY <2>2
<1> QED
  BY <1>2, <1>3 DEF Spliced

(* No other byte the parser takes changes what is owed.                       *)
LEMMA ParserKeeps ==
    ASSUME Typed, Framed, Parsing, Accounted, wire_process_ring, \A f : ~Delivers(f)
    PROVE  /\ newest' = newest /\ applied' = applied
           /\ Stream \in Seq(Byte) /\ Stream' \in Seq(Byte)
           /\ \E a, n, s \in Nat : Spliced(Stream, Stream', a, n, s)
           /\ Accounted'
<1>1. PICK P, b, R : Takes(P, b, R)
  BY DEF Takes
<1>2. /\ P \in Seq(Byte) /\ \A i \in 1..Len(P) : P[i] # Delimiter
      /\ b \in Byte /\ R \in Seq(Byte)
      /\ Stream = Append(P, b) \o R /\ Stream \in Seq(Byte)
      /\ Stream' = Parsed(discarding', accumulator') \o R
  BY <1>1, TakesFacts
<1>3. /\ owed \in Seq(Frame) /\ skipped \in Nat /\ allowed \in Nat
      /\ Embedded(Stream, owed) /\ Balanced(Stream, owed, skipped, allowed)
  BY LineFacts DEF Accounted
<1>4. allowed' = allowed /\ (IF b = Delimiter THEN FrameEnd ELSE Accumulate(b))
  BY <1>1 DEF wire_process_ring, wire_frame_parser_ingest, Takes
<1> DEFINE X == Stream
           n == Len(P) + 1
<1>5. Len(P) \in Nat /\ n \in Nat
  BY <1>2, LenProperties
<1>6. CASE b = Delimiter
  <2>1. ~(~discarding /\ Whole(accumulator))
    BY <1>1, <1>6 DEF Delivers, Takes
  <2>2. /\ accumulator' = <<>> /\ discarding' = FALSE
        /\ UNCHANGED <<applied, newest, owed, skipped>>
    BY <1>4, <1>6, <2>1 DEF FrameEnd
  <2>3. Stream' = R
    BY <1>2, <2>2, ConcatEmptySeq DEF Parsed
  <2>4. X = Append(P, Delimiter) \o R /\ X \in Seq(Byte)
    BY <1>2, <1>6
  <2> HIDE DEF X
  <2>5. CutAt(X, R, n)
    BY <1>2, <2>4, CutHead
  <2>6. n \notin Intact(X)
    <3>1. SUFFICES ASSUME n \in Intact(X) PROVE FALSE
      OBVIOUS
    <3>2. Whole(P) /\ P # <<>> /\ P[1] # Noise
      BY <1>2, <2>4, <3>1, CutIsWhole
    <3>3. ~discarding => P = accumulator
      BY <1>1 DEF Takes, Parsed
    <3>4. discarding => P = <<Noise>>
      BY <1>1 DEF Takes, Parsed
    <3> QED
      BY <2>1, <3>2, <3>3, <3>4
  <2> HIDE DEF n
  <2>7. Spliced(X, R, 0, n, 0)
    BY <2>5 DEF CutAt
  <2>8. Embedded(R, owed)
    BY <1>2, <1>3, <1>5, <2>4, <2>7, SpliceEmbedded DEF X
  <2>9. Balanced(R, owed, skipped, allowed)
    <3>1. Balanced(X, owed, skipped, allowed)
      BY <1>3 DEF X
    <3> QED
      BY <1>2, <1>3, <2>4, <2>5, <2>6, <3>1, CutKeepsBalance
  <2>10. Accounted'
    BY <1>4, <2>2, <2>3, <2>8, <2>9 DEF Accounted
  <2> QED
    BY <1>2, <1>5, <2>2, <2>3, <2>7, <2>10 DEF X
<1>7. CASE b # Delimiter
  <2>1. /\ discarding' = (discarding \/ Len(accumulator) >= AccumulatorBytes)
        /\ accumulator' = IF discarding' THEN <<>> ELSE Append(accumulator, b)
        /\ UNCHANGED <<applied, newest, owed, skipped>>
    BY <1>4, <1>7 DEF Accumulate
  <2>2. CASE ~discarding'
    <3>1. ~discarding /\ accumulator' = Append(accumulator, b)
      BY <2>1, <2>2
    <3>2. P = accumulator
      BY <1>1, <3>1 DEF Takes, Parsed
    <3>3. Parsed(discarding', accumulator') = Append(P, b)
      BY <2>2, <3>1, <3>2 DEF Parsed
    <3>4. Stream' = Stream
      BY <1>2, <3>3
    <3>5. Accounted'
      BY <1>4, <2>1, <3>4 DEF Accounted
    <3> QED
      BY <1>2, <2>1, <3>4, <3>5, SpliceNothing
  <2>3. CASE discarding'
    <3>1. Stream' = <<Noise>> \o R
      BY <1>2, <2>3 DEF Parsed
    <3>2. Len(P) >= 2 \/ P = <<Noise>>
      <4>1. CASE discarding
        BY <1>1, <4>1 DEF Takes, Parsed
      <4>2. CASE ~discarding
        <5>1. P = accumulator /\ Len(accumulator) >= AccumulatorBytes
          BY <1>1, <2>1, <2>3, <4>2 DEF Takes, Parsed
        <5> QED
          BY <1>5, <5>1, WholeFrameFits, SizesAssumption
      <4> QED
        BY <4>1, <4>2
    <3> DEFINE Y == Stream'
    <3>3. /\ X = Append(P, b) \o R /\ Y = <<Noise>> \o R
          /\ Embedded(X, owed) /\ Balanced(X, owed, skipped, allowed)
      BY <1>2, <1>3, <3>1
    <3> HIDE DEF X, Y
    <3>4. Spliced(X, Y, 0, n, 1) /\ Embedded(Y, owed) /\ Balanced(Y, owed, skipped, allowed)
      BY <1>2, <1>3, <1>7, <3>2, <3>3, OverflowIsFree
    <3>5. Accounted'
      BY <1>4, <2>1, <3>4 DEF Accounted, Y
    <3>6. Y \in Seq(Byte)
      <4>1. <<Noise>> \in Seq(Byte)
        BY FrameFacts
      <4> QED
        BY <1>2, <3>3, <4>1, ConcatProperties
    <3> QED
      BY <1>2, <1>5, <2>1, <3>4, <3>5, <3>6 DEF X, Y
  <2> QED
    BY <2>2, <2>3
<1> QED
  BY <1>6, <1>7

LEMMA DeliverAccounts ==
    ASSUME Typed, Framed, Parsing, Accounted, wire_process_ring, NEW f, Delivers(f)
    PROVE  Accounted'
<1>1. /\ f \in Frame /\ wire_on_frame(f) /\ allowed' = allowed
      /\ Stream \in Seq(Byte) /\ Stream' \in Seq(Byte)
      /\ \E n : CutAt(Stream, Stream', n) /\ n - 1 \in Ends(Stream) /\ Stream[n - 1].of = f
  BY ParserDelivers
<1>2. PICK n : CutAt(Stream, Stream', n) /\ n - 1 \in Ends(Stream) /\ Stream[n - 1].of = f
  BY <1>1
<1>3. /\ owed \in Seq(Frame) /\ skipped \in Nat /\ allowed \in Nat
      /\ Embedded(Stream, owed) /\ Balanced(Stream, owed, skipped, allowed)
  BY LineFacts DEF Accounted
<1> DEFINE X == Stream
           Y == Stream'
           k == Arrived(owed, f)
<1> HIDE DEF X, Y
<1>4. /\ \E h : FirstOf(owed, f, h)
      /\ \A h : FirstOf(owed, f, h) =>
            /\ Embedded(Y, SubSeq(owed, h + 1, Len(owed)))
            /\ Balanced(Y, SubSeq(owed, h + 1, Len(owed)), skipped + (h - 1), allowed)
  <2>1. X \in Seq(Byte) /\ Y \in Seq(Byte) /\ CutAt(X, Y, n) /\ n - 1 \in Ends(X) /\ X[n - 1].of = f
    BY <1>1, <1>2 DEF X, Y
  <2>2. Embedded(X, owed) /\ Balanced(X, owed, skipped, allowed)
    BY <1>3 DEF X
  <2>3. /\ \E h : FirstOf(owed, X[n - 1].of, h)
        /\ \A h : FirstOf(owed, X[n - 1].of, h) =>
              /\ Embedded(Y, SubSeq(owed, h + 1, Len(owed)))
              /\ Balanced(Y, SubSeq(owed, h + 1, Len(owed)), skipped + (h - 1), allowed)
    BY <1>3, <2>1, <2>2, CutDelivers
  <2> QED
    BY <2>1, <2>3
<1>5. FirstOf(owed, f, k) /\ k # 0
  <2>1. /\ k # 0 => FirstOf(owed, f, k)
        /\ k = 0 => \A h : ~FirstOf(owed, f, h)
    BY <1>3, SelectFirst
  <2> QED
    BY <1>4, <2>1
<1>6. /\ owed' = SubSeq(owed, k + 1, Len(owed))
      /\ skipped' = skipped + (k - 1)
  BY <1>1, <1>5 DEF wire_on_frame, Arrived
<1> HIDE DEF k
<1>7. Embedded(Y, owed') /\ Balanced(Y, owed', skipped', allowed')
  BY <1>1, <1>4, <1>5, <1>6
<1> QED
  BY <1>7 DEF Accounted, Y

LEMMA AccountedStep ==
    ASSUME Typed, Framed, Parsing, Accounted, [Next]_vars
    PROVE  Accounted'
<1>1. ver \in Version
  BY DEF Typed, TypeOK
<1>2. ASSUME wire_peripheral_report_event PROVE Accounted'
  <2>1. /\ wire_link_enqueue("event", Delta("event", ver'))
        /\ UNCHANGED <<rx_vars, count_vars>>
    BY <1>2 DEF wire_peripheral_report_event
  <2>2. ver' \in Version
    BY <1>2, ShapeStep DEF Next, Typed, TypeOK
  <2>3. "event" \in Rings /\ Delta("event", ver') \in Frame
    BY <2>2, VersionType DEF Rings
  <2> QED
    BY <2>1, <2>3, QueueAccounts
<1>3. ASSUME wire_link_send_input PROVE Accounted'
  <2>1. /\ wire_link_enqueue("input", Delta("input", ver))
        /\ UNCHANGED <<rx_vars, count_vars>>
    BY <1>3 DEF wire_link_send_input
  <2>2. "input" \in Rings /\ Delta("input", ver) \in Frame
    BY <1>1, VersionType DEF Rings
  <2> QED
    BY <2>1, <2>2, QueueAccounts
<1>4. ASSUME wire_peripheral_keepalive_fire PROVE Accounted'
  <2>1. /\ wire_link_enqueue("keepalive", Snapshot(ver))
        /\ UNCHANGED <<rx_vars, count_vars>>
    BY <1>4 DEF wire_peripheral_keepalive_fire
  <2>2. "keepalive" \in Rings /\ Snapshot(ver) \in Frame
    BY <1>1, VersionType DEF Rings
  <2> QED
    BY <2>1, <2>2, QueueAccounts
<1>5. ASSUME wire_keepalive_fire PROVE Accounted'
  <2>1. /\ wire_link_enqueue("keepalive", Beat)
        /\ UNCHANGED <<rx_vars, count_vars>>
    BY <1>5 DEF wire_keepalive_fire
  <2>2. "keepalive" \in Rings /\ Beat \in Frame
    BY FrameFacts DEF Rings
  <2> QED
    BY <2>1, <2>2, QueueAccounts
<1>6. ASSUME UNCHANGED <<rings, wire_tx_frame_ring, rx_ring, accumulator, discarding,
                         owed, skipped, allowed>>
      PROVE  Accounted'
  BY <1>6 DEF Accounted, Stream, Line
<1>7. ASSUME wire_process_ring PROVE Accounted'
  BY <1>7, DeliverAccounts, ParserKeeps
<1>8. CASE peripheral_input_note_event
  BY <1>6, <1>8 DEF peripheral_input_note_event, tx_vars, rx_vars, count_vars
<1>9. CASE IdleElapses
  BY <1>6, <1>9 DEF IdleElapses, tx_vars, rx_vars, count_vars
<1>10. CASE TxIdle
  BY <1>6, <1>10 DEF TxIdle, rx_vars, count_vars
<1>11. CASE UNCHANGED vars
  BY <1>6, <1>11 DEF vars, tx_vars, rx_vars, count_vars
<1> QED
  BY <1>2, <1>3, <1>4, <1>5, <1>7, <1>8, <1>9, <1>10, <1>11,
     ArriveAccounts, DamagedAccounts, PeripheralAccounts, ReceiverAccounts DEF Next

-----------------------------------------------------------------------------
WireInv == Typed /\ Framed /\ Parsing /\ Accounted

LEMMA WireInvariant == Spec => []WireInv
<1>1. Init => WireInv
  BY ShapeInit, AccountedInit DEF WireInv
<1>2. WireInv /\ [Next]_vars => WireInv'
  BY ShapeStep, AccountedStep DEF WireInv
<1> QED
  BY <1>1, <1>2, PTL DEF Spec

(* Every variable keeps its type, rings and accumulator their sizes: no frame *)
(* is queued that does not fit, and the parser never outgrows its buffer.     *)
THEOREM WireTypes == Spec => []TypeOK
<1>1. WireInv => TypeOK
  BY DEF WireInv, Typed
<1> QED
  BY <1>1, WireInvariant, PTL

(* wire_tx_frame_ring: the transmit interrupt is locked on a ring exactly     *)
(* while this ring starts in the middle of a frame, so no other ring's bytes  *)
(* can get between the bytes of a frame, however the chunks are cut.          *)
THEOREM WireFramesAreNotSpliced == Spec => []RingsHoldFrames(rings, wire_tx_frame_ring)
<1>1. WireInv => RingsHoldFrames(rings, wire_tx_frame_ring)
  BY DEF WireInv, Framed
<1> QED
  BY <1>1, WireInvariant, PTL

(* Bytes lost in a row cost at most one frame more than their number, a byte  *)
(* damaged two, a restart of the peripheral two, one of the receiver what was *)
(* on its way: no more of the frames sent than this fail to be handed up.     *)
THEOREM WireLossIsLocal == Spec => []LossIsLocal
<1>1. ASSUME WireInv PROVE LossIsLocal
  <2> DEFINE X == Stream
             P == Parsed(discarding, accumulator)
  <2>1. Typed /\ Framed /\ Parsing /\ Accounted
    BY <1>1 DEF WireInv
  <2>2. /\ owed \in Seq(Frame) /\ skipped \in Nat /\ allowed \in Nat /\ X \in Seq(Byte)
        /\ P \in Seq(Byte) /\ \A i \in 1..Len(P) : P[i] # Delimiter
    BY <2>1, LineFacts
  <2>3. Embedded(X, owed) /\ Balanced(X, owed, skipped, allowed)
    BY <2>1 DEF Accounted
  <2>4. Drained => X = P
    <3>1. SUFFICES ASSUME Drained PROVE X = P
      OBVIOUS
    <3>2. X = (P \o <<>>) \o <<>>
      BY <3>1 DEF Drained, Stream, Line, Here, Rest
    <3> HIDE DEF X, P
    <3>3. P \o <<>> = P
      BY <2>2, ConcatEmptySeq
    <3> QED
      BY <3>2, <3>3
  <2> HIDE DEF X, P
  <2>5. Len(owed) \in Nat /\ Spoiled(X) \in 0..1 /\ Cardinality(Intact(X)) \in Nat
    BY <2>2, LenProperties, SpoiledFacts, IntactFinite
  <2>6. skipped + Len(owed) + Spoiled(X) <= allowed + Cardinality(Intact(X))
    BY <2>3 DEF Balanced
  <2>7. CASE Drained
    <3>1. \A i \in Intact(X) : FALSE
      <4>1. TAKE i \in Intact(X)
      <4>2. i \in 2..Len(X) /\ X[i] = Delimiter
        BY <2>2, IntactFacts
      <4>3. i \in 1..Len(P) /\ P[i] = Delimiter
        BY <2>2, <2>4, <2>7, <4>2, LenProperties
      <4> QED
        BY <2>2, <4>3
    <3>2. Cardinality(Intact(X)) = 0
      <4>1. Intact(X) = {}
        BY <3>1
      <4> QED
        BY <4>1, FS_EmptySet
    <3>3. skipped + Len(owed) <= allowed
      BY <2>2, <2>5, <2>6, <3>2
    <3> QED
      BY <2>7, <3>3 DEF LossIsLocal
  <2>8. CASE ~Drained
    <3>1. Cardinality(Intact(X)) <= Len(owed)
      BY <2>2, <2>3, IntactAreOwed
    <3>2. skipped + 0 <= allowed
      BY <2>2, <2>5, <2>6, <3>1
    <3> QED
      BY <2>8, <3>2 DEF LossIsLocal
  <2> QED
    BY <2>7, <2>8
<1>2. WireInv => LossIsLocal
  BY <1>1
<1> QED
  BY <1>2, WireInvariant, PTL

-----------------------------------------------------------------------------
(* Key states in the rings.                                                   *)

Kinds == [event |-> {"event"}, input |-> {"input"}, keepalive |-> {"snapshot", "beat"}]

OfKinds(s, K)    == \A i \in 1..Len(s) : s[i].at = 1 => s[i].of.kind \in K
HeadsBelow(s, v) ==
    \A i \in 1..Len(s) : s[i].at = 1 /\ CarriesKey(s[i].of) => KeyVersion(s[i].of) < v

(* Every snapshot in k is older than every key event in s.                    *)
Ahead(s, k) ==
    \A i \in 1..Len(s) : s[i].at = 1 /\ s[i].of.kind = "event" => HeadsBelow(k, KeyVersion(s[i].of))

(* With v the keys' version and e the newest one handed up: no ring and no    *)
(* stream is ahead of the keys, and key events follow older key states only.  *)
InOrder(rs, X, e, v) ==
    /\ \A r \in Rings : OfKinds(rs[r], Kinds[r]) /\ HeadsBelow(rs[r], v + 1)
    /\ e <= v /\ KeysBelow(X, v + 1) /\ KeysOrdered(X, e)
    /\ MaySend(rs["event"], X, e) /\ Ahead(rs["event"], rs["keepalive"])

Ordered ==
    /\ InOrder(rings, Stream, newest["event"], ver["event"])
    /\ idle => rings["event"] = <<>>

LEMMA QueuedKeys ==
    ASSUME NEW s \in Seq(Byte), Formed(s), NEW f \in Frame, NEW t, Queued(s, f, t)
    PROVE  /\ \A K : OfKinds(s, K) /\ f.kind \in K => OfKinds(t, K)
           /\ \A v : HeadsBelow(s, v) /\ (CarriesKey(f) => KeyVersion(f) < v) => HeadsBelow(t, v)
           /\ \A X, e : /\ MaySend(s, X, e)
                        /\ f.kind = "event" => /\ e < KeyVersion(f) /\ KeysBelow(X, KeyVersion(f))
                                               /\ HeadsBelow(s, KeyVersion(f))
                        => MaySend(t, X, e)
           /\ \A k : Ahead(s, k) /\ (f.kind = "event" => HeadsBelow(k, KeyVersion(f))) => Ahead(t, k)
<1>1. /\ Len(t) = (Len(s) + BodyBytes(f)) + 1 /\ \A i \in 1..Len(s) : t[i] = s[i]
      /\ t[Len(s) + 1].of = f /\ Len(s) \in Nat /\ BodyBytes(f) \in 1..2
  <2>1. /\ Len(t) = (Len(s) + BodyBytes(f)) + 1 /\ \A i \in 1..Len(s) : t[i] = s[i]
        /\ t[Len(s) + 1] = [of |-> f, at |-> 1]
    BY QueuedBytes
  <2> QED
    BY <2>1, BodyFacts, LenProperties
<1>2. \A i \in 1..Len(t) : t[i].at = 1 => i \in 1..Len(s) \/ i = Len(s) + 1
  <2>1. \A i \in 1..Len(t) : t[i].at = 1 => i <= Len(s) \/ i = Len(s) + 1
    BY QueuedFacts
  <2> QED
    BY <1>1, <2>1
<1>3. ASSUME NEW K, OfKinds(s, K), f.kind \in K PROVE OfKinds(t, K)
  BY <1>1, <1>2, <1>3 DEF OfKinds
<1>4. ASSUME NEW v, HeadsBelow(s, v), CarriesKey(f) => KeyVersion(f) < v PROVE HeadsBelow(t, v)
  BY <1>1, <1>2, <1>4 DEF HeadsBelow
<1>5. ASSUME NEW X, NEW e, MaySend(s, X, e),
             f.kind = "event" => /\ e < KeyVersion(f) /\ KeysBelow(X, KeyVersion(f))
                                 /\ HeadsBelow(s, KeyVersion(f))
      PROVE  MaySend(t, X, e)
  <2>1. SUFFICES ASSUME NEW i \in 1..Len(t), t[i].at = 1, t[i].of.kind = "event"
                 PROVE  /\ e < KeyVersion(t[i].of) /\ KeysBelow(X, KeyVersion(t[i].of))
                        /\ \A j \in 1..Len(t) : j < i /\ t[j].at = 1 /\ CarriesKey(t[j].of) =>
                              KeyVersion(t[j].of) < KeyVersion(t[i].of)
    BY DEF MaySend
  <2>2. \A j \in 1..Len(t) : j < i /\ t[j].at = 1 => j \in 1..Len(s) /\ t[j] = s[j]
    BY <1>1, <1>2, <2>1
  <2>3. CASE i \in 1..Len(s)
    <3>1. t[i] = s[i]
      BY <1>1, <2>3
    <3>2. /\ e < KeyVersion(s[i].of) /\ KeysBelow(X, KeyVersion(s[i].of))
          /\ \A j \in 1..Len(s) : j < i /\ s[j].at = 1 /\ CarriesKey(s[j].of) =>
                KeyVersion(s[j].of) < KeyVersion(s[i].of)
      BY <1>5, <2>1, <2>3, <3>1 DEF MaySend
    <3> QED
      BY <2>2, <3>1, <3>2
  <2>4. CASE i = Len(s) + 1
    <3>1. t[i].of = f
      BY <1>1, <2>4
    <3>2. e < KeyVersion(f) /\ KeysBelow(X, KeyVersion(f)) /\ HeadsBelow(s, KeyVersion(f))
      BY <1>5, <2>1, <3>1
    <3> QED
      BY <2>2, <3>1, <3>2 DEF HeadsBelow
  <2> QED
    BY <1>2, <2>1, <2>3, <2>4
<1>6. ASSUME NEW k, Ahead(s, k), f.kind = "event" => HeadsBelow(k, KeyVersion(f)) PROVE Ahead(t, k)
  BY <1>1, <1>2, <1>6 DEF Ahead
<1> QED
  BY <1>3, <1>4, <1>5, <1>6

LEMMA KeysWeaken ==
    ASSUME NEW v \in Int, NEW w \in Int, v <= w
    PROVE  /\ \A X \in Seq(Byte) : KeysBelow(X, v) => KeysBelow(X, w)
           /\ \A s \in Seq(Byte) : HeadsBelow(s, v) => HeadsBelow(s, w)
<1>1. \A f \in Frame : KeyVersion(f) \in Int /\ (KeyVersion(f) < v => KeyVersion(f) < w)
  BY VersionFacts
<1>2. \A X \in Seq(Byte) : \A i \in Ends(X) : X[i].of \in Frame
  BY EndsArePlain
<1>3. \A s \in Seq(Byte) : \A i \in 1..Len(s) : s[i].of \in Frame
  BY At
<1>4. \A X \in Seq(Byte) : KeysBelow(X, v) => KeysBelow(X, w)
  BY <1>1, <1>2 DEF KeysBelow
<1>5. \A s \in Seq(Byte) : HeadsBelow(s, v) => HeadsBelow(s, w)
  BY <1>1, <1>3 DEF HeadsBelow
<1> QED
  BY <1>4, <1>5

(* What a fault takes off the stream leaves the order as it is.               *)
LEMMA SpliceOrder ==
    ASSUME NEW X \in Seq(Byte), NEW Y \in Seq(Byte), NEW a \in Nat, NEW n \in Nat, NEW d \in Nat,
           Spliced(X, Y, a, n, d), NEW rs, NEW e, NEW v, InOrder(rs, X, e, v)
    PROVE  InOrder(rs, Y, e, v)
<1>1. /\ \A w : KeysBelow(X, w) => KeysBelow(Y, w)
      /\ KeysOrdered(X, e) => KeysOrdered(Y, e)
  BY SpliceKeys
<1>2. MaySend(rs["event"], X, e) => MaySend(rs["event"], Y, e)
  BY <1>1 DEF MaySend
<1> QED
  BY <1>1, <1>2 DEF InOrder

(* What was older than the first k bytes of a ring, and what comes behind.    *)
LEMMA SentKeys ==
    ASSUME NEW s \in Seq(Byte), NEW n \in 1..Len(s), NEW c, NEW t, Sent(s, n, c, t)
    PROVE  /\ \A i \in 1..Len(t) : n + i \in 1..Len(s) /\ t[i] = s[n + i]
           /\ \A K : OfKinds(s, K) => OfKinds(t, K)
           /\ \A v : HeadsBelow(s, v) => HeadsBelow(t, v)
           /\ \A k : Ahead(s, k) => Ahead(t, k)
           /\ n \in Nat /\ Len(t) \in Nat
<1>1. /\ t \in Seq(Byte) /\ Len(t) = Len(s) - n
      /\ \A i \in 1..(Len(s) - n) : t[i] = s[n + i]
  BY SentBytes
<1>2. Len(s) \in Nat /\ n \in Nat /\ n >= 1 /\ n <= Len(s)
  BY LenProperties
<1>3. \A i \in 1..Len(t) : n + i \in 1..Len(s) /\ t[i] = s[n + i]
  BY <1>1, <1>2
<1>4. \A K : OfKinds(s, K) => OfKinds(t, K)
  BY <1>3 DEF OfKinds
<1>5. \A v : HeadsBelow(s, v) => HeadsBelow(t, v)
  BY <1>3 DEF HeadsBelow
<1>6. \A k : Ahead(s, k) => Ahead(t, k)
  BY <1>3 DEF Ahead
<1> QED
  BY <1>1, <1>2, <1>3, <1>4, <1>5, <1>6

LEMMA SentMaySend ==
    ASSUME NEW s \in Seq(Byte), NEW n \in 1..Len(s), NEW c, NEW t, Sent(s, n, c, t),
           NEW X, NEW Y, NEW e, MaySend(s, X, e),
           \A w : /\ KeysBelow(X, w)
                  /\ \A i \in 1..n : s[i].at = 1 /\ CarriesKey(s[i].of) => KeyVersion(s[i].of) < w
                  => KeysBelow(Y, w)
    PROVE  MaySend(t, Y, e)
<1>1. n \in Nat /\ n <= Len(s) /\ Len(s) \in Nat /\ \A i \in 1..Len(t) : n + i \in 1..Len(s) /\ t[i] = s[n + i]
  BY SentKeys, LenProperties
<1>2. SUFFICES ASSUME NEW i \in 1..Len(t), t[i].at = 1, t[i].of.kind = "event"
               PROVE  /\ e < KeyVersion(t[i].of) /\ KeysBelow(Y, KeyVersion(t[i].of))
                      /\ \A j \in 1..Len(t) : j < i /\ t[j].at = 1 /\ CarriesKey(t[j].of) =>
                            KeyVersion(t[j].of) < KeyVersion(t[i].of)
  BY DEF MaySend
<1> DEFINE m == n + i
           w == KeyVersion(t[i].of)
<1>3. m \in 1..Len(s) /\ s[m] = t[i] /\ m > n
  BY <1>1
<1>4. /\ e < w /\ KeysBelow(X, w)
      /\ \A j \in 1..Len(s) : j < m /\ s[j].at = 1 /\ CarriesKey(s[j].of) => KeyVersion(s[j].of) < w
  BY <1>2, <1>3 DEF MaySend
<1> HIDE DEF w
<1>5. \A j \in 1..n : s[j].at = 1 /\ CarriesKey(s[j].of) => KeyVersion(s[j].of) < w
  <2>1. \A j \in 1..n : j \in 1..Len(s) /\ j < m
    BY <1>1, <1>3
  <2> QED
    BY <1>4, <2>1
<1>6. KeysBelow(Y, w)
  BY <1>4, <1>5
<1>7. \A j \in 1..Len(t) : j < i /\ t[j].at = 1 /\ CarriesKey(t[j].of) => KeyVersion(t[j].of) < w
  <2>1. TAKE j \in 1..Len(t)
  <2>2. n + j \in 1..Len(s) /\ t[j] = s[n + j] /\ (j < i => n + j < m)
    BY <1>1
  <2> QED
    BY <1>4, <2>2
<1> QED
  BY <1>4, <1>6, <1>7 DEF w

(* Of ring p, which holds s, t is left; the other rings are as they were.     *)
Leaves(rs, qs, p, s, t) ==
    /\ rs[p] = s /\ qs[p] = t
    /\ \A q \in Rings : q # p => qs[q] = rs[q]

(* Whatever chunk of whatever ring is sent, the stream stays in order.        *)
LEMMA SendOrder ==
    ASSUME NEW rs, NEW qs, NEW p \in Rings, NEW s \in Seq(Byte), Formed(s),
           NEW n \in 1..Len(s), NEW c, NEW t, Sent(s, n, c, t), Leaves(rs, qs, p, s, t),
           NEW H \in Seq(Byte), NEW e \in Nat, NEW v \in Nat, InOrder(rs, Stage(H, s, 0), e, v)
    PROVE  InOrder(qs, Stage(H, s, n), e, v)
<1> DEFINE X == Stage(H, s, 0)
           Z == Stage(H, s, n)
           ev == rs["event"]
<1>1. /\ rs[p] = s /\ qs[p] = t /\ \A q \in Rings : q # p => qs[q] = rs[q]
  BY DEF Leaves
<1>2. /\ \A q \in Rings : OfKinds(rs[q], Kinds[q]) /\ HeadsBelow(rs[q], v + 1)
      /\ e <= v /\ KeysBelow(X, v + 1) /\ KeysOrdered(X, e)
      /\ MaySend(ev, X, e) /\ Ahead(ev, rs["keepalive"])
  BY DEF InOrder
<1>3. /\ \A K : OfKinds(s, K) => OfKinds(t, K)
      /\ \A w : HeadsBelow(s, w) => HeadsBelow(t, w)
      /\ \A k : Ahead(s, k) => Ahead(t, k)
  BY SentKeys
<1>4. n \in 0..Len(s) /\ n \in Nat /\ n <= Len(s) /\ \A i \in 1..n : i \in 1..Len(s)
  BY LenProperties
<1>5. p = "event" \/ p = "input" \/ p = "keepalive"
  BY DEF Rings
<1> HIDE DEF X, Z, ev
<1>6. ASSUME NEW q \in Rings PROVE OfKinds(qs[q], Kinds[q]) /\ HeadsBelow(qs[q], v + 1)
  BY <1>1, <1>2, <1>3
<1>7. OfKinds(s, Kinds[p]) /\ HeadsBelow(s, v + 1)
  BY <1>1, <1>2
<1>8. p # "event" => \A i \in 1..Len(s) : s[i].at = 1 => s[i].of.kind # "event"
  <2>1. p # "event" => "event" \notin Kinds[p]
    BY <1>5 DEF Kinds
  <2> QED
    BY <1>7, <2>1 DEF OfKinds
<1>9. p = "input" => \A i \in 1..Len(s) : s[i].at = 1 => ~CarriesKey(s[i].of)
  BY <1>7 DEF OfKinds, Kinds, CarriesKey
<1>10. MaySend(s, X, e)
  <2>1. CASE p = "event"
    BY <1>1, <1>2, <2>1 DEF ev
  <2>2. CASE p # "event"
    BY <1>8, <2>2 DEF MaySend
  <2> QED
    BY <2>1, <2>2
<1>11. /\ KeysOrdered(Z, e)
       /\ \A w : /\ KeysBelow(X, w)
                 /\ \A i \in 1..n : s[i].at = 1 /\ CarriesKey(s[i].of) => KeyVersion(s[i].of) < w
                 => KeysBelow(Z, w)
  <2>1. KeysOrdered(Stage(H, s, 0), e) /\ MaySend(s, Stage(H, s, 0), e)
    BY <1>2, <1>10 DEF X
  <2> QED
    BY <1>4, <2>1, ChunkKeys DEF X, Z
<1>12. \A w : KeysBelow(X, w) /\ HeadsBelow(s, w) => KeysBelow(Z, w)
  BY <1>4, <1>11 DEF HeadsBelow
<1>13. KeysBelow(Z, v + 1)
  BY <1>2, <1>7, <1>12
<1>14. MaySend(qs["event"], Z, e) /\ Ahead(qs["event"], qs["keepalive"])
  <2>1. CASE p = "event"
    <3>1. MaySend(t, Z, e)
      BY <1>10, <1>11, SentMaySend
    <3>2. qs["event"] = t /\ ev = s /\ qs["keepalive"] = rs["keepalive"]
      BY <1>1, <2>1 DEF Rings, ev
    <3> QED
      BY <1>2, <1>3, <3>1, <3>2
  <2>2. CASE p # "event"
    <3>1. qs["event"] = ev
      BY <1>1, <2>2 DEF Rings, ev
    <3>2. ASSUME NEW i \in 1..Len(ev), ev[i].at = 1, ev[i].of.kind = "event"
          PROVE  HeadsBelow(s, KeyVersion(ev[i].of)) /\ HeadsBelow(qs["keepalive"], KeyVersion(ev[i].of))
      <4>1. HeadsBelow(rs["keepalive"], KeyVersion(ev[i].of))
        BY <1>2, <3>2 DEF Ahead
      <4>2. CASE p = "keepalive"
        BY <1>1, <1>3, <4>1, <4>2
      <4>3. CASE p = "input"
        <5>1. qs["keepalive"] = rs["keepalive"]
          BY <1>1, <4>3 DEF Rings
        <5> QED
          BY <1>9, <4>1, <4>3, <5>1 DEF HeadsBelow
      <4> QED
        BY <1>5, <2>2, <4>2, <4>3
    <3>3. MaySend(ev, Z, e)
      BY <1>2, <1>12, <3>2 DEF MaySend
    <3>4. Ahead(ev, qs["keepalive"])
      BY <3>2 DEF Ahead
    <3> QED
      BY <3>1, <3>3, <3>4
  <2> QED
    BY <2>1, <2>2
<1> QED
  BY <1>2, <1>6, <1>11, <1>13, <1>14 DEF InOrder, Z

(* A frame handed up is newer than what was, and older than what follows.     *)
LEMMA DeliverOrder ==
    ASSUME NEW rs, NEW X \in Seq(Byte), NEW Y \in Seq(Byte), NEW n, CutAt(X, Y, n), n - 1 \in Ends(X),
           NEW e \in Nat, NEW v \in Nat, NEW d \in Nat, InOrder(rs, X, e, v),
           d = e \/ (d = KeyVersion(X[n - 1].of) /\ CarriesKey(X[n - 1].of))
    PROVE  InOrder(rs, Y, d, v)
<1> DEFINE f == X[n - 1].of
           ev == rs["event"]
<1>1. n \in Nat /\ Spliced(X, Y, 0, n, 0) /\ 0 \in Nat
  BY CutTouches DEF CutAt
<1>2. CASE d = e
  BY <1>1, <1>2, SpliceOrder
<1>3. CASE d = KeyVersion(f) /\ CarriesKey(f)
  <2>1. /\ \A q \in Rings : OfKinds(rs[q], Kinds[q]) /\ HeadsBelow(rs[q], v + 1)
        /\ e <= v /\ KeysBelow(X, v + 1) /\ KeysOrdered(X, e)
        /\ MaySend(ev, X, e) /\ Ahead(ev, rs["keepalive"])
    BY DEF InOrder
  <2>2. \A w : KeysBelow(X, w) => KeysBelow(Y, w) /\ d < w
    BY <1>1, <1>3, SpliceKeys DEF KeysBelow
  <2>3. d <= v
    BY <2>1, <2>2
  <2>4. KeysOrdered(Y, d)
    BY <1>3, <2>1, CutKeys
  <2> HIDE DEF ev
  <2>5. MaySend(ev, Y, d)
    BY <2>1, <2>2 DEF MaySend
  <2> QED
    BY <2>1, <2>2, <2>3, <2>4, <2>5 DEF InOrder, ev
<1> QED
  BY <1>2, <1>3

LEMMA KeyFacts ==
    ASSUME Typed
    PROVE  /\ newest["event"] \in Nat /\ ver["event"] \in Nat /\ ver["event"] <= MaxTransitions
           /\ ver \in Version /\ newest \in Version
<1>1. ver \in Version /\ newest \in Version
  BY DEF Typed, TypeOK
<1>2. ver["event"] \in 0..MaxTransitions /\ newest["event"] \in 0..MaxTransitions
  BY <1>1 DEF Version, Streams
<1> QED
  BY <1>1, <1>2, BoundsAssumption

(* A frame of the right kind is queued: a key event newer than all before, a  *)
(* snapshot only behind the last key event.                                   *)
LEMMA QueueOrder ==
    ASSUME Typed, Framed, Accounted, NEW r \in Rings, NEW f \in Frame, wire_link_enqueue(r, f),
           UNCHANGED <<rx_vars, count_vars>>,
           NEW v \in Nat, InOrder(rings, Stream, newest["event"], v),
           f.kind \in Kinds[r], CarriesKey(f) => KeyVersion(f) < v + 1,
           f.kind = "event" =>
              /\ newest["event"] < KeyVersion(f) /\ KeysBelow(Stream, KeyVersion(f))
              /\ \A q \in Rings : HeadsBelow(rings[q], KeyVersion(f)),
           CarriesKey(f) /\ r = "keepalive" => rings["event"] = <<>>
    PROVE  /\ InOrder(rings', Stream', newest'["event"], v)
           /\ rings'["event"] = rings["event"] \/ (r = "event" /\ Fits(r, f))
<1> DEFINE e == newest["event"]
           X == Stream
           ev == rings["event"]
           ka == rings["keepalive"]
<1>1. Stream' = X
  BY QueueAccounts
<1>2. newest' = newest
  BY DEF rx_vars
<1>3. \A q \in Rings : \/ rings'[q] = rings[q]
                       \/ q = r /\ Fits(r, f) /\ Queued(rings[q], f, rings'[q])
  BY EnqueueStep
<1>4. \A q \in Rings : rings[q] \in Seq(Byte) /\ Formed(rings[q])
  BY RingFacts
<1>5. /\ \A q \in Rings : OfKinds(rings[q], Kinds[q]) /\ HeadsBelow(rings[q], v + 1)
      /\ e <= v /\ KeysBelow(X, v + 1) /\ KeysOrdered(X, e)
      /\ MaySend(ev, X, e) /\ Ahead(ev, ka)
  BY DEF InOrder
<1>6. {"event", "keepalive"} \subseteq Rings
  BY DEF Rings
<1>7. f.kind = "event" => e < KeyVersion(f) /\ KeysBelow(X, KeyVersion(f))
                          /\ HeadsBelow(ev, KeyVersion(f)) /\ HeadsBelow(ka, KeyVersion(f))
  BY <1>6
<1> HIDE DEF e, X, ev, ka
<1>8. ASSUME NEW q \in Rings PROVE OfKinds(rings'[q], Kinds[q]) /\ HeadsBelow(rings'[q], v + 1)
  <2>1. CASE rings'[q] = rings[q]
    BY <1>5, <2>1
  <2>2. CASE q = r /\ Queued(rings[q], f, rings'[q])
    <3>1. /\ \A K : OfKinds(rings[q], K) /\ f.kind \in K => OfKinds(rings'[q], K)
          /\ \A w : HeadsBelow(rings[q], w) /\ (CarriesKey(f) => KeyVersion(f) < w)
                       => HeadsBelow(rings'[q], w)
      BY <1>4, <2>2, QueuedKeys
    <3> QED
      BY <1>5, <2>2, <3>1
  <2> QED
    BY <1>3, <2>1, <2>2
<1>9. MaySend(rings'["event"], X, e)
  <2>1. CASE rings'["event"] = ev
    BY <1>5, <2>1
  <2>2. CASE rings'["event"] # ev
    <3>1. Queued(ev, f, rings'["event"]) /\ ev \in Seq(Byte) /\ Formed(ev)
      BY <1>3, <1>4, <1>6, <2>2 DEF ev
    <3> QED
      BY <1>5, <1>7, <3>1, QueuedKeys
  <2> QED
    BY <2>1, <2>2
<1>10. Ahead(rings'["event"], rings'["keepalive"])
  <2>1. CASE r = "event"
    <3>1. rings'["keepalive"] = ka
      BY <1>3, <1>6, <2>1 DEF ka
    <3>2. rings'["event"] = ev \/ Queued(ev, f, rings'["event"])
      BY <1>3, <1>6 DEF ev
    <3>3. ev \in Seq(Byte) /\ Formed(ev)
      BY <1>4, <1>6 DEF ev
    <3>4. Queued(ev, f, rings'["event"]) => Ahead(rings'["event"], ka)
      BY <1>5, <1>7, <3>3, QueuedKeys
    <3> QED
      BY <1>5, <3>1, <3>2, <3>4
  <2>2. CASE r # "event"
    <3>1. rings'["event"] = ev
      BY <1>3, <1>6, <2>2 DEF ev
    <3>2. rings'["keepalive"] = ka \/ (r = "keepalive" /\ Queued(ka, f, rings'["keepalive"]))
      BY <1>3, <1>6 DEF ka
    <3>3. ka \in Seq(Byte) /\ Formed(ka) /\ ev \in Seq(Byte)
      BY <1>4, <1>6 DEF ka, ev
    <3>4. CASE rings'["keepalive"] = ka
      BY <1>5, <3>1, <3>4
    <3>5. CASE r = "keepalive" /\ CarriesKey(f)
      <4>1. Len(ev) = 0
        BY <3>3, <3>5, EmptyBytes DEF ev
      <4>2. Ahead(ev, rings'["keepalive"])
        BY <4>1 DEF Ahead
      <4> QED
        BY <3>1, <4>2
    <3>6. CASE Queued(ka, f, rings'["keepalive"]) /\ ~CarriesKey(f)
      <4>1. \A w : HeadsBelow(ka, w) => HeadsBelow(rings'["keepalive"], w)
        BY <3>3, <3>6, QueuedKeys
      <4> QED
        BY <1>5, <3>1, <4>1 DEF Ahead
    <3> QED
      BY <3>2, <3>4, <3>5, <3>6
  <2> QED
    BY <2>1, <2>2
<1>11. InOrder(rings', X, e, v)
  BY <1>5, <1>8, <1>9, <1>10 DEF InOrder
<1>12. rings'["event"] = rings["event"] \/ (r = "event" /\ Fits(r, f))
  BY <1>3, <1>6
<1> QED
  BY <1>1, <1>2, <1>11, <1>12 DEF e

(* What reaches the receiver of a chunk is the chunk but for what the fault   *)
(* took.                                                                      *)
LEMMA ReceiveSplices ==
    ASSUME Typed, Framed, Parsing, BytesArrive \/ BytesDamaged
    PROVE  \E n \in ChunkSizes : TxReady(n) /\
             \E p, s, c, t, H : /\ Sends(p, n, s, c, t) /\ Holds(H)
                                /\ Stream' \in Seq(Byte)
                                /\ \E a, m, d \in Nat :
                                      Spliced((H \o c) \o Remainder(t), Stream', a, m, d)
<1>1. PICK n \in ChunkSizes :
        TxReady(n) /\ (RxReady(Chunk(n)) \/ \E bytes \in Damaged(Chunk(n)) : DamagedReady(bytes))
  BY DEF BytesArrive, BytesDamaged
<1>2. PICK p, s, c, t : Sends(p, n, s, c, t)
  BY <1>1, SendStep
<1>3. PICK H : Holds(H)
  BY DEF Holds
<1>4. c = Chunk(n) /\ c \in Seq(Byte) /\ s \in Seq(Byte) /\ t \in Seq(Byte) /\ Formed(s)
      /\ n \in 1..Len(s) /\ Sent(s, n, c, t)
  BY <1>1, <1>2, SendTypes DEF Sends
<1>5. Remainder(t) \in Seq(Byte)
  <2>1. Formed(t)
    BY <1>4, SentFacts
  <2> QED
    BY <1>4, <2>1, RemainderFacts
<1>6. H \in Seq(Byte) /\ Len(H) \in Nat /\ Parsed(discarding, accumulator) \in Seq(Byte)
      /\ rx_ring \in Seq(Byte)
  BY <1>3, LineFacts, LenProperties DEF Holds, Typed
<1>7. \E b \in Seq(Byte) : rx_ring' = rx_ring \o b /\ \E a, m, d \in Nat : Spliced(c, b, a, m, d)
  <2>1. CASE RxReady(Chunk(n))
    <3>1. PICK w : Keeps(c, w)
      BY <1>4, <2>1, ReceiveStep
    <3>2. w \in 0..Len(c) /\ rx_ring' = rx_ring \o SubSeq(c, 1, w)
      BY <3>1 DEF Keeps
    <3>3. SubSeq(c, 1, w) \in Seq(Byte) /\ Len(c) - w \in Nat /\ w \in Nat
          /\ Spliced(c, SubSeq(c, 1, w), w, Len(c) - w, 0)
      BY <1>4, <3>2, PrefixSpliced, LenProperties
    <3> QED
      BY <3>2, <3>3
  <2>2. CASE \E bytes \in Damaged(Chunk(n)) : DamagedReady(bytes)
    <3>1. PICK b \in Damaged(c) : DamagedReady(b)
      BY <1>4, <2>2
    <3>2. b \in Seq(Byte) /\ \E i \in 1..Len(c), e \in 0..1 : Spliced(c, b, i - 1, 1, e)
      BY <1>4, DamagedFacts
    <3>3. rx_ring' = rx_ring \o b
      BY <3>1 DEF DamagedReady
    <3>4. PICK i \in 1..Len(c), e \in 0..1 : Spliced(c, b, i - 1, 1, e)
      BY <3>2
    <3>5. i - 1 \in Nat /\ 1 \in Nat /\ e \in Nat
      BY <1>4, LenProperties
    <3> QED
      BY <3>2, <3>3, <3>4, <3>5
  <2> QED
    BY <1>1, <2>1, <2>2
<1>8. PICK b \in Seq(Byte) : rx_ring' = rx_ring \o b /\ \E a, m, d \in Nat : Spliced(c, b, a, m, d)
  BY <1>7
<1>9. PICK a \in Nat, m \in Nat, d \in Nat : Spliced(c, b, a, m, d)
  BY <1>8
<1> DEFINE R == Remainder(t)
<1>10. Stream' = (H \o b) \o R
  BY <1>1, <1>2, <1>3, <1>6, <1>8, StreamAfterSend DEF Holds
<1> HIDE DEF R
<1>11. R \in Seq(Byte)
  BY <1>5 DEF R
<1>12. Spliced((H \o c) \o R, (H \o b) \o R, Len(H) + a, m, d)
  BY <1>4, <1>6, <1>9, <1>11, SpliceIn
<1>13. (H \o b) \o R \in Seq(Byte)
  <2>1. H \o b \in Seq(Byte)
    BY <1>6, ConcatProperties
  <2> QED
    BY <1>11, <2>1, ConcatProperties
<1>14. Len(H) + a \in Nat
  BY <1>6
<1>15. Spliced((H \o c) \o R, Stream', Len(H) + a, m, d) /\ Stream' \in Seq(Byte)
  BY <1>10, <1>12, <1>13
<1> QED
  BY <1>1, <1>2, <1>3, <1>14, <1>15 DEF R

LEMMA ReceiveOrder ==
    ASSUME Typed, Framed, Parsing, Accounted, Ordered, BytesArrive \/ BytesDamaged
    PROVE  Ordered'
<1>1. PICK n \in ChunkSizes : TxReady(n) /\
             \E p, s, c, t, H : /\ Sends(p, n, s, c, t) /\ Holds(H)
                                /\ Stream' \in Seq(Byte)
                                /\ \E a, m, d \in Nat :
                                      Spliced((H \o c) \o Remainder(t), Stream', a, m, d)
  BY ReceiveSplices
<1>2. PICK p, s, c, t, H : /\ Sends(p, n, s, c, t) /\ Holds(H)
                           /\ Stream' \in Seq(Byte)
                           /\ \E a, m, d \in Nat :
                                 Spliced((H \o c) \o Remainder(t), Stream', a, m, d)
  BY <1>1
<1>3. PICK a \in Nat, m \in Nat, d \in Nat : Spliced((H \o c) \o Remainder(t), Stream', a, m, d)
  BY <1>2
<1> DEFINE e == newest["event"]
           v == ver["event"]
           Y == Stream'
<1>4. /\ H \in Seq(Byte) /\ s \in Seq(Byte) /\ Formed(s)
      /\ Stage(H, s, 0) = Stream /\ Stage(H, s, n) = (H \o c) \o Remainder(t)
      /\ Stage(H, s, n) \in Seq(Byte)
  <2>1. TxReady(n) /\ Sends(p, n, s, c, t) /\ Holds(H)
    BY <1>1, <1>2
  <2> QED
    BY <2>1, SendAccounts, SMTT(20)
<1>5. /\ p \in Rings /\ n \in 1..Len(s) /\ Sent(s, n, c, t) /\ Leaves(rings, rings', p, s, t)
  BY <1>2 DEF Sends, Leaves
<1>6. e \in Nat /\ v \in Nat
  BY KeyFacts
<1>7. ver' = ver /\ newest' = newest /\ idle' = idle
  BY <1>1 DEF TxReady
<1>8. InOrder(rings, Stage(H, s, 0), e, v)
  BY <1>4 DEF Ordered
<1> HIDE DEF e, v, Y
<1>9. InOrder(rings', Stage(H, s, n), e, v)
  BY <1>4, <1>5, <1>6, <1>8, SendOrder
<1>10. Spliced(Stage(H, s, n), Y, a, m, d) /\ Y \in Seq(Byte)
  BY <1>2, <1>3, <1>4 DEF Y
<1> DEFINE Z == Stage(H, s, n)
<1> HIDE DEF Z
<1>11. InOrder(rings', Y, e, v)
  <2>1. Z \in Seq(Byte) /\ Spliced(Z, Y, a, m, d) /\ Y \in Seq(Byte) /\ InOrder(rings', Z, e, v)
    BY <1>4, <1>9, <1>10 DEF Z
  <2> QED
    BY <1>3, <2>1, SpliceOrder
<1>12. idle => rings'["event"] = rings["event"]
  <2>1. SUFFICES ASSUME idle PROVE rings'["event"] = rings["event"]
    OBVIOUS
  <2>2. rings["event"] = <<>>
    BY <2>1 DEF Ordered
  <2>3. rings[p] = s
    BY <1>5 DEF Leaves
  <2>4. s # <<>>
    BY <1>4, <1>5, EmptyBytes
  <2> QED
    BY <1>5, <2>2, <2>3, <2>4 DEF Leaves, Rings
<1> QED
  BY <1>7, <1>11, <1>12 DEF Ordered, e, v, Y

(* A restart takes one end off the stream.                                    *)
LEMMA RebootSplices ==
    ASSUME Typed, Framed, Parsing, PeripheralReboot \/ ReceiverReboot
    PROVE  /\ Stream \in Seq(Byte) /\ Stream' \in Seq(Byte)
           /\ \E a, m, d \in Nat : Spliced(Stream, Stream', a, m, d)
<1>1. PICK H : Holds(H)
  BY DEF Holds
<1> DEFINE R == Rest(rings, wire_tx_frame_ring)
           E == <<>>
<1>2. /\ H \in Seq(Byte) /\ R \in Seq(Byte) /\ Stream \in Seq(Byte) /\ Stream = H \o R
  BY <1>1, LineFacts DEF Holds, Stream, Line
<1>3. E \in Seq(Byte) /\ Len(E) = 0 /\ E \o E = E
  BY EmptySeq, ConcatEmptySeq
<1>4. H \o E = H /\ E \o H = H /\ E \o R = R /\ (H \o R) \o E = H \o R
  <2>1. H \o R \in Seq(Byte)
    BY <1>2
  <2> HIDE DEF R
  <2> QED
    BY <1>2, <2>1, ConcatEmptySeq
<1>5. Len(H) \in Nat /\ Len(R) \in Nat /\ 0 \in Nat
  BY <1>2, LenProperties
<1>6. Spliced(H, E, 0, Len(H), 0) /\ Spliced(R, E, 0, Len(R), 0)
  BY <1>2, DropSpliced
<1>7. CASE PeripheralReboot
  <2>1. /\ wire_tx_frame_ring' = "none" /\ rx_ring' = rx_ring /\ accumulator' = accumulator
        /\ discarding' = discarding
    BY <1>7 DEF PeripheralReboot, rx_vars
  <2>2. Stream' = H
    BY <1>1, <1>4, <2>1 DEF Stream, Line, Rest, Holds
  <2> HIDE DEF R, E
  <2>3. Spliced((H \o R) \o E, (H \o E) \o E, Len(H) + 0, Len(R), 0)
    BY <1>2, <1>3, <1>5, <1>6, SpliceIn
  <2>4. Len(H) + 0 \in Nat
    BY <1>5
  <2> QED
    BY <1>2, <1>4, <1>5, <2>2, <2>3, <2>4
<1>8. CASE ReceiverReboot
  <2>1. /\ rings' = rings /\ wire_tx_frame_ring' = wire_tx_frame_ring
        /\ rx_ring' = <<>> /\ accumulator' = <<>> /\ discarding' = FALSE
    BY <1>8 DEF ReceiverReboot, tx_vars
  <2>2. Stream' = R
    BY <1>3, <1>4, <2>1 DEF Stream, Line, Here, Parsed
  <2> HIDE DEF R, E
  <2>3. Spliced((E \o H) \o R, (E \o E) \o R, Len(E) + 0, Len(H), 0)
    BY <1>2, <1>3, <1>5, <1>6, SpliceIn
  <2>4. Len(E) + 0 \in Nat
    BY <1>3, <1>5
  <2> QED
    BY <1>2, <1>3, <1>4, <1>5, <2>2, <2>3, <2>4
<1> QED
  BY <1>7, <1>8

LEMMA EmptyRingKeys ==
    ASSUME NEW s, Len(s) = 0
    PROVE  /\ \A K : OfKinds(s, K)
           /\ \A v : HeadsBelow(s, v)
           /\ \A X, e : MaySend(s, X, e)
           /\ \A k : Ahead(s, k)
<1>1. 1..Len(s) = {}
  OBVIOUS
<1> QED
  BY <1>1 DEF OfKinds, HeadsBelow, MaySend, Ahead

LEMMA RebootOrder ==
    ASSUME Typed, Framed, Parsing, Ordered, PeripheralReboot \/ ReceiverReboot
    PROVE  Ordered'
<1> DEFINE e == newest["event"]
           v == ver["event"]
<1>1. PICK a \in Nat, m \in Nat, d \in Nat : Spliced(Stream, Stream', a, m, d)
  BY RebootSplices
<1>2. Stream \in Seq(Byte) /\ Stream' \in Seq(Byte)
  BY RebootSplices
<1>3. InOrder(rings, Stream, e, v)
  BY DEF Ordered
<1> DEFINE Y == Stream'
<1>4. InOrder(rings, Y, e, v)
  BY <1>1, <1>2, <1>3, SpliceOrder
<1>5. CASE ReceiverReboot
  <2>1. rings' = rings /\ ver' = ver /\ newest' = newest /\ idle' = idle
    BY <1>5 DEF ReceiverReboot, tx_vars
  <2> QED
    BY <1>4, <2>1 DEF Ordered
<1>6. CASE PeripheralReboot
  <2>1. /\ \A r \in Rings : rings'[r] = <<>>
        /\ ver' = [s \in Streams |-> ver[s] + (ver[s] % 2)]
        /\ newest' = newest /\ idle' = FALSE
    BY <1>6 DEF PeripheralReboot, rx_vars
  <2>2. e \in Nat /\ v \in Nat
    BY KeyFacts
  <2> DEFINE w == ver'["event"]
  <2>3. w = v + (v % 2)
    BY <2>1 DEF Streams
  <2> HIDE DEF e, v, w, Y
  <2>4. w \in Nat /\ v <= w /\ v + 1 \in Int /\ w + 1 \in Int /\ v + 1 <= w + 1
    BY <2>2, <2>3
  <2>5. e <= v /\ KeysBelow(Y, v + 1) /\ KeysOrdered(Y, e)
    BY <1>4 DEF InOrder
  <2>6. e <= w /\ KeysBelow(Y, w + 1)
    <3>1. \A X \in Seq(Byte) : KeysBelow(X, v + 1) => KeysBelow(X, w + 1)
      BY <2>4, KeysWeaken
    <3> QED
      BY <1>2, <2>2, <2>4, <2>5, <3>1 DEF Y
  <2>7. {"event", "keepalive"} \subseteq Rings
    BY DEF Rings
  <2>8. InOrder(rings', Y, e, w)
    <3>0. \A r \in Rings : Len(rings'[r]) = 0
      BY <2>1, EmptySeq
    <3>1. \A r \in Rings : OfKinds(rings'[r], Kinds[r]) /\ HeadsBelow(rings'[r], w + 1)
      BY <3>0, EmptyRingKeys
    <3>2. MaySend(rings'["event"], Y, e) /\ Ahead(rings'["event"], rings'["keepalive"])
      BY <3>0, <2>7, EmptyRingKeys
    <3> QED
      BY <2>5, <2>6, <3>1, <3>2 DEF InOrder
  <2> QED
    BY <2>1, <2>8 DEF Ordered, e, w, Y
<1> QED
  BY <1>5, <1>6

LEMMA ProcessOrder ==
    ASSUME Typed, Framed, Parsing, Accounted, Ordered, wire_process_ring
    PROVE  Ordered'
<1> DEFINE e == newest["event"]
           v == ver["event"]
           X == Stream
           Y == Stream'
           d == newest'["event"]
<1>1. rings' = rings /\ ver' = ver /\ idle' = idle
  BY DEF wire_process_ring, tx_vars
<1>2. e \in Nat /\ v \in Nat /\ newest \in Version
  BY KeyFacts
<1>3. InOrder(rings, X, e, v) /\ (idle => rings["event"] = <<>>)
  BY DEF Ordered
<1>4. CASE \A f : ~Delivers(f)
  <2>1. /\ newest' = newest /\ X \in Seq(Byte) /\ Y \in Seq(Byte)
        /\ \E a, n, s \in Nat : Spliced(X, Y, a, n, s)
    BY <1>4, ParserKeeps
  <2>2. PICK a \in Nat, n \in Nat, s \in Nat : Spliced(X, Y, a, n, s)
    BY <2>1
  <2> HIDE DEF X, Y
  <2>3. InOrder(rings, Y, e, v)
    BY <1>3, <2>1, <2>2, SpliceOrder
  <2> QED
    BY <1>1, <1>3, <2>1, <2>3 DEF Ordered, Y
<1>5. ASSUME NEW f, Delivers(f) PROVE Ordered'
  <2>1. /\ f \in Frame /\ wire_on_frame(f) /\ X \in Seq(Byte) /\ Y \in Seq(Byte)
        /\ \E n : CutAt(X, Y, n) /\ n - 1 \in Ends(X) /\ X[n - 1].of = f
    BY <1>5, ParserDelivers
  <2>2. PICK n : CutAt(X, Y, n) /\ n - 1 \in Ends(X) /\ X[n - 1].of = f
    BY <2>1
  <2> DEFINE h == HandedUp(f, newest)["event"]
  <2>3. newest' = Newer(f)
    BY <2>1 DEF wire_on_frame
  <2>4. Newer(f) \in Version /\ d \in {e, h}
    BY <1>2, <2>1, <2>3, NewerFacts
  <2>5. d \in Nat
    BY <2>3, <2>4, BoundsAssumption DEF Version, Streams
  <2>6. IF CarriesKey(f) THEN h = KeyVersion(f) ELSE h = e
    <3>1. f.kind \in {"event", "input", "snapshot", "beat"} /\ newest \in [Streams -> 0..MaxTransitions]
      BY <1>2, <2>1 DEF Frame, Version
    <3> QED
      BY <3>1 DEF HandedUp, CarriesKey, KeyVersion, Streams
  <2> HIDE DEF X, Y, h, d, e, v
  <2>7. d = e \/ (d = KeyVersion(X[n - 1].of) /\ CarriesKey(X[n - 1].of))
    BY <2>2, <2>4, <2>6
  <2>8. InOrder(rings, Y, d, v)
    BY <1>2, <1>3, <2>1, <2>2, <2>5, <2>7, DeliverOrder
  <2> QED
    BY <1>1, <1>3, <2>8 DEF Ordered, Y, d, v
<1> QED
  BY <1>4, <1>5

LEMMA OrderedInit ==
    ASSUME Init
    PROVE  Ordered
<1>1. /\ \A r \in Rings : rings[r] = <<>>
      /\ wire_tx_frame_ring = "none" /\ idle = FALSE
      /\ rx_ring = <<>> /\ accumulator = <<>> /\ discarding = FALSE
      /\ newest["event"] = 0 /\ ver["event"] = 0
  BY DEF Init, NoVersion, Streams
<1>2. <<>> \in Seq(Byte) /\ Len(<<>>) = 0 /\ <<>> \o <<>> = <<>>
  BY EmptySeq, ConcatEmptySeq
<1>3. Stream = <<>>
  BY <1>1, <1>2 DEF Stream, Line, Here, Parsed, Rest
<1>4. Ends(Stream) = {}
  BY <1>2, <1>3 DEF Ends
<1>5. KeysBelow(Stream, 0 + 1) /\ KeysOrdered(Stream, 0)
  BY <1>4 DEF KeysBelow, KeysOrdered
<1>6. \A r \in Rings : Len(rings[r]) = 0
  BY <1>1, <1>2
<1>7. /\ \A r \in Rings : OfKinds(rings[r], Kinds[r]) /\ HeadsBelow(rings[r], 0 + 1)
      /\ MaySend(rings["event"], Stream, 0) /\ Ahead(rings["event"], rings["keepalive"])
  BY <1>6, EmptyRingKeys DEF Rings
<1>8. InOrder(rings, Stream, 0, 0)
  BY <1>5, <1>7 DEF InOrder
<1> QED
  BY <1>1, <1>8 DEF Ordered

LEMMA OrderWeakens ==
    ASSUME Typed, Framed, Parsing, NEW e, NEW v \in Nat, InOrder(rings, Stream, e, v), e \in Nat
    PROVE  InOrder(rings, Stream, e, v + 1)
<1>1. Stream \in Seq(Byte) /\ \A r \in Rings : rings[r] \in Seq(Byte)
  BY LineFacts, RingFacts
<1> DEFINE w == v + 1
           u == w + 1
<1>2. w \in Int /\ u \in Int /\ w <= u /\ (e <= v => e <= w)
  OBVIOUS
<1> HIDE DEF w, u
<1>3. /\ \A X \in Seq(Byte) : KeysBelow(X, w) => KeysBelow(X, u)
      /\ \A s \in Seq(Byte) : HeadsBelow(s, w) => HeadsBelow(s, u)
  BY <1>2, KeysWeaken
<1>4. InOrder(rings, Stream, e, v)
  OBVIOUS
<1>5. /\ \A r \in Rings : OfKinds(rings[r], Kinds[r]) /\ HeadsBelow(rings[r], w)
      /\ e <= v /\ KeysBelow(Stream, w) /\ KeysOrdered(Stream, e)
      /\ MaySend(rings["event"], Stream, e) /\ Ahead(rings["event"], rings["keepalive"])
  BY <1>4 DEF InOrder, w
<1>6. InOrder(rings, Stream, e, w)
  BY <1>1, <1>2, <1>3, <1>5 DEF InOrder, u
<1> QED
  BY <1>6 DEF w

LEMMA EventOrder ==
    ASSUME Typed, Framed, Parsing, Accounted, Ordered, wire_peripheral_report_event
    PROVE  Ordered'
<1> DEFINE f == Delta("event", ver')
           v == ver["event"]
           e == newest["event"]
           w == v + 1
<1>1. /\ ver' = [ver EXCEPT !["event"] = @ + 1]
      /\ wire_link_enqueue("event", f) /\ idle' = (idle /\ ~Fits("event", f))
      /\ UNCHANGED <<rx_vars, count_vars>>
  BY DEF wire_peripheral_report_event
<1>2. v \in Nat /\ e \in Nat /\ ver \in Version
  BY KeyFacts
<1>3. ver'["event"] = w
  BY <1>1, <1>2 DEF Version, Streams
<1>4. ver' \in Version
  BY ShapeStep DEF Next, Typed, TypeOK
<1>5. f \in Frame /\ f.kind = "event" /\ KeyVersion(f) = w
  <2>1. f \in Frame
    BY <1>4, VersionType
  <2>2. f.kind = "event" /\ KeyVersion(f) = ver'["event"]
    BY DEF Delta, KeyVersion, NoVersion, Streams
  <2> QED
    BY <1>3, <2>1, <2>2
<1>6. InOrder(rings, Stream, e, v) /\ (idle => rings["event"] = <<>>)
  BY DEF Ordered
<1> HIDE DEF e, v
<1>7. InOrder(rings, Stream, e, w) /\ w \in Nat /\ w < w + 1
  BY <1>2, <1>6, OrderWeakens
<1>8. /\ e < w /\ KeysBelow(Stream, w) /\ \A q \in Rings : HeadsBelow(rings[q], w)
  BY <1>2, <1>6 DEF InOrder
<1> HIDE DEF f, w
<1>9. /\ InOrder(rings', Stream', newest'["event"], w)
      /\ rings'["event"] = rings["event"] \/ Fits("event", f)
  <2>1. "event" \in Rings /\ f.kind \in Kinds["event"] /\ "event" # "keepalive"
    BY <1>5 DEF Rings, Kinds
  <2>2. /\ CarriesKey(f) => KeyVersion(f) < w + 1
        /\ f.kind = "event" =>
              /\ newest["event"] < KeyVersion(f) /\ KeysBelow(Stream, KeyVersion(f))
              /\ \A q \in Rings : HeadsBelow(rings[q], KeyVersion(f))
    BY <1>5, <1>7, <1>8 DEF e
  <2>3. InOrder(rings, Stream, newest["event"], w)
    BY <1>7 DEF e
  <2> QED
    BY <1>1, <1>5, <1>7, <2>1, <2>2, <2>3, QueueOrder
<1>10. idle' => rings'["event"] = <<>>
  BY <1>1, <1>6, <1>9, Zenon
<1> QED
  BY <1>3, <1>9, <1>10 DEF Ordered

(* The frames of the other rings: keys stand still.                           *)
LEMMA OtherOrder ==
    ASSUME Typed, Framed, Parsing, Accounted, Ordered, NEW r \in Rings, NEW f \in Frame,
           wire_link_enqueue(r, f), UNCHANGED <<rx_vars, count_vars>>, ver' = ver,
           r # "event", f.kind # "event", f.kind \in Kinds[r],
           CarriesKey(f) => KeyVersion(f) <= ver["event"],
           CarriesKey(f) /\ r = "keepalive" => idle,
           idle' => idle \/ rings["event"] = <<>>
    PROVE  Ordered'
<1>1. ver["event"] \in Nat
  BY KeyFacts
<1>2. InOrder(rings, Stream, newest["event"], ver["event"]) /\ (idle => rings["event"] = <<>>)
  BY DEF Ordered
<1>3. CarriesKey(f) => KeyVersion(f) < ver["event"] + 1
  BY <1>1, VersionFacts
<1>4. CarriesKey(f) /\ r = "keepalive" => rings["event"] = <<>>
  BY <1>2
<1>5. /\ InOrder(rings', Stream', newest'["event"], ver["event"])
      /\ rings'["event"] = rings["event"] \/ (r = "event" /\ Fits(r, f))
  <2> DEFINE v == ver["event"]
  <2>1. v \in Nat /\ InOrder(rings, Stream, newest["event"], v) /\ (CarriesKey(f) => KeyVersion(f) < v + 1)
    BY <1>1, <1>2, <1>3
  <2> HIDE DEF v
  <2>2. /\ InOrder(rings', Stream', newest'["event"], v)
        /\ rings'["event"] = rings["event"] \/ (r = "event" /\ Fits(r, f))
    BY <1>4, <2>1, QueueOrder
  <2> QED
    BY <2>2 DEF v
<1>6. ver'["event"] = ver["event"]
  OBVIOUS
<1>7. InOrder(rings', Stream', newest'["event"], ver'["event"])
  BY <1>5, <1>6
<1>8. idle' => rings'["event"] = <<>>
  BY <1>2, <1>5, Zenon
<1> QED
  BY <1>7, <1>8 DEF Ordered

LEMMA OrderedStep ==
    ASSUME Typed, Framed, Parsing, Accounted, Ordered, [Next]_vars
    PROVE  Ordered'
<1>1. ver \in Version /\ ver["event"] \in Nat
  BY KeyFacts
<1>2. ASSUME wire_link_send_input PROVE Ordered'
  <2> DEFINE f == Delta("input", ver)
  <2>1. /\ wire_link_enqueue("input", f) /\ idle' = (idle /\ ~Fits("input", f))
        /\ ver' = ver /\ UNCHANGED <<rx_vars, count_vars>>
    BY <1>2 DEF wire_link_send_input
  <2>2. f \in Frame /\ f.kind = "input"
    BY <1>1, VersionType DEF Delta
  <2> HIDE DEF f
  <2>3. "input" \in Rings /\ f.kind \in Kinds["input"] /\ ~CarriesKey(f) /\ f.kind # "event"
    BY <2>2 DEF Rings, Kinds, CarriesKey
  <2>4. idle' => idle
    BY <2>1, Zenon
  <2> QED
    BY <2>1, <2>2, <2>3, <2>4, OtherOrder
<1>3. ASSUME wire_peripheral_keepalive_fire PROVE Ordered'
  <2> DEFINE f == Snapshot(ver)
  <2>1. /\ wire_link_enqueue("keepalive", f) /\ idle
        /\ ver' = ver /\ UNCHANGED <<rx_vars, count_vars>>
    BY <1>3 DEF wire_peripheral_keepalive_fire
  <2>2. f \in Frame /\ f.kind = "snapshot" /\ KeyVersion(f) = ver["event"]
    BY <1>1, VersionType DEF Snapshot, KeyVersion
  <2> HIDE DEF f
  <2>3. "keepalive" \in Rings /\ f.kind \in Kinds["keepalive"] /\ f.kind # "event"
        /\ KeyVersion(f) <= ver["event"]
    BY <1>1, <2>2 DEF Rings, Kinds
  <2> QED
    BY <2>1, <2>2, <2>3, OtherOrder
<1>4. ASSUME wire_keepalive_fire PROVE Ordered'
  <2> DEFINE f == Beat
  <2>1. /\ wire_link_enqueue("keepalive", f) /\ idle' = idle
        /\ ver' = ver /\ UNCHANGED <<rx_vars, count_vars>>
    BY <1>4 DEF wire_keepalive_fire
  <2>2. f \in Frame /\ f.kind = "beat"
    BY FrameFacts DEF Beat
  <2> HIDE DEF f
  <2>3. "keepalive" \in Rings /\ f.kind \in Kinds["keepalive"] /\ f.kind # "event" /\ ~CarriesKey(f)
    BY <2>2 DEF Rings, Kinds, CarriesKey
  <2> QED
    BY <2>1, <2>2, <2>3, OtherOrder
<1>5. ASSUME UNCHANGED <<rings, wire_tx_frame_ring, rx_ring, accumulator, discarding, newest>>,
             ver'["event"] = ver["event"], idle' => idle \/ rings["event"] = <<>>
      PROVE  Ordered'
  <2>1. Stream' = Stream
    BY <1>5 DEF Stream, Line
  <2> QED
    BY <1>5, <2>1 DEF Ordered
<1>6. CASE peripheral_input_note_event
  <2>1. ver' = [ver EXCEPT !["input"] = @ + 1]
    BY <1>6 DEF peripheral_input_note_event
  <2>2. ver'["event"] = ver["event"]
    BY <1>1, <2>1 DEF Version, Streams
  <2> QED
    BY <1>5, <1>6, <2>2 DEF peripheral_input_note_event, tx_vars, rx_vars
<1>7. CASE IdleElapses
  BY <1>5, <1>7 DEF IdleElapses, tx_vars, rx_vars
<1>8. CASE TxIdle
  BY <1>5, <1>8 DEF TxIdle, rx_vars
<1>9. CASE UNCHANGED vars
  BY <1>5, <1>9 DEF vars, tx_vars, rx_vars
<1> QED
  BY <1>2, <1>3, <1>4, <1>6, <1>7, <1>8, <1>9, EventOrder, ReceiveOrder, RebootOrder, ProcessOrder
     DEF Next

(* A key event that reaches the keymap is newer than everything before it,    *)
(* although key events, inputs and keepalives leave from three rings, chunks  *)
(* and frames do not agree on where they end, and faults cut the stream.      *)
THEOREM WireKeysInOrder == Spec => KeysInOrder
<1>1. Init => WireInv /\ Ordered
  BY ShapeInit, AccountedInit, OrderedInit DEF WireInv
<1>2. WireInv /\ Ordered /\ [Next]_vars => WireInv' /\ Ordered'
  BY ShapeStep, AccountedStep, OrderedStep DEF WireInv
<1>3. ASSUME WireInv, Ordered, NEW n \in 1..MaxTransitions,
             wire_process_ring, Head(rx_ring) = Delimiter, ~discarding,
             Whole(accumulator), accumulator[1].of.kind = "event",
             accumulator[1].of.ver["event"] = n
      PROVE  n > newest["event"]
  <2> DEFINE f == accumulator[1].of
             X == Stream
  <2>1. Typed /\ Framed /\ Parsing
    BY <1>3 DEF WireInv
  <2>2. Delivers(f)
    BY <1>3 DEF Delivers
  <2>3. PICK k : k - 1 \in Ends(X) /\ X[k - 1].of = f
    BY <1>3, <2>1, <2>2, ParserDelivers
  <2>4. KeysOrdered(X, newest["event"])
    BY <1>3 DEF Ordered, InOrder
  <2>5. f.kind = "event" /\ KeyVersion(f) = n
    BY <1>3 DEF KeyVersion
  <2> HIDE DEF f, X
  <2>6. newest["event"] < n
    BY <2>3, <2>4, <2>5 DEF KeysOrdered
  <2>7. newest["event"] \in Nat
    BY <2>1, KeyFacts
  <2> QED
    BY <2>6, <2>7, BoundsAssumption
<1>4. WireInv /\ Ordered =>
        [\A n \in 1..MaxTransitions :
            ( /\ wire_process_ring /\ Head(rx_ring) = Delimiter /\ ~discarding
              /\ Whole(accumulator) /\ accumulator[1].of.kind = "event"
              /\ accumulator[1].of.ver["event"] = n ) => n > newest["event"]]_vars
  BY <1>3
<1> QED
  BY <1>1, <1>2, <1>4, PTL DEF Spec, KeysInOrder
=============================================================================
