--------------------------- MODULE ResamplerProofs ---------------------------
(***************************************************************************)
(* The blocks the render thread pulls from the resampler are never short,  *)
(* for every kernel, rate, trim and length of block.                       *)
(*                                                                         *)
(* What has been asked for and not yet pushed, together with what is in    *)
(* the FIFO, always covers the block that is being filled (Covered).  A    *)
(* FIFO that is full covers it by itself: its capacity is made for the     *)
(* longest block at the slowest ratio, once the live frames have been slid *)
(* to the front.                                                           *)
(***************************************************************************)
EXTENDS Resampler, FiniteSetTheorems, TLAPS

-----------------------------------------------------------------------------
(* Division.                                                               *)

LEMMA DivMod ==
  ASSUME NEW a \in Nat, NEW s \in Nat \ {0}
  PROVE  /\ a \div s \in Nat /\ a % s \in 0 .. s - 1
         /\ a = s * (a \div s) + (a % s)
BY SMTT(30)

(* What lies between two multiples has the lower one's quotient.           *)
LEMMA QuotientUnique ==
  ASSUME NEW a \in Nat, NEW s \in Nat \ {0}, NEW q \in Int,
         s * q <= a, a < s * q + s
  PROVE  a \div s = q
<1> DEFINE p == a \div s
           r == a % s
<1>1. p \in Nat /\ r \in 0 .. s - 1 /\ a = s * p + r
  BY DivMod
<1> HIDE DEF p, r
<1>2. ~(p < q)
  <2> SUFFICES ASSUME p < q PROVE FALSE
    OBVIOUS
  <2>1. s * (q - p) >= s
    <3>1. q - p >= 1 /\ q - p \in Int
      BY <1>1
    <3> QED
      BY <3>1
  <2>2. s * (q - p) = s * q - s * p
    BY <1>1
  <2>3. s * q \in Int /\ s * p \in Int
    BY <1>1
  <2> QED
    BY <1>1, <2>1, <2>2, <2>3
<1>3. ~(p > q)
  <2> SUFFICES ASSUME p > q PROVE FALSE
    OBVIOUS
  <2>1. s * (p - q) >= s
    <3>1. p - q >= 1 /\ p - q \in Int
      BY <1>1
    <3> QED
      BY <3>1
  <2>2. s * (p - q) = s * p - s * q
    BY <1>1
  <2>3. s * q \in Int /\ s * p \in Int
    BY <1>1
  <2> QED
    BY <1>1, <2>1, <2>2, <2>3
<1>4. p = q
  BY <1>1, <1>2, <1>3
<1> QED
  BY <1>4 DEF p

LEMMA ProductGrows ==
  ASSUME NEW a \in Nat, NEW b \in Nat, NEW s \in Nat, a =< b
  PROVE  s * a =< s * b
<1>1. b - a \in Nat
  OBVIOUS
<1>2. s * (b - a) \in Nat
  BY <1>1
<1>3. s * (b - a) = s * b - s * a
  OBVIOUS
<1>4. s * a \in Int /\ s * b \in Int
  OBVIOUS
<1> QED
  BY <1>2, <1>3, <1>4

(* Taking away a multiple takes its factor from the quotient.              *)
LEMMA QuotientOfDifference ==
  ASSUME NEW a \in Nat, NEW s \in Nat \ {0}, NEW n \in Nat, n * s <= a
  PROVE  a - n * s \in Nat /\ (a - n * s) \div s = (a \div s) - n
<1>1. a \div s \in Nat /\ a % s \in 0 .. s - 1 /\ a = s * (a \div s) + (a % s)
  BY DivMod
<1>2. a - n * s \in Nat /\ n * s \in Nat
  OBVIOUS
<1>3. s * ((a \div s) - n) = s * (a \div s) - n * s
  BY <1>1
<1>4. s * ((a \div s) - n) <= a - n * s /\ a - n * s < s * ((a \div s) - n) + s
  BY <1>1, <1>2, <1>3
<1>5. (a \div s) - n \in Int
  BY <1>1
<1> QED
  BY <1>2, <1>4, <1>5, QuotientUnique

(* The quotient grows with the dividend, and by no more than a bound on    *)
(* the difference allows.                                                  *)
LEMMA QuotientGrows ==
  ASSUME NEW a \in Nat, NEW b \in Nat, NEW s \in Nat \ {0}, NEW n \in Nat,
         a <= b, b <= a + n * s
  PROVE  a \div s <= b \div s /\ b \div s <= (a \div s) + n
<1> DEFINE p == a \div s
           q == b \div s
<1>1. /\ p \in Nat /\ a % s \in 0 .. s - 1 /\ a = s * p + (a % s)
      /\ q \in Nat /\ b % s \in 0 .. s - 1 /\ b = s * q + (b % s)
  BY DivMod
<1> HIDE DEF p, q
<1>2. p <= q
  <2> SUFFICES ASSUME p >= q + 1 PROVE FALSE
    BY <1>1
  <2>1. s * p >= s * (q + 1)
    BY <1>1
  <2>2. s * (q + 1) = s * q + s /\ s * q \in Int /\ s * p \in Int
    BY <1>1
  <2> QED
    BY <1>1, <2>1, <2>2
<1>3. q <= p + n
  <2> SUFFICES ASSUME q >= p + n + 1 PROVE FALSE
    BY <1>1
  <2>1. s * q >= s * (p + n + 1)
    BY <1>1
  <2>2. s * (p + n + 1) = s * p + n * s + s
    BY <1>1
  <2>3. s * q \in Int /\ s * p \in Int /\ n * s \in Int
    BY <1>1
  <2> QED
    BY <1>1, <2>1, <2>2, <2>3
<1> QED
  BY <1>2, <1>3 DEF p, q

-----------------------------------------------------------------------------
(* What is in the FIFO and what is still to be pushed cover the block.     *)
Covered == want > 0 => Base(want - 1) + HalfTaps + 1 =< writeIndex + owed

IInv == ResamplerTypeOK /\ LiveStartsAtTaps /\ Covered

(* The values the lemmas below speak of are integers.                      *)
LEMMA Integral ==
  ASSUME ResamplerTypeOK
  PROVE  /\ HalfTaps \in Nat \ {0} /\ Unit \in Nat \ {0} /\ MaxPull \in Nat \ {0}
         /\ SlowestStep \in Nat \ {0}
         /\ step \in Nat \ {0} /\ step =< SlowestStep
         /\ readIndex \in Nat /\ writeIndex \in Nat /\ position \in Nat
         /\ want \in Nat /\ owed \in Nat
         /\ \A k \in Nat : position + k * step \in Nat /\ Base(k) \in Nat
<1>1. /\ HalfTaps \in Nat \ {0} /\ Unit \in Nat \ {0} /\ MaxPull \in Nat \ {0}
      /\ SlowestStep \in Nat \ {0}
      /\ step \in Nat \ {0} /\ step =< SlowestStep
  BY ResamplerAssumption DEF ResamplerTypeOK
<1>2. /\ readIndex \in Nat /\ writeIndex \in Nat /\ position \in Nat
      /\ want \in Nat /\ owed \in Nat
  BY <1>1 DEF ResamplerTypeOK
<1>3. ASSUME NEW k \in Nat
      PROVE  position + k * step \in Nat /\ Base(k) \in Nat
  <2>1. position + k * step \in Nat
    BY <1>1, <1>2
  <2> QED
    BY <1>1, <2>1, DivMod DEF Base
<1> QED
  BY <1>1, <1>2, <1>3

(* Later output frames reach further, by at most the kernel's width each.  *)
LEMMA BaseGrows ==
  ASSUME ResamplerTypeOK, NEW k \in Nat, NEW n \in Nat
  PROVE  Base(k) =< Base(k + n) /\ Base(k + 1) =< Base(k) + 2 * HalfTaps
<1> DEFINE a == position + k * step
           b == position + (k + n) * step
           c == position + (k + 1) * step
<1>1. a \in Nat /\ b \in Nat /\ c \in Nat /\ n * step \in Nat /\ Unit \in Nat \ {0}
  BY Integral
<1>2. b = a + n * step /\ c = a + step
  BY Integral
<1>3. n * step =< (n * step) * Unit
  BY <1>1
<1>4. a \div Unit =< b \div Unit
  <2>1. a =< b /\ b =< a + (n * step) * Unit
    BY <1>1, <1>2, <1>3
  <2> HIDE DEF a, b
  <2> QED
    BY <1>1, <2>1, QuotientGrows
<1>5. c \div Unit =< (a \div Unit) + 2 * HalfTaps
  <2>1. step =< (2 * HalfTaps) * Unit
    BY ResamplerAssumption, Integral
  <2>2. a =< c /\ c =< a + (2 * HalfTaps) * Unit /\ 2 * HalfTaps \in Nat
    BY <1>1, <1>2, <2>1, Integral
  <2> HIDE DEF a, c
  <2> QED
    BY <1>1, <2>2, QuotientGrows
<1> QED
  BY <1>4, <1>5 DEF Base

(* The input that the longest block at the slowest ratio advances over.    *)
LongestAdvance == CeilDiv(MaxPull * SlowestStep, Unit)

LEMMA CapacityTells ==
  /\ LongestAdvance \in Nat /\ WorstInput = LongestAdvance + 4 * HalfTaps
  /\ CapacityFrames = 2 * (LongestAdvance + 4 * HalfTaps) + MaxPull + 4 * HalfTaps
<1> DEFINE up == MaxPull * SlowestStep + Unit - 1
<1>1. /\ Unit \in Nat \ {0} /\ MaxPull \in Nat \ {0} /\ SlowestStep \in Nat \ {0}
  BY ResamplerAssumption
<1>2. MaxPull * SlowestStep \in Nat
  BY <1>1
<1>3. up \in Nat
  BY <1>1, <1>2
<1>4. up \div Unit \in Nat
  BY <1>1, <1>3, DivMod
<1> QED
  BY <1>4 DEF LongestAdvance, CapacityFrames, WorstInput, CeilDiv

(* No block advances over more input than that.                            *)
LEMMA BlockAdvances ==
  ASSUME NEW p \in Nat, NEW n \in 1 .. MaxPull, NEW s \in Steps
  PROVE  /\ (p + (n - 1) * s) \div Unit \in Nat
         /\ (p + (n - 1) * s) \div Unit =< (p \div Unit) + LongestAdvance
<1> DEFINE ceiling == LongestAdvance
           longest == MaxPull * SlowestStep
<1>1. /\ HalfTaps \in Nat \ {0} /\ Unit \in Nat \ {0} /\ MaxPull \in Nat \ {0}
      /\ SlowestStep \in Nat \ {0} /\ s \in Nat \ {0} /\ s =< SlowestStep
      /\ n - 1 \in Nat /\ n - 1 =< MaxPull
  BY ResamplerAssumption
<1>2. longest \in Nat
  BY <1>1
<1>3. longest =< ceiling * Unit /\ ceiling \in Nat
  <2> DEFINE up == longest + Unit - 1
  <2>1. up \in Nat
    BY <1>1, <1>2
  <2>2. /\ up \div Unit \in Nat /\ up % Unit \in 0 .. Unit - 1
        /\ up = Unit * (up \div Unit) + (up % Unit)
    BY <1>1, <2>1, DivMod
  <2>3. ceiling = up \div Unit
    BY DEF CeilDiv, LongestAdvance
  <2>4. Unit * (up \div Unit) = ceiling * Unit
    BY <1>1, <2>2, <2>3
  <2> HIDE DEF longest, ceiling
  <2> QED
    BY <1>1, <1>2, <2>2, <2>3, <2>4
<1>4. (n - 1) * s =< longest /\ (n - 1) * s \in Nat
  <2>1. (n - 1) * s =< (n - 1) * SlowestStep /\ (n - 1) * s \in Nat
    BY <1>1
  <2>2. (n - 1) * SlowestStep =< MaxPull * SlowestStep
    BY <1>1
  <2> QED
    BY <1>1, <2>1, <2>2
<1>5. (p + (n - 1) * s) \div Unit =< (p \div Unit) + ceiling
      /\ (p + (n - 1) * s) \div Unit \in Nat
  <2> DEFINE b == p + (n - 1) * s
  <2>1. b \in Nat /\ p =< b
    BY <1>4
  <2>2. b =< p + ceiling * Unit
    <3> HIDE DEF longest, ceiling
    <3>1. ceiling * Unit \in Nat
      BY <1>1, <1>3
    <3> QED
      BY <1>2, <1>3, <1>4, <3>1
  <2> HIDE DEF ceiling, longest, b
  <2>3. b \div Unit =< (p \div Unit) + ceiling /\ b \div Unit \in Nat
    BY <1>1, <1>3, <2>1, <2>2, QuotientGrows, DivMod
  <2> QED
    BY <2>3 DEF b
<1> QED
  BY <1>5

(* A full FIFO whose live frames have been slid to the front holds the     *)
(* input of any block: its capacity is made for the longest one.           *)
LEMMA FullCovers ==
  ASSUME NEW p \in Nat, NEW n \in 1 .. MaxPull, NEW s \in Steps,
         p \div Unit = HalfTaps - 1
  PROVE  ((p + (n - 1) * s) \div Unit) + HalfTaps + 1 =< CapacityFrames
<1>1. /\ (p + (n - 1) * s) \div Unit \in Nat
      /\ (p + (n - 1) * s) \div Unit =< (p \div Unit) + LongestAdvance
  BY BlockAdvances
<1>2. /\ HalfTaps \in Nat \ {0} /\ MaxPull \in Nat \ {0}
  BY ResamplerAssumption
<1> QED
  BY <1>1, <1>2, CapacityTells

LEMMA CapacityType == CapacityFrames \in Nat /\ HalfTaps =< CapacityFrames
BY CapacityTells, ResamplerAssumption

(* Sliding the live frames to the front takes as much from every position  *)
(* as from the indices.                                                    *)
LEMMA SlidesTogether ==
  ASSUME ResamplerTypeOK, LiveStartsAtTaps
  PROVE  /\ position - readIndex * Unit \in Nat
         /\ \A k \in Nat :
              ((position - readIndex * Unit) + k * step) \div Unit = Base(k) - readIndex
<1>0. /\ HalfTaps \in Nat \ {0} /\ Unit \in Nat \ {0} /\ step \in Nat
      /\ readIndex \in Nat /\ position \in Nat /\ Base(0) \in Nat
  BY Integral
<1>1. Base(0) = readIndex + HalfTaps - 1 /\ Base(0) \in Nat
  BY <1>0 DEF LiveStartsAtTaps
<1>2. readIndex * Unit =< position /\ readIndex * Unit \in Nat
  <2>1. /\ position \div Unit \in Nat /\ position % Unit \in 0 .. Unit - 1
        /\ position = Unit * (position \div Unit) + (position % Unit)
    BY <1>0, DivMod
  <2>2. Base(0) = position \div Unit
    <3>1. position + 0 * step = position
      BY <1>0
    <3> QED
      BY <3>1 DEF Base
  <2>3. Unit * readIndex =< Unit * (position \div Unit)
    <3>1. readIndex =< position \div Unit
      BY <1>0, <1>1, <2>2
    <3> QED
      BY <1>0, <2>1, <3>1, ProductGrows
  <2>4. Unit * readIndex = readIndex * Unit /\ readIndex * Unit \in Nat
    BY <1>0
  <2>5. Unit * (position \div Unit) \in Int
    BY <1>0, <2>1
  <2> QED
    BY <1>0, <2>1, <2>3, <2>4, <2>5
<1>3. ASSUME NEW k \in Nat
      PROVE ((position - readIndex * Unit) + k * step) \div Unit = Base(k) - readIndex
  <2> DEFINE a == position + k * step
  <2>1. a \in Nat /\ k * step \in Nat
    BY <1>0
  <2>2. readIndex * Unit =< a
    BY <1>0, <1>2, <2>1
  <2>3. (a - readIndex * Unit) \div Unit = (a \div Unit) - readIndex
    <3> HIDE DEF a
    <3> QED
      BY <1>0, <2>1, <2>2, QuotientOfDifference
  <2>4. (position - readIndex * Unit) + k * step = a - readIndex * Unit
    BY <1>0, <1>2, <2>1
  <2> QED
    BY <2>3, <2>4 DEF Base
<1>4. position - readIndex * Unit \in Nat
  BY <1>0, <1>2
<1> QED
  BY <1>3, <1>4

(* A block that is covered comes out whole.                                *)
LEMMA WholeBlock ==
  ASSUME IInv, want > 0, owed = 0
  PROVE  Produced(want) = want
<1> USE Integral DEF IInv
<1>1. want - 1 \in Nat
  OBVIOUS
<1>2. ASSUME NEW j \in 0 .. want - 1 PROVE Reachable(j)
  <2>1. Base(j) =< Base(want - 1)
    <3>1. (want - 1) - j \in Nat /\ j + ((want - 1) - j) = want - 1 /\ j \in Nat
      BY <1>1
    <3> QED
      BY <3>1, BaseGrows
  <2>2. Base(j) \in Nat /\ Base(want - 1) \in Nat /\ Base(0) \in Nat
    BY <1>1
  <2>3. Base(want - 1) + HalfTaps + 1 =< writeIndex
    BY <2>2 DEF Covered
  <2> QED
    BY <2>1, <2>2, <2>3 DEF Reachable, LiveStartsAtTaps
<1>3. {k \in 0 .. want - 1 : \A j \in 0 .. k : Reachable(j)} = 0 .. want - 1
  BY <1>2
<1>4. Cardinality(0 .. want - 1) = want
  <2>1. 0 \in Int /\ want - 1 \in Int /\ want - 1 >= 0
    OBVIOUS
  <2>2. Cardinality(0 .. want - 1) = (want - 1) - 0 + 1
    BY <2>1, FS_Interval
  <2> QED
    BY <2>2
<1> QED
  BY <1>3, <1>4 DEF Produced

LEMMA ResamplerStarts == ResamplerInit => IInv
<1> SUFFICES ASSUME ResamplerInit PROVE IInv
  OBVIOUS
<1>1. /\ HalfTaps \in Nat \ {0} /\ Unit \in Nat \ {0} /\ MaxPull \in Nat \ {0}
  BY ResamplerAssumption
<1>2. (HalfTaps - 1) * Unit \in Nat
  BY <1>1
<1>3. ResamplerTypeOK
  BY <1>1, <1>2, CapacityType DEF ResamplerInit, ResamplerTypeOK
<1>4. LiveStartsAtTaps
  <2>1. position + 0 * step = (HalfTaps - 1) * Unit
    BY <1>2, <1>3, Integral DEF ResamplerInit
  <2>2. ((HalfTaps - 1) * Unit) \div Unit = HalfTaps - 1
    <3> DEFINE a == (HalfTaps - 1) * Unit
    <3>1. Unit * (HalfTaps - 1) = a
      BY <1>1
    <3>2. a \in Nat /\ HalfTaps - 1 \in Int /\ a < a + Unit
      BY <1>1, <1>2
    <3> HIDE DEF a
    <3>3. a \div Unit = HalfTaps - 1
      BY <1>1, <3>1, <3>2, QuotientUnique
    <3> QED
      BY <3>3 DEF a
  <2> QED
    BY <1>1, <2>1, <2>2 DEF LiveStartsAtTaps, Base, ResamplerInit
<1>5. Covered
  BY DEF Covered, ResamplerInit
<1> QED
  BY <1>3, <1>4, <1>5 DEF IInv

LEMMA FeedKeepsInv ==
  ASSUME IInv, NEW frames \in Nat, Feed(frames)
  PROVE  IInv'
<1>0. /\ ResamplerTypeOK /\ LiveStartsAtTaps /\ Covered
      /\ HalfTaps \in Nat \ {0} /\ Unit \in Nat \ {0} /\ step \in Steps
      /\ readIndex \in Nat /\ writeIndex \in Nat /\ position \in Nat
      /\ readIndex =< writeIndex /\ writeIndex =< CapacityFrames /\ CapacityFrames \in Nat
      /\ want \in 1 .. MaxPull /\ want - 1 \in Nat /\ owed \in Nat /\ frames \in 1 .. owed
      /\ step' = step /\ want' = want /\ owed' = owed - frames
      /\ Base(0) \in Nat /\ Base(want - 1) \in Nat
  <2>1. /\ ResamplerTypeOK /\ LiveStartsAtTaps /\ Covered
        /\ want > 0 /\ frames \in 1 .. owed
        /\ step' = step /\ want' = want /\ owed' = owed - frames
    BY DEF IInv, Feed
  <2> QED
    BY <2>1, Integral, CapacityType DEF ResamplerTypeOK
<1>1. Base(0) = readIndex + HalfTaps - 1 /\ Base(want - 1) + HalfTaps + 1 =< writeIndex + owed
  BY <1>0 DEF LiveStartsAtTaps, Covered
<1>2. CASE writeIndex + frames > CapacityFrames
  <2> DEFINE p == position - readIndex * Unit
             moved == (writeIndex - readIndex) + frames
  <2>1. /\ readIndex' = 0 /\ writeIndex' = Smaller(moved, CapacityFrames)
        /\ position' = p
    BY <1>2 DEF Feed, Push, Compacted
  <2>2. /\ p \in Nat
        /\ \A k \in Nat : (p + k * step) \div Unit = Base(k) - readIndex
    BY <1>0, SlidesTogether
  <2> HIDE DEF p
  <2>3. Base(0)' = Base(0) - readIndex /\ Base(want - 1)' = Base(want - 1) - readIndex
    BY <1>0, <2>1, <2>2 DEF Base
  <2>4. LiveStartsAtTaps'
    BY <1>0, <1>1, <2>1, <2>3 DEF LiveStartsAtTaps
  <2>5. writeIndex' \in 0 .. CapacityFrames
    BY <1>0, <2>1 DEF Smaller
  <2>6. ResamplerTypeOK'
    BY <1>0, <2>1, <2>2, <2>5 DEF ResamplerTypeOK
  <2>7. Covered'
    <3>1. CASE moved =< CapacityFrames
      <4>1. writeIndex' = moved
        BY <2>1, <3>1 DEF Smaller
      <4> QED
        BY <1>0, <1>1, <2>3, <4>1 DEF Covered
    <3>2. CASE ~(moved =< CapacityFrames)
      <4>1. writeIndex' = CapacityFrames
        BY <2>1, <3>2 DEF Smaller
      <4>2. p \div Unit = HalfTaps - 1
        <5>1. (p + 0 * step) \div Unit = Base(0) - readIndex
          BY <2>2
        <5>2. p + 0 * step = p
          BY <1>0, <2>2, Integral
        <5> QED
          BY <1>0, <1>1, <5>1, <5>2
      <4>3. ((p + (want - 1) * step) \div Unit) + HalfTaps + 1 =< CapacityFrames
        BY <1>0, <2>2, <4>2, FullCovers
      <4>4. (p + (want - 1) * step) \div Unit = Base(want - 1)'
        BY <1>0, <2>2, <2>3
      <4>5. Base(want - 1)' \in Int
        BY <1>0, <2>3
      <4> QED
        BY <1>0, <4>1, <4>3, <4>4, <4>5 DEF Covered
    <3> QED
      BY <3>1, <3>2
  <2> QED
    BY <2>4, <2>6, <2>7 DEF IInv
<1>3. CASE ~(writeIndex + frames > CapacityFrames)
  <2>1. /\ readIndex' = readIndex /\ writeIndex' = writeIndex + frames
        /\ position' = position
    BY <1>0, <1>3 DEF Feed, Push, Untouched, Smaller
  <2>2. Base(0)' = Base(0) /\ Base(want - 1)' = Base(want - 1)
    BY <1>0, <2>1 DEF Base
  <2>3. LiveStartsAtTaps' /\ Covered'
    BY <1>0, <1>1, <2>1, <2>2 DEF LiveStartsAtTaps, Covered
  <2>4. ResamplerTypeOK'
    BY <1>0, <1>3, <2>1 DEF ResamplerTypeOK
  <2> QED
    BY <2>3, <2>4 DEF IInv
<1> QED
  BY <1>2, <1>3

LEMMA PullKeepsInv ==
  ASSUME IInv, PullOutput
  PROVE  IInv'
<1>1. want > 0 /\ owed = 0 /\ Produced(want) = want
  BY WholeBlock DEF PullOutput
<1>2. /\ ResamplerTypeOK /\ LiveStartsAtTaps /\ Covered
      /\ HalfTaps \in Nat \ {0} /\ Unit \in Nat \ {0} /\ step \in Nat
      /\ readIndex \in Nat /\ writeIndex \in Nat /\ position \in Nat
      /\ want \in Nat \ {0} /\ want - 1 \in Nat
      /\ Base(0) \in Nat /\ Base(want - 1) \in Nat /\ Base(want) \in Nat
      /\ CapacityFrames \in Nat /\ writeIndex \in 0 .. CapacityFrames
  BY <1>1, Integral, CapacityType DEF IInv, ResamplerTypeOK
<1>3. Base(0) = readIndex + HalfTaps - 1 /\ Base(want - 1) + HalfTaps + 1 =< writeIndex
  BY <1>1, <1>2 DEF LiveStartsAtTaps, Covered
<1>4. Base(0) =< Base(want) /\ Base(want) =< Base(want - 1) + 2 * HalfTaps
  <2>1. 0 + want = want /\ (want - 1) + 1 = want
    BY <1>2
  <2> QED
    BY <1>2, <2>1, BaseGrows
<1>5. /\ position' = position + want * step
      /\ readIndex' = IF want > 0 /\ Base(want) >= HalfTaps
                      THEN Larger(readIndex, Base(want) + 1 - HalfTaps) ELSE readIndex
      /\ want' = 0 /\ UNCHANGED <<writeIndex, step, owed>>
  BY <1>1 DEF PullOutput
<1>6. readIndex' = Base(want) + 1 - HalfTaps
  BY <1>1, <1>2, <1>3, <1>4, <1>5 DEF Larger
<1>7. Base(0)' = Base(want)
  <2>1. want * step \in Nat
    BY <1>2
  <2>2. (position + want * step) + 0 * step = position + want * step
    BY <1>2, <2>1
  <2> QED
    BY <1>5, <2>2 DEF Base
<1>8. LiveStartsAtTaps'
  BY <1>6, <1>7 DEF LiveStartsAtTaps
<1>9. ResamplerTypeOK'
  <2>1. position' \in Nat
    BY <1>2, <1>5
  <2>2. readIndex' \in 0 .. writeIndex'
    BY <1>2, <1>3, <1>4, <1>5, <1>6
  <2>3. want' \in 0 .. MaxPull /\ step' \in Steps /\ owed' \in Nat
    BY <1>2, <1>5, ResamplerAssumption DEF ResamplerTypeOK
  <2> QED
    BY <1>2, <1>5, <2>1, <2>2, <2>3 DEF ResamplerTypeOK
<1>10. Covered'
  BY <1>5 DEF Covered
<1> QED
  BY <1>8, <1>9, <1>10 DEF IInv

LEMMA ResamplerStep == IInv /\ [ResamplerNext]_resamplerVars => IInv'
<1> SUFFICES ASSUME IInv, [ResamplerNext]_resamplerVars PROVE IInv'
  OBVIOUS
<1>1. CASE UNCHANGED resamplerVars
  BY <1>1 DEF resamplerVars, IInv, ResamplerTypeOK, LiveStartsAtTaps, Covered, Base
<1>2. ASSUME NEW s \in Steps, SetRatioTrim(s) PROVE IInv'
  <2>1. Base(0)' = Base(0)
    <3>1. step \in Nat /\ s \in Nat /\ position \in Nat
      BY Integral, ResamplerAssumption DEF IInv
    <3>2. position + 0 * s = position /\ position + 0 * step = position
      BY <3>1
    <3> QED
      BY <1>2, <3>2 DEF SetRatioTrim, Base
  <2> QED
    BY <1>2, <2>1 DEF SetRatioTrim, IInv, ResamplerTypeOK, LiveStartsAtTaps, Covered
<1>3. ASSUME NEW n \in 1 .. MaxPull, Request(n) PROVE IInv'
  <2>1. /\ n \in Nat \ {0} /\ n - 1 \in Nat /\ Base(n - 1) \in Nat
        /\ readIndex \in Nat /\ writeIndex \in Nat /\ HalfTaps \in Nat
    BY Integral, ResamplerAssumption DEF IInv
  <2>2. /\ owed' \in Nat /\ Base(n - 1) + HalfTaps + 1 - (writeIndex - readIndex) =< owed'
    BY <1>3, <2>1 DEF Request, InputFramesWanted, Larger
  <2>3. Base(0)' = Base(0) /\ Base(n - 1)' = Base(n - 1)
    BY <1>3 DEF Request, Base
  <2>4. Covered'
    BY <1>3, <2>1, <2>2, <2>3 DEF Request, Covered
  <2>5. ResamplerTypeOK' /\ LiveStartsAtTaps'
    BY <1>3, <2>1, <2>2, <2>3 DEF Request, IInv, ResamplerTypeOK, LiveStartsAtTaps
  <2> QED
    BY <2>4, <2>5 DEF IInv
<1>4. ASSUME NEW frames \in 1 .. CapacityFrames, Feed(frames) PROVE IInv'
  BY <1>4, FeedKeepsInv, CapacityType
<1>5. CASE PullOutput
  BY <1>5, PullKeepsInv
<1> QED
  BY <1>1, <1>2, <1>3, <1>4, <1>5 DEF ResamplerNext

(* The FIFO covers the block under way and its live frames begin where the *)
(* next output frame's taps do.                                            *)
THEOREM ResamplerInvariant == ResamplerSpec => []IInv
BY ResamplerStarts, ResamplerStep, PTL DEF ResamplerSpec

(* The indices stay in the FIFO and in order.                              *)
THEOREM TypeCorrect == ResamplerSpec => []ResamplerTypeOK
BY ResamplerInvariant, PTL DEF IInv

(* The read position keeps its place among the frames and blocks are never *)
(* short.                                                                  *)
THEOREM BlocksAreWhole == ResamplerSpec => []PullsAreServed
<1>1. IInv => PullsAreServed
  BY WholeBlock DEF IInv, PullsAreServed, InputSuffices
<1> QED
  BY <1>1, ResamplerInvariant, PTL

(* What is asked for never exceeds the FIFO and the longest input of a     *)
(* block together, although frames that have been retired are asked for    *)
(* once more: a scratch buffer of that many frames is enough for a block   *)
(* to be whole.  start() makes it as long as the ring, and says that a     *)
(* block "can never need more input than the ring holds"                   *)
(* (audio_engine.cpp:221-224, resampler.cpp:116-127).                      *)
RequestFits == owed =< CapacityFrames + WorstInput

LEMMA RequestFitsScratch ==
  IInv /\ RequestFits /\ [ResamplerNext]_resamplerVars => RequestFits'
<1> SUFFICES ASSUME IInv, RequestFits, [ResamplerNext]_resamplerVars PROVE RequestFits'
  OBVIOUS
<1>0. /\ owed \in Nat /\ CapacityFrames \in Nat /\ WorstInput \in Nat
      /\ RequestFits' = (owed' =< CapacityFrames + WorstInput)
  BY Integral, CapacityType, CapacityTells, ResamplerAssumption
     DEF IInv, RequestFits, CapacityFrames, WorstInput
<1>1. CASE UNCHANGED owed
  BY <1>0, <1>1 DEF RequestFits
<1>2. ASSUME NEW n \in 1 .. MaxPull, Request(n) PROVE RequestFits'
  <2>1. /\ n - 1 \in Nat /\ Base(n - 1) \in Nat /\ Base(0) \in Nat
        /\ readIndex \in Nat /\ writeIndex \in Nat /\ HalfTaps \in Nat \ {0}
        /\ position \in Nat /\ step \in Steps
        /\ readIndex =< writeIndex /\ writeIndex =< CapacityFrames
    BY Integral, CapacityType, ResamplerAssumption DEF IInv, ResamplerTypeOK
  <2>2. Base(n - 1) =< Base(0) + LongestAdvance
    <3>1. position + 0 * step = position
      BY <2>1, ResamplerAssumption
    <3> QED
      BY <2>1, <3>1, BlockAdvances DEF Base
  <2>3. Base(0) = readIndex + HalfTaps - 1
    BY <2>1 DEF IInv, LiveStartsAtTaps
  <2>4. owed' = 0 \/ owed' = Base(n - 1) + HalfTaps + 1 - (writeIndex - readIndex)
    BY <1>2, <2>1 DEF Request, InputFramesWanted, Larger
  <2>5. Base(n - 1) + HalfTaps + 1 - (writeIndex - readIndex) =< CapacityFrames + WorstInput
    BY <1>0, <2>1, <2>2, <2>3, CapacityTells
  <2>6. owed' =< CapacityFrames + WorstInput
    <3>1. CapacityFrames + WorstInput >= 0
      BY <1>0
    <3> QED
      BY <2>4, <2>5, <3>1
  <2> QED
    BY <1>0, <2>6
<1>3. ASSUME NEW frames \in 1 .. CapacityFrames, Feed(frames) PROVE RequestFits'
  <2>1. owed' = owed - frames /\ frames \in Nat
    BY <1>0, <1>3 DEF Feed
  <2> QED
    BY <1>0, <2>1 DEF RequestFits
<1> QED
  BY <1>1, <1>2, <1>3 DEF ResamplerNext, SetRatioTrim, PullOutput, resamplerVars

(* A block never asks for more than the scratch buffer has to hold.        *)
THEOREM RequestsAreBounded == ResamplerSpec => []RequestFits
<1>1. ResamplerInit => RequestFits
  BY CapacityType, CapacityTells, ResamplerAssumption DEF ResamplerInit, RequestFits
<1> QED
  BY <1>1, RequestFitsScratch, ResamplerInvariant, PTL DEF ResamplerSpec

=============================================================================
