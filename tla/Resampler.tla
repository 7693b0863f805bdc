------------------------------ MODULE Resampler ------------------------------
(***************************************************************************)
(* The buffering of the resampler (src/src/dsp/resampler.cpp): a FIFO of   *)
(* input frames that is written linearly and slid to the front when it is  *)
(* full, and a fractional read position that indexes it absolutely.  The   *)
(* render thread drives it (src/src/engine/audio_engine.cpp 640-668): it   *)
(* sets the trim, asks how much input a block of output takes, pushes as   *)
(* much of it as the ring holds and silence for the rest, and pulls.       *)
(* The scratch buffer the input goes through is taken to hold what is      *)
(* asked for: start() makes it as long as the ring.                        *)
(*                                                                         *)
(* Positions are counted in 1/Unit of a frame.  What the frames hold and   *)
(* the interpolation itself are left out.                                  *)
(***************************************************************************)
EXTENDS Integers, FiniteSets

CONSTANTS HalfTaps,      \* halfTaps_, half the width of the kernel
          Unit,          \* positions per input frame
          Steps,         \* input advanced per output frame, one per trim
          SlowestStep,   \* the largest of them
          MaxPull        \* maxOutputFrames

(* The rates of a device are less than kTaps apart: one step never jumps   *)
(* over the frames the taps of the last one reached.                       *)
ASSUME ResamplerAssumption ==
  /\ HalfTaps \in Nat \ {0} /\ Unit \in Nat \ {0} /\ MaxPull \in Nat \ {0}
  /\ SlowestStep =< 2 * HalfTaps * Unit
  /\ SlowestStep \in Steps
  /\ Steps \subseteq {s \in Nat : 0 < s /\ s =< SlowestStep}

VARIABLES
  readIndex, writeIndex,  \* the live frames of fifo_
  position,               \* position_, in units
  step,                   \* step_, in units
  want,                   \* the block the render thread is filling, 0 if none
  owed                    \* what of the input asked for it has yet to push

resamplerVars == <<readIndex, writeIndex, position, step, want, owed>>

CeilDiv(a, b) == (a + b - 1) \div b
Larger(a, b) == IF a >= b THEN a ELSE b
Smaller(a, b) == IF a =< b THEN a ELSE b

(* capacityFrames_: twice the input of one pull at the slowest ratio, and  *)
(* slack.                                                                  *)
WorstInput == CeilDiv(MaxPull * SlowestStep, Unit) + 4 * HalfTaps
CapacityFrames == 2 * WorstInput + MaxPull + 4 * HalfTaps

(* reset(): primed with the history the first taps reach back into.        *)
ResamplerInit ==
  /\ readIndex = 0 /\ writeIndex = HalfTaps
  /\ position = (HalfTaps - 1) * Unit
  /\ step \in Steps
  /\ want = 0 /\ owed = 0

-----------------------------------------------------------------------------
(* Input frame at or before the k-th output frame from now.                *)
Base(k) == (position + k * step) \div Unit

(* inputFramesWanted(): the last tap of the last output frame, less the    *)
(* frames that are live.                                                   *)
InputFramesWanted(n) ==
  LET needed == Base(n - 1) + HalfTaps + 1
  IN IF n = 0 THEN 0 ELSE Larger(0, needed - (writeIndex - readIndex))

Untouched == [read |-> readIndex, write |-> writeIndex, position |-> position]

(* Mutant: the read position does not move with the data.                  *)
Compacted_ForgetsPosition ==
  [read |-> 0, write |-> writeIndex - readIndex, position |-> position]

(* compact(): the live frames slide to the front.                          *)
Compacted ==
  [read |-> 0, write |-> writeIndex - readIndex,
   position |-> position - readIndex * Unit]

(* pushInput() and pushSilence() take `frames' frames, or as many as there *)
(* is room for once the live ones have been slid to the front.             *)
Push(frames) ==
  LET fifo == IF writeIndex + frames > CapacityFrames THEN Compacted ELSE Untouched
  IN /\ readIndex' = fifo.read
     /\ writeIndex' = Smaller(fifo.write + frames, CapacityFrames)
     /\ position' = fifo.position

(* The taps of the k-th output frame have all been pushed; those of the    *)
(* first are all still live, and the others' then are too.                 *)
Reachable(k) == Base(k) + HalfTaps < writeIndex /\ Base(0) + 1 - HalfTaps >= readIndex

(* What pullOutput(n) produces: it stops at the first frame out of reach.  *)
Produced(n) == Cardinality({k \in 0 .. n - 1 : \A j \in 0 .. k : Reachable(j)})

-----------------------------------------------------------------------------
(* The render thread                                                       *)

(* setRatioTrim() follows the fill of the ring before every block.         *)
SetRatioTrim(s) ==
  /\ want = 0
  /\ step' = s
  /\ UNCHANGED <<readIndex, writeIndex, position, want, owed>>

Request(n) ==
  /\ want = 0
  /\ want' = n /\ owed' = InputFramesWanted(n)
  /\ UNCHANGED <<readIndex, writeIndex, position, step>>

(* What the ring held, then silence for the rest: one call or two.         *)
Feed(frames) ==
  /\ want > 0 /\ frames \in 1 .. owed
  /\ Push(frames)
  /\ owed' = owed - frames
  /\ UNCHANGED <<step, want>>

PullOutput ==
  LET produced == Produced(want)
  IN /\ want > 0 /\ owed = 0
     /\ position' = position + produced * step
     /\ readIndex' = IF produced > 0 /\ Base(produced) >= HalfTaps
                     THEN Larger(readIndex, Base(produced) + 1 - HalfTaps)
                     ELSE readIndex
     /\ want' = 0
     /\ UNCHANGED <<writeIndex, step, owed>>

ResamplerNext ==
  \/ \E s \in Steps : SetRatioTrim(s)
  \/ \E n \in 1 .. MaxPull : Request(n)
  \/ \E frames \in 1 .. CapacityFrames : Feed(frames)
  \/ PullOutput

ResamplerSpec == ResamplerInit /\ [][ResamplerNext]_resamplerVars

-----------------------------------------------------------------------------
(* Types; the difference of the two indices is never negative.             *)
ResamplerTypeOK ==
  /\ readIndex \in 0 .. writeIndex /\ writeIndex \in 0 .. CapacityFrames
  /\ position \in Nat
  /\ step \in Steps /\ want \in 0 .. MaxPull /\ owed \in Nat

(* The live frames begin at the first one the next output frame's taps     *)
(* reach: compact() moves the position along with the data (143-146), and  *)
(* nothing that is still needed is retired (214-221).                      *)
LiveStartsAtTaps == readIndex = Base(0) + 1 - HalfTaps

(* "Acting on it never leaves the resampler short" (resampler.h 39-41):    *)
(* once all that was asked for has been pushed, in however many calls and  *)
(* with whatever a full FIFO turned away, the whole block comes out.       *)
InputSuffices == want > 0 /\ owed = 0 => Produced(want) = want

(* A read position that keeps its place among the frames, and blocks that  *)
(* are never short (resampler.h 39-41, resampler.cpp 143-146).             *)
PullsAreServed == LiveStartsAtTaps /\ InputSuffices

(* "Input frames that must still be pushed before `outputFrames' can be    *)
(* pulled" (resampler.h 39): no more is asked for than is missing.         *)
AsksForWhatIsMissing ==
  \A n \in 1 .. MaxPull :
    InputFramesWanted(n) =< Larger(0, Base(n - 1) + HalfTaps + 1 - writeIndex)

=============================================================================
