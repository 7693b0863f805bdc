------------------------------- MODULE Limiter -------------------------------
(***************************************************************************)
(* The look-ahead limiter (src/src/dsp/limiter.cpp), the safety device at  *)
(* the end of the chain: every frame asks for the gain that brings its     *)
(* peak to the ceiling, a monotonic queue in a fixed array keeps the       *)
(* smallest gain asked for within the look-ahead window, the gain in force *)
(* moves towards it by a bounded step, and the frames come out of a delay  *)
(* line as long as the window.                                             *)
(*                                                                         *)
(* Peaks, ceilings and gains are small integers, a gain of Unity leaving a *)
(* frame as it is.  A frame is its peak and the ceiling it was judged by.  *)
(* Of the release, an exponential, the two ends are kept: it holds the     *)
(* gain where it is or is over at once.  A slot of the queue that nothing  *)
(* will read before it is written is blank here.                           *)
(***************************************************************************)
EXTENDS Integers

CONSTANTS MaxLookahead,  \* maxLookaheadFrames_
          Peaks,
          Settings,      \* <<ceiling, look-ahead>> of the settings in use
          Unity,         \* a gain of 1.0
          MaxSamples     \* bound on the frames between two resets

Ceilings == {s[1] : s \in Settings}

(* The gains that bring a peak to a ceiling and the attack steps are whole.*)
ASSUME LimiterAssumption ==
  /\ MaxLookahead \in Nat \ {0} /\ Unity \in Nat \ {0} /\ MaxSamples \in Nat
  /\ Peaks \subseteq Nat /\ Settings \subseteq (Nat \ {0}) \X (1 .. MaxLookahead)
  /\ \A p \in Peaks, c \in Ceilings : p > c => (Unity * c) % p = 0
  /\ \A s \in Settings : s[2] >= 2 => (2 * Unity) % s[2] = 0

VARIABLES
  ceiling, lookahead,                        \* ceilingLinear_, lookaheadFrames_
  slots, queueHead, queueTail,               \* queueGain_ and queueIndex_
  delayLine, delayWrite,
  sampleIndex, currentGain,
  clippedSamples                             \* the last frame was clipped

queue == <<slots, queueHead, queueTail>>
limiterVars == <<ceiling, lookahead, queue, delayLine, delayWrite, sampleIndex,
                 currentGain, clippedSamples>>

(* Mutant: no slot for the frame that is pushed before one is retired.     *)
QueueSize_NoSpare == MaxLookahead + 1

(* queueGain_.size(): the frames of the longest window and one to come.    *)
QueueSize == MaxLookahead + 2

Blank == [gain |-> Unity, index |-> 0]
EmptyQueue == [i \in 0 .. QueueSize - 1 |-> Blank]
Silence == [peak |-> 0, judgedBy |-> 0]
EmptyLine == [i \in 0 .. MaxLookahead - 1 |-> Silence]

(* prepare() with the settings in force, which reset() ends.               *)
LimiterInit ==
  /\ \E s \in Settings : ceiling = s[1] /\ lookahead = s[2]
  /\ slots = EmptyQueue /\ queueHead = 0 /\ queueTail = 0
  /\ delayLine = EmptyLine /\ delayWrite = 0
  /\ sampleIndex = 0 /\ currentGain = Unity /\ clippedSamples = FALSE

-----------------------------------------------------------------------------
(* reset()                                                                 *)
StartOver ==
  /\ slots' = EmptyQueue /\ queueHead' = 0 /\ queueTail' = 0
  /\ delayLine' = EmptyLine /\ delayWrite' = 0
  /\ sampleIndex' = 0 /\ currentGain' = Unity /\ clippedSamples' = FALSE

(* The chain resets the limiter when it comes back from passthrough.       *)
Reset == StartOver /\ UNCHANGED <<ceiling, lookahead>>

(* setSettings(): a new length of the window starts everything over, a new *)
(* ceiling does not.                                                       *)
SetSettings(c, l) ==
  /\ ceiling' = c /\ lookahead' = l
  /\ IF l = lookahead
     THEN UNCHANGED <<queue, delayLine, delayWrite, sampleIndex, currentGain,
                      clippedSamples>>
     ELSE StartOver

(* Mutant: the gain is down just when the peak of it has gone.             *)
AttackStep_TwiceTheWindow == Unity \div (2 * lookahead)

(* attackStep_: the whole way within half the window.                      *)
AttackStep == IF lookahead =< 2 THEN Unity ELSE (2 * Unity) \div lookahead

RequiredGain(peak) == IF peak > ceiling THEN (Unity * ceiling) \div peak ELSE Unity

(* Places of the queue from the oldest entry to the newest.                *)
Place(i) == (queueHead + i) % QueueSize
Length == (queueTail - queueHead) % QueueSize

(* The entries that a gain pushed leaves: those smaller than it, all of    *)
(* them in front of those it supersedes.                                   *)
Kept(g) ==
  CHOOSE n \in 0 .. Length :
    /\ n > 0 => slots[Place(n - 1)].gain < g
    /\ \A i \in n .. Length - 1 : slots[Place(i)].gain >= g

Expired(index) == index + lookahead < sampleIndex

(* pushAndGetMinimum(): the minimum is then the entry at the head.         *)
PushAndGetMinimum(g) ==
  LET kept == Kept(g)
      pushed == [slots EXCEPT ![Place(kept)] = [gain |-> g, index |-> sampleIndex]]
      retired == CHOOSE n \in 0 .. QueueSize - 1 :
                   /\ ~ Expired(pushed[Place(n)].index)
                   /\ \A i \in 0 .. n - 1 : Expired(pushed[Place(i)].index)
  IN /\ slots' = [i \in DOMAIN slots |->
                   IF \E n \in retired .. kept : i = Place(n) THEN pushed[i] ELSE Blank]
     /\ queueTail' = Place(kept + 1)
     /\ queueHead' = Place(retired)

(* Down by at most a step, up at the pace of the release.                  *)
NextGain(target) ==
  IF target < currentGain
  THEN {IF currentGain - AttackStep > target THEN currentGain - AttackStep ELSE target}
  ELSE {currentGain, target}

(* processFrame(): the frame that leaves entered `lookahead' frames ago.   *)
ProcessFrame(peak) ==
  /\ sampleIndex < MaxSamples
  /\ PushAndGetMinimum(RequiredGain(peak))
  /\ currentGain' \in NextGain(slots'[queueHead'].gain)
  /\ clippedSamples' = (delayLine[delayWrite].peak * currentGain' > Unity * ceiling)
  /\ delayLine' = [delayLine EXCEPT ![delayWrite] = [peak |-> peak, judgedBy |-> ceiling]]
  /\ delayWrite' = (delayWrite + 1) % lookahead
  /\ sampleIndex' = sampleIndex + 1
  /\ UNCHANGED <<ceiling, lookahead>>

LimiterNext ==
  \/ \E s \in Settings : SetSettings(s[1], s[2])
  \/ Reset
  \/ \E peak \in Peaks : ProcessFrame(peak)

LimiterSpec == LimiterInit /\ [][LimiterNext]_limiterVars

-----------------------------------------------------------------------------
LimiterTypeOK ==
  /\ ceiling \in Ceilings /\ lookahead \in 1 .. MaxLookahead
  /\ slots \in [0 .. QueueSize - 1 -> [gain : 0 .. Unity, index : 0 .. MaxSamples]]
  /\ queueHead \in 0 .. QueueSize - 1 /\ queueTail \in 0 .. QueueSize - 1
  /\ delayLine \in [0 .. MaxLookahead - 1 ->
                     [peak : Peaks \union {0}, judgedBy : Ceilings \union {0}]]
  /\ delayWrite \in 0 .. lookahead - 1
  /\ sampleIndex \in 0 .. MaxSamples /\ currentGain \in 0 .. Unity
  /\ clippedSamples \in BOOLEAN

(* The gain a frame asked for when it came in.                             *)
AskedFor(frame) ==
  IF frame.peak > frame.judgedBy THEN (Unity * frame.judgedBy) \div frame.peak ELSE Unity

(* The queue yields the smallest gain that the frames of the window ask    *)
(* for: those in the delay line, the one about to leave it included, and   *)
(* the one that comes in (limiter.cpp 71-96, 108-111).                     *)
TargetIsMinimum ==
  [][sampleIndex' > sampleIndex =>
       LET asked == {AskedFor(delayLine[i]) : i \in 0 .. lookahead - 1}
                      \union {AskedFor(delayLine'[delayWrite])}
           target == slots'[queueHead'].gain
       IN target \in asked /\ \A g \in asked : target =< g]_limiterVars

(* "The gain is always fully applied before the peak it was computed for   *)
(* arrives at the output" (limiter.cpp 65-67): the final clip never has to *)
(* catch a frame, unless the ceiling was lowered while it was under way.   *)
BrickWall ==
  [][sampleIndex' > sampleIndex /\ clippedSamples' =>
       delayLine[delayWrite].judgedBy > ceiling]_limiterVars

=============================================================================
