---------------------------- MODULE AudioEngine ----------------------------
(***************************************************************************)
(* The capture -> ring -> render pipeline of src/src/engine/audio_engine.cpp: *)
(* the control thread that starts and stops a run, the capture thread and  *)
(* the render thread.                                                      *)
(*                                                                         *)
(* The ring is its number of waiting frames: RingBuffer shows that each of *)
(* its operations takes effect at one instant.  Every ring operation is a  *)
(* step of its own, because the other thread may act between any two.      *)
(* Both waits have a timeout, so a waiting thread can always wake; the     *)
(* SetEvent of stop() only makes it sooner.                                *)
(* Counters, levels, the drift loop's arithmetic and the resampler's are   *)
(* left out: what the drift loop decides is how many frames the resampler  *)
(* asks for next, and that is any number up to MaxWanted.                  *)
(***************************************************************************)
EXTENDS Naturals

CONSTANTS Period,      \* capture_.bufferFrames()
          RingFrames,  \* capacity of the ring
          MaxPacket,   \* largest packet the endpoint hands over
          MaxWanted,   \* most frames inputFramesWanted() asks for
          IdleWakes,   \* captureIdleWakes_
          MaxPriming   \* kMaxPrimingWakes

ASSUME EngineAssumption ==
  /\ Period \in Nat \ {0}
  /\ RingFrames \in Nat /\ RingFrames >= 6 * Period
  /\ MaxPacket \in Nat \ {0} /\ MaxWanted \in Nat \ {0}
  /\ IdleWakes \in Nat \ {0, 1}
  /\ MaxPriming \in Nat

VARIABLES
  gpc, running, stopRequested, fault, open,      \* control, shared flags
  fill,                                          \* frames in the ring
  cpc, usable, gotAudio, idleWakes, seenFill,    \* capture thread
  rpc, primed, primingWakes, excess              \* render thread

control == <<gpc, running, open>>
flags == <<stopRequested, fault>>
capture == <<cpc, usable, gotAudio, idleWakes, seenFill>>
render == <<rpc, primed, primingWakes, excess>>
vars == <<control, flags, fill, capture, render>>

Least(a, b) == IF a =< b THEN a ELSE b

Greatest(a, b) == IF a >= b THEN a ELSE b

(* Where the drift loop holds the ring.                                    *)
Target == Least(Greatest(Period * 3, Period), RingFrames - Period)

NoFault == "none"

Init ==
  /\ gpc = "idle" /\ running = FALSE /\ open = FALSE
  /\ stopRequested = FALSE /\ fault = NoFault
  /\ fill = 0
  /\ cpc = "none" /\ usable = 0 /\ gotAudio = FALSE /\ idleWakes = 0 /\ seenFill = 0
  /\ rpc = "none" /\ primed = FALSE /\ primingWakes = 0 /\ excess = 0

-----------------------------------------------------------------------------
(* Control thread: start() and stop()                                      *)

(* Nothing else runs while start() does, so it is one step.                *)
Start ==
  /\ gpc = "idle" /\ ~running
  /\ running' = TRUE /\ open' = TRUE
  /\ stopRequested' = FALSE /\ fault' = NoFault
  /\ fill' = 0
  /\ cpc' = "wait" /\ usable' = 0 /\ gotAudio' = FALSE /\ idleWakes' = 0
  /\ seenFill' = 0
  /\ rpc' = "wait" /\ primed' = FALSE /\ primingWakes' = 0 /\ excess' = 0
  /\ UNCHANGED gpc

(* An endpoint does not open or does not start: both are closed again.     *)
StartFails ==
  /\ gpc = "idle" /\ ~running
  /\ stopRequested' = FALSE /\ fault' = NoFault
  /\ UNCHANGED <<control, fill, capture, render>>

StopRequest ==
  /\ gpc = "idle" /\ running
  /\ stopRequested' = TRUE
  /\ gpc' = "join"
  /\ UNCHANGED <<running, open, fault, fill, capture, render>>

(* Mutant: stop() joins the capture thread only.                           *)
StopJoined_CaptureOnly ==
  /\ gpc = "join" /\ cpc = "exited"
  /\ running' = FALSE /\ open' = FALSE /\ fault' = NoFault /\ fill' = 0
  /\ cpc' = "none" /\ gpc' = "idle"
  /\ UNCHANGED <<stopRequested, usable, gotAudio, idleWakes, seenFill, render>>

(* Both threads have been joined; the order of the two joins is not        *)
(* visible.                                                                *)
StopJoined ==
  /\ gpc = "join" /\ cpc = "exited" /\ rpc = "exited"
  /\ running' = FALSE /\ open' = FALSE /\ fault' = NoFault /\ fill' = 0
  /\ cpc' = "none" /\ rpc' = "none" /\ gpc' = "idle"
  /\ UNCHANGED <<stopRequested, usable, gotAudio, idleWakes, seenFill,
                 primed, primingWakes, excess>>

Control == Start \/ StartFails \/ StopRequest \/ StopJoined

-----------------------------------------------------------------------------
(* reportFault() is two steps: the reason, under the mutex and only if     *)
(* there is none yet, then the stop request.                               *)

FirstFault(who) == IF fault = NoFault THEN who ELSE fault

(* Mutant: the stop request comes before the reason.                       *)
CaptureFaults_StopFirst(next) ==
  /\ stopRequested' = TRUE
  /\ cpc' = next
  /\ UNCHANGED <<control, fault, fill, usable, gotAudio, idleWakes, seenFill, render>>

CaptureFaults(next) ==
  /\ fault' = FirstFault("capture")
  /\ cpc' = next
  /\ UNCHANGED <<control, stopRequested, fill, usable, gotAudio, idleWakes,
                 seenFill, render>>

CaptureFaultStops ==
  /\ cpc \in {"faultExit", "faultIdle"}
  /\ stopRequested' = TRUE
  /\ cpc' = IF cpc = "faultExit" THEN "exited" ELSE "idle"
  /\ UNCHANGED <<control, fault, fill, usable, gotAudio, idleWakes, seenFill, render>>

RenderFaults ==
  /\ fault' = FirstFault("render")
  /\ rpc' = "faultExit"
  /\ UNCHANGED <<control, stopRequested, fill, capture, primed, primingWakes, excess>>

RenderFaultStops ==
  /\ rpc = "faultExit"
  /\ stopRequested' = TRUE
  /\ rpc' = "exited"
  /\ UNCHANGED <<control, fault, fill, capture, primed, primingWakes, excess>>

-----------------------------------------------------------------------------
(* Capture thread                                                          *)

CaptureExit ==
  /\ cpc = "wait" /\ stopRequested
  /\ cpc' = "exited"
  /\ UNCHANGED <<control, flags, fill, usable, gotAudio, idleWakes, seenFill, render>>

(* Mutant: the stop flag is not read again after the wait.                 *)
CaptureWake_NoRecheck ==
  /\ cpc = "wait"
  /\ cpc' = "drain" /\ gotAudio' = FALSE
  /\ UNCHANGED <<control, flags, fill, usable, idleWakes, seenFill, render>>

CaptureWake ==
  /\ cpc = "wait" /\ ~stopRequested
  /\ cpc' = "drain" /\ gotAudio' = FALSE
  /\ UNCHANGED <<control, flags, fill, usable, idleWakes, seenFill, render>>

CaptureWaitFails ==
  /\ cpc = "wait" /\ ~stopRequested
  /\ CaptureFaults("faultExit")

(* A packet is acquired, converted and processed.  Frames beyond one       *)
(* period are not used.                                                    *)
TakePacket(frames) ==
  /\ cpc = "drain"
  /\ usable' = Least(frames, Period)
  /\ cpc' = "check"
  /\ UNCHANGED <<control, flags, fill, gotAudio, idleWakes, seenFill, render>>

(* No packet waiting, or AUDCLNT_S_BUFFER_EMPTY.                           *)
NoPacket ==
  /\ cpc = "drain"
  /\ cpc' = "idle"
  /\ UNCHANGED <<control, flags, fill, usable, gotAudio, idleWakes, seenFill, render>>

(* nextPacketSize or acquirePacket fails: the inner loop ends, the idle    *)
(* check below it still runs.                                              *)
TakePacketFails == cpc = "drain" /\ CaptureFaults("faultIdle")

(* Mutant: any free frame counts as room.                                  *)
RoomForPacket_AnyRoom ==
  /\ cpc = "check" /\ fill < RingFrames
  /\ cpc' = "write"
  /\ UNCHANGED <<control, flags, fill, usable, gotAudio, idleWakes, seenFill, render>>

RoomForPacket ==
  /\ cpc = "check" /\ RingFrames - fill >= usable
  /\ cpc' = "write"
  /\ UNCHANGED <<control, flags, fill, usable, gotAudio, idleWakes, seenFill, render>>

DropPacket ==
  /\ cpc = "check" /\ RingFrames - fill < usable
  /\ cpc' = "release" /\ gotAudio' = TRUE
  /\ UNCHANGED <<control, flags, fill, usable, idleWakes, seenFill, render>>

WritePacket ==
  /\ cpc = "write"
  /\ fill' = fill + Least(usable, RingFrames - fill)
  /\ cpc' = "release" /\ gotAudio' = TRUE
  /\ UNCHANGED <<control, flags, usable, idleWakes, seenFill, render>>

ReleasePacket ==
  /\ cpc = "release"
  /\ cpc' = "drain"
  /\ UNCHANGED <<control, flags, fill, usable, gotAudio, idleWakes, seenFill, render>>

ReleasePacketFails == cpc = "release" /\ CaptureFaults("faultIdle")

(* Mutant: audio in this wake does not end a count of idle wakes, and idle *)
(* wakes do not add to it.                                                 *)
IdleCheck_NeverCounts ==
  /\ cpc = "idle"
  /\ idleWakes' = 0
  /\ cpc' = "wait" /\ UNCHANGED seenFill
  /\ UNCHANGED <<control, flags, fill, usable, gotAudio, render>>

(* idleWakes is only compared with IdleWakes and is capped there.          *)
IdleCheck ==
  /\ cpc = "idle"
  /\ idleWakes' = IF gotAudio THEN 0 ELSE Least(idleWakes + 1, IdleWakes)
  /\ IF idleWakes' >= IdleWakes /\ fill < Target
     THEN cpc' = "topup" /\ seenFill' = fill
     ELSE cpc' = "wait" /\ UNCHANGED seenFill
  /\ UNCHANGED <<control, flags, fill, usable, gotAudio, render>>

(* Mutant: the top-up adds a whole target instead of what is missing.      *)
TopUp_WholeTarget ==
  /\ cpc = "topup"
  /\ fill' = fill + Least(Target, RingFrames - fill)
  /\ cpc' = "wait"
  /\ UNCHANGED <<control, flags, usable, gotAudio, idleWakes, seenFill, render>>

TopUp ==
  /\ cpc = "topup"
  /\ fill' = fill + Least(Target - seenFill, RingFrames - fill)
  /\ cpc' = "wait"
  /\ UNCHANGED <<control, flags, usable, gotAudio, idleWakes, seenFill, render>>

CaptureThread ==
  \/ CaptureExit \/ CaptureWake \/ CaptureWaitFails
  \/ \E frames \in 1 .. MaxPacket : TakePacket(frames)
  \/ NoPacket \/ TakePacketFails
  \/ RoomForPacket \/ DropPacket \/ WritePacket
  \/ ReleasePacket \/ ReleasePacketFails
  \/ IdleCheck \/ TopUp
  \/ CaptureFaultStops

-----------------------------------------------------------------------------
(* Render thread                                                           *)

RenderExit ==
  /\ rpc = "wait" /\ stopRequested
  /\ rpc' = "exited"
  /\ UNCHANGED <<control, flags, fill, capture, primed, primingWakes, excess>>

(* The wait fails or the padding cannot be read.                           *)
RenderWakeFails == rpc = "wait" /\ ~stopRequested /\ RenderFaults

(* The endpoint has room.  A wake that finds none changes nothing.         *)
RenderWake ==
  /\ rpc = "wait" /\ ~stopRequested
  /\ rpc' = IF primed THEN "peek" ELSE "prime"
  /\ UNCHANGED <<control, flags, fill, capture, primed, primingWakes, excess>>

(* Mutant: waits for the target without a bound.                           *)
HoldOff_Unbounded ==
  /\ rpc = "prime"
  /\ fill < Target
  /\ UNCHANGED primingWakes
  /\ rpc' = "silence"
  /\ UNCHANGED <<control, flags, fill, capture, primed, excess>>

HoldOff ==
  /\ rpc = "prime"
  /\ fill < Target /\ primingWakes < MaxPriming
  /\ primingWakes' = primingWakes + 1
  /\ rpc' = "silence"
  /\ UNCHANGED <<control, flags, fill, capture, primed, excess>>

Prime ==
  /\ rpc = "prime"
  /\ fill >= Target \/ primingWakes >= MaxPriming
  /\ primed' = TRUE
  /\ rpc' = "peek"
  /\ UNCHANGED <<control, flags, fill, capture, primingWakes, excess>>

EmitSilence ==
  /\ rpc = "silence"
  /\ rpc' = "wait"
  /\ UNCHANGED <<control, flags, fill, capture, primed, primingWakes, excess>>

(* Mutant: the threshold is taken from half the ring.                      *)
NearlyFull_HalfFull == 2 * (fill + Period) >= RingFrames

NearlyFull == fill + Period >= RingFrames

(* The resync test, one load of the fill.                                  *)
ResyncTest ==
  /\ rpc = "peek"
  /\ rpc' = IF NearlyFull THEN "excess" ELSE "read"
  /\ UNCHANGED <<control, flags, fill, capture, primed, primingWakes, excess>>

(* What is over the target, a second load of the fill.                     *)
ResyncExcess ==
  /\ rpc = "excess"
  /\ excess' = fill - Target
  /\ rpc' = "discard"
  /\ UNCHANGED <<control, flags, fill, capture, primed, primingWakes>>

ResyncDiscard ==
  /\ rpc = "discard"
  /\ fill' = fill - Least(excess, fill)
  /\ rpc' = "read"
  /\ UNCHANGED <<control, flags, capture, primed, primingWakes, excess>>

(* The resampler asks for wanted frames and is made up with silence when   *)
(* the ring runs dry.                                                      *)
ReadRing(wanted) ==
  /\ rpc = "read"
  /\ fill' = fill - Least(Least(wanted, RingFrames), fill)
  /\ rpc' = "emit"
  /\ UNCHANGED <<control, flags, capture, primed, primingWakes, excess>>

Emit ==
  /\ rpc = "emit"
  /\ rpc' = "wait"
  /\ UNCHANGED <<control, flags, fill, capture, primed, primingWakes, excess>>

(* acquireBuffer or releaseBuffer fails.                                   *)
EmitFails == rpc \in {"silence", "emit"} /\ RenderFaults

RenderThread ==
  \/ RenderExit \/ RenderWake \/ RenderWakeFails
  \/ HoldOff \/ Prime \/ EmitSilence
  \/ ResyncTest \/ ResyncExcess \/ ResyncDiscard
  \/ \E wanted \in 0 .. MaxWanted : ReadRing(wanted)
  \/ Emit \/ EmitFails
  \/ RenderFaultStops

-----------------------------------------------------------------------------
Next == Control \/ CaptureThread \/ RenderThread

(* The render thread is scheduled, and its endpoint, which consumes in     *)
(* real time, has room again and again; stop() goes on once both threads   *)
(* are gone.  Nothing makes a run start, stop or fail.                     *)
RenderFairness == WF_vars(RenderThread) /\ SF_vars(RenderWake) /\ WF_vars(StopJoined)

(* The capture thread is scheduled, and its endpoint, which delivers in    *)
(* real time, runs dry again and again.                                    *)
CaptureFairness == WF_vars(CaptureThread) /\ SF_vars(NoPacket)

Spec == Init /\ [][Next]_vars

FairSpec == Spec /\ RenderFairness

-----------------------------------------------------------------------------
(* Type correctness of the flags, the ring level and both threads.         *)
TypeOK ==
  /\ gpc \in {"idle", "join"} /\ running \in BOOLEAN /\ open \in BOOLEAN
  /\ stopRequested \in BOOLEAN /\ fault \in {NoFault, "capture", "render"}
  /\ fill \in 0 .. RingFrames
  /\ cpc \in {"none", "wait", "drain", "check", "write", "release", "idle",
              "topup", "faultExit", "faultIdle", "exited"}
  /\ usable \in 0 .. Period /\ gotAudio \in BOOLEAN
  /\ idleWakes \in 0 .. IdleWakes /\ seenFill \in 0 .. RingFrames
  /\ rpc \in {"none", "wait", "prime", "silence", "peek", "excess", "discard",
              "read", "emit", "faultExit", "exited"}
  /\ primed \in BOOLEAN /\ primingWakes \in 0 .. MaxPriming
  /\ excess \in 0 .. RingFrames

(* The resync computes what is over the target from a second and discards  *)
(* it in a third access to a ring the capture thread keeps filling.  The   *)
(* unsigned difference never wraps and the ring is never left below its    *)
(* target (589-598).                                                       *)
ResyncKeepsTarget ==
  /\ rpc = "excess" => fill >= Target
  /\ rpc = "discard" => excess \in Nat /\ fill >= Target + excess

(* A packet is written whole or not at all: the room found at 425 is still *)
(* there at 426.                                                           *)
WholePackets ==
  /\ cpc \in {"check", "write"} => usable > 0
  /\ cpc = "write" => fill + usable =< RingFrames

(* Silence added to an idle source never lifts the ring above its target,  *)
(* though the fill it is computed from is older than the write (458-460).  *)
TopUpStopsAtTarget == [][cpc = "topup" /\ cpc' = "wait" => fill' =< Target]_vars

(* A run that is going down without anyone having called stop() has its    *)
(* reason on record: faultReason() is how the controller finds out.        *)
StopHasReason ==
  running /\ stopRequested /\ gpc = "idle" => fault # NoFault

Alive(pc) == pc \notin {"none", "exited"}

(* No audio thread ever runs without open endpoints and a ring, and none   *)
(* survives into the next run (286-317).                                   *)
EndpointsOutliveThreads ==
  /\ Alive(cpc) \/ Alive(rpc) => open /\ running
  /\ ~running => cpc = "none" /\ rpc = "none"

(* The parts of the inductive invariant that are not properties of their   *)
(* own: the top-up's fill is only ever too high, a thread on its way out   *)
(* of a fault has put a reason on record, and the control thread joins     *)
(* only a run it has asked to stop.                                        *)
TopUpFillIsStale == cpc = "topup" => fill =< seenFill /\ seenFill < Target

FaultOnRecord ==
  cpc \in {"faultExit", "faultIdle"} \/ rpc = "faultExit" => fault # NoFault

JoinIsRequested ==
  /\ gpc = "join" => running /\ stopRequested
  /\ running => cpc # "none" /\ rpc # "none" /\ open

IInv ==
  /\ TypeOK /\ ResyncKeepsTarget /\ WholePackets /\ TopUpFillIsStale
  /\ StopHasReason /\ FaultOnRecord /\ JoinIsRequested /\ EndpointsOutliveThreads

(* A stop request, be it from stop() or from either thread's fault, ends   *)
(* both threads.                                                           *)
StopEndsThreads ==
  CaptureFairness =>
    ((stopRequested \/ fault # NoFault) ~> (~Alive(cpc) /\ ~Alive(rpc)))

(* The output cannot be kept in the hold-off, not even by a capture side   *)
(* that never runs: the stream starts or the run ends (92-98, 531-534).    *)
PrimingEnds == rpc = "prime" ~> (primed \/ stopRequested)

(* A ring that has run dry gets frames again, from the source or from the  *)
(* idle top-up, for as long as the run goes on (452-465).                  *)
StarvationEnds ==
  CaptureFairness => ((running /\ fill = 0) ~> (fill > 0 \/ stopRequested))
=============================================================================
