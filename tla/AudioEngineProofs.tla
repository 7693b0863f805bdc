------------------------- MODULE AudioEngineProofs -------------------------
(***************************************************************************)
(* Proofs about AudioEngine, for every buffer size, ring size and packet   *)
(* length start() can produce.                                             *)
(***************************************************************************)
EXTENDS AudioEngine, TLAPS

(* The target lies a period clear of either end of the ring, so the ring   *)
(* is above its target by the time the resync test succeeds (186-192).     *)
LEMMA TargetClearOfEnds ==
  /\ Target \in Nat
  /\ Target >= Period
  /\ Target + Period =< RingFrames
BY EngineAssumption DEF Target, Least, Greatest

LEMMA LeastIsLower ==
  ASSUME NEW a \in Nat, NEW b \in Nat
  PROVE  Least(a, b) \in Nat /\ Least(a, b) =< a /\ Least(a, b) =< b
BY DEF Least

LEMMA InitIInv == Init => IInv
<1> SUFFICES ASSUME Init PROVE IInv
  OBVIOUS
<1> USE DEF Init
<1>1. TypeOK
  <2>1. 0 \in 0 .. RingFrames /\ 0 \in 0 .. IdleWakes /\ 0 \in 0 .. MaxPriming
        /\ 0 \in 0 .. Period
    BY EngineAssumption
  <2>2. QED
    BY <2>1 DEF TypeOK, NoFault
<1>2. ResyncKeepsTarget /\ WholePackets /\ TopUpFillIsStale
  BY DEF ResyncKeepsTarget, WholePackets, TopUpFillIsStale
<1>3. StopHasReason /\ FaultOnRecord /\ JoinIsRequested /\ EndpointsOutliveThreads
  BY DEF StopHasReason, FaultOnRecord, JoinIsRequested, EndpointsOutliveThreads, Alive
<1>4. QED
  BY <1>1, <1>2, <1>3 DEF IInv

-----------------------------------------------------------------------------
(* Control thread                                                          *)

LEMMA ControlIInv ==
  ASSUME IInv, Control
  PROVE  IInv'
<1> USE DEF IInv, TypeOK, ResyncKeepsTarget, WholePackets, TopUpFillIsStale,
        StopHasReason, FaultOnRecord, JoinIsRequested, EndpointsOutliveThreads,
        Alive, NoFault, control, capture, render
<1>1. CASE Start
  <2>1. 0 \in 0 .. RingFrames /\ 0 \in 0 .. IdleWakes /\ 0 \in 0 .. MaxPriming
        /\ 0 \in 0 .. Period
    BY EngineAssumption
  <2>2. TypeOK'
    BY <1>1, <2>1 DEF Start
  <2>3. ResyncKeepsTarget' /\ WholePackets' /\ TopUpFillIsStale'
    BY <1>1 DEF Start
  <2>4. (StopHasReason /\ FaultOnRecord /\ JoinIsRequested /\ EndpointsOutliveThreads)'
    BY <1>1 DEF Start
  <2>5. QED
    BY <2>2, <2>3, <2>4
<1>2. CASE StartFails
  BY <1>2 DEF StartFails
<1>3. CASE StopRequest
  BY <1>3 DEF StopRequest
<1>4. CASE StopJoined
  <2>1. 0 \in 0 .. RingFrames
    BY EngineAssumption
  <2>2. TypeOK'
    BY <1>4, <2>1 DEF StopJoined
  <2>3. ResyncKeepsTarget' /\ WholePackets' /\ TopUpFillIsStale'
    BY <1>4 DEF StopJoined
  <2>4. (StopHasReason /\ FaultOnRecord /\ JoinIsRequested /\ EndpointsOutliveThreads)'
    BY <1>4 DEF StopJoined
  <2>5. QED
    BY <2>2, <2>3, <2>4
<1>5. QED
  BY <1>1, <1>2, <1>3, <1>4 DEF Control

-----------------------------------------------------------------------------
(* Capture thread: the steps that leave the ring alone                     *)

LEMMA CaptureQuietIInv ==
  ASSUME IInv,
         \/ CaptureExit \/ CaptureWake \/ CaptureWaitFails
         \/ NoPacket \/ TakePacketFails
         \/ RoomForPacket \/ DropPacket
         \/ ReleasePacket \/ ReleasePacketFails
         \/ CaptureFaultStops
  PROVE  IInv'
<1> USE EngineAssumption
    DEF IInv, TypeOK, ResyncKeepsTarget, WholePackets, TopUpFillIsStale,
        StopHasReason, FaultOnRecord, JoinIsRequested, EndpointsOutliveThreads,
        Alive, NoFault, FirstFault, control, flags, render
<1>1. CASE CaptureExit
  BY <1>1 DEF CaptureExit
<1>2. CASE CaptureWake
  BY <1>2 DEF CaptureWake
<1>3. CASE CaptureWaitFails
  BY <1>3 DEF CaptureWaitFails, CaptureFaults
<1>4. CASE NoPacket
  BY <1>4 DEF NoPacket
<1>5. CASE TakePacketFails
  BY <1>5 DEF TakePacketFails, CaptureFaults
<1>6. CASE RoomForPacket
  BY <1>6 DEF RoomForPacket
<1>7. CASE DropPacket
  BY <1>7 DEF DropPacket
<1>8. CASE ReleasePacket
  BY <1>8 DEF ReleasePacket
<1>9. CASE ReleasePacketFails
  BY <1>9 DEF ReleasePacketFails, CaptureFaults
<1>10. CASE CaptureFaultStops
  BY <1>10 DEF CaptureFaultStops
<1>11. QED
  BY <1>1, <1>2, <1>3, <1>4, <1>5, <1>6, <1>7, <1>8, <1>9, <1>10

(* A packet is cut to one period, so it is never empty and always fits the *)
(* scratch buffer.                                                         *)
LEMMA TakePacketIInv ==
  ASSUME IInv, NEW frames \in 1 .. MaxPacket, TakePacket(frames)
  PROVE  IInv'
<1>1. Least(frames, Period) \in 1 .. Period
  BY EngineAssumption DEF Least
<1>2. QED
  BY <1>1 DEF TakePacket, IInv, TypeOK, ResyncKeepsTarget, WholePackets,
     TopUpFillIsStale, StopHasReason, FaultOnRecord, JoinIsRequested,
     EndpointsOutliveThreads, Alive, control, flags, render

LEMMA IdleCheckIInv ==
  ASSUME IInv, IdleCheck
  PROVE  IInv'
<1>1. idleWakes' \in 0 .. IdleWakes
  BY EngineAssumption DEF IdleCheck, IInv, TypeOK, Least
<1>2. QED
  BY <1>1, EngineAssumption
     DEF IdleCheck, IInv, TypeOK, ResyncKeepsTarget, WholePackets,
     TopUpFillIsStale, StopHasReason, FaultOnRecord, JoinIsRequested,
     EndpointsOutliveThreads, Alive, control, flags, render

(* Capture thread: the two writes                                          *)

(* The whole packet is written, and a fill that only grows keeps the       *)
(* resync's arithmetic right.                                              *)
LEMMA WritePacketIInv ==
  ASSUME IInv, WritePacket
  PROVE  IInv'
<1>1. fill' = fill + usable /\ fill' =< RingFrames /\ fill' >= fill
  BY EngineAssumption DEF WritePacket, IInv, TypeOK, WholePackets, Least
<1>2. QED
  BY <1>1, EngineAssumption, TargetClearOfEnds
     DEF WritePacket, IInv, TypeOK, ResyncKeepsTarget, WholePackets,
     TopUpFillIsStale, StopHasReason, FaultOnRecord, JoinIsRequested,
     EndpointsOutliveThreads, Alive, control, flags, render

LEMMA TopUpIInv ==
  ASSUME IInv, TopUp
  PROVE  IInv'
<1>1. fill' \in 0 .. RingFrames /\ fill' >= fill
  BY EngineAssumption, TargetClearOfEnds DEF TopUp, IInv, TypeOK, TopUpFillIsStale, Least
<1>2. QED
  BY <1>1, EngineAssumption, TargetClearOfEnds
     DEF TopUp, IInv, TypeOK, ResyncKeepsTarget, WholePackets,
     TopUpFillIsStale, StopHasReason, FaultOnRecord, JoinIsRequested,
     EndpointsOutliveThreads, Alive, control, flags, render

-----------------------------------------------------------------------------
(* Render thread                                                           *)

LEMMA RenderQuietIInv ==
  ASSUME IInv,
         \/ RenderExit \/ RenderWake \/ RenderWakeFails
         \/ HoldOff \/ Prime \/ EmitSilence
         \/ Emit \/ EmitFails \/ RenderFaultStops
  PROVE  IInv'
<1> USE EngineAssumption
    DEF IInv, TypeOK, ResyncKeepsTarget, WholePackets, TopUpFillIsStale,
        StopHasReason, FaultOnRecord, JoinIsRequested, EndpointsOutliveThreads,
        Alive, NoFault, FirstFault, control, flags, capture
<1>1. CASE RenderExit
  BY <1>1 DEF RenderExit
<1>2. CASE RenderWake
  BY <1>2 DEF RenderWake
<1>3. CASE RenderWakeFails
  BY <1>3 DEF RenderWakeFails, RenderFaults
<1>4. CASE HoldOff
  BY <1>4 DEF HoldOff
<1>5. CASE Prime
  BY <1>5 DEF Prime
<1>6. CASE EmitSilence
  BY <1>6 DEF EmitSilence
<1>7. CASE Emit
  BY <1>7 DEF Emit
<1>8. CASE EmitFails
  BY <1>8 DEF EmitFails, RenderFaults
<1>9. CASE RenderFaultStops
  BY <1>9 DEF RenderFaultStops
<1>10. QED
  BY <1>1, <1>2, <1>3, <1>4, <1>5, <1>6, <1>7, <1>8, <1>9

(* The resync: what the test established, and the capture thread cannot    *)
(* undo, is what makes the difference a natural number.                    *)
LEMMA ResyncIInv ==
  ASSUME IInv, ResyncTest \/ ResyncExcess \/ ResyncDiscard
  PROVE  IInv'
<1> USE EngineAssumption, TargetClearOfEnds
    DEF IInv, TypeOK, ResyncKeepsTarget, WholePackets, TopUpFillIsStale,
        StopHasReason, FaultOnRecord, JoinIsRequested, EndpointsOutliveThreads,
        Alive, control, flags, capture
<1>1. CASE ResyncTest
  BY <1>1 DEF ResyncTest, NearlyFull
<1>2. CASE ResyncExcess
  BY <1>2 DEF ResyncExcess
<1>3. CASE ResyncDiscard
  BY <1>3 DEF ResyncDiscard, Least
<1>4. QED
  BY <1>1, <1>2, <1>3

LEMMA ReadRingIInv ==
  ASSUME IInv, NEW wanted \in 0 .. MaxWanted, ReadRing(wanted)
  PROVE  IInv'
<1>1. fill' \in 0 .. RingFrames /\ fill' =< fill
  BY EngineAssumption DEF ReadRing, IInv, TypeOK, Least
<1>2. QED
  BY <1>1, EngineAssumption
     DEF ReadRing, IInv, TypeOK, ResyncKeepsTarget, WholePackets,
     TopUpFillIsStale, StopHasReason, FaultOnRecord, JoinIsRequested,
     EndpointsOutliveThreads, Alive, control, flags, capture

-----------------------------------------------------------------------------
LEMMA NextIInv == IInv /\ [Next]_vars => IInv'
<1> SUFFICES ASSUME IInv, [Next]_vars PROVE IInv'
  OBVIOUS
<1>1. CASE Control
  BY <1>1, ControlIInv
<1>2. CASE CaptureThread
  BY <1>2, CaptureQuietIInv, TakePacketIInv, WritePacketIInv, IdleCheckIInv, TopUpIInv
     DEF CaptureThread
<1>3. CASE RenderThread
  BY <1>3, RenderQuietIInv, ResyncIInv, ReadRingIInv DEF RenderThread
<1>4. CASE UNCHANGED vars
  BY <1>4 DEF vars, control, flags, capture, render, IInv, TypeOK,
     ResyncKeepsTarget, WholePackets, TopUpFillIsStale, StopHasReason,
     FaultOnRecord, JoinIsRequested, EndpointsOutliveThreads, Alive
<1>5. QED
  BY <1>1, <1>2, <1>3, <1>4 DEF Next

(* The inductive invariant of the engine.                                  *)
THEOREM EngineInvariant == Spec => []IInv
<1>1. Init => IInv
  BY InitIInv
<1>2. IInv /\ [Next]_vars => IInv'
  BY NextIInv
<1>3. QED
  BY <1>1, <1>2, PTL DEF Spec

(* The flags, the ring level and both threads stay in their types: the     *)
(* fill never leaves 0 .. RingFrames.                                      *)
THEOREM TypeCorrect == Spec => []TypeOK
<1>1. IInv => TypeOK
  BY DEF IInv
<1>2. QED
  BY <1>1, EngineInvariant, PTL

(* The resync's unsigned difference never wraps and its discard never      *)
(* takes the ring below the target (audio_engine.cpp:589-598).             *)
THEOREM ResyncIsSafe == Spec => []ResyncKeepsTarget
<1>1. IInv => ResyncKeepsTarget
  BY DEF IInv
<1>2. QED
  BY <1>1, EngineInvariant, PTL

(* A capture packet is in the ring whole or not at all                     *)
(* (audio_engine.cpp:425-442).                                             *)
THEOREM PacketsAreWhole == Spec => []WholePackets
<1>1. IInv => WholePackets
  BY DEF IInv
<1>2. QED
  BY <1>1, EngineInvariant, PTL

(* The idle top-up never lifts the ring above its target                   *)
(* (audio_engine.cpp:457-465).                                             *)
THEOREM TopUpIsBounded == Spec => TopUpStopsAtTarget
<1>1. IInv /\ [Next]_vars => [cpc = "topup" /\ cpc' = "wait" => fill' =< Target]_vars
  <2> SUFFICES ASSUME IInv, Next, cpc = "topup", cpc' = "wait"
               PROVE  fill' =< Target
    OBVIOUS
  <2>1. TopUp
    BY DEF Next, Control, Start, StartFails, StopRequest, StopJoined, CaptureThread,
       CaptureExit, CaptureWake, CaptureWaitFails, TakePacket, NoPacket,
       TakePacketFails, RoomForPacket, DropPacket, WritePacket, ReleasePacket,
       ReleasePacketFails, IdleCheck, CaptureFaultStops, RenderThread, RenderExit,
       RenderWake, RenderWakeFails, RenderFaults, HoldOff, Prime, EmitSilence,
       ResyncTest, ResyncExcess, ResyncDiscard, ReadRing, Emit, EmitFails,
       RenderFaultStops, capture, IInv, JoinIsRequested, EndpointsOutliveThreads,
       Alive
  <2>2. QED
    BY <2>1, TargetClearOfEnds, EngineAssumption
       DEF TopUp, IInv, TypeOK, TopUpFillIsStale, Least
<1>2. QED
  BY <1>1, EngineInvariant, PTL DEF Spec, TopUpStopsAtTarget

(* A run that is going down unasked has its reason on record               *)
(* (audio_engine.cpp:325-333, 312-315).                                    *)
THEOREM StopsAreExplained == Spec => []StopHasReason
<1>1. IInv => StopHasReason
  BY DEF IInv
<1>2. QED
  BY <1>1, EngineInvariant, PTL

(* No audio thread runs on closed endpoints or into the next run           *)
(* (audio_engine.cpp:280-318).                                             *)
THEOREM ThreadsEndBeforeClose == Spec => []EndpointsOutliveThreads
<1>1. IInv => EndpointsOutliveThreads
  BY DEF IInv
<1>2. QED
  BY <1>1, EngineInvariant, PTL

-----------------------------------------------------------------------------
(* What the liveness properties owe to the code, next to the threads being *)
(* scheduled: a step that could undo progress does not exist.              *)

(* A fault that nobody has acted on yet is one a thread is about to act on,*)
(* and a run that has ended has none.                                      *)
FaultIsBeingReported ==
  /\ ~running => fault = NoFault
  /\ fault # NoFault =>
       \/ stopRequested
       \/ cpc \in {"faultExit", "faultIdle"} \/ rpc = "faultExit"

(* A thread that takes a step belongs to a run.                            *)
LEMMA ThreadsRun ==
  ASSUME IInv
  PROVE  /\ CaptureThread => running /\ cpc # "none"
         /\ RenderThread => running /\ rpc # "none"
BY DEF IInv, EndpointsOutliveThreads, Alive, CaptureThread, CaptureExit, CaptureWake,
       CaptureWaitFails, TakePacket, NoPacket, TakePacketFails, RoomForPacket, DropPacket,
       WritePacket, ReleasePacket, ReleasePacketFails, IdleCheck, TopUp, CaptureFaultStops,
       RenderThread, RenderExit, RenderWake, RenderWakeFails, HoldOff, Prime, EmitSilence,
       ResyncTest, ResyncExcess, ResyncDiscard, ReadRing, Emit, EmitFails, RenderFaultStops

LEMMA FaultIsBeingReportedHolds ==
  IInv /\ FaultIsBeingReported /\ [Next]_vars => FaultIsBeingReported'
<1> SUFFICES ASSUME IInv, FaultIsBeingReported, [Next]_vars
             PROVE  FaultIsBeingReported'
  OBVIOUS
<1> USE DEF FaultIsBeingReported, NoFault, FirstFault, control, flags, capture, render
<1>1. CASE Control
  BY <1>1 DEF Control, Start, StartFails, StopRequest, StopJoined
<1>2. CASE CaptureThread
  <2>1. running
    BY <1>2, ThreadsRun
  <2>2. CASE CaptureWaitFails \/ TakePacketFails \/ ReleasePacketFails
    BY <2>1, <2>2 DEF CaptureWaitFails, TakePacketFails, ReleasePacketFails, CaptureFaults
  <2>3. CASE CaptureFaultStops
    BY <2>1, <2>3 DEF CaptureFaultStops
  <2>4. CASE CaptureExit \/ CaptureWake \/ NoPacket \/ IdleCheck \/ TopUp
    BY <2>1, <2>4 DEF CaptureExit, CaptureWake, NoPacket, IdleCheck, TopUp
  <2>5. CASE \E frames \in 1 .. MaxPacket : TakePacket(frames)
    BY <2>1, <2>5 DEF TakePacket
  <2>6. CASE RoomForPacket \/ DropPacket \/ WritePacket \/ ReleasePacket
    BY <2>1, <2>6 DEF RoomForPacket, DropPacket, WritePacket, ReleasePacket
  <2> QED
    BY <1>2, <2>2, <2>3, <2>4, <2>5, <2>6 DEF CaptureThread
<1>3. CASE RenderThread
  <2>1. running
    BY <1>3, ThreadsRun
  <2>2. CASE RenderWakeFails \/ EmitFails
    BY <2>1, <2>2 DEF RenderWakeFails, EmitFails, RenderFaults
  <2>3. CASE RenderFaultStops
    BY <2>1, <2>3 DEF RenderFaultStops
  <2>4. CASE RenderExit \/ RenderWake \/ HoldOff \/ Prime \/ EmitSilence \/ Emit
    BY <2>1, <2>4 DEF RenderExit, RenderWake, HoldOff, Prime, EmitSilence, Emit
  <2>5. CASE ResyncTest \/ ResyncExcess \/ ResyncDiscard
    BY <2>1, <2>5 DEF ResyncTest, ResyncExcess, ResyncDiscard
  <2>6. CASE \E wanted \in 0 .. MaxWanted : ReadRing(wanted)
    BY <2>1, <2>6 DEF ReadRing
  <2> QED
    BY <1>3, <2>2, <2>3, <2>4, <2>5, <2>6 DEF RenderThread
<1>4. CASE UNCHANGED vars
  BY <1>4 DEF vars
<1> QED
  BY <1>1, <1>2, <1>3, <1>4 DEF Next

(* A reason on record is always followed by the stop request: no fault     *)
(* leaves a run going that faultReason() calls dead                        *)
(* (audio_engine.cpp:325-333).                                             *)
THEOREM FaultsBringStops == Spec => []FaultIsBeingReported
<1>1. Init => FaultIsBeingReported
  BY DEF Init, FaultIsBeingReported
<1>2. QED
  BY <1>1, FaultIsBeingReportedHolds, EngineInvariant, PTL DEF Spec

(* Steps of its own a thread of a run that is to stop has still to take;   *)
(* the capture thread starts over with every packet it still takes.        *)
RenderSteps(pc) ==
  CASE pc = "prime" -> 8 [] pc = "peek" -> 7 [] pc = "excess" -> 6
    [] pc = "discard" -> 5 [] pc = "read" -> 4 [] pc \in {"silence", "emit"} -> 3
    [] pc = "wait" -> 2 [] pc = "faultExit" -> 1 [] OTHER -> 0

CaptureSteps(pc) ==
  CASE pc = "check" -> 8 [] pc = "write" -> 7 [] pc = "release" -> 6
    [] pc = "drain" -> 5 [] pc = "faultIdle" -> 4 [] pc = "idle" -> 3
    [] pc = "topup" -> 2 [] pc \in {"wait", "faultExit"} -> 1 [] OTHER -> 0

LEMMA RenderStepsValues ==
  /\ RenderSteps("prime") = 8 /\ RenderSteps("peek") = 7 /\ RenderSteps("excess") = 6
  /\ RenderSteps("discard") = 5 /\ RenderSteps("read") = 4
  /\ RenderSteps("silence") = 3 /\ RenderSteps("emit") = 3
  /\ RenderSteps("wait") = 2 /\ RenderSteps("faultExit") = 1
  /\ RenderSteps("exited") = 0 /\ RenderSteps("none") = 0
BY DEF RenderSteps

LEMMA CaptureStepsValues ==
  /\ CaptureSteps("check") = 8 /\ CaptureSteps("write") = 7 /\ CaptureSteps("release") = 6
  /\ CaptureSteps("drain") = 5 /\ CaptureSteps("faultIdle") = 4 /\ CaptureSteps("idle") = 3
  /\ CaptureSteps("topup") = 2 /\ CaptureSteps("wait") = 1
  /\ CaptureSteps("faultExit") = 1
  /\ CaptureSteps("exited") = 0 /\ CaptureSteps("none") = 0
BY DEF CaptureSteps

LEMMA StepsAreCounted ==
  ASSUME NEW pc
  PROVE  RenderSteps(pc) \in Nat /\ CaptureSteps(pc) \in Nat
BY DEF RenderSteps, CaptureSteps

(* Nothing is left for a thread exactly when it is no longer there.        *)
LEMMA NothingIsLeft ==
  ASSUME TypeOK
  PROVE  /\ RenderSteps(rpc) = 0 <=> ~ Alive(rpc)
         /\ CaptureSteps(cpc) = 0 <=> ~ Alive(cpc)
BY RenderStepsValues, CaptureStepsValues DEF TypeOK, Alive

ThreadsGoDown ==
  /\ stopRequested'
  /\ RenderSteps(rpc') =< RenderSteps(rpc)
  /\ RenderThread => RenderSteps(rpc') < RenderSteps(rpc)
  /\ \/ \E frames \in 1 .. MaxPacket : TakePacket(frames)
     \/ /\ CaptureSteps(cpc') =< CaptureSteps(cpc)
        /\ CaptureThread => CaptureSteps(cpc') < CaptureSteps(cpc)

(* One step of the render thread.                                          *)
LEMMA RenderShortens ==
  ASSUME IInv, RenderThread, stopRequested
  PROVE  /\ RenderSteps(rpc') < RenderSteps(rpc)
         /\ UNCHANGED cpc /\ stopRequested'
<1>1. stopRequested' /\ UNCHANGED cpc
  BY DEF RenderThread, RenderExit, RenderWake, RenderWakeFails, RenderFaults, HoldOff,
         Prime, EmitSilence, ResyncTest, ResyncExcess, ResyncDiscard, ReadRing, Emit,
         EmitFails, RenderFaultStops, flags, capture
<1>2. RenderSteps(rpc') < RenderSteps(rpc)
  <2>1. CASE RenderExit \/ RenderFaultStops \/ EmitSilence \/ Emit
    BY <2>1, RenderStepsValues DEF RenderExit, RenderFaultStops, EmitSilence, Emit
  <2>2. CASE RenderWake \/ RenderWakeFails
    BY <2>2, RenderStepsValues DEF RenderWake, RenderWakeFails
  <2>3. CASE HoldOff \/ Prime
    BY <2>3, RenderStepsValues DEF HoldOff, Prime
  <2>4. CASE ResyncTest \/ ResyncExcess \/ ResyncDiscard
    BY <2>4, RenderStepsValues DEF ResyncTest, ResyncExcess, ResyncDiscard
  <2>5. CASE \E wanted \in 0 .. MaxWanted : ReadRing(wanted)
    BY <2>5, RenderStepsValues DEF ReadRing
  <2>6. CASE EmitFails
    BY <2>6, RenderStepsValues DEF EmitFails, RenderFaults
  <2> QED
    BY <2>1, <2>2, <2>3, <2>4, <2>5, <2>6 DEF RenderThread
<1> QED
  BY <1>1, <1>2

(* One step of the capture thread.                                         *)
LEMMA CaptureShortens ==
  ASSUME IInv, CaptureThread, stopRequested
  PROVE  /\ \/ CaptureSteps(cpc') < CaptureSteps(cpc)
            \/ \E frames \in 1 .. MaxPacket : TakePacket(frames)
         /\ UNCHANGED rpc /\ stopRequested'
<1>1. stopRequested' /\ UNCHANGED rpc
  BY DEF CaptureThread, CaptureExit, CaptureWake, CaptureWaitFails, TakePacket, NoPacket,
         TakePacketFails, RoomForPacket, DropPacket, WritePacket, ReleasePacket,
         ReleasePacketFails, IdleCheck, TopUp, CaptureFaultStops, CaptureFaults,
         flags, render
<1>2. \/ CaptureSteps(cpc') < CaptureSteps(cpc)
      \/ \E frames \in 1 .. MaxPacket : TakePacket(frames)
  <2>1. CASE CaptureExit \/ CaptureWake \/ CaptureWaitFails
    BY <2>1, CaptureStepsValues DEF CaptureExit, CaptureWake, CaptureWaitFails
  <2>2. CASE NoPacket \/ TakePacketFails
    <3>1. cpc = "drain" /\ cpc' \in {"idle", "faultIdle"}
      BY <2>2 DEF NoPacket, TakePacketFails, CaptureFaults
    <3> QED
      BY <3>1, CaptureStepsValues
  <2>3. CASE RoomForPacket \/ DropPacket \/ WritePacket
    <3>1. \/ cpc = "check" /\ cpc' \in {"write", "release"}
          \/ cpc = "write" /\ cpc' = "release"
      BY <2>3 DEF RoomForPacket, DropPacket, WritePacket
    <3> QED
      BY <3>1, CaptureStepsValues
  <2>4. CASE ReleasePacket \/ ReleasePacketFails
    <3>1. cpc = "release" /\ cpc' \in {"drain", "faultIdle"}
      BY <2>4 DEF ReleasePacket, ReleasePacketFails, CaptureFaults
    <3> QED
      BY <3>1, CaptureStepsValues
  <2>5. CASE IdleCheck \/ TopUp
    <3>1. \/ cpc = "idle" /\ cpc' \in {"topup", "wait"}
          \/ cpc = "topup" /\ cpc' = "wait"
      BY <2>5 DEF IdleCheck, TopUp
    <3> QED
      BY <3>1, CaptureStepsValues
  <2>6. CASE CaptureFaultStops
    <3>1. \/ cpc = "faultExit" /\ cpc' = "exited"
          \/ cpc = "faultIdle" /\ cpc' = "idle"
      BY <2>6 DEF CaptureFaultStops
    <3> QED
      BY <3>1, CaptureStepsValues
  <2> QED
    BY <2>1, <2>2, <2>3, <2>4, <2>5, <2>6 DEF CaptureThread
<1> QED
  BY <1>1, <1>2

(* Once a stop has been asked for, by anyone, every step of a thread of    *)
(* the run brings that thread nearer to its end, except that the capture   *)
(* thread goes on as long as it finds packets; nothing sends either back   *)
(* or takes the request back (audio_engine.cpp:286-318, 383-470, 500-640). *)
THEOREM StopsAreShort ==
  Spec => [][running /\ stopRequested => ThreadsGoDown]_vars
<1>1. ASSUME IInv, [Next]_vars
      PROVE  [running /\ stopRequested => ThreadsGoDown]_vars
  <2> SUFFICES ASSUME Next, running, stopRequested
               PROVE  ThreadsGoDown
    BY <1>1
  <2>1. /\ RenderSteps(rpc) \in Nat /\ RenderSteps(rpc') \in Nat
        /\ CaptureSteps(cpc) \in Nat /\ CaptureSteps(cpc') \in Nat
    BY StepsAreCounted
  <2>2. CASE RenderThread
    <3>1. /\ RenderSteps(rpc') < RenderSteps(rpc)
          /\ UNCHANGED cpc /\ stopRequested'
      BY <1>1, <2>2, RenderShortens
    <3>2. ~ CaptureThread
      BY <1>1, <2>2, <3>1, <2>1, CaptureShortens
    <3> QED
      BY <2>1, <3>1, <3>2 DEF ThreadsGoDown
  <2>3. CASE CaptureThread /\ ~ RenderThread
    <3>1. /\ \/ CaptureSteps(cpc') < CaptureSteps(cpc)
             \/ \E frames \in 1 .. MaxPacket : TakePacket(frames)
          /\ UNCHANGED rpc /\ stopRequested'
      BY <1>1, <2>3, CaptureShortens
    <3> QED
      BY <2>1, <2>3, <3>1 DEF ThreadsGoDown
  <2>4. CASE Control /\ ~ RenderThread /\ ~ CaptureThread
    <3>1. StopRequest \/ StopJoined
      BY <2>4 DEF Control, Start, StartFails
    <3>2. stopRequested'
      BY <3>1 DEF StopRequest, StopJoined
    <3>3. /\ UNCHANGED rpc \/ (rpc = "exited" /\ rpc' = "none")
          /\ UNCHANGED cpc \/ (cpc = "exited" /\ cpc' = "none")
      BY <3>1 DEF StopRequest, StopJoined, capture, render
    <3>4. RenderSteps(rpc') =< RenderSteps(rpc) /\ CaptureSteps(cpc') =< CaptureSteps(cpc)
      BY <3>3, <2>1, RenderStepsValues, CaptureStepsValues
    <3> QED
      BY <2>4, <3>2, <3>3, <3>4 DEF ThreadsGoDown
  <2> QED
    BY <2>2, <2>3, <2>4 DEF Next
<1> QED
  BY <1>1, EngineInvariant, PTL DEF Spec

(* Steps of its own after which the render thread is through with the      *)
(* hold-off, whatever the capture thread does.                             *)
HoldOffSteps(pc) == CASE pc = "silence" -> 4 [] pc = "wait" -> 3 [] OTHER -> 2

HoldOffLeft == 3 * (MaxPriming - primingWakes) + HoldOffSteps(rpc)

HoldingOff == ~primed /\ rpc \in {"wait", "prime", "silence"}

LEMMA HoldOffShortens ==
  ASSUME IInv, HoldingOff, RenderThread
  PROVE  \/ primed' \/ ~ Alive(rpc') \/ rpc' = "faultExit"
         \/ HoldingOff' /\ HoldOffLeft' < HoldOffLeft
<1>1. /\ primingWakes \in 0 .. MaxPriming /\ primed \in BOOLEAN /\ MaxPriming \in Nat
      /\ HoldOffSteps("silence") = 4 /\ HoldOffSteps("wait") = 3 /\ HoldOffSteps("prime") = 2
  BY EngineAssumption DEF IInv, TypeOK, HoldOffSteps
<1>2. CASE RenderWake
  <2>1. /\ ~primed' /\ UNCHANGED primingWakes
        /\ rpc = "wait" /\ rpc' = "prime"
    BY <1>2 DEF RenderWake, HoldingOff
  <2> QED
    BY <1>1, <2>1 DEF HoldingOff, HoldOffLeft
<1>3. CASE HoldOff
  <2>1. /\ ~primed' /\ primingWakes' = primingWakes + 1 /\ primingWakes < MaxPriming
        /\ rpc = "prime" /\ rpc' = "silence"
    BY <1>3 DEF HoldOff, HoldingOff
  <2> QED
    BY <1>1, <2>1 DEF HoldingOff, HoldOffLeft
<1>4. CASE EmitSilence
  <2>1. /\ ~primed' /\ UNCHANGED primingWakes
        /\ rpc = "silence" /\ rpc' = "wait"
    BY <1>4 DEF EmitSilence, HoldingOff
  <2> QED
    BY <1>1, <2>1 DEF HoldingOff, HoldOffLeft
<1>5. CASE RenderExit \/ RenderWakeFails \/ EmitFails \/ Prime
  BY <1>5 DEF RenderExit, RenderWakeFails, EmitFails, RenderFaults, Prime, Alive
<1>6. ~ (\/ ResyncTest \/ ResyncExcess \/ ResyncDiscard \/ Emit \/ RenderFaultStops
         \/ \E wanted \in 0 .. MaxWanted : ReadRing(wanted))
  BY DEF HoldingOff, ResyncTest, ResyncExcess, ResyncDiscard, Emit, RenderFaultStops, ReadRing
<1> QED
  BY <1>2, <1>3, <1>4, <1>5, <1>6 DEF RenderThread

(* The hold-off is over after a number of steps of the render thread that  *)
(* is fixed when the run starts: each of them brings its end nearer and    *)
(* nothing that another thread does puts it off, so that a source that     *)
(* never delivers cannot keep the output silent (audio_engine.cpp:92-98,   *)
(* 531-534).                                                               *)
THEOREM HoldOffIsShort ==
  Spec => [][HoldingOff =>
               /\ HoldOffLeft \in 2 .. 3 * MaxPriming + 4
               /\ \/ primed' \/ ~ Alive(rpc') \/ rpc' = "faultExit"
                  \/ HoldingOff' /\ HoldOffLeft' < HoldOffLeft
                  \/ HoldingOff' /\ HoldOffLeft' = HoldOffLeft /\ ~ RenderThread]_vars
<1>1. ASSUME IInv, Next, HoldingOff
      PROVE  /\ HoldOffLeft \in 2 .. 3 * MaxPriming + 4
             /\ \/ primed' \/ ~ Alive(rpc') \/ rpc' = "faultExit"
                \/ HoldingOff' /\ HoldOffLeft' < HoldOffLeft
                \/ HoldingOff' /\ HoldOffLeft' = HoldOffLeft /\ ~ RenderThread
  <2>1. HoldOffLeft \in 2 .. 3 * MaxPriming + 4
    <3>1. HoldOffSteps(rpc) \in 2 .. 4
      BY DEF HoldOffSteps
    <3> QED
      BY <1>1, <3>1, EngineAssumption DEF IInv, TypeOK, HoldOffLeft
  <2>2. CASE RenderThread
    BY <1>1, <2>1, <2>2, HoldOffShortens
  <2>3. CASE ~ RenderThread
    <3>1. UNCHANGED <<primed, primingWakes, rpc>>
      <4>1. running
        BY <1>1 DEF IInv, EndpointsOutliveThreads, HoldingOff
      <4>2. CASE Control
        BY <1>1, <4>1, <4>2 DEF HoldingOff, Control, Start, StartFails, StopRequest, StopJoined,
           render
      <4>3. CASE CaptureThread
        BY <4>3 DEF CaptureThread, CaptureExit, CaptureWake, CaptureWaitFails, TakePacket,
           NoPacket, TakePacketFails, RoomForPacket, DropPacket, WritePacket, ReleasePacket,
           ReleasePacketFails, IdleCheck, TopUp, CaptureFaultStops, CaptureFaults, render
      <4> QED
        BY <1>1, <2>3, <4>2, <4>3 DEF Next
    <3> QED
      BY <1>1, <2>1, <2>3, <3>1 DEF HoldingOff, HoldOffLeft
  <2> QED
    BY <2>2, <2>3
<1>2. ASSUME IInv, [Next]_vars
      PROVE  [HoldingOff =>
               /\ HoldOffLeft \in 2 .. 3 * MaxPriming + 4
               /\ \/ primed' \/ ~ Alive(rpc') \/ rpc' = "faultExit"
                  \/ HoldingOff' /\ HoldOffLeft' < HoldOffLeft
                  \/ HoldingOff' /\ HoldOffLeft' = HoldOffLeft /\ ~ RenderThread]_vars
  BY <1>1, <1>2
<1> QED
  BY <1>2, EngineInvariant, PTL DEF Spec

(* Steps of its own the capture thread takes at most until a ring that has *)
(* run dry gets frames: so many wakes until the source counts as idle, one *)
(* more if this wake has already found audio, and what is left of a wake.  *)
WakeSteps(pc) ==
  CASE pc = "wait" -> 6 [] pc = "drain" -> 5 [] pc = "release" -> 6
    [] pc = "check" -> 4 [] pc = "write" -> 3 [] pc = "faultIdle" -> 3
    [] pc = "idle" -> 2 [] pc = "topup" -> 1 [] OTHER -> 0

HasHeard == gotAudio /\ cpc \in {"drain", "check", "write", "release", "faultIdle", "idle"}

WakesLeft == IF HasHeard THEN IdleWakes + 1 ELSE IdleWakes - idleWakes

DryLeft == 5 * WakesLeft + WakeSteps(cpc)

Dry == running /\ fill = 0 /\ ~stopRequested

LEMMA WakeStepsValues ==
  /\ WakeSteps("wait") = 6 /\ WakeSteps("drain") = 5 /\ WakeSteps("release") = 6
  /\ WakeSteps("check") = 4 /\ WakeSteps("write") = 3 /\ WakeSteps("faultIdle") = 3
  /\ WakeSteps("idle") = 2 /\ WakeSteps("topup") = 1 /\ WakeSteps("faultExit") = 0
BY DEF WakeSteps

LEMMA WakesLeftType ==
  ASSUME IInv
  PROVE  WakesLeft \in 0 .. IdleWakes + 1 /\ DryLeft \in 0 .. 5 * IdleWakes + 11
<1>1. WakesLeft \in 0 .. IdleWakes + 1
  BY EngineAssumption DEF IInv, TypeOK, WakesLeft
<1>2. WakeSteps(cpc) \in 0 .. 6
  BY DEF WakeSteps
<1> QED
  BY <1>1, <1>2, EngineAssumption DEF DryLeft

LEMMA DryShortens ==
  ASSUME IInv, Dry, CaptureThread
  PROVE  fill' > 0 \/ stopRequested' \/ DryLeft' < DryLeft
<1>1. /\ idleWakes \in 0 .. IdleWakes /\ IdleWakes \in Nat /\ IdleWakes >= 2
      /\ gotAudio \in BOOLEAN /\ cpc # "none"
      /\ Period \in Nat \ {0} /\ RingFrames \in Nat /\ usable \in 0 .. Period
      /\ RingFrames > Period
  BY EngineAssumption DEF IInv, TypeOK, JoinIsRequested, Dry
<1>2. WakesLeft \in 0 .. IdleWakes + 1
  BY WakesLeftType
<1>3. CASE CaptureExit \/ CaptureFaultStops
  BY <1>3 DEF CaptureExit, CaptureFaultStops, Dry
<1>4. CASE CaptureWake
  <2>1. cpc = "wait" /\ cpc' = "drain" /\ gotAudio' = FALSE /\ UNCHANGED idleWakes
    BY <1>4 DEF CaptureWake
  <2>2. WakesLeft' = WakesLeft
    BY <2>1 DEF WakesLeft, HasHeard
  <2> QED
    BY <1>2, <2>1, <2>2, WakeStepsValues DEF DryLeft
<1>5. CASE CaptureWaitFails
  <2>1. cpc = "wait" /\ cpc' = "faultExit" /\ UNCHANGED <<gotAudio, idleWakes>>
    BY <1>5 DEF CaptureWaitFails, CaptureFaults
  <2>2. WakesLeft' = WakesLeft
    BY <2>1 DEF WakesLeft, HasHeard
  <2> QED
    BY <1>2, <2>1, <2>2, WakeStepsValues DEF DryLeft
<1>6. CASE \E frames \in 1 .. MaxPacket : TakePacket(frames)
  <2>1. cpc = "drain" /\ cpc' = "check" /\ UNCHANGED <<gotAudio, idleWakes>>
    BY <1>6 DEF TakePacket
  <2>2. WakesLeft' = WakesLeft
    BY <2>1 DEF WakesLeft, HasHeard
  <2> QED
    BY <1>2, <2>1, <2>2, WakeStepsValues DEF DryLeft
<1>7. CASE NoPacket \/ TakePacketFails
  <2>1. cpc = "drain" /\ cpc' \in {"idle", "faultIdle"} /\ UNCHANGED <<gotAudio, idleWakes>>
    BY <1>7 DEF NoPacket, TakePacketFails, CaptureFaults
  <2>2. WakesLeft' = WakesLeft
    BY <2>1 DEF WakesLeft, HasHeard
  <2> QED
    BY <1>2, <2>1, <2>2, WakeStepsValues DEF DryLeft
<1>8. CASE RoomForPacket
  <2>1. cpc = "check" /\ cpc' = "write" /\ UNCHANGED <<gotAudio, idleWakes>>
    BY <1>8 DEF RoomForPacket
  <2>2. WakesLeft' = WakesLeft
    BY <2>1 DEF WakesLeft, HasHeard
  <2> QED
    BY <1>2, <2>1, <2>2, WakeStepsValues DEF DryLeft
<1>9. ~ DropPacket
  BY <1>1 DEF DropPacket, Dry
<1>10. CASE WritePacket
  <2>1. usable > 0
    BY <1>10 DEF WritePacket, IInv, WholePackets
  <2> QED
    BY <1>1, <1>10, <2>1 DEF WritePacket, Dry, Least
<1>11. CASE ReleasePacket \/ ReleasePacketFails
  <2>1. cpc = "release" /\ cpc' \in {"drain", "faultIdle"} /\ UNCHANGED <<gotAudio, idleWakes>>
    BY <1>11 DEF ReleasePacket, ReleasePacketFails, CaptureFaults
  <2>2. WakesLeft' = WakesLeft
    BY <2>1 DEF WakesLeft, HasHeard
  <2> QED
    BY <1>2, <2>1, <2>2, WakeStepsValues DEF DryLeft
<1>12. CASE IdleCheck
  <2>1. cpc = "idle" /\ UNCHANGED <<gotAudio, fill>>
    BY <1>12 DEF IdleCheck
  <2>2. CASE gotAudio
    <3>1. idleWakes' = 0
      BY <1>12, <2>2 DEF IdleCheck
    <3>2. cpc' = "wait"
      BY <1>1, <1>12, <3>1 DEF IdleCheck
    <3>3. WakesLeft = IdleWakes + 1 /\ WakesLeft' = IdleWakes
      BY <1>1, <2>1, <2>2, <3>1, <3>2 DEF WakesLeft, HasHeard
    <3> QED
      BY <1>1, <2>1, <3>2, <3>3, WakeStepsValues DEF DryLeft
  <2>3. CASE ~gotAudio /\ idleWakes + 1 < IdleWakes
    <3>1. idleWakes' = idleWakes + 1
      BY <1>1, <1>12, <2>3 DEF IdleCheck, Least
    <3>2. cpc' = "wait"
      BY <1>1, <1>12, <2>3, <3>1 DEF IdleCheck
    <3>3. WakesLeft = IdleWakes - idleWakes /\ WakesLeft' = IdleWakes - (idleWakes + 1)
      BY <2>1, <2>3, <3>1, <3>2 DEF WakesLeft, HasHeard
    <3> QED
      BY <1>1, <2>1, <3>2, <3>3, WakeStepsValues DEF DryLeft
  <2>4. CASE ~gotAudio /\ idleWakes + 1 >= IdleWakes
    <3>1. idleWakes' = IdleWakes
      BY <1>1, <1>12, <2>4 DEF IdleCheck, Least
    <3>2. fill < Target
      BY <1>1, TargetClearOfEnds DEF Dry
    <3>3. cpc' = "topup"
      BY <1>1, <1>12, <3>1, <3>2 DEF IdleCheck
    <3>4. WakesLeft' = 0
      BY <1>1, <3>1, <3>3 DEF WakesLeft, HasHeard
    <3> QED
      BY <1>2, <2>1, <3>3, <3>4, WakeStepsValues DEF DryLeft
  <2> QED
    BY <1>1, <2>2, <2>3, <2>4
<1>13. CASE TopUp
  <2>1. seenFill \in Nat /\ seenFill < Target
    BY <1>13 DEF TopUp, IInv, TypeOK, TopUpFillIsStale
  <2> QED
    BY <1>1, <1>13, <2>1, TargetClearOfEnds DEF TopUp, Dry, Least
<1> QED
  BY <1>3, <1>4, <1>5, <1>6, <1>7, <1>8, <1>9, <1>10, <1>11, <1>12, <1>13 DEF CaptureThread

(* A ring that has run dry is filled again, or the run ends, after a       *)
(* number of steps of the capture thread that is known beforehand; nothing *)
(* the render thread does puts it off.  It takes neither a source that     *)
(* delivers nor one that falls silent: packets end it as the idle top-up   *)
(* does (audio_engine.cpp:412-465).                                        *)
THEOREM DryRingIsFilled ==
  Spec => [][Dry =>
               /\ DryLeft \in 0 .. 5 * IdleWakes + 11
               /\ \/ fill' > 0 \/ stopRequested'
                  \/ Dry' /\ DryLeft' < DryLeft
                  \/ Dry' /\ DryLeft' = DryLeft /\ ~ CaptureThread]_vars
<1>1. ASSUME IInv, Next, Dry
      PROVE  /\ DryLeft \in 0 .. 5 * IdleWakes + 11
             /\ \/ fill' > 0 \/ stopRequested'
                \/ Dry' /\ DryLeft' < DryLeft
                \/ Dry' /\ DryLeft' = DryLeft /\ ~ CaptureThread
  <2>1. DryLeft \in 0 .. 5 * IdleWakes + 11
    BY <1>1, WakesLeftType
  <2>2. CASE CaptureThread
    <3>1. UNCHANGED running
      BY <2>2 DEF CaptureThread, CaptureExit, CaptureWake, CaptureWaitFails, TakePacket,
         NoPacket, TakePacketFails, RoomForPacket, DropPacket, WritePacket, ReleasePacket,
         ReleasePacketFails, IdleCheck, TopUp, CaptureFaultStops, CaptureFaults, control
    <3>2. fill' \in Nat
      BY <1>1, NextIInv DEF IInv, TypeOK
    <3> QED
      BY <1>1, <2>1, <2>2, <3>1, <3>2, DryShortens DEF Dry
  <2>3. CASE RenderThread /\ ~ CaptureThread
    <3>1. UNCHANGED <<running, capture>>
      BY <2>3 DEF RenderThread, RenderExit, RenderWake, RenderWakeFails, RenderFaults, HoldOff,
         Prime, EmitSilence, ResyncTest, ResyncExcess, ResyncDiscard, ReadRing, Emit,
         EmitFails, RenderFaultStops, control
    <3>2. DryLeft' = DryLeft
      BY <3>1 DEF DryLeft, WakesLeft, HasHeard, capture
    <3>3. fill' \in Nat
      BY <1>1, NextIInv DEF IInv, TypeOK
    <3> QED
      BY <1>1, <2>1, <2>3, <3>1, <3>2, <3>3 DEF Dry
  <2>4. CASE Control
    BY <1>1, <2>1, <2>4
       DEF Control, Start, StartFails, StopRequest, StopJoined, Dry, IInv, JoinIsRequested
  <2> QED
    BY <1>1, <2>2, <2>3, <2>4 DEF Next
<1>2. ASSUME IInv, [Next]_vars
      PROVE  [Dry =>
               /\ DryLeft \in 0 .. 5 * IdleWakes + 11
               /\ \/ fill' > 0 \/ stopRequested'
                  \/ Dry' /\ DryLeft' < DryLeft
                  \/ Dry' /\ DryLeft' = DryLeft /\ ~ CaptureThread]_vars
  BY <1>1, <1>2
<1> QED
  BY <1>2, EngineInvariant, PTL DEF Spec

=============================================================================
