----------------------- MODULE AudioControllerProofs -----------------------
(***************************************************************************)
(* The safety properties of AudioController, for every cadence, every      *)
(* retry budget and every healthy time, and with starts that may fail for  *)
(* reasons of their own; and those of the window that owns it (Panel), for *)
(* any outputs, presets and positions of its sliders.                      *)
(***************************************************************************)
EXTENDS AudioController, Panel, TLAPS

(* Every value that a start leaves behind satisfies the invariant.         *)
LEMMA StartedKeepsInv ==
  ASSUME IInv, Started,
         present' \in BOOLEAN, events' \in 0 .. MaxEvents
  PROVE  IInv'
<1>1. 0 \in 0 .. MaxAttempts /\ 0 \in 0 .. HealthyPolls
  BY ControllerAssumption
<1>2. TypeOK'
  BY <1>1 DEF IInv, TypeOK, Started
<1> QED
  BY <1>2 DEF IInv, StopIsFinal, RecoveryIsLive, NothingOnAccount, Started, Running

(* So does every value that a stop leaves behind.                          *)
LEMMA StoppedKeepsInv ==
  ASSUME IInv,
         engine' = "off", wanted' = FALSE, recovering' = FALSE, attempts' = 0,
         UNCHANGED <<untilRetry, sinceStart>>,
         present' \in BOOLEAN, events' \in 0 .. MaxEvents
  PROVE  IInv'
<1>1. 0 \in 0 .. MaxAttempts
  BY ControllerAssumption
<1>2. TypeOK'
  BY <1>1 DEF IInv, TypeOK
<1> QED
  BY <1>2 DEF IInv, StopIsFinal, RecoveryIsLive, NothingOnAccount, Running

LEMMA InitInv == Init => IInv
<1> SUFFICES ASSUME Init PROVE IInv
  OBVIOUS
<1>1. 0 \in 0 .. MaxAttempts /\ 0 \in 0 .. HealthyPolls /\ 0 \in 0 .. MaxEvents
  BY ControllerAssumption
<1>2. TypeOK
  BY <1>1 DEF Init, TypeOK
<1> QED
  BY <1>2 DEF Init, IInv, StopIsFinal, RecoveryIsLive, NothingOnAccount, Running

-----------------------------------------------------------------------------
(* The devices and the engine, which the controller does not decide about. *)
LEMMA EnvironmentKeepsInv ==
  IInv /\ (DevicesChange \/ EngineFaults) => IInv'
<1> SUFFICES ASSUME IInv, DevicesChange \/ EngineFaults PROVE IInv'
  OBVIOUS
<1>1. CASE DevicesChange
  <2>1. events' \in 0 .. MaxEvents
    BY <1>1, ControllerAssumption DEF IInv, TypeOK, DevicesChange
  <2> QED
    BY <1>1, <2>1 DEF IInv, TypeOK, StopIsFinal, RecoveryIsLive, NothingOnAccount,
                      DevicesChange, recovery, Running
<1>2. CASE EngineFaults
  BY <1>2 DEF IInv, TypeOK, StopIsFinal, RecoveryIsLive, NothingOnAccount,
              EngineFaults, environment, recovery, Running
<1> QED
  BY <1>1, <1>2

(* start(), stop() and setDevices().                                       *)
LEMMA UserKeepsInv == IInv /\ User => IInv'
<1> SUFFICES ASSUME IInv, User PROVE IInv'
  OBVIOUS
<1>1. present \in BOOLEAN /\ events \in 0 .. MaxEvents
  BY DEF IInv, TypeOK
<1>2. CASE Start
  BY <1>1, <1>2, StartedKeepsInv DEF Start, environment
<1>3. CASE StartFails
  BY <1>3 DEF StartFails, vars, environment, recovery, IInv, TypeOK, StopIsFinal,
              RecoveryIsLive, NothingOnAccount, Running
<1>4. CASE Stop
  BY <1>1, <1>4, StoppedKeepsInv DEF Stop, environment
<1>5. CASE SetDevices
  <2>1. present' \in BOOLEAN /\ events' \in 0 .. MaxEvents
    BY <1>1, <1>5 DEF SetDevices
  <2>2. CASE ~Running /\ UNCHANGED <<engine, wanted, recovery, sinceStart>>
    BY <2>1, <2>2 DEF recovery, IInv, TypeOK, StopIsFinal, RecoveryIsLive,
                      NothingOnAccount, Running
  <2>3. CASE Started
    BY <2>1, <2>3, StartedKeepsInv
  <2>4. CASE /\ engine' = "off" /\ wanted' = FALSE
             /\ recovering' = FALSE /\ attempts' = 0
             /\ UNCHANGED <<untilRetry, sinceStart>>
    BY <2>1, <2>4, StoppedKeepsInv
  <2> QED
    BY <1>5, <2>2, <2>3, <2>4 DEF SetDevices
<1> QED
  BY <1>2, <1>3, <1>4, <1>5 DEF User

(* A notification finds a recovery under way, a user whose sound is gone,  *)
(* or nothing to do.                                                       *)
LEMMA NotificationKeepsInv == IInv /\ OnDeviceChanged => IInv'
<1> SUFFICES ASSUME IInv, OnDeviceChanged PROVE IInv'
  OBVIOUS
<1> USE DEF recovery, Running
<1>1. events' \in 0 .. MaxEvents
  BY ControllerAssumption DEF IInv, TypeOK, OnDeviceChanged
<1>2. RearmDelay \in Nat /\ RearmDelay > 0
  BY DEF RearmDelay
<1>3. 0 \in 0 .. MaxAttempts /\ 0 < MaxAttempts
  BY ControllerAssumption
<1>4. CASE Hurry
  BY <1>1, <1>2, <1>4 DEF Hurry, OnDeviceChanged, IInv, TypeOK, StopIsFinal,
                          RecoveryIsLive, NothingOnAccount
<1>5. CASE Rearm
  <2>1. TypeOK'
    BY <1>1, <1>2, <1>3, <1>5 DEF Rearm, OnDeviceChanged, IInv, TypeOK
  <2> QED
    BY <1>2, <1>3, <1>5, <2>1 DEF Rearm, OnDeviceChanged, IInv, StopIsFinal,
                                  RecoveryIsLive, NothingOnAccount
<1>6. CASE NothingToDo
  BY <1>1, <1>6 DEF NothingToDo, OnDeviceChanged, IInv, TypeOK, StopIsFinal,
                    RecoveryIsLive, NothingOnAccount
<1> QED
  BY <1>4, <1>5, <1>6 DEF OnDeviceChanged

(* One tick of the timer.                                                  *)
LEMMA PollKeepsInv == IInv /\ Poll => IInv'
<1> SUFFICES ASSUME IInv, Poll PROVE IInv'
  OBVIOUS
<1> USE DEF environment, recovery, Running
<1>1. CASE PollFault
  <2>1. attempts = 0 /\ attempts' = 0
    BY <1>1 DEF PollFault, IInv, NothingOnAccount
  <2>2. 0 \in 0 .. MaxAttempts /\ 0 < MaxAttempts /\ 0 \in 0 .. HealthyPolls
    BY ControllerAssumption
  <2>3. untilRetry' \in Nat /\ untilRetry' > 0
    BY <1>1, ControllerAssumption DEF PollFault
  <2>4. TypeOK'
    BY <1>1, <2>1, <2>2, <2>3 DEF PollFault, IInv, TypeOK
  <2> QED
    BY <1>1, <2>1, <2>2, <2>3, <2>4 DEF PollFault, IInv, StopIsFinal, RecoveryIsLive,
                                        NothingOnAccount
<1>2. CASE PollWaits
  BY <1>2 DEF PollWaits, IInv, TypeOK, StopIsFinal, RecoveryIsLive, NothingOnAccount
<1>3. ASSUME NextWait PROVE untilRetry' \in Nat /\ untilRetry' > 0
  BY <1>3, ControllerAssumption DEF NextWait
<1>4. CASE PollReconnects
  <2>1. 0 \in 0 .. MaxAttempts /\ 0 \in 0 .. HealthyPolls
    BY ControllerAssumption
  <2>2. TypeOK'
    BY <1>3, <1>4, <2>1 DEF PollReconnects, IInv, TypeOK
  <2> QED
    BY <1>4, <2>2 DEF PollReconnects, RetryIsDue, IInv, StopIsFinal, RecoveryIsLive,
                      NothingOnAccount
<1>5. CASE PollFails
  <2>1. recovering /\ attempts < MaxAttempts /\ attempts \in 0 .. MaxAttempts
    BY <1>5 DEF PollFails, RetryIsDue, IInv, RecoveryIsLive, TypeOK
  <2>2. attempts' \in 0 .. MaxAttempts
    BY <1>5, <2>1, ControllerAssumption DEF PollFails
  <2>3. TypeOK'
    BY <1>3, <1>5, <2>2 DEF PollFails, IInv, TypeOK
  <2> QED
    BY <1>3, <1>5, <2>1, <2>3 DEF PollFails, IInv, StopIsFinal, RecoveryIsLive,
                                  NothingOnAccount
<1>6. CASE PollHealthy
  <2>1. sinceStart' \in 0 .. HealthyPolls
    BY <1>6, ControllerAssumption DEF PollHealthy, Least, IInv, TypeOK
  <2> QED
    BY <1>6, <2>1 DEF PollHealthy, IInv, TypeOK, StopIsFinal, RecoveryIsLive,
                      NothingOnAccount
<1> QED
  BY <1>1, <1>2, <1>4, <1>5, <1>6 DEF Poll

-----------------------------------------------------------------------------
(* The inductive invariant of the recovery state machine.                  *)
THEOREM ControllerInvariant == Spec => []IInv
<1>1. IInv /\ [Next]_vars => IInv'
  <2> SUFFICES ASSUME IInv, [Next]_vars PROVE IInv'
    OBVIOUS
  <2>1. CASE Next
    BY <2>1, EnvironmentKeepsInv, UserKeepsInv, NotificationKeepsInv, PollKeepsInv
       DEF Next
  <2>2. CASE UNCHANGED vars
    BY <2>2 DEF vars, environment, recovery, IInv, TypeOK, StopIsFinal,
                RecoveryIsLive, NothingOnAccount, Running
  <2> QED
    BY <2>1, <2>2
<1> QED
  BY <1>1, InitInv, PTL DEF Spec

(* Types, and the retry budget is never overdrawn.                         *)
THEOREM TypeCorrect == Spec => []TypeOK
BY ControllerInvariant, PTL DEF IInv

(* What the user has switched off stays off.                               *)
THEOREM StopsAreFinal == Spec => []StopIsFinal
BY ControllerInvariant, PTL DEF IInv

(* A recovery under way always has a next attempt to make.                 *)
THEOREM RecoveriesAreLive == Spec => []RecoveryIsLive
BY ControllerInvariant, PTL DEF IInv

-----------------------------------------------------------------------------
(* Each operation is one step between phases, or none.                     *)
LEMMA StepIsPhaseStep ==
  IInv /\ [Next]_vars => [Abstract!Next]_Phase
<1> SUFFICES ASSUME IInv, [Next]_vars PROVE Abstract!Next \/ Phase' = Phase
  OBVIOUS
<1> USE DEF Phase, Running, environment, recovery
<1>a. engine \in {"off", "on", "dead"} /\ wanted \in BOOLEAN /\ recovering \in BOOLEAN
  BY DEF IInv, TypeOK
<1>b. engine # "off" => wanted
  BY DEF IInv, StopIsFinal
<1>c. recovering => engine = "off" /\ wanted
  BY DEF IInv, RecoveryIsLive, StopIsFinal
<1>1. ASSUME UNCHANGED <<engine, wanted, recovering>> PROVE Phase' = Phase
  BY <1>1
<1>2. CASE UNCHANGED vars
  BY <1>1, <1>2 DEF vars
<1>3. CASE DevicesChange
  BY <1>1, <1>3 DEF DevicesChange
<1>4. CASE EngineFaults
  BY <1>4, <1>c DEF EngineFaults
<1>5. CASE User
  <2>1. ASSUME Started PROVE Phase' = "on"
    BY <2>1 DEF Started
  <2>2. CASE Start
    <3>1. Phase # "on"
      BY <2>2, <1>a DEF Start
    <3> QED
      BY <2>1, <2>2, <3>1 DEF Start, Abstract!Start, Abstract!Next
  <2>3. CASE StartFails
    BY <2>3, <1>1 DEF StartFails, vars
  <2>4. CASE Stop
    BY <2>4 DEF Stop, Abstract!Stop, Abstract!Next
  <2>5. CASE SetDevices
    <3>1. CASE ~Running
      BY <2>5, <3>1, <1>1 DEF SetDevices
    <3>2. CASE Running /\ Started
      BY <3>2, <2>1
    <3>3. CASE Running /\ ~Started
      BY <2>5, <3>3 DEF SetDevices, Abstract!Stop, Abstract!Next
    <3> QED
      BY <3>1, <3>2, <3>3
  <2> QED
    BY <1>5, <2>2, <2>3, <2>4, <2>5 DEF User
<1>6. CASE OnDeviceChanged
  <2>1. CASE Hurry \/ NothingToDo
    BY <1>6, <2>1, <1>1 DEF OnDeviceChanged, Hurry, NothingToDo
  <2>2. CASE Rearm
    BY <1>6, <2>2, <1>a DEF OnDeviceChanged, Rearm, Abstract!Rearm, Abstract!Unasked,
                            Abstract!Next
  <2> QED
    BY <1>6, <2>1, <2>2 DEF OnDeviceChanged
<1>7. CASE Poll
  <2>1. CASE PollFault
    BY <2>1, <1>b DEF PollFault, Abstract!Fault, Abstract!Unasked, Abstract!Next
  <2>2. CASE PollWaits \/ PollHealthy
    BY <2>2, <1>1 DEF PollWaits, PollHealthy
  <2>3. CASE PollReconnects
    BY <2>3, <1>c DEF PollReconnects, RetryIsDue, Abstract!Reconnect,
                      Abstract!Unasked, Abstract!Next
  <2>4. CASE PollFails
    BY <2>4, <1>c DEF PollFails, RetryIsDue, Abstract!GiveUp, Abstract!Unasked,
                      Abstract!Next
  <2> QED
    BY <1>7, <2>1, <2>2, <2>3, <2>4 DEF Poll
<1> QED
  BY <1>2, <1>3, <1>4, <1>5, <1>6, <1>7 DEF Next

(* The recovery state machine implements the phases the window relies on.  *)
THEOREM ControllerImplementsPhases == Spec => ImplementsPhases
<1>1. Init => Abstract!Init
  BY DEF Init, Abstract!Init, Phase, Running
<1> QED
  BY <1>1, StepIsPhaseStep, ControllerInvariant, PTL
     DEF Spec, ImplementsPhases, Abstract!Spec

-----------------------------------------------------------------------------
(* How long a recovery can last: what RecoveryConcludes and                *)
(* ReturnMeansSound owe to the code, next to the timer's ticking.          *)

Longer(a, b) == IF a =< b THEN b ELSE a

LongestWait == Longer(RearmDelay, Longer(Delay, SlowDelay))

(* Polls to the end of the recovery if every attempt fails, at most.       *)
PollsLeft == untilRetry + (MaxAttempts - attempts - 1) * LongestWait

(* Polls to the sound with the devices there, at most.                     *)
PollsToSound == IF engine = "dead" THEN Delay + 1 ELSE untilRetry

WaitFits == untilRetry =< LongestWait

LEMMA WaitsAreBounded ==
  /\ LongestWait \in Nat \ {0}
  /\ Delay =< LongestWait /\ SlowDelay =< LongestWait /\ RearmDelay =< LongestWait
BY ControllerAssumption DEF LongestWait, Longer, RearmDelay

LEMMA WaitStillFits == IInv /\ WaitFits /\ [Next]_vars => WaitFits'
<1> SUFFICES ASSUME IInv, WaitFits, [Next]_vars PROVE untilRetry' =< LongestWait
  BY DEF WaitFits, LongestWait, Longer, RearmDelay
<1> USE DEF WaitFits, recovery, vars
<1>1. untilRetry \in Nat
  BY DEF IInv, TypeOK
<1>2. CASE UNCHANGED untilRetry
  BY <1>2
<1>3. CASE OnDeviceChanged
  BY <1>2, <1>3, WaitsAreBounded DEF OnDeviceChanged, Hurry, Rearm, NothingToDo
<1>4. CASE Poll
  BY <1>1, <1>2, <1>4, WaitsAreBounded
     DEF Poll, PollFault, PollWaits, PollReconnects, PollFails, PollHealthy, NextWait
<1>5. CASE User
  BY <1>2, <1>5 DEF User, Start, StartFails, Stop, SetDevices, Started
<1> QED
  BY <1>2, <1>3, <1>4, <1>5 DEF Next, DevicesChange, EngineFaults

LEMMA WaitsFit == Spec => []WaitFits
<1>1. Init => WaitFits
  BY WaitsAreBounded DEF Init, WaitFits
<1> QED
  BY <1>1, WaitStillFits, ControllerInvariant, PTL DEF Spec

(* What a tick makes of a recovery: nothing is left, or less than before.  *)
LEMMA TickShortens ==
  ASSUME IInv, WaitFits, recovering, recovering', Poll
  PROVE  PollsLeft' < PollsLeft
<1>1. /\ engine = "off" /\ untilRetry \in Nat \ {0} /\ untilRetry =< LongestWait
      /\ attempts \in Nat /\ attempts < MaxAttempts /\ MaxAttempts \in Nat
      /\ LongestWait \in Nat \ {0}
  BY WaitsAreBounded, ControllerAssumption DEF IInv, RecoveryIsLive, TypeOK, WaitFits
<1>2. LongestWait' = LongestWait
  BY DEF LongestWait, Longer, RearmDelay
<1>3. CASE PollWaits
  BY <1>1, <1>2, <1>3 DEF PollWaits, PollsLeft
<1>4. CASE PollFails
  <2>1. /\ untilRetry' \in Nat /\ untilRetry' =< LongestWait
        /\ attempts' = attempts + 1 /\ attempts + 1 < MaxAttempts
    BY <1>4, WaitsAreBounded, ControllerAssumption DEF PollFails, NextWait
  <2>2. PICK m \in Nat : m = MaxAttempts - attempts - 1
    BY <1>1
  <2>3. m * LongestWait = LongestWait + (m - 1) * LongestWait
    BY <1>1, <2>2
  <2>4. /\ PollsLeft' = untilRetry' + (m - 1) * LongestWait
        /\ PollsLeft = untilRetry + m * LongestWait
    BY <1>1, <1>2, <2>1, <2>2 DEF PollsLeft
  <2>5. PICK x \in Int : x = (m - 1) * LongestWait
    BY <1>1
  <2>6. PollsLeft' = untilRetry' + x /\ PollsLeft = untilRetry + (LongestWait + x)
    BY <2>3, <2>4, <2>5
  <2>7. PICK l \in Nat, u \in Nat \ {0}, v \in Nat :
          l = LongestWait /\ u = untilRetry /\ v = untilRetry'
    BY <1>1, <2>1
  <2>8. v =< l
    BY <2>1, <2>7
  <2>9. PollsLeft' = v + x /\ PollsLeft = u + (l + x)
    BY <2>6, <2>7
  <2>10. v + x < u + (l + x)
    BY <2>8
  <2> QED
    BY <2>9, <2>10, Zenon
<1>5. ~ PollFault /\ ~ PollReconnects /\ ~ PollHealthy
  BY <1>1 DEF PollFault, PollReconnects, PollHealthy
<1> QED
  BY <1>3, <1>4, <1>5 DEF Poll

(* A recovery lasts at most as many polls as there are attempts, each with *)
(* the longest wait (audio_controller.cpp 382-432).                        *)
THEOREM RecoveriesAreShort ==
  Spec => [](recovering => PollsLeft \in 1 .. MaxAttempts * LongestWait)
<1>1. IInv /\ WaitFits => (recovering => PollsLeft \in 1 .. MaxAttempts * LongestWait)
  <2> SUFFICES ASSUME IInv, WaitFits, recovering
               PROVE  PollsLeft \in 1 .. MaxAttempts * LongestWait
    OBVIOUS
  <2>1. /\ untilRetry \in Nat \ {0} /\ untilRetry =< LongestWait
        /\ attempts \in Nat /\ attempts < MaxAttempts /\ MaxAttempts \in Nat
        /\ LongestWait \in Nat \ {0}
    BY WaitsAreBounded, ControllerAssumption DEF IInv, RecoveryIsLive, TypeOK, WaitFits
  <2>2. PICK m \in Nat : m = MaxAttempts - attempts - 1
    BY <2>1
  <2>3. m * LongestWait \in Nat /\ m * LongestWait =< (MaxAttempts - 1) * LongestWait
    BY <2>1, <2>2
  <2>4. (MaxAttempts - 1) * LongestWait = MaxAttempts * LongestWait - LongestWait
    BY <2>1
  <2>5. PollsLeft = untilRetry + m * LongestWait
    BY <2>2 DEF PollsLeft
  <2>6. PICK x \in Nat, y \in Int : x = m * LongestWait /\ y = MaxAttempts * LongestWait
    BY <2>1, <2>3
  <2>7. x =< y - LongestWait /\ PollsLeft = untilRetry + x
    BY <2>3, <2>4, <2>5, <2>6
  <2> QED
    BY <2>1, <2>6, <2>7
<1> QED
  BY <1>1, ControllerInvariant, WaitsFit, PTL

(* Every poll brings the end of a recovery nearer, and nothing but a       *)
(* notification puts it off (214, 437): with RecoveriesAreShort, that a    *)
(* recovery concludes takes no more than the timer and calm devices.       *)
THEOREM RecoveryRunsOut ==
  Spec => [][recovering /\ recovering' /\ ~OnDeviceChanged =>
               /\ PollsLeft' =< PollsLeft
               /\ Poll => PollsLeft' < PollsLeft]_vars
<1>1. ASSUME IInv, WaitFits, Next, recovering, recovering', ~OnDeviceChanged
      PROVE  PollsLeft' =< PollsLeft /\ (Poll => PollsLeft' < PollsLeft)
  <2>1. PollsLeft \in Int
    BY <1>1, WaitsAreBounded, ControllerAssumption DEF IInv, TypeOK, PollsLeft
  <2>2. CASE Poll
    <3>1. PollsLeft' < PollsLeft
      BY <1>1, <2>2, TickShortens
    <3>2. PollsLeft' \in Int
      <4>1. IInv'
        BY <1>1, <2>2, PollKeepsInv
      <4>2. untilRetry' \in Nat /\ attempts' \in Nat /\ LongestWait' = LongestWait
        BY <4>1, ControllerAssumption DEF IInv, TypeOK, LongestWait, Longer, RearmDelay
      <4> QED
        BY <4>2, WaitsAreBounded, ControllerAssumption DEF PollsLeft
    <3> QED
      BY <2>1, <3>1, <3>2
  <2>3. CASE UNCHANGED <<untilRetry, attempts>>
    <3>1. PollsLeft' = PollsLeft
      BY <2>3 DEF PollsLeft, LongestWait, Longer, RearmDelay
    <3> QED
      BY <1>1, <2>1, <2>2, <3>1
  <2>4. ASSUME ~Poll PROVE UNCHANGED <<untilRetry, attempts>>
    BY <1>1, <2>4
       DEF Next, DevicesChange, EngineFaults, User, Start, StartFails, Stop, SetDevices,
           Started, recovery, vars
  <2> QED
    BY <2>2, <2>3, <2>4
<1> QED
  BY <1>1, ControllerInvariant, WaitsFit, PTL DEF Spec

(* With the devices there every poll brings the sound back or nearer, also *)
(* when the fault has not been read yet, and no attempt is used up.        *)
THEOREM SoundIsDue ==
  Spec => [][Poll /\ present /\ ~FlakyStart /\ (recovering \/ engine = "dead") =>
               \/ engine' = "on"
               \/ recovering' /\ PollsToSound' < PollsToSound]_vars
<1>1. ASSUME IInv, Poll, present, ~FlakyStart, recovering \/ engine = "dead"
      PROVE  engine' = "on" \/ (recovering' /\ PollsToSound' < PollsToSound)
  <2>1. untilRetry \in Nat /\ Delay \in Nat /\ (recovering => engine = "off")
    BY <1>1, ControllerAssumption DEF IInv, TypeOK, RecoveryIsLive
  <2>2. CASE PollFault
    BY <2>1, <2>2 DEF PollFault, PollsToSound
  <2>3. CASE PollWaits
    BY <2>1, <2>3 DEF PollWaits, PollsToSound
  <2>4. CASE PollReconnects
    BY <2>4 DEF PollReconnects
  <2>5. ~ PollFails /\ ~ PollHealthy
    BY <1>1, <2>1 DEF PollFails, CanFail, PollHealthy
  <2> QED
    BY <1>1, <2>2, <2>3, <2>4, <2>5 DEF Poll
<1>2. IInv /\ [Next]_vars =>
        [Poll /\ present /\ ~FlakyStart /\ (recovering \/ engine = "dead") =>
           \/ engine' = "on"
           \/ recovering' /\ PollsToSound' < PollsToSound]_vars
  BY <1>1
<1> QED
  BY <1>2, ControllerInvariant, PTL DEF Spec

-----------------------------------------------------------------------------
(* The window.  Its handlers are operators, and each has a lemma: what it  *)
(* makes of a window whose screen, settings and chain agree.               *)

(* What the widgets and the files may hold.  The balance is one that the   *)
(* slider has been let go of.                                              *)
Rest == {Detented(b) : b \in Balances}

Names == Builtin \cup Own

ShownSet == [preset : Names, amounts : Amounts, volume : Volumes, balance : Rest]

Maps(D, R) == UNION {[S -> R] : S \in SUBSET D}

ProfileSet == Maps(Output, ShownSet)

PresetSet == [curve : Builtin, home : Amounts]

OwnSet == Maps(Own, PresetSet)

SettingsSet ==
  [output : Output \cup {NoOutput}, profiles : ProfileSet, volume : Volumes,
   balance : Rest, shown : ShownSet]

HeardSet == [curve : Builtin, amounts : Amounts, volume : Volumes, balance : Rest]

WindowSet ==
  [preset : Names, amounts : Amounts, volume : Volumes, balance : Rest,
   output : Output, remember : BOOLEAN, profileOf : Output \cup {NoOutput},
   own : OwnSet, settings : SettingsSet, file : SettingsSet,
   heard : HeardSet \cup {{}}, room : Nat, unsaved : BOOLEAN]

(* What the handlers find: the settings that the chain gets are those on   *)
(* the screen, and an output that is remembered has its box ticked.        *)
Tracked(w) ==
  /\ w.settings.volume = w.volume /\ w.settings.balance = w.balance
  /\ w.profileOf = w.output
  /\ w.output \in DOMAIN w.settings.profiles => w.remember

(* The chain has what the screen shows.                                    *)
Heard(w) ==
  /\ w.preset \in Presets(w)
  /\ w.heard = [curve |-> Curve(w, w.preset), amounts |-> w.amounts,
                volume |-> w.volume, balance |-> w.balance]

(* What the handlers leave behind.                                         *)
Kept(w) ==
  /\ w.unsaved \/ w.file = w.settings
  /\ w.settings.shown = Shown(w) /\ w.settings.output = w.output
  /\ w.remember = (w.output \in DOMAIN w.settings.profiles)
  /\ w.remember => w.settings.profiles[w.output] = Shown(w)

Sound(w) == w \in WindowSet /\ Tracked(w) /\ Heard(w) /\ Kept(w)

(* A dialog is about a preset that is there.                               *)
DialogTells ==
  \/ dialog = <<>>
  \/ \E preset \in Presets(window) : dialog = <<"save", preset>>
  \/ \E preset \in Own : dialog = <<"delete", preset>>

PanelInv == Sound(window) /\ DialogTells

-----------------------------------------------------------------------------
LEMMA RestIsDetented ==
  /\ Rest \subseteq Int /\ 0 \in Rest
  /\ \A b \in Rest : Detented(b) = b
  /\ \A b \in Balances : Detented(b) \in Rest
BY PanelAssumption DEF PanelAssumption, Rest, Detented

(* A profile is added to the others, or takes the place of one.            *)
LEMMA Inserted ==
  ASSUME NEW D, NEW R, NEW map \in Maps(D, R),
         NEW key \in D, NEW value \in R
  PROVE  /\ Insert(map, key, value) \in Maps(D, R)
         /\ DOMAIN Insert(map, key, value) = {key} \cup DOMAIN map
         /\ Insert(map, key, value)[key] = value
         /\ \A x \in DOMAIN map : x # key => Insert(map, key, value)[x] = map[x]
<1>1. PICK S \in SUBSET D : map \in [S -> R]
  BY DEF Maps
<1>2. Insert(map, key, value) \in [{key} \cup S -> R]
  BY <1>1 DEF Insert
<1>3. {key} \cup S \in SUBSET D
  OBVIOUS
<1> QED
  BY <1>2, <1>3 DEF Insert, Maps

LEMMA OwnInserted ==
  ASSUME NEW own \in OwnSet, NEW name \in Own, NEW saved \in PresetSet
  PROVE  Insert(own, name, saved) \in OwnSet /\ name \in DOMAIN Insert(own, name, saved)
<1>1. Insert(own, name, saved) \in Maps(Own, PresetSet)
  BY Inserted DEF OwnSet
<1> QED
  BY <1>1 DEF OwnSet, Insert

LEMMA ShownIsTyped == ASSUME NEW w \in WindowSet PROVE Shown(w) \in ShownSet
BY DEF WindowSet, ShownSet, Shown

(* Two windows differ at most in their settings, file and disk.            *)
SameScreen(p, w) ==
  /\ p.preset = w.preset /\ p.amounts = w.amounts /\ p.volume = w.volume
  /\ p.balance = w.balance /\ p.output = w.output /\ p.remember = w.remember
  /\ p.profileOf = w.profileOf /\ p.own = w.own /\ p.heard = w.heard

(* persistSettings(), in the fields of the window.                         *)
LEMMA PersistFields ==
  ASSUME NEW w \in WindowSet
  PROVE  /\ Persist(w) \in WindowSet
         /\ SameScreen(Persist(w), w)
         /\ Persist(w).settings =
              [output |-> w.output,
               profiles |-> IF w.remember
                            THEN Insert(w.settings.profiles, w.output, Shown(w))
                            ELSE w.settings.profiles,
               volume |-> w.volume, balance |-> w.balance, shown |-> Shown(w)]
         /\ Persist(w).unsaved \/ Persist(w).file = Persist(w).settings
<1> DEFINE profiles == IF w.remember
                       THEN Insert(w.settings.profiles, w.output, Shown(w))
                       ELSE w.settings.profiles
           s == [output |-> w.output, profiles |-> profiles, volume |-> w.volume,
                 balance |-> w.balance, shown |-> Shown(w)]
           first == [w EXCEPT !.settings.output = w.output, !.settings.shown = Shown(w),
                              !.settings.volume = w.volume,
                              !.settings.balance = w.balance]
           second == StoreProfile(first)
<1>1. Shown(w) \in ShownSet
  BY ShownIsTyped
<1>2. profiles \in ProfileSet
  <2>1. w.settings.profiles \in Maps(Output, ShownSet) /\ w.output \in Output
    BY DEF WindowSet, SettingsSet, ProfileSet
  <2>2. Insert(w.settings.profiles, w.output, Shown(w)) \in Maps(Output, ShownSet)
    BY <1>1, <2>1, Inserted
  <2> QED
    BY <2>1, <2>2 DEF ProfileSet
<1> HIDE DEF profiles
<1>3. s \in SettingsSet
  BY <1>1, <1>2 DEF WindowSet, SettingsSet
<1>4. w.settings \in SettingsSet
  BY DEF WindowSet
<1>5. /\ first.settings = [w.settings EXCEPT !.output = w.output, !.shown = Shown(w),
                             !.volume = w.volume, !.balance = w.balance]
      /\ SameScreen(first, w)
  BY DEF WindowSet, SameScreen
<1>6. first.settings = [output |-> w.output, profiles |-> w.settings.profiles,
                        volume |-> w.volume, balance |-> w.balance, shown |-> Shown(w)]
  BY <1>4, <1>5 DEF SettingsSet
<1>7. first \in WindowSet
  <2>1. first.settings \in SettingsSet
    BY <1>1, <1>4, <1>6 DEF WindowSet, SettingsSet
  <2> QED
    BY <2>1 DEF WindowSet
<1>8. Shown(first) = Shown(w) /\ first.remember = w.remember /\ first.output = w.output
  BY <1>5 DEF Shown, SameScreen
<1> HIDE DEF first
<1>9. second.settings = s /\ SameScreen(second, first) /\ second \in WindowSet
  <2>1. CASE w.remember
    <3>1. second = [first EXCEPT !.settings.profiles = profiles]
      BY <1>6, <1>8, <2>1 DEF StoreProfile, profiles
    <3>2. second.settings = [first.settings EXCEPT !.profiles = profiles]
          /\ SameScreen(second, first)
      BY <1>7, <3>1 DEF WindowSet, SameScreen
    <3>3. second.settings = s
      BY <1>6, <3>2
    <3> QED
      BY <1>3, <1>7, <3>1, <3>2, <3>3 DEF WindowSet
  <2>2. CASE ~w.remember
    BY <1>6, <1>7, <1>8, <2>2 DEF StoreProfile, profiles, SameScreen
  <2> QED
    BY <2>1, <2>2
<1> HIDE DEF second, s
<1>10. Persist(w) = IF w.room = 0 THEN [second EXCEPT !.unsaved = TRUE]
                    ELSE [second EXCEPT !.file = second.settings, !.unsaved = FALSE,
                                        !.room = w.room - 1]
  BY DEF Persist, second, first
<1>11. /\ Persist(w).settings = s /\ Persist(w) \in WindowSet
       /\ Persist(w).unsaved \/ Persist(w).file = s
       /\ SameScreen(Persist(w), second)
  <2>1. CASE w.room = 0
    BY <1>9, <1>10, <2>1 DEF WindowSet, SameScreen
  <2>2. CASE w.room # 0
    <3>1. w.room - 1 \in Nat
      BY <2>2 DEF WindowSet
    <3> QED
      BY <1>3, <1>9, <1>10, <2>2, <3>1 DEF WindowSet, SameScreen
  <2> QED
    BY <2>1, <2>2
<1>12. SameScreen(Persist(w), w)
  BY <1>5, <1>9, <1>11 DEF SameScreen
<1> QED
  BY <1>11, <1>12 DEF s, profiles

LEMMA PersistIsSound ==
  ASSUME NEW w \in WindowSet, w.profileOf = w.output, Heard(w),
         w.output \in DOMAIN w.settings.profiles => w.remember
  PROVE  Sound(Persist(w)) /\ SameScreen(Persist(w), w)
<1> DEFINE p == Persist(w)
           map == w.settings.profiles
           kept == IF w.remember THEN Insert(map, w.output, Shown(w)) ELSE map
<1>1. /\ p \in WindowSet /\ SameScreen(p, w)
      /\ p.unsaved \/ p.file = p.settings
      /\ p.settings.profiles = kept
      /\ p.settings.volume = w.volume /\ p.settings.balance = w.balance
      /\ p.settings.shown = Shown(w) /\ p.settings.output = w.output
  <2>1. p.settings = [output |-> w.output, profiles |-> kept, volume |-> w.volume,
                      balance |-> w.balance, shown |-> Shown(w)]
    BY PersistFields, Zenon
  <2>2. /\ p \in WindowSet /\ SameScreen(p, w)
        /\ p.unsaved \/ p.file = p.settings
    BY PersistFields, Zenon
  <2> HIDE DEF p, kept
  <2> QED
    BY <2>1, <2>2
<1>2. Shown(p) = Shown(w)
  BY <1>1 DEF SameScreen, Shown
<1>3. /\ w.output \in DOMAIN Insert(map, w.output, Shown(w))
      /\ Insert(map, w.output, Shown(w))[w.output] = Shown(w)
  BY DEF Insert
<1>4. Tracked(p) /\ Kept(p)
  <2>1. CASE w.remember
    BY <1>1, <1>2, <1>3, <2>1 DEF Tracked, Kept, SameScreen
  <2>2. CASE ~w.remember
    BY <1>1, <1>2, <2>2 DEF Tracked, Kept, SameScreen, WindowSet
  <2> QED
    BY <2>1, <2>2
<1>5. Heard(p)
  BY <1>1 DEF Heard, SameScreen, Presets, Curve
<1> QED
  BY <1>1, <1>4, <1>5 DEF Sound

(* What a preset that is listed gives.                                     *)
LEMMA PresetGives ==
  ASSUME NEW w \in WindowSet, NEW preset \in Presets(w)
  PROVE  preset \in Names /\ Curve(w, preset) \in Builtin /\ Home(w, preset) \in Amounts
<1>1. PICK S \in SUBSET Own : w.own \in [S -> PresetSet]
  BY DEF WindowSet, OwnSet, Maps
<1> QED
  BY <1>1, PanelAssumption DEF PanelAssumption, Presets, Names, Curve, Home, PresetSet

(* applyCurrentSettings()                                                  *)
LEMMA ApplyFields ==
  ASSUME NEW w \in WindowSet, w.preset \in Presets(w),
         w.settings.volume = w.volume, w.settings.balance = w.balance
  PROVE  /\ Apply(w) \in WindowSet /\ Heard(Apply(w)) /\ Apply(w).settings = w.settings
         /\ Shown(Apply(w)) = Shown(w) /\ Apply(w).output = w.output
         /\ Apply(w).remember = w.remember /\ Apply(w).profileOf = w.profileOf
         /\ Apply(w).own = w.own
<1> DEFINE h == [curve |-> Curve(w, w.preset), amounts |-> w.amounts,
                 volume |-> w.volume, balance |-> w.balance]
<1>1. h \in HeardSet
  BY PresetGives DEF HeardSet, WindowSet
<1>2. Apply(w) = [w EXCEPT !.heard = h]
  BY DEF Apply
<1> HIDE DEF h
<1>3. /\ Apply(w) \in WindowSet /\ Apply(w).heard = h /\ Apply(w).settings = w.settings
      /\ Apply(w).preset = w.preset /\ Apply(w).amounts = w.amounts
      /\ Apply(w).volume = w.volume /\ Apply(w).balance = w.balance
      /\ Apply(w).output = w.output /\ Apply(w).remember = w.remember
      /\ Apply(w).profileOf = w.profileOf /\ Apply(w).own = w.own
  BY <1>1, <1>2 DEF WindowSet
<1> QED
  BY <1>3 DEF Heard, Shown, Presets, Curve, h

(* A handler that moves one thing and lets it be heard and kept.           *)
LEMMA MoveIsSound ==
  ASSUME NEW w \in WindowSet, Tracked(w), w.preset \in Presets(w)
  PROVE  /\ Sound(Persist(Apply(w))) /\ Shown(Persist(Apply(w))) = Shown(w)
         /\ Persist(Apply(w)).output = w.output /\ Persist(Apply(w)).own = w.own
<1>1. /\ Apply(w) \in WindowSet /\ Heard(Apply(w)) /\ Apply(w).settings = w.settings
      /\ Shown(Apply(w)) = Shown(w) /\ Apply(w).output = w.output
      /\ Apply(w).remember = w.remember /\ Apply(w).profileOf = w.profileOf
      /\ Apply(w).own = w.own
  BY ApplyFields DEF Tracked
<1>2. Sound(Persist(Apply(w))) /\ SameScreen(Persist(Apply(w)), Apply(w))
  BY <1>1, PersistIsSound DEF Tracked
<1> QED
  BY <1>1, <1>2 DEF SameScreen, Shown

LEMMA SelectPresetIsSound ==
  ASSUME NEW w \in WindowSet, Tracked(w), NEW preset \in Presets(w)
  PROVE  LET p == SelectPreset(w, preset)
         IN Sound(p) /\ p.preset = preset /\ p.output = w.output /\ p.own = w.own
<1> DEFINE v == [w EXCEPT !.preset = preset, !.amounts = Home(w, preset)]
<1>1. /\ v \in WindowSet /\ v.preset = preset /\ v.output = w.output /\ v.own = w.own
      /\ v.settings = w.settings /\ v.volume = w.volume /\ v.balance = w.balance
      /\ v.profileOf = w.profileOf /\ v.remember = w.remember
  BY PresetGives DEF WindowSet
<1>2. Tracked(v) /\ v.preset \in Presets(v)
  BY <1>1 DEF Tracked, Presets
<1>3. SelectPreset(w, preset) = Persist(Apply(v))
  BY DEF SelectPreset
<1> HIDE DEF v
<1> QED
  BY <1>1, <1>2, <1>3, MoveIsSound DEF Shown

LEMMA SetPresetIsSound ==
  ASSUME NEW w, Sound(w), NEW preset \in Presets(w)
  PROVE  LET p == SetPreset(w, preset)
         IN Sound(p) /\ p.preset = preset /\ p.output = w.output /\ p.own = w.own
BY SelectPresetIsSound DEF SetPreset, Sound

LEMMA SetAmountsIsSound ==
  ASSUME NEW w, Sound(w), NEW amounts \in Amounts
  PROVE  LET p == SetAmounts(w, amounts)
         IN /\ Sound(p) /\ p.amounts = amounts
            /\ p.output = w.output /\ p.own = w.own /\ p.preset = w.preset
<1> DEFINE v == [w EXCEPT !.amounts = amounts]
<1>1. /\ v \in WindowSet /\ v.amounts = amounts /\ v.output = w.output /\ v.own = w.own
      /\ v.settings = w.settings /\ v.volume = w.volume /\ v.balance = w.balance
      /\ v.profileOf = w.profileOf /\ v.remember = w.remember /\ v.preset = w.preset
  BY DEF Sound, WindowSet
<1>2. Tracked(v) /\ v.preset \in Presets(v)
  BY <1>1 DEF Sound, Heard, Tracked, Presets
<1>3. SetAmounts(w, amounts) = IF amounts = w.amounts THEN w ELSE Persist(Apply(v))
  BY DEF SetAmounts
<1> HIDE DEF v
<1> QED
  BY <1>1, <1>2, <1>3, MoveIsSound DEF Shown

LEMMA SetVolumeIsSound ==
  ASSUME NEW w, Sound(w), NEW volume \in Volumes
  PROVE  LET p == SetVolume(w, volume)
         IN /\ Sound(p) /\ p.volume = volume
            /\ p.output = w.output /\ p.own = w.own /\ p.preset = w.preset
            /\ p.amounts = w.amounts
<1> DEFINE v == [w EXCEPT !.volume = volume, !.settings.volume = volume]
<1>1. w.settings \in SettingsSet /\ w \in WindowSet
  BY DEF Sound, WindowSet
<1>2. [w.settings EXCEPT !.volume = volume] \in SettingsSet
  BY <1>1 DEF SettingsSet
<1>3. v.settings = [w.settings EXCEPT !.volume = volume] /\ v \in WindowSet
  BY <1>1, <1>2 DEF WindowSet
<1>4. /\ v.settings.volume = volume /\ v.settings.balance = w.settings.balance
      /\ v.settings.profiles = w.settings.profiles
  BY <1>1, <1>3 DEF SettingsSet
<1>5. /\ v.amounts = w.amounts /\ v.output = w.output /\ v.own = w.own
      /\ v.volume = volume /\ v.balance = w.balance
      /\ v.profileOf = w.profileOf /\ v.remember = w.remember /\ v.preset = w.preset
  BY <1>1 DEF WindowSet
<1>6. Tracked(v) /\ v.preset \in Presets(v)
  BY <1>4, <1>5 DEF Sound, Heard, Tracked, Presets
<1>7. SetVolume(w, volume) = IF volume = w.volume THEN w ELSE Persist(Apply(v))
  BY DEF SetVolume
<1> HIDE DEF v
<1> QED
  BY <1>3, <1>5, <1>6, <1>7, MoveIsSound DEF Shown

LEMMA SetBalanceIsSound ==
  ASSUME NEW w, Sound(w), NEW balance \in Balances
  PROVE  LET p == SetBalance(w, balance)
         IN /\ Sound(p) /\ p.balance = Detented(balance)
            /\ p.output = w.output /\ p.own = w.own /\ p.preset = w.preset
            /\ p.amounts = w.amounts /\ p.volume = w.volume
<1> DEFINE b == Detented(balance)
           v == [w EXCEPT !.balance = b, !.settings.balance = b]
<1>1. w.settings \in SettingsSet /\ w \in WindowSet
  BY DEF Sound, WindowSet
<1>2. b \in Rest /\ (balance = w.balance => w.balance = b)
  BY <1>1, RestIsDetented DEF WindowSet
<1>3. [w.settings EXCEPT !.balance = b] \in SettingsSet
  BY <1>1, <1>2 DEF SettingsSet
<1>4. SetBalance(w, balance) = IF balance = w.balance THEN w ELSE Persist(Apply(v))
  BY DEF SetBalance
<1> HIDE DEF b
<1>5. v.settings = [w.settings EXCEPT !.balance = b] /\ v \in WindowSet
  BY <1>1, <1>2, <1>3 DEF WindowSet
<1>6. /\ v.settings.balance = b /\ v.settings.volume = w.settings.volume
      /\ v.settings.profiles = w.settings.profiles
  BY <1>1, <1>5 DEF SettingsSet
<1>7. /\ v.amounts = w.amounts /\ v.output = w.output /\ v.own = w.own
      /\ v.volume = w.volume /\ v.balance = b
      /\ v.profileOf = w.profileOf /\ v.remember = w.remember /\ v.preset = w.preset
  BY <1>1 DEF WindowSet
<1>8. Tracked(v) /\ v.preset \in Presets(v)
  BY <1>6, <1>7 DEF Sound, Heard, Tracked, Presets
<1> HIDE DEF v
<1> QED
  BY <1>2, <1>4, <1>5, <1>7, <1>8, MoveIsSound DEF Shown, b

(* The balance of a profile has been let go of: the slider takes it as it  *)
(* is.                                                                     *)
LEMMA ApplyProfileIsSound ==
  ASSUME NEW w \in WindowSet, w.output \in DOMAIN w.settings.profiles
  PROVE  LET a == ApplyProfile(w)
             profile == w.settings.profiles[w.output]
         IN /\ a \in WindowSet /\ Heard(a) /\ a.remember
            /\ a.output = w.output /\ a.profileOf = w.profileOf /\ a.own = w.own
            /\ a.settings.profiles = w.settings.profiles
            /\ profile.preset \in Presets(w) => Shown(a) = profile
<1> DEFINE profile == w.settings.profiles[w.output]
           preset == Known(w, profile.preset)
           s == [w.settings EXCEPT !.volume = profile.volume,
                                   !.balance = Detented(profile.balance)]
           v == [w EXCEPT !.remember = TRUE, !.preset = preset,
                          !.amounts = profile.amounts, !.volume = profile.volume,
                          !.balance = Detented(profile.balance),
                          !.settings.volume = profile.volume,
                          !.settings.balance = Detented(profile.balance)]
<1>1. w.settings \in SettingsSet
  BY DEF WindowSet
<1>2. profile \in ShownSet
  BY <1>1 DEF SettingsSet, ProfileSet, Maps
<1>3. Detented(profile.balance) = profile.balance
  BY <1>2, RestIsDetented DEF ShownSet
<1>4. preset \in Presets(w) /\ preset \in Names
  <2>1. preset \in Presets(w)
    BY PanelAssumption DEF PanelAssumption, Known, Presets
  <2> QED
    BY <2>1, PresetGives
<1>5. ApplyProfile(w) = Apply(v)
  BY DEF ApplyProfile
<1>6. s \in SettingsSet /\ s.profiles = w.settings.profiles
      /\ s.volume = profile.volume /\ s.balance = profile.balance
  BY <1>1, <1>2, <1>3 DEF SettingsSet, ShownSet
<1> HIDE DEF profile, preset
<1>7. v.settings = s
  BY DEF WindowSet
<1> HIDE DEF s
<1>8. /\ v.remember /\ v.preset = preset /\ v.amounts = profile.amounts
      /\ v.volume = profile.volume /\ v.balance = profile.balance
      /\ v.output = w.output /\ v.profileOf = w.profileOf /\ v.own = w.own
  BY <1>3 DEF WindowSet
<1>9. v \in WindowSet
  BY <1>2, <1>3, <1>4, <1>6, <1>7 DEF WindowSet, ShownSet
<1> HIDE DEF v
<1>10. v.preset \in Presets(v)
  BY <1>4, <1>8 DEF Presets
<1>11. /\ Apply(v) \in WindowSet /\ Heard(Apply(v)) /\ Apply(v).settings = v.settings
       /\ Shown(Apply(v)) = Shown(v) /\ Apply(v).output = v.output
       /\ Apply(v).remember = v.remember /\ Apply(v).profileOf = v.profileOf
       /\ Apply(v).own = v.own
  BY <1>6, <1>7, <1>8, <1>9, <1>10, ApplyFields
<1>12. profile.preset \in Presets(w) => Shown(v) = profile
  BY <1>2, <1>8 DEF Shown, ShownSet, Known, preset
<1> QED
  BY <1>5, <1>6, <1>7, <1>8, <1>11, <1>12 DEF profile

(* onDeviceChanged() for an output that is new to the window.              *)
LEMMA OnDeviceIsSound ==
  ASSUME NEW w \in WindowSet, Heard(w), w.output # w.profileOf
  PROVE  LET p == OnDevice(w)
             profiles == w.settings.profiles
         IN /\ Sound(p) /\ p.output = w.output /\ p.own = w.own
            /\ w.output \in DOMAIN profiles
                 /\ profiles[w.output].preset \in Presets(w) =>
               Shown(p) = profiles[w.output] /\ p.settings.profiles = profiles
<1> DEFINE v == [w EXCEPT !.profileOf = w.output]
           a == ApplyProfile(v)
           profiles == w.settings.profiles
<1>1. /\ v \in WindowSet /\ v.output = w.output /\ v.profileOf = w.output
      /\ v.own = w.own /\ v.settings = w.settings /\ v.heard = w.heard
      /\ v.preset = w.preset /\ v.amounts = w.amounts
      /\ v.volume = w.volume /\ v.balance = w.balance
  BY DEF WindowSet
<1>2. OnDevice(w) = Persist(a)
  BY DEF OnDevice
<1> HIDE DEF v
<1>3. CASE w.output \in DOMAIN profiles
  <2>1. /\ a \in WindowSet /\ Heard(a) /\ a.remember
        /\ a.output = w.output /\ a.profileOf = w.output /\ a.own = w.own
        /\ a.settings.profiles = profiles
        /\ profiles[w.output].preset \in Presets(v) => Shown(a) = profiles[w.output]
    BY <1>1, <1>3, ApplyProfileIsSound
  <2>2. Presets(v) = Presets(w)
    BY <1>1 DEF Presets
  <2> HIDE DEF a
  <2>3. Sound(Persist(a)) /\ SameScreen(Persist(a), a)
    BY <2>1, PersistIsSound
  <2>4. Persist(a).output = w.output /\ Persist(a).own = w.own
        /\ Shown(Persist(a)) = Shown(a)
    BY <2>1, <2>3 DEF SameScreen, Shown
  <2>5. ASSUME Shown(a) = profiles[w.output]
        PROVE  Persist(a).settings.profiles = profiles
    <3>1. Persist(a).settings.profiles = Insert(profiles, w.output, profiles[w.output])
      <4>1. Persist(a).settings =
              [output |-> a.output,
               profiles |-> IF a.remember
                            THEN Insert(a.settings.profiles, a.output, Shown(a))
                            ELSE a.settings.profiles,
               volume |-> a.volume, balance |-> a.balance, shown |-> Shown(a)]
        BY <2>1, PersistFields
      <4> QED
        BY <2>1, <2>5, <4>1
    <3>2. profiles = [k \in DOMAIN profiles |-> profiles[k]]
      BY DEF WindowSet, SettingsSet, ProfileSet, Maps
    <3>3. Insert(profiles, w.output, profiles[w.output])
            = [k \in DOMAIN profiles |-> profiles[k]]
      BY <1>3 DEF Insert
    <3> QED
      BY <3>1, <3>2, <3>3
  <2> QED
    BY <1>2, <2>1, <2>2, <2>3, <2>4, <2>5
<1>4. CASE w.output \notin DOMAIN profiles
  <2>1. a = [v EXCEPT !.remember = FALSE]
    BY <1>1, <1>4 DEF ApplyProfile
  <2> HIDE DEF a
  <2>2. /\ a \in WindowSet /\ a.output = w.output /\ a.profileOf = w.output
        /\ a.own = w.own /\ a.settings = w.settings /\ a.heard = w.heard
        /\ a.preset = w.preset /\ a.amounts = w.amounts
        /\ a.volume = w.volume /\ a.balance = w.balance
    BY <1>1, <2>1 DEF WindowSet
  <2>3. Heard(a)
    BY <2>2 DEF Heard, Presets, Curve
  <2>4. Sound(Persist(a)) /\ SameScreen(Persist(a), a)
    BY <1>4, <2>2, <2>3, PersistIsSound
  <2> QED
    BY <1>2, <1>4, <2>2, <2>4 DEF SameScreen
<1> QED
  BY <1>3, <1>4

LEMMA SetOutputIsSound ==
  ASSUME NEW w, Sound(w), NEW output \in Output
  PROVE  LET p == SetOutput(w, output)
             profiles == w.settings.profiles
         IN /\ Sound(p) /\ p.output = output /\ p.own = w.own
            /\ (output \in DOMAIN profiles /\ profiles[output].preset \in Presets(w)) =>
                 Shown(p) = profiles[output] /\ p.settings.profiles = profiles
<1>1. CASE output = w.output
  BY <1>1 DEF SetOutput, Sound, Kept
<1>2. CASE output # w.output
  <2> DEFINE v == [w EXCEPT !.output = output]
  <2>1. /\ v \in WindowSet /\ v.output = output /\ v.profileOf = w.profileOf
        /\ v.own = w.own /\ v.settings = w.settings /\ v.heard = w.heard
        /\ v.preset = w.preset /\ v.amounts = w.amounts
        /\ v.volume = w.volume /\ v.balance = w.balance
    BY DEF Sound, WindowSet
  <2>2. SetOutput(w, output) = OnDevice(v)
    BY <1>2 DEF SetOutput
  <2> HIDE DEF v
  <2>3. Heard(v) /\ v.output # v.profileOf /\ Presets(v) = Presets(w)
    BY <1>2, <2>1 DEF Sound, Heard, Tracked, Presets, Curve
  <2> QED
    BY <2>1, <2>2, <2>3, OnDeviceIsSound
<1> QED
  BY <1>1, <1>2

(* onDeviceChanged() for the other device: nothing but a save.             *)
LEMMA OnInputIsSound ==
  ASSUME NEW w, Sound(w)
  PROVE  Sound(OnDevice(w)) /\ OnDevice(w).own = w.own
<1>1. OnDevice(w) = Persist(w)
  BY DEF OnDevice, Sound, Tracked
<1> QED
  BY <1>1, PersistIsSound DEF Sound, Tracked, SameScreen

LEMMA ToggleIsSound ==
  ASSUME NEW w, Sound(w)
  PROVE  Sound(ToggleRemember(w)) /\ ToggleRemember(w).own = w.own
<1>1. CASE w.remember
  <2> DEFINE map == w.settings.profiles
             cut == Restrict(map, DOMAIN map \ {w.output})
             v == [w EXCEPT !.remember = FALSE, !.settings.profiles = cut]
  <2>1. w \in WindowSet /\ w.settings \in SettingsSet
    BY DEF Sound, WindowSet
  <2>2. cut \in ProfileSet /\ DOMAIN cut = DOMAIN map \ {w.output}
    <3>1. PICK S \in SUBSET Output : map \in [S -> ShownSet]
      BY <2>1 DEF SettingsSet, ProfileSet, Maps
    <3>2. cut \in [S \ {w.output} -> ShownSet]
      BY <3>1 DEF Restrict
    <3>3. S \ {w.output} \in SUBSET Output
      OBVIOUS
    <3> QED
      BY <3>1, <3>2, <3>3 DEF ProfileSet, Maps
  <2>3. ToggleRemember(w) = Persist(v)
    BY <1>1 DEF ToggleRemember
  <2> HIDE DEF cut
  <2>4. [w.settings EXCEPT !.profiles = cut] \in SettingsSet
    BY <2>1, <2>2 DEF SettingsSet
  <2>5. v.settings = [w.settings EXCEPT !.profiles = cut] /\ v \in WindowSet
    BY <2>1, <2>4 DEF WindowSet
  <2>6. /\ v.output = w.output /\ v.profileOf = w.profileOf /\ v.own = w.own
        /\ v.heard = w.heard /\ v.preset = w.preset /\ v.amounts = w.amounts
        /\ v.volume = w.volume /\ v.balance = w.balance
    BY <2>1 DEF WindowSet
  <2>7. v.settings.profiles = cut
    BY <2>1, <2>5 DEF SettingsSet
  <2> HIDE DEF v
  <2>8. Heard(v) /\ v.profileOf = v.output /\ v.output \notin DOMAIN v.settings.profiles
    BY <2>2, <2>6, <2>7 DEF Sound, Heard, Tracked, Presets, Curve
  <2> QED
    BY <2>3, <2>5, <2>6, <2>8, PersistIsSound DEF SameScreen
<1>2. CASE ~w.remember
  <2> DEFINE v == [w EXCEPT !.remember = TRUE]
  <2>1. /\ v \in WindowSet /\ v.remember /\ v.output = w.output
        /\ v.profileOf = w.profileOf /\ v.own = w.own
        /\ v.heard = w.heard /\ v.preset = w.preset /\ v.amounts = w.amounts
        /\ v.volume = w.volume /\ v.balance = w.balance
    BY DEF Sound, WindowSet
  <2>2. ToggleRemember(w) = Persist(v)
    BY <1>2 DEF ToggleRemember
  <2> HIDE DEF v
  <2>3. Heard(v) /\ v.profileOf = v.output
    BY <2>1 DEF Sound, Heard, Tracked, Presets, Curve
  <2> QED
    BY <2>1, <2>2, <2>3, PersistIsSound DEF SameScreen
<1> QED
  BY <1>1, <1>2

(* The list of presets is read again, with what has become of the user's.  *)
LEMMA ListIsSound ==
  ASSUME NEW w, Sound(w), NEW own \in OwnSet, NEW preset \in Builtin \cup DOMAIN own
  PROVE  Sound(SelectPreset([w EXCEPT !.own = own], preset))
<1> DEFINE v == [w EXCEPT !.own = own]
<1>1. /\ v \in WindowSet /\ v.own = own /\ v.output = w.output
      /\ v.settings = w.settings /\ v.volume = w.volume /\ v.balance = w.balance
      /\ v.profileOf = w.profileOf /\ v.remember = w.remember
  BY DEF Sound, WindowSet
<1> HIDE DEF v
<1>2. Tracked(v) /\ preset \in Presets(v)
  BY <1>1 DEF Sound, Tracked, Presets
<1>3. Sound(SelectPreset(v, preset))
  BY <1>1, <1>2, SelectPresetIsSound
<1> QED
  BY <1>3 DEF v

(* The constructor, whatever the file says.                                *)
LEMMA OpenedIsSound ==
  ASSUME NEW file \in SettingsSet, NEW own \in OwnSet, NEW output \in Output,
         NEW room \in Nat
  PROVE  /\ Sound(Opened(file, own, output, room))
         /\ Opened(file, own, output, room).own = own
<1> DEFINE b == Detented(file.shown.balance)
           w == [preset |-> First, amounts |-> file.shown.amounts,
                 volume |-> file.shown.volume, balance |-> b, output |-> output,
                 remember |-> FALSE, profileOf |-> NoOutput, own |-> own,
                 settings |-> file, file |-> file, heard |-> {},
                 room |-> room, unsaved |-> FALSE]
           preset == Known(w, file.shown.preset)
           s == [file EXCEPT !.volume = file.shown.volume, !.balance = b]
           listed == [w EXCEPT !.preset = preset]
           ready == [listed EXCEPT !.settings.volume = w.volume,
                                   !.settings.balance = w.balance]
<1>1. file.shown \in ShownSet
  BY DEF SettingsSet
<1>2. b \in Rest
  BY <1>1, RestIsDetented DEF ShownSet
<1> HIDE DEF b
<1>3. preset \in Builtin \cup DOMAIN own
  BY PanelAssumption DEF PanelAssumption, Known, Presets
<1>4. preset \in Names
  <2>1. PICK S \in SUBSET Own : own \in [S -> PresetSet]
    BY DEF OwnSet, Maps
  <2> QED
    BY <1>3, <2>1 DEF Names
<1>5. Opened(file, own, output, room) = OnDevice(Persist(Apply(ready)))
  BY DEF Opened, b
<1> HIDE DEF preset
<1>6. s \in SettingsSet /\ s.volume = file.shown.volume /\ s.balance = b
  BY <1>1, <1>2 DEF SettingsSet, ShownSet
<1>7. w \in WindowSet
  BY <1>1, <1>2, PanelAssumption DEF PanelAssumption, WindowSet, ShownSet, Names
<1>8. /\ w.amounts = file.shown.amounts /\ w.volume = file.shown.volume /\ w.balance = b
      /\ w.output = output /\ w.remember = FALSE /\ w.profileOf = NoOutput
      /\ w.own = own /\ w.settings = file
  OBVIOUS
<1> HIDE DEF w
<1>9. /\ ready.settings = s /\ ready.preset = preset /\ ready.volume = w.volume
      /\ ready.balance = w.balance /\ ready.output = w.output
      /\ ready.remember = w.remember /\ ready.profileOf = w.profileOf
      /\ ready.own = w.own
  BY <1>7, <1>8 DEF WindowSet, s
<1>10. ready \in WindowSet
  BY <1>4, <1>6, <1>7, <1>9 DEF WindowSet
<1> HIDE DEF ready
<1>11. /\ ready.preset \in Presets(ready) /\ ready.settings.volume = ready.volume
       /\ ready.settings.balance = ready.balance /\ ready.remember = FALSE
       /\ ready.output = output /\ ready.profileOf = NoOutput /\ ready.own = own
  BY <1>3, <1>6, <1>8, <1>9 DEF Presets
<1> DEFINE a == Apply(ready)
           p == Persist(a)
<1>12. /\ a \in WindowSet /\ Heard(a) /\ a.output = output
       /\ a.profileOf = NoOutput /\ a.own = own
  BY <1>10, <1>11, ApplyFields
<1> HIDE DEF a
<1>13. p \in WindowSet /\ SameScreen(p, a)
  BY <1>12, PersistFields
<1> HIDE DEF p
<1>14. Heard(p) /\ p.output = output /\ p.profileOf = NoOutput /\ p.own = own
  BY <1>12, <1>13 DEF Heard, SameScreen, Presets, Curve
<1>15. Sound(OnDevice(p)) /\ OnDevice(p).own = own
  BY <1>13, <1>14, OnDeviceIsSound, PanelAssumption DEF PanelAssumption
<1> QED
  BY <1>5, <1>15 DEF p, a

(* A request: what it asks for, and nothing else, however its flags meet.  *)
LEMMA AnsweredIsSound ==
  ASSUME NEW w, Sound(w), NEW r \in Requests
  PROVE  LET a == Answered(w, r)
         IN /\ Sound(a) /\ a.own = w.own
            /\ r.output # Absent => a.output = r.output
            /\ r.preset \in Presets(w) => a.preset = r.preset
            /\ r.amounts # {} => a.amounts \in r.amounts
            /\ r.volume # {} /\ r.by = 0 => a.volume \in r.volume
            /\ r.balance # {} => a.balance \in {Detented(b) : b \in r.balance}
<1> DEFINE routed == Routed(w, r)
           chosen == Preset(routed, r)
           moved == IF r.amounts = {} THEN chosen
                    ELSE SetAmounts(chosen, CHOOSE x \in r.amounts : TRUE)
           turned == IF r.volume = {} THEN moved
                     ELSE SetVolume(moved, CHOOSE x \in r.volume : TRUE)
           step == Stepped(turned.volume, r.by)
           stepped == SetVolume(turned, step)
           answer == IF r.balance = {} THEN stepped
                     ELSE SetBalance(stepped, CHOOSE x \in r.balance : TRUE)
<1>1. /\ r.output \in Output \cup {Absent} /\ r.by \in {-1, 0, 1}
      /\ r.amounts # {} => (CHOOSE x \in r.amounts : TRUE) \in Amounts \cap r.amounts
      /\ r.volume # {} => (CHOOSE x \in r.volume : TRUE) \in Volumes \cap r.volume
      /\ r.balance # {} => (CHOOSE x \in r.balance : TRUE) \in Balances \cap r.balance
  <2>1. r \in Flags
    BY DEF Requests
  <2>2. /\ r.output \in Output \cup {Absent} /\ r.by \in {-1, 0, 1}
        /\ r.amounts \subseteq Amounts /\ r.volume \subseteq Volumes
        /\ r.balance \subseteq Balances
    BY <2>1 DEF Flags
  <2>3. ASSUME NEW S, S # {} PROVE (CHOOSE x \in S : TRUE) \in S
    BY <2>3
  <2> QED
    BY <2>2, <2>3
<1>2. Answered(w, r) = answer
  BY DEF Answered, Moved
<1>3. /\ Sound(routed) /\ routed.own = w.own
      /\ r.output # Absent => routed.output = r.output
  BY <1>1, SetOutputIsSound DEF Routed
<1>4. Presets(routed) = Presets(w)
  BY <1>3 DEF Presets
<1> HIDE DEF routed
<1>5. /\ Sound(chosen) /\ chosen.own = w.own /\ chosen.output = routed.output
      /\ r.preset \in Presets(w) => chosen.preset = r.preset
  BY <1>3, <1>4, SetPresetIsSound DEF Preset
<1> HIDE DEF chosen
<1>6. /\ Sound(moved) /\ moved.own = w.own /\ moved.output = routed.output
      /\ moved.preset = chosen.preset
      /\ r.amounts # {} => moved.amounts \in r.amounts
  BY <1>1, <1>5, SetAmountsIsSound
<1> HIDE DEF moved
<1>7. /\ Sound(turned) /\ turned.own = w.own /\ turned.output = routed.output
      /\ turned.preset = chosen.preset /\ turned.amounts = moved.amounts
      /\ r.volume # {} => turned.volume \in r.volume
  <2>1. CASE r.volume = {}
    BY <1>6, <2>1
  <2>2. CASE r.volume # {}
    <3> DEFINE v == CHOOSE x \in r.volume : TRUE
    <3>1. v \in Volumes /\ v \in r.volume /\ turned = SetVolume(moved, v)
      BY <1>1, <2>2
    <3> HIDE DEF v, turned
    <3> QED
      BY <1>6, <3>1, SetVolumeIsSound
  <2> QED
    BY <2>1, <2>2
<1> HIDE DEF turned
<1>8. step \in Volumes /\ (r.by = 0 => step = turned.volume)
  <2>1. turned.volume \in Volumes
    BY <1>7 DEF Sound, WindowSet
  <2> QED
    BY <2>1, PanelAssumption DEF PanelAssumption, Stepped, Volumes
<1> HIDE DEF step
<1>9. /\ Sound(stepped) /\ stepped.own = w.own /\ stepped.output = routed.output
      /\ stepped.preset = chosen.preset /\ stepped.amounts = moved.amounts
      /\ stepped.volume = step
  BY <1>7, <1>8, SetVolumeIsSound
<1> HIDE DEF stepped
<1>10. /\ Sound(answer) /\ answer.own = w.own /\ answer.output = routed.output
       /\ answer.preset = chosen.preset /\ answer.amounts = moved.amounts
       /\ answer.volume = step
       /\ r.balance # {} => answer.balance \in {Detented(b) : b \in r.balance}
  BY <1>1, <1>9, SetBalanceIsSound
<1> HIDE DEF answer
<1> QED
  <2>1. Sound(answer) /\ answer.own = w.own
    BY <1>10
  <2>2. r.output # Absent => answer.output = r.output
    BY <1>3, <1>10
  <2>3. r.preset \in Presets(w) => answer.preset = r.preset
    BY <1>5, <1>10
  <2>4. r.amounts # {} => answer.amounts \in r.amounts
    BY <1>6, <1>10
  <2>5. r.volume # {} /\ r.by = 0 => answer.volume \in r.volume
    BY <1>7, <1>8, <1>10
  <2> QED
    BY <1>2, <1>10, <2>1, <2>2, <2>3, <2>4, <2>5, Zenon

-----------------------------------------------------------------------------
(* How much room the disk has changes nothing else about a window.         *)
LEMMA RoomIsSound ==
  ASSUME NEW w, Sound(w), NEW n \in Nat
  PROVE  LET p == [w EXCEPT !.room = n]
         IN /\ Sound(p) /\ SameScreen(p, w) /\ Shown(p) = Shown(w)
            /\ p.settings = w.settings /\ p.file = w.file
<1> DEFINE p == [w EXCEPT !.room = n]
<1>1. /\ p \in WindowSet /\ SameScreen(p, w)
      /\ p.settings = w.settings /\ p.file = w.file /\ p.unsaved = w.unsaved
  BY DEF Sound, WindowSet, SameScreen
<1> HIDE DEF p
<1>2. Shown(p) = Shown(w)
  BY <1>1 DEF SameScreen, Shown
<1>3. Tracked(p) /\ Heard(p) /\ Kept(p)
  BY <1>1, <1>2 DEF Sound, SameScreen, Tracked, Heard, Kept, Presets, Curve
<1> QED
  BY <1>1, <1>2, <1>3 DEF Sound, p

LEMMA SettledIsSound ==
  ASSUME NEW w, Sound(w)
  PROVE  /\ Sound(Settled(w)) /\ SameScreen(Settled(w), w)
         /\ Shown(Settled(w)) = Shown(w) /\ Settled(w).settings = w.settings
BY RoomIsSound DEF Settled

LEMMA OnDiskIsSound ==
  ASSUME Sound(window), NEW n \in Room
  PROVE  /\ n \in Nat /\ Sound(OnDisk(n)) /\ SameScreen(OnDisk(n), window)
         /\ OnDisk(n).settings = window.settings
         /\ Presets(OnDisk(n)) = Presets(window)
<1>1. n \in Nat
  BY PanelAssumption DEF PanelAssumption, Room
<1>2. /\ Sound(OnDisk(n)) /\ SameScreen(OnDisk(n), window)
      /\ OnDisk(n).settings = window.settings
  BY <1>1, RoomIsSound DEF OnDisk
<1> QED
  BY <1>1, <1>2 DEF SameScreen, Presets

LEMMA PanelStarts == PanelInit => PanelInv
<1> SUFFICES ASSUME PanelInit PROVE PanelInv
  OBVIOUS
<1>1. PICK output \in Output, n \in 0 .. MaxSaves :
        window = Settled(Opened(Fresh, <<>>, output, n))
  BY DEF PanelInit
<1>2. <<>> \in ProfileSet /\ <<>> \in OwnSet
  <2>1. ASSUME NEW D, NEW R PROVE <<>> \in Maps(D, R)
    <3>1. <<>> \in [{} -> R]
      OBVIOUS
    <3> QED
      BY <3>1 DEF Maps
  <2> QED
    BY <2>1 DEF ProfileSet, OwnSet
<1>3. Fresh \in SettingsSet
  <2>1. /\ LoudestVolume \in Volumes /\ 0 \in Rest /\ First \in Names
        /\ HomeOf[First] \in Amounts
    BY RestIsDetented, PanelAssumption DEF PanelAssumption, Volumes, Names
  <2> QED
    BY <1>2, <2>1 DEF Fresh, SettingsSet, ShownSet
<1>4. n \in Nat
  BY PanelAssumption DEF PanelAssumption
<1>5. Sound(Opened(Fresh, <<>>, output, n))
  BY <1>2, <1>3, <1>4, OpenedIsSound
<1>6. Sound(window)
  BY <1>1, <1>5, SettledIsSound
<1> QED
  BY <1>6 DEF PanelInit, PanelInv, DialogTells

(* What an event leaves of a window it was given: the window it made, with *)
(* the presets that dialogs are about.                                     *)
LEMMA EventIsSound ==
  ASSUME PanelInv, NEW w, Sound(w), window' = Settled(w),
         (w.own = window.own /\ UNCHANGED dialog) \/ dialog' = <<>>
  PROVE  PanelInv'
<1>1. Sound(window') /\ window'.own = w.own
  BY SettledIsSound DEF SameScreen
<1>2. CASE dialog' = <<>>
  BY <1>1, <1>2 DEF PanelInv, DialogTells
<1>3. CASE w.own = window.own /\ UNCHANGED dialog
  BY <1>1, <1>3 DEF PanelInv, DialogTells, Presets
<1> QED
  BY <1>2, <1>3

LEMMA PanelStep ==
  ASSUME PanelInv, [PanelNext]_panelVars PROVE PanelInv'
<1>1. Sound(window) /\ window \in WindowSet /\ Tracked(window) /\ DialogTells
  BY DEF PanelInv, Sound
<1>2. ASSUME UNCHANGED panelVars PROVE PanelInv'
  BY <1>2 DEF panelVars, PanelInv, DialogTells
<1>3. ASSUME NEW output \in Output, ChooseOutput(output) PROVE PanelInv'
  <2>1. PICK n \in Room : window' = Settled(SetOutput(OnDisk(n), output))
    BY <1>3 DEF ChooseOutput
  <2>2. Sound(OnDisk(n)) /\ OnDisk(n).own = window.own
    BY <1>1, OnDiskIsSound DEF SameScreen
  <2>3. Sound(SetOutput(OnDisk(n), output))
        /\ SetOutput(OnDisk(n), output).own = window.own
    BY <2>2, SetOutputIsSound
  <2> QED
    BY <1>3, <2>1, <2>3, EventIsSound DEF ChooseOutput, AtWindow
<1>4. CASE ChooseInput
  <2>1. PICK n \in Room : window' = Settled(OnDevice(OnDisk(n)))
    BY <1>4 DEF ChooseInput
  <2>2. Sound(OnDisk(n)) /\ OnDisk(n).own = window.own
    BY <1>1, OnDiskIsSound DEF SameScreen
  <2>3. Sound(OnDevice(OnDisk(n))) /\ OnDevice(OnDisk(n)).own = window.own
    BY <2>2, OnInputIsSound
  <2> QED
    BY <1>4, <2>1, <2>3, EventIsSound DEF ChooseInput, AtWindow
<1>5. CASE ChoosePreset
  <2>1. PICK preset \in Presets(window), n \in Room :
          window' = Settled(SetPreset(OnDisk(n), preset))
    BY <1>5 DEF ChoosePreset
  <2>2. /\ Sound(OnDisk(n)) /\ OnDisk(n).own = window.own
        /\ preset \in Presets(OnDisk(n))
    BY <1>1, OnDiskIsSound DEF SameScreen
  <2>3. Sound(SetPreset(OnDisk(n), preset))
        /\ SetPreset(OnDisk(n), preset).own = window.own
    BY <2>2, SetPresetIsSound
  <2> QED
    BY <1>5, <2>1, <2>3, EventIsSound DEF ChoosePreset, AtWindow
<1>6. CASE MoveSlider
  <2>1. PICK n \in Room :
          \/ \E amounts \in Amounts : window' = Settled(SetAmounts(OnDisk(n), amounts))
          \/ \E volume \in Volumes : window' = Settled(SetVolume(OnDisk(n), volume))
          \/ \E balance \in Balances : window' = Settled(SetBalance(OnDisk(n), balance))
    BY <1>6 DEF MoveSlider
  <2>2. Sound(OnDisk(n)) /\ OnDisk(n).own = window.own
    BY <1>1, OnDiskIsSound DEF SameScreen
  <2>3. \E w : Sound(w) /\ w.own = window.own /\ window' = Settled(w)
    BY <2>1, <2>2, SetAmountsIsSound, SetVolumeIsSound, SetBalanceIsSound
  <2> QED
    BY <1>6, <2>3, EventIsSound DEF MoveSlider, AtWindow
<1>7. CASE Remember
  <2>1. PICK n \in Room : window' = Settled(ToggleRemember(OnDisk(n)))
    BY <1>7 DEF Remember
  <2>2. Sound(OnDisk(n)) /\ OnDisk(n).own = window.own
    BY <1>1, OnDiskIsSound DEF SameScreen
  <2>3. Sound(ToggleRemember(OnDisk(n))) /\ ToggleRemember(OnDisk(n)).own = window.own
    BY <2>2, ToggleIsSound
  <2> QED
    BY <1>7, <2>1, <2>3, EventIsSound DEF Remember, AtWindow
<1>8. CASE AskToSave
  BY <1>1, <1>8 DEF AskToSave, PanelInv, DialogTells, Sound, Heard
<1>9. CASE AskToDelete
  BY <1>1, <1>9 DEF AskToDelete, PanelInv, DialogTells
<1>10. ASSUME NEW name \in Own, SaveAs(name) PROVE PanelInv'
  <2> DEFINE saved == [curve |-> Curve(window, dialog[2]), home |-> window.amounts]
  <2>1. dialog[2] \in Presets(window)
    BY <1>1, <1>10 DEF SaveAs, DialogTells
  <2>2. saved \in PresetSet
    BY <1>1, <2>1, PresetGives DEF PresetSet, WindowSet
  <2>3. PICK n \in Room :
          window' = Settled(SelectPreset([OnDisk(n) EXCEPT !.own = Insert(@, name, saved)],
                                         name))
    BY <1>10 DEF SaveAs
  <2> HIDE DEF saved
  <2> DEFINE own == Insert(OnDisk(n).own, name, saved)
  <2>4. Sound(OnDisk(n)) /\ OnDisk(n).own \in OwnSet
    BY <1>1, OnDiskIsSound DEF Sound, WindowSet
  <2>5. own \in OwnSet /\ name \in DOMAIN own
    BY <2>2, <2>4, OwnInserted
  <2>6. window' = Settled(SelectPreset([OnDisk(n) EXCEPT !.own = own], name))
    BY <2>3
  <2> HIDE DEF own
  <2>7. Sound(SelectPreset([OnDisk(n) EXCEPT !.own = own], name))
    BY <2>4, <2>5, ListIsSound
  <2> QED
    BY <1>10, <2>6, <2>7, EventIsSound DEF SaveAs
<1>11. CASE Delete
  <2>1. PICK n \in Room :
          window' = Settled(SelectPreset(
            [OnDisk(n) EXCEPT !.own = Restrict(@, DOMAIN @ \ {dialog[2]})], First))
    BY <1>11 DEF Delete
  <2> DEFINE map == OnDisk(n).own
             own == Restrict(map, DOMAIN map \ {dialog[2]})
  <2>2. Sound(OnDisk(n)) /\ map \in OwnSet
    BY <1>1, OnDiskIsSound DEF Sound, WindowSet
  <2>3. window' = Settled(SelectPreset([OnDisk(n) EXCEPT !.own = own], First))
    BY <2>1
  <2> HIDE DEF map
  <2>4. own \in OwnSet
    <3>1. PICK S \in SUBSET Own : map \in [S -> PresetSet]
      BY <2>2 DEF OwnSet, Maps
    <3>2. own \in [S \ {dialog[2]} -> PresetSet]
      BY <3>1 DEF Restrict
    <3>3. S \ {dialog[2]} \in SUBSET Own
      OBVIOUS
    <3> QED
      BY <3>2, <3>3 DEF OwnSet, Maps
  <2> HIDE DEF own
  <2>5. Sound(SelectPreset([OnDisk(n) EXCEPT !.own = own], First))
    BY <2>2, <2>4, ListIsSound, PanelAssumption DEF PanelAssumption
  <2> QED
    BY <1>11, <2>3, <2>5, EventIsSound DEF Delete
<1>12. CASE Cancel
  BY <1>1, <1>12 DEF Cancel, PanelInv, DialogTells
<1>13. CASE Serve
  <2>1. PICK r \in Requests, n \in Room : window' = Settled(Answered(OnDisk(n), r))
    BY <1>13 DEF Serve
  <2>2. Sound(OnDisk(n)) /\ OnDisk(n).own = window.own
    BY <1>1, OnDiskIsSound DEF SameScreen
  <2>3. Sound(Answered(OnDisk(n), r)) /\ Answered(OnDisk(n), r).own = window.own
    BY <2>2, AnsweredIsSound
  <2> QED
    BY <1>13, <2>1, <2>3, EventIsSound DEF Serve
<1>14. CASE Relaunch
  <2>1. window.file \in SettingsSet /\ window.own \in OwnSet
    BY <1>1 DEF WindowSet
  <2>2. PICK output \in Output, n \in Room :
          window' = Settled(Opened(window.file, window.own, output, n))
    BY <1>14 DEF Relaunch
  <2>3. Sound(Opened(window.file, window.own, output, n))
    BY <1>1, <2>1, OnDiskIsSound, OpenedIsSound
  <2> QED
    BY <1>14, <2>2, <2>3, EventIsSound DEF Relaunch
<1> QED
  BY <1>2, <1>3, <1>4, <1>5, <1>6, <1>7, <1>8, <1>9, <1>10, <1>11, <1>12, <1>13, <1>14
     DEF PanelNext

(* Screen, chain and settings agree, the file with them unless the disk    *)
(* refused the last save, and what is on them is of its type, for any      *)
(* outputs, presets and values of the sliders, and any refusals.           *)
THEOREM PanelInvariant == PanelSpec => []PanelInv
BY PanelStarts, PanelStep, PTL DEF PanelSpec

(* What the window shows, what is heard and what is remembered are one,    *)
(* and so is what is on disk, unless the disk refused the last save.       *)
THEOREM ShowsWhatIsHeard == PanelSpec => []ShownIsHeard
<1>1. PanelInv => ShownIsHeard
  BY DEF PanelInv, Sound, Heard, Kept, ShownIsHeard
<1> QED
  BY <1>1, PanelInvariant, PTL

(* A request gets everything it asks for, in whatever state it comes.      *)
THEOREM RequestsAreHonoured == PanelSpec => []RequestIsHonoured
<1>1. PanelInv => RequestIsHonoured
  BY AnsweredIsSound DEF PanelInv, RequestIsHonoured
<1> QED
  BY <1>1, PanelInvariant, PTL

(* Going back to a remembered output restores what it was left with, and   *)
(* touches no profile.                                                     *)
THEOREM SwitchesRestore == PanelSpec => SwitchRestores
<1> DEFINE Restores ==
      \A output \in Output :
        LET profiles == window.settings.profiles
        IN ChooseOutput(output) /\ output \in DOMAIN profiles
             /\ profiles[output].preset \in Presets(window) =>
           /\ Shown(window') = profiles[output]
           /\ window'.settings.profiles = profiles
<1>1. ASSUME PanelInv, NEW output \in Output, ChooseOutput(output),
             output \in DOMAIN window.settings.profiles,
             window.settings.profiles[output].preset \in Presets(window)
      PROVE  /\ Shown(window') = window.settings.profiles[output]
             /\ window'.settings.profiles = window.settings.profiles
  <2>1. PICK n \in Room : window' = Settled(SetOutput(OnDisk(n), output))
    BY <1>1 DEF ChooseOutput
  <2>2. /\ Sound(OnDisk(n)) /\ OnDisk(n).settings = window.settings
        /\ Presets(OnDisk(n)) = Presets(window)
    BY <1>1, OnDiskIsSound DEF PanelInv
  <2> DEFINE p == SetOutput(OnDisk(n), output)
  <2>3. /\ Sound(p) /\ Shown(p) = window.settings.profiles[output]
        /\ p.settings.profiles = window.settings.profiles
    BY <1>1, <2>2, SetOutputIsSound
  <2> HIDE DEF p
  <2>4. Shown(Settled(p)) = Shown(p) /\ Settled(p).settings = p.settings
    BY <2>3, SettledIsSound
  <2> QED
    BY <2>1, <2>3, <2>4 DEF p
<1>2. PanelInv => [Restores]_panelVars
  BY <1>1
<1> QED
  BY <1>2, PanelInvariant, PTL DEF PanelSpec, SwitchRestores

=============================================================================
