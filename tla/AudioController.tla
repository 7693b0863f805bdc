-------------------------- MODULE AudioController --------------------------
(***************************************************************************)
(* The recovery state machine of src/src/app/audio_controller.cpp: what    *)
(* the user wants, whether the engine runs, and how a run that ended on    *)
(* its own is fetched back.                                                *)
(*                                                                         *)
(* Everything runs on the GUI thread, one event at a time: a click, a tick *)
(* of the poll timer, a device notification that the watcher's thread has  *)
(* queued.  Status signals, counters and the log are left out.             *)
(* Waits are counted in polls, as in the code, and scaled down by the      *)
(* constants.                                                              *)
(***************************************************************************)
EXTENDS Naturals

CONSTANTS Delay,          \* kRecoveryDelayPolls
          SlowDelay,      \* kSlowRecoveryDelayPolls
          FastAttempts,   \* kFastRecoveryAttempts
          MaxAttempts,    \* kMaxRecoveryAttempts
          HealthyPolls,   \* kHealthyPolls
          MaxEvents,      \* bound on the notifications waiting at once
          FlakyStart      \* a start may fail although the devices are there

ASSUME ControllerAssumption ==
  /\ Delay \in Nat \ {0} /\ SlowDelay \in Nat \ {0}
  /\ FastAttempts \in Nat /\ MaxAttempts \in Nat \ {0}
  /\ HealthyPolls \in Nat \ {0}
  /\ MaxEvents \in Nat \ {0}
  /\ FlakyStart \in BOOLEAN

VARIABLES
  present,      \* both chosen devices are there
  events,       \* queued calls of onDeviceChanged()
  engine,       \* "off", "on", or "dead": faulted and not yet stopped
  wanted,       \* userWantsRunning_
  recovering, untilRetry, attempts,   \* recovering_, pollsUntilRetry_, recoveryAttempts_
  sinceStart    \* pollsSinceStart_, counted up to HealthyPolls

environment == <<present, events>>
recovery == <<recovering, untilRetry, attempts>>
vars == <<environment, engine, wanted, recovery, sinceStart>>

RearmDelay == 2

Running == engine # "off"

Least(a, b) == IF a =< b THEN a ELSE b

(* engine_.start() may succeed, may fail.                                  *)
CanStart == present
CanFail == ~present \/ FlakyStart

Init ==
  /\ present \in BOOLEAN /\ events = 0
  /\ engine = "off" /\ wanted = FALSE
  /\ recovering = FALSE /\ untilRetry = 0 /\ attempts = 0
  /\ sinceStart = 0

-----------------------------------------------------------------------------
(* Devices: every change of state is notified.                             *)

DevicesChange ==
  /\ events < MaxEvents
  /\ present' \in BOOLEAN
  /\ events' = events + 1
  /\ UNCHANGED <<engine, wanted, recovery, sinceStart>>

(* An audio thread has aborted; the devices need not have changed.         *)
EngineFaults ==
  /\ engine = "on"
  /\ engine' = "dead"
  /\ UNCHANGED <<environment, wanted, recovery, sinceStart>>

(* A run cannot go on without its devices.                                 *)
EngineLosesDevice == ~present /\ EngineFaults

-----------------------------------------------------------------------------
(* start(), stop() and setDevices(): the user                              *)

Started ==
  /\ engine' = "on" /\ wanted' = TRUE
  /\ recovering' = FALSE /\ attempts' = 0
  /\ sinceStart' = 0
  /\ UNCHANGED untilRetry

Start ==
  /\ ~Running /\ CanStart
  /\ Started
  /\ UNCHANGED environment

StartFails ==
  /\ ~Running /\ CanFail
  /\ UNCHANGED vars

(* Mutant: a stop leaves the recovery armed.                               *)
Stop_StaysArmed ==
  /\ wanted' = FALSE
  /\ attempts' = 0
  /\ engine' = "off"
  /\ UNCHANGED <<environment, recovering, untilRetry, sinceStart>>

Stop ==
  /\ wanted' = FALSE
  /\ recovering' = FALSE /\ attempts' = 0
  /\ engine' = "off"
  /\ UNCHANGED <<environment, untilRetry, sinceStart>>

(* Other devices are chosen, which may or may not be there.  A running     *)
(* engine is stopped and started on them.                                  *)
SetDevices ==
  /\ present' \in BOOLEAN
  /\ UNCHANGED events
  /\ \/ ~Running /\ UNCHANGED <<engine, wanted, recovery, sinceStart>>
     \/ Running /\ present' /\ Started
     \/ /\ Running /\ (~present' \/ FlakyStart)
        /\ engine' = "off" /\ wanted' = FALSE
        /\ recovering' = FALSE /\ attempts' = 0
        /\ UNCHANGED <<untilRetry, sinceStart>>

User == Start \/ StartFails \/ Stop \/ SetDevices

-----------------------------------------------------------------------------
(* onDeviceChanged()                                                       *)

Hurry ==
  /\ recovering
  /\ untilRetry' = RearmDelay
  /\ UNCHANGED <<recovering, attempts>>

(* Mutant: giving up is for good.                                          *)
Rearm_Never ==
  /\ ~recovering /\ wanted /\ ~Running
  /\ UNCHANGED recovery

Rearm ==
  /\ ~recovering /\ wanted /\ ~Running
  /\ recovering' = TRUE /\ attempts' = 0 /\ untilRetry' = RearmDelay

NothingToDo ==
  /\ ~recovering /\ ~(wanted /\ ~Running)
  /\ UNCHANGED recovery

OnDeviceChanged ==
  /\ events > 0
  /\ events' = events - 1
  /\ Hurry \/ Rearm \/ NothingToDo
  /\ UNCHANGED <<present, engine, wanted, sinceStart>>

-----------------------------------------------------------------------------
(* poll()                                                                  *)

(* Mutant: the failure is reported and no recovery begun.                  *)
PollFault_ReportsOnly ==
  /\ engine = "dead"
  /\ engine' = "off"
  /\ sinceStart' = 0
  /\ UNCHANGED <<environment, wanted, recovery>>

(* The engine has ended on its own.                                        *)
PollFault ==
  /\ engine = "dead"
  /\ engine' = "off"
  /\ recovering' = TRUE
  /\ attempts' = IF sinceStart >= HealthyPolls THEN 0 ELSE attempts
  /\ sinceStart' = 0
  /\ untilRetry' = Delay
  /\ UNCHANGED <<environment, wanted>>

PollWaits ==
  /\ engine # "dead" /\ recovering /\ untilRetry > 1
  /\ untilRetry' = untilRetry - 1
  /\ UNCHANGED <<environment, engine, wanted, recovering, attempts, sinceStart>>

(* The wait is over: the next one is set before the attempt is made.       *)
RetryIsDue == engine # "dead" /\ recovering /\ untilRetry =< 1

NextWait == untilRetry' = IF attempts < FastAttempts THEN Delay ELSE SlowDelay

PollReconnects ==
  /\ RetryIsDue /\ CanStart
  /\ NextWait
  /\ engine' = "on" /\ recovering' = FALSE /\ attempts' = 0 /\ sinceStart' = 0
  /\ UNCHANGED <<environment, wanted>>

(* Mutant: failed attempts are not counted.                                *)
PollFails_Uncounted ==
  /\ RetryIsDue /\ CanFail
  /\ NextWait
  /\ UNCHANGED <<environment, engine, wanted, recovering, attempts, sinceStart>>

PollFails ==
  /\ RetryIsDue /\ CanFail
  /\ NextWait
  /\ attempts' = attempts + 1
  /\ recovering' = (attempts + 1 < MaxAttempts)
  /\ UNCHANGED <<environment, engine, wanted, sinceStart>>

PollHealthy ==
  /\ engine = "on" /\ ~recovering
  /\ sinceStart' = Least(sinceStart + 1, HealthyPolls)
  /\ UNCHANGED <<environment, engine, wanted, recovery>>

Poll == PollFault \/ PollWaits \/ PollReconnects \/ PollFails \/ PollHealthy

-----------------------------------------------------------------------------
Next == DevicesChange \/ EngineFaults \/ User \/ OnDeviceChanged \/ Poll

Spec == Init /\ [][Next]_vars

(* The timer ticks, the event loop delivers what is queued, and an engine  *)
(* whose device has gone notices.                                          *)
FairSpec ==
  /\ Spec
  /\ WF_vars(Poll) /\ WF_vars(OnDeviceChanged) /\ WF_vars(EngineLosesDevice)

-----------------------------------------------------------------------------
(* Type correctness; the retry budget is never overdrawn.                  *)
TypeOK ==
  /\ present \in BOOLEAN /\ events \in 0 .. MaxEvents
  /\ engine \in {"off", "on", "dead"} /\ wanted \in BOOLEAN
  /\ recovering \in BOOLEAN /\ untilRetry \in Nat
  /\ attempts \in 0 .. MaxAttempts
  /\ sinceStart \in 0 .. HealthyPolls

(* A stop by the user is never undone: neither a fault that is still       *)
(* unread, nor a retry, nor a device notification that is still queued     *)
(* starts the engine again (196-199, 232).                                 *)
StopIsFinal == ~wanted => engine = "off" /\ ~recovering

(* While recovery is on, the engine is down, a retry is due at some time   *)
(* and there is budget left for it.                                        *)
RecoveryIsLive ==
  recovering => engine = "off" /\ untilRetry > 0 /\ attempts < MaxAttempts

(* While a run lasts, faulted or not, no attempt is on the account.  This  *)
(* is what makes RecoveryIsLive inductive, and it means that the test of   *)
(* the healthy time in poll() (416) never makes a difference.              *)
NothingOnAccount == Running => attempts = 0

IInv == TypeOK /\ StopIsFinal /\ RecoveryIsLive /\ NothingOnAccount

(* What the window sees of all this.                                       *)
Phase == IF Running THEN "on" ELSE IF recovering THEN "recovering"
         ELSE IF wanted THEN "gaveUp" ELSE "off"

(* The polls, the budget and the notifications add up to the four phases   *)
(* of ControllerPhase: the sound never comes on from "off" by itself, a    *)
(* verdict is only lifted by trying again, and a fault always leads to an  *)
(* attempt to recover.                                                     *)
Abstract == INSTANCE ControllerPhase WITH phase <- Phase

ImplementsPhases == Abstract!Spec

(* A recovery ends, with the engine running or with the verdict that the   *)
(* device is gone.  Each notification puts the next attempt two polls off, *)
(* so the notifications must cease for that (214, 437).                    *)
NoStorm == <>[][~OnDeviceChanged]_vars

RecoveryConcludes == NoStorm => (recovering ~> ~recovering)

(* A notification that comes while the chosen devices are there brings the *)
(* sound back for as long as they stay, also when recovery had been given  *)
(* up on or the fault has not been read yet (219-238).                     *)
ReturnMeansSound ==
  NoStorm =>
    ((events > 0 /\ present /\ wanted) ~> (engine = "on" \/ ~present \/ ~wanted))

(* "Without this, a device that accepts a connection and then drops it     *)
(* would reset the retry budget on every cycle and the app would never     *)
(* conclude anything" (44-47): a device that never stays healthy is given  *)
(* up on, if neither the user nor a notification intervenes.               *)
FlappingConcludes ==
  NoStorm /\ <>[][~User]_vars /\ <>[](sinceStart < HealthyPolls)
    => <>[](engine = "off" /\ ~recovering)
=============================================================================
