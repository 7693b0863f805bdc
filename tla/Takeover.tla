------------------------------ MODULE Takeover ------------------------------
(***************************************************************************)
(* How the application borrows the default output of Windows and gives it  *)
(* back: the handlers of src/src/app/main_window.cpp that take, move and   *)
(* release it, DefaultDeviceGuard, the record in the settings file, and    *)
(* the ways a process ends.                                                *)
(*                                                                         *)
(* The handlers run on the GUI thread, one at a time; what they do to the  *)
(* settings file and to each of the two roles of the default is a step of  *)
(* its own, between which the process may die.  The controller is its      *)
(* abstraction ControllerPhase.  The settings file is replaced whole, or   *)
(* not at all when the disk is full: nobody looks at the result.           *)
(*                                                                         *)
(* The warning that follows a failed acquisition is a modal dialog with an *)
(* event loop of its own: the controller's polls and the requests of other *)
(* launches (--on, --off, --input, --output) run in the middle of the      *)
(* handler that has opened it.  A --quit in it is SingleInstance's.        *)
(***************************************************************************)
EXTENDS Naturals, FiniteSets, SequencesExt

CONSTANTS Device,        \* the output devices of the machine
          NoDevice,      \* the empty device id
          DiesInRepair,  \* the process may die while it repairs
          MaxWarnings    \* bound on the warnings open at a time

ASSUME TakeoverAssumption ==
  /\ IsFiniteSet(Device) /\ NoDevice \notin Device
  /\ DiesInRepair \in BOOLEAN /\ MaxWarnings \in Nat

VARIABLES
  present, default,            \* Windows: devices there, default of each role
  file, settings,              \* settings.json and settings_
  up, phase, button,           \* process, controller, power button
  chosen, takeOver,            \* combo boxes and check box
  held, restoreId, fallbackId, \* DefaultDeviceGuard
  pc, job, goal, spare, next,  \* the handler in progress
  below,                       \* where the handlers under a warning go on
  taken, refused, unsaved      \* history, see below

windows == <<present, default>>
store == <<file, settings, unsaved>>
ui == <<phase, button, chosen, takeOver>>
guard == <<held, restoreId, fallbackId>>
call == <<pc, job, goal, spare, next>>
history == <<taken, refused>>
vars == <<windows, store, up, ui, guard, call, below, history>>

Role == {"console", "multimedia"}
Choice == [capture : Device, render : Device]

(* Of the settings: the devices, and the device displaced from the default *)
(* (previousDefaultDeviceId).                                              *)
Settings == [devices : Choice, previous : Device \cup {NoDevice}]

Controller == INSTANCE ControllerPhase

(* engine_.start() can only succeed on two different devices that are both *)
(* there, and may fail on them too.                                        *)
CanStart(devices) ==
  /\ devices.capture # devices.render
  /\ {devices.capture, devices.render} \subseteq present

Init ==
  /\ present \in (SUBSET Device) \ {{}}
  /\ default \in [Role -> present]
  /\ file \in [devices : Choice, previous : {NoDevice}] /\ settings = file
  /\ unsaved = FALSE
  /\ up = FALSE /\ phase = "off" /\ button = FALSE
  /\ chosen = file.devices /\ takeOver \in BOOLEAN
  /\ held = FALSE /\ restoreId = NoDevice /\ fallbackId = NoDevice
  /\ pc = "idle" /\ job = "none" /\ goal = NoDevice /\ spare = NoDevice /\ next = "idle"
  /\ below = <<>>
  /\ taken = {} /\ refused = FALSE

-----------------------------------------------------------------------------
(* saveSettings(): the file is written whole or stays as it was.  unsaved  *)
(* says that the disk has refused the last save, or the record of roles    *)
(* that are still taken and on no record since.                            *)
Save(new) ==
  /\ settings' = new
  /\ file' \in {new, file}
  /\ unsaved' = (file' # new \/ (unsaved /\ taken # {} /\ new.previous = NoDevice))

(* The record of the displaced device alone.                               *)
SaveRecord(id) == Save([settings EXCEPT !.previous = id])

-----------------------------------------------------------------------------
(* setDefaultRenderDevice(): the console role, then the multimedia role.   *)

Point(kind, device, second, after) ==
  /\ job' = kind /\ goal' = device /\ spare' = second /\ next' = after
  /\ pc' = "console"

(* What the call is for decides what follows its success.                  *)
Finish ==
  /\ pc' = next /\ job' = "none" /\ next' = "idle" /\ spare' = NoDevice
  /\ IF job = "acquire"
     THEN /\ held' = TRUE /\ restoreId' = chosen.render
          /\ fallbackId' = settings.previous
          /\ UNCHANGED <<goal, store>>
     ELSE /\ goal' = NoDevice
          /\ UNCHANGED guard
          /\ IF job = "release" THEN SaveRecord(NoDevice) ELSE UNCHANGED store

(* taken is the set of roles that the application has pointed at the       *)
(* capture device and nobody has pointed elsewhere since; refused says     *)
(* that Windows has refused a call since the last one that went through.   *)
(* A second candidate that is the capture device itself gives nothing back.*)
Points(role) ==
  /\ default' = [default EXCEPT ![role] = goal]
  /\ taken' = IF job = "acquire" THEN taken \cup {role}
              ELSE IF refused /\ goal = default[role] THEN taken
              ELSE taken \ {role}

SetConsole ==
  /\ pc = "console" /\ goal \in present
  /\ Points("console")
  /\ pc' = "multimedia"
  /\ UNCHANGED <<present, store, up, ui, guard, job, goal, spare, next, below, refused>>

SetMultimedia ==
  /\ pc = "multimedia" /\ goal \in present
  /\ Points("multimedia")
  /\ refused' = (refused /\ job # "acquire" /\ taken' # {})
  /\ Finish
  /\ UNCHANGED <<present, up, ui, below>>

(* A device that is not there cannot be made the default.  The second      *)
(* candidate is tried, if there is one, by the repair even if it is the    *)
(* same; then the record is cleared, by a failed acquisition as by a       *)
(* failed release, and the failed acquisition opens the warning.           *)
Refuse ==
  /\ pc \in {"console", "multimedia"} /\ goal \notin present
  /\ job = "acquire" => Len(below) < MaxWarnings
  /\ refused' = TRUE
  /\ IF spare # NoDevice /\ (spare # goal \/ job = "repair")
     THEN Point(job, spare, NoDevice, next) /\ UNCHANGED <<store, below>>
     ELSE /\ job' = "none" /\ goal' = NoDevice /\ spare' = NoDevice /\ next' = "idle"
          /\ IF job \in {"acquire", "release"} THEN SaveRecord(NoDevice) ELSE UNCHANGED store
          /\ IF job = "acquire" THEN pc' = "idle" /\ below' = Append(below, next)
                                ELSE pc' = next /\ UNCHANGED below
  /\ UNCHANGED <<windows, up, ui, guard, taken>>

Switching == SetConsole \/ SetMultimedia \/ Refuse

-----------------------------------------------------------------------------
(* acquireDefaultDevice() and releaseDefaultDevice(), up to the call of    *)
(* Windows.                                                                *)

(* Mutant: the record is not written before the switch.                    *)
Acquire_NoRecord(after) ==
  /\ UNCHANGED <<guard, store>>
  /\ IF takeOver' /\ ~held
     THEN Point("acquire", chosen.capture, NoDevice, after)
     ELSE pc' = after /\ UNCHANGED <<job, goal, spare, next>>

(* The record is written first.                                            *)
Acquire(after) ==
  /\ UNCHANGED guard
  /\ IF takeOver' /\ ~held
     THEN /\ SaveRecord(default["console"])
          /\ Point("acquire", chosen.capture, NoDevice, after)
     ELSE /\ pc' = after
          /\ UNCHANGED <<store, job, goal, spare, next>>

(* restoreUnlocked() takes the hold off first.                             *)
GiveBack(kind, after) ==
  /\ held' = FALSE /\ restoreId' = NoDevice /\ fallbackId' = NoDevice
  /\ Point(kind, restoreId, fallbackId, after)

Release(after) ==
  /\ IF held
     THEN GiveBack("release", after)
     ELSE pc' = after /\ UNCHANGED <<guard, job, goal, spare, next>>
  /\ UNCHANGED store

-----------------------------------------------------------------------------
(* The handlers of the window.  Each begins with the GUI thread in an      *)
(* event loop: the application's own or that of a warning.  The buttons    *)
(* and boxes of the window are dead under a warning.                       *)

Idle == up /\ pc = "idle"

AtRest == Idle /\ below = <<>>

Handler == <<guard, store, job, goal, spare, next>>

(* onPowerToggled(true)                                                    *)
PowerOn ==
  /\ Idle /\ ~button
  /\ button' = TRUE /\ UNCHANGED takeOver
  /\ Acquire("start")
  /\ UNCHANGED <<windows, up, phase, chosen, below, history>>

(* start() succeeds at once when the engine is running.                    *)
Starts ==
  /\ pc = "start"
  /\ IF phase = "on" THEN UNCHANGED phase ELSE CanStart(chosen) /\ Controller!Start
  /\ button' = TRUE
  /\ pc' = "persist"
  /\ UNCHANGED <<windows, up, chosen, takeOver, Handler, below, history>>

(* The button drops back.  The status signal of start() has already done   *)
(* that silently, except while recovering: then setChecked(false) runs     *)
(* onPowerToggled(false), if the button is down, which stops the recovery  *)
(* and saves the settings.                                                 *)
Toggles == phase = "recovering" /\ button

DropBack ==
  /\ pc = "start" /\ phase # "on"
  /\ IF Toggles THEN Controller!Stop ELSE UNCHANGED phase
  /\ button' = FALSE
  /\ UNCHANGED <<windows, up, chosen, takeOver, below, history>>

(* Mutant: a start that fails keeps the default.                           *)
StartFails_KeepsDefault == DropBack /\ pc' = "idle" /\ UNCHANGED Handler

StartFails == DropBack /\ Release(IF Toggles THEN "persist" ELSE "idle")

(* onPowerToggled(false)                                                   *)
PowerOff ==
  /\ Idle /\ button
  /\ button' = FALSE
  /\ Controller!Stop
  /\ Release("persist")
  /\ UNCHANGED <<windows, up, chosen, takeOver, below, history>>

(* onTakeOverToggled()                                                     *)
TakeOverOff ==
  /\ AtRest /\ takeOver
  /\ takeOver' = FALSE
  /\ Release("persist")
  /\ UNCHANGED <<windows, up, phase, button, chosen, below, history>>

TakeOverOn ==
  /\ AtRest /\ ~takeOver
  /\ takeOver' = TRUE
  /\ IF phase = "on" THEN Acquire("persist") ELSE pc' = "persist" /\ UNCHANGED Handler
  /\ UNCHANGED <<windows, up, phase, button, chosen, below, history>>

(* Mutant: the default does not move with the devices.                     *)
ChooseDevices_KeepsHolding(devices) ==
  /\ Idle /\ devices # chosen
  /\ chosen' = devices
  /\ pc' = "devices"
  /\ UNCHANGED <<windows, up, phase, button, takeOver, Handler, below, history>>

(* onDeviceChanged(): a hold is released, and taken again if the engine    *)
(* runs on the new devices.                                                *)
ChooseDevices(devices) ==
  /\ Idle /\ devices # chosen
  /\ chosen' = devices
  /\ Release(IF held THEN "devicesHeld" ELSE "devices")
  /\ UNCHANGED <<windows, up, phase, button, takeOver, below, history>>

SetDevices ==
  /\ pc \in {"devices", "devicesHeld"}
  /\ \/ phase # "on" /\ UNCHANGED <<phase, button>>
     \/ phase = "on" /\ CanStart(chosen) /\ UNCHANGED <<phase, button>>
     \/ phase = "on" /\ Controller!Stop /\ button' = FALSE
  /\ pc' = IF pc = "devicesHeld" /\ phase' = "on" THEN "reacquire" ELSE "persist"
  /\ UNCHANGED <<windows, up, chosen, takeOver, Handler, below, history>>

Reacquire ==
  /\ pc = "reacquire"
  /\ UNCHANGED takeOver
  /\ Acquire("persist")
  /\ UNCHANGED <<windows, up, phase, button, chosen, below, history>>

(* persistSettings()                                                       *)
Persist ==
  /\ pc = "persist"
  /\ Save([settings EXCEPT !.devices = chosen])
  /\ pc' = "idle"
  /\ UNCHANGED <<windows, up, ui, guard, job, goal, spare, next, below, history>>

(* The user closes the warning, and the handler that opened it goes on.    *)
CloseWarning ==
  /\ Idle /\ below # <<>>
  /\ pc' = Last(below) /\ below' = Front(below)
  /\ UNCHANGED <<windows, up, ui, Handler, history>>

User ==
  \/ PowerOn \/ PowerOff \/ TakeOverOff \/ TakeOverOn
  \/ \E devices \in Choice : ChooseDevices(devices)

Continue == Starts \/ StartFails \/ SetDevices \/ Reacquire \/ Persist \/ CloseWarning

-----------------------------------------------------------------------------
(* What the controller does of its own, and updateStatusLabel(): the       *)
(* button follows the engine except while recovering.                      *)

Faults == Idle /\ Controller!Fault /\ UNCHANGED button

Reconnects == Idle /\ CanStart(chosen) /\ Controller!Reconnect /\ button' = TRUE

GivesUp == Idle /\ Controller!GiveUp /\ button' = FALSE

Rearms == Idle /\ Controller!Rearm /\ UNCHANGED button

Engine ==
  /\ Faults \/ Reconnects \/ GivesUp \/ Rearms
  /\ UNCHANGED <<windows, store, up, chosen, takeOver, guard, call, below, history>>

-----------------------------------------------------------------------------
(* The process: launching, quitting, crashing, being killed.               *)

(* Mutant: the record is dropped, not acted on.                            *)
Launch_OnlyClears ==
  /\ ~up
  /\ up' = TRUE
  /\ pc' = "opened" /\ Save([file EXCEPT !.previous = NoDevice])
  /\ UNCHANGED <<windows, ui, guard, job, goal, spare, next, below, history>>

(* The constructor: repairStrandedDefaultDevice() clears the record and    *)
(* then points the default at the output, or else at what was displaced.   *)
Launch ==
  /\ ~up
  /\ up' = TRUE
  /\ IF file.previous = NoDevice
     THEN pc' = "opened" /\ settings' = file /\ UNCHANGED <<file, unsaved, job, goal, spare, next>>
     ELSE /\ Save([file EXCEPT !.previous = NoDevice])
          /\ Point("repair", file.devices.render, file.previous, "opened")
  /\ UNCHANGED <<windows, ui, guard, below, history>>

(* refreshDeviceLists(): a saved device that is gone is replaced.          *)
Substitute(device, candidates) ==
  IF device \in present THEN {device}
  ELSE IF candidates # {} THEN candidates ELSE present

Opened ==
  /\ pc = "opened"
  /\ chosen' \in [capture : Substitute(settings.devices.capture, {default["console"]}),
                  render  : Substitute(settings.devices.render, present \ {default["console"]})]
  /\ Save([settings EXCEPT !.devices = chosen'])
  /\ pc' = "idle"
  /\ UNCHANGED <<windows, up, phase, button, takeOver, guard, job, goal, spare, next,
                 below, history>>

(* closeEvent() and the destructor.                                        *)
Quit ==
  /\ AtRest
  /\ Release("exit")
  /\ UNCHANGED <<windows, up, ui, below, history>>

Gone ==
  /\ up' = FALSE /\ phase' = "off" /\ button' = FALSE /\ chosen' = file.devices
  /\ settings' = file /\ below' = <<>>
  /\ held' = FALSE /\ restoreId' = NoDevice /\ fallbackId' = NoDevice
  /\ pc' = "idle" /\ job' = "none" /\ goal' = NoDevice /\ spare' = NoDevice
  /\ next' = "idle"
  /\ UNCHANGED <<windows, file, unsaved, takeOver, history>>

Exit == pc = "exit" /\ Gone

CanDie == up /\ (DiesInRepair \/ job # "repair")

(* crashFilter() restores on the way down.                                 *)
Crash ==
  /\ CanDie /\ held
  /\ GiveBack("crash", "exit")
  /\ UNCHANGED <<windows, store, up, ui, below, history>>

(* A kill, a power cut, or a crash with nothing held.                      *)
Killed == CanDie /\ Gone

Process == Launch \/ Opened \/ Quit \/ Exit \/ Crash \/ Killed

(* Devices come and go.  Windows moves a default whose device has gone;    *)
(* some device is always left.                                             *)
DevicesChange ==
  /\ present' \in (SUBSET Device) \ {{}, present}
  /\ default' \in [Role -> present']
  /\ \A role \in Role : default[role] \in present' => default'[role] = default[role]
  /\ taken' = {role \in taken : default[role] \in present'}
  /\ UNCHANGED <<store, up, ui, guard, call, below, refused>>

-----------------------------------------------------------------------------
Next ==
  \/ Switching \/ User \/ Continue \/ Engine \/ Process \/ DevicesChange

Spec == Init /\ [][Next]_vars

-----------------------------------------------------------------------------
(* Type correctness: the default of every role is a device that is there,  *)
(* and the guard knows where to give the default back exactly when it      *)
(* holds it (default_device_guard.cpp 17-54, 85-97).                       *)
TypeOK ==
  /\ present \in (SUBSET Device) \ {{}} /\ default \in [Role -> present]
  /\ {file, settings} \subseteq Settings /\ unsaved \in BOOLEAN
  /\ up \in BOOLEAN /\ phase \in Controller!Phases /\ button \in BOOLEAN
  /\ chosen \in Choice /\ takeOver \in BOOLEAN
  /\ held \in BOOLEAN
  /\ {restoreId, fallbackId} \subseteq (IF held THEN Device ELSE {NoDevice})
  /\ pc \in {"idle", "console", "multimedia", "start", "devices", "devicesHeld",
             "reacquire", "persist", "opened", "exit"}
  /\ job \in {"none", "acquire", "release", "crash", "repair"}
  /\ goal \in Device \cup {NoDevice} /\ spare \in Device \cup {NoDevice}
  /\ next \in {"idle", "start", "persist", "devices", "devicesHeld", "opened", "exit"}
  /\ below \in Seq({"start", "persist"})
  /\ taken \in SUBSET Role /\ refused \in BOOLEAN

(* Between two handlers the default is held only with the user's consent   *)
(* and for a run that is there or, as far as the user can tell, may come   *)
(* back: "leaving it held would mean the setting says one thing and the    *)
(* system does another" (main_window.cpp 1019-1021, 910-920).              *)
HeldWithConsent == AtRest /\ held => takeOver /\ phase # "off"

(* The hold is always for the devices in force: what was made the default  *)
(* (goal keeps it) is the capture device, and what comes back is the       *)
(* output, however the devices were changed during the run, also under a   *)
(* warning of the change itself (872-898).                                 *)
HoldMovesAlong ==
  AtRest /\ held => goal = chosen.capture /\ restoreId = chosen.render

(* At every instant at which the process may die, a default that it has    *)
(* taken is on record for the next launch, unless Windows has refused a    *)
(* call, the disk has refused the last save or the next launch is already  *)
(* about it (1038-1049, 1063-1065).                                        *)
SwitchIsOnRecord ==
  taken # {} => file.previous # NoDevice \/ refused \/ unsaved \/ job = "repair"

(* An application that is idle and holds nothing has left no role of the   *)
(* default on its capture device, whichever way its runs ended, unless     *)
(* Windows has refused to take it back; and a record does not outlive the  *)
(* hold it is about, or the next launch would take the default away from   *)
(* what the user has chosen since.                                         *)
NothingIsLeftBehind ==
  AtRest /\ ~held =>
    /\ taken = {} \/ refused \/ unsaved
    /\ settings.previous = NoDevice
    /\ file.previous = NoDevice \/ unsaved

(* Whatever ended the last run, a default it has left on the capture       *)
(* device is on record for the next launch: "the caller writes the         *)
(* displaced device into the settings file before the switch and clears it *)
(* after the restore: a non-empty value at startup means the last run      *)
(* never gave the device back" (default_device_guard.h 20-24).             *)
RecordOutlivesRun ==
  ~up /\ taken # {} /\ ~refused /\ ~unsaved => file.previous # NoDevice

(* "Make the capture source the Windows default while running" (423):      *)
(* between two handlers, an engine that runs with the box ticked runs on   *)
(* the default it holds, unless Windows has refused a call.                *)
RunningIsRouted == AtRest /\ phase = "on" /\ takeOver => held \/ refused
=============================================================================
