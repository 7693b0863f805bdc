---------------------------- MODULE TakeoverProofs ----------------------------
(***************************************************************************)
(* The safety properties of Takeover, for any set of devices and any       *)
(* number of warnings: by which job the default is being switched, what    *)
(* has been put on record for it, and what the guard knows, determine each *)
(* other at every step of every handler.                                   *)
(***************************************************************************)
EXTENDS Takeover, SequenceTheorems, TLAPS

(* Where a call of Windows is made from, and where the handler goes on.    *)
CallTells ==
  /\ pc \in {"console", "multimedia"} <=> job # "none"
  /\ job = "acquire" => next \in {"start", "persist"}
  /\ job = "release" => next \in {"idle", "persist", "devices", "devicesHeld", "exit"}
  /\ job = "crash" => next = "exit"
  /\ job = "repair" => next = "opened"
  /\ ~up => pc = "idle" /\ ~held

(* An acquisition is for the devices in force, with the user's consent and *)
(* with the record made in memory; and it is for a run, which begins next  *)
(* or is there.                                                            *)
AcquireTells ==
  job = "acquire" =>
    /\ takeOver /\ ~held
    /\ goal = chosen.capture /\ spare = NoDevice
    /\ settings.previous # NoDevice
    /\ next = "persist" => phase = "on"

(* What is held is held for the devices in force.                          *)
HoldTells ==
  held =>
    /\ job = "none" /\ pc \in {"idle", "start", "persist"}
    /\ takeOver /\ (phase = "off" => pc = "start")
    /\ goal = chosen.capture /\ restoreId = chosen.render

(* The default is taken again for an engine that has been started anew.    *)
ReacquireTells == pc = "reacquire" => phase = "on"

(* Memory and disk differ by a save that was refused.                      *)
FileTells == unsaved \/ file = settings

(* A record is about a default that is held, being taken or being given    *)
(* back.                                                                   *)
RecordTells ==
  up /\ settings.previous # NoDevice =>
    held \/ job \in {"acquire", "release", "crash"} \/ pc = "exit"

(* Giving back is done with the first role when it turns to the second.    *)
FirstRoleIsBack ==
  pc = "multimedia" /\ job # "acquire" => "console" \notin taken \/ refused

IInv ==
  /\ TypeOK /\ CallTells /\ AcquireTells /\ HoldTells /\ ReacquireTells
  /\ FileTells /\ RecordTells /\ FirstRoleIsBack

-----------------------------------------------------------------------------
LEMMA InitInv == Init => IInv
<1> SUFFICES ASSUME Init PROVE IInv
  OBVIOUS
<1>1. TypeOK
  <2>1. file \in Settings /\ settings \in Settings
    BY DEF Init, Settings
  <2>2. below \in Seq({"start", "persist"})
    BY DEF Init
  <2>3. chosen \in Choice
    BY DEF Init
  <2> QED
    BY <2>1, <2>2, <2>3 DEF Init, TypeOK, Role, Controller!Phases
<1> QED
  BY <1>1 DEF Init, IInv, CallTells, AcquireTells, HoldTells, ReacquireTells, FileTells,
              RecordTells, FirstRoleIsBack

(* What a save leaves in memory and on disk.                               *)
LEMMA SaveTells ==
  ASSUME NEW new \in Settings, Save(new), file \in Settings, unsaved \in BOOLEAN
  PROVE  /\ settings' = new /\ file' \in Settings /\ unsaved' \in BOOLEAN
         /\ FileTells'
BY DEF Save, FileTells

LEMMA RecordIsSetting ==
  ASSUME settings \in Settings, NEW id \in Device \cup {NoDevice}
  PROVE  /\ [settings EXCEPT !.previous = id] \in Settings
         /\ [settings EXCEPT !.previous = id].previous = id
BY DEF Settings


-----------------------------------------------------------------------------
(* The two functions the handlers share.                                   *)

(* acquireDefaultDevice(): in a run that begins next or is there.          *)
LEMMA AcquireKeepsInv ==
  ASSUME IInv, NEW after \in {"start", "persist"}, Acquire(after),
         up, pc \in {"idle", "reacquire"}, after = "persist" => phase = "on",
         UNCHANGED <<windows, up, phase, chosen, below, history>>,
         button' \in BOOLEAN, takeOver' \in BOOLEAN, takeOver => takeOver'
  PROVE  IInv'
<1> USE DEF windows, history, guard, store
<1>1. default["console"] \in Device /\ default["console"] # NoDevice
  BY TakeoverAssumption DEF IInv, TypeOK, Role
<1>2. job = "none"
  BY DEF IInv, CallTells
<1>3. CASE takeOver' /\ ~held
  <2> DEFINE new == [settings EXCEPT !.previous = default["console"]]
  <2>1. new \in Settings /\ new.previous = default["console"]
    BY <1>1, RecordIsSetting DEF IInv, TypeOK
  <2>2. Save(new)
    BY <1>3 DEF Acquire, SaveRecord
  <2> HIDE DEF new
  <2>3. settings' = new /\ file' \in Settings /\ unsaved' \in BOOLEAN /\ FileTells'
    BY <2>1, <2>2, SaveTells DEF IInv, TypeOK
  <2>4. TypeOK'
    BY <1>3, <2>1, <2>3 DEF Acquire, Point, IInv, TypeOK, Choice
  <2> QED
    BY <1>1, <1>3, <2>1, <2>3, <2>4
    DEF Acquire, Point, IInv, CallTells, AcquireTells, HoldTells, ReacquireTells,
        RecordTells, FirstRoleIsBack
<1>4. CASE ~(takeOver' /\ ~held)
  <2>1. TypeOK'
    BY <1>4 DEF Acquire, IInv, TypeOK
  <2> QED
    BY <1>2, <1>4, <2>1
    DEF Acquire, IInv, TypeOK, CallTells, AcquireTells, HoldTells, ReacquireTells, FileTells,
        RecordTells, FirstRoleIsBack
<1> QED
  BY <1>3, <1>4

(* releaseDefaultDevice(), whatever happens to the engine, to the box and  *)
(* to the choice of devices.                                               *)
LEMMA ReleaseKeepsInv ==
  ASSUME IInv, NEW after \in {"idle", "persist", "devices", "devicesHeld", "exit"},
         Release(after),
         up, pc \in {"idle", "start"},
         UNCHANGED <<windows, up, below, history>>,
         phase' \in Controller!Phases, button' \in BOOLEAN, takeOver' \in BOOLEAN,
         chosen' \in Choice
  PROVE  IInv'
<1> USE DEF windows, history, guard, store
<1>1. job = "none"
  BY DEF IInv, CallTells
<1>2. CASE held
  <2>1. TypeOK'
    BY <1>2 DEF Release, GiveBack, Point, IInv, TypeOK
  <2> QED
    BY <1>2, <2>1
    DEF Release, GiveBack, Point, IInv, TypeOK, CallTells, AcquireTells, HoldTells,
        ReacquireTells, FileTells, RecordTells, FirstRoleIsBack
<1>3. CASE ~held
  <2>1. TypeOK'
    BY <1>3 DEF Release, IInv, TypeOK
  <2> QED
    BY <1>1, <1>3, <2>1
    DEF Release, IInv, TypeOK, CallTells, AcquireTells, HoldTells, ReacquireTells, FileTells,
        RecordTells, FirstRoleIsBack
<1> QED
  BY <1>2, <1>3 DEF IInv, TypeOK

-----------------------------------------------------------------------------
(* Windows is called.                                                      *)

LEMMA SetConsoleKeepsInv == IInv /\ SetConsole => IInv'
<1> SUFFICES ASSUME IInv, SetConsole PROVE IInv'
  OBVIOUS
<1> USE DEF SetConsole, Points, store, ui, guard
<1>1. TypeOK'
  BY DEF IInv, TypeOK, Role
<1> QED
  BY <1>1 DEF IInv, TypeOK, CallTells, AcquireTells, HoldTells, ReacquireTells, FileTells,
              RecordTells, FirstRoleIsBack

LEMMA SetMultimediaKeepsInv == IInv /\ SetMultimedia => IInv'
<1> SUFFICES ASSUME IInv, SetMultimedia PROVE IInv'
  OBVIOUS
<1> USE DEF SetMultimedia, Points, Finish, store, ui, guard
<1>1. default' \in [Role -> present] /\ taken' \in SUBSET Role /\ refused' \in BOOLEAN
  BY DEF IInv, TypeOK, Role
<1>2. CASE job = "acquire"
  <2>1. TypeOK'
    BY <1>1, <1>2 DEF IInv, TypeOK, AcquireTells, CallTells, Settings, Choice
  <2> QED
    BY <1>2, <2>1
    DEF IInv, TypeOK, CallTells, AcquireTells, HoldTells, ReacquireTells, FileTells,
        RecordTells, FirstRoleIsBack
<1>3. CASE job = "release"
  <2> DEFINE new == [settings EXCEPT !.previous = NoDevice]
  <2>1. new \in Settings /\ new.previous = NoDevice
    BY RecordIsSetting DEF IInv, TypeOK
  <2>2. Save(new)
    BY <1>3 DEF SaveRecord
  <2> HIDE DEF new
  <2>3. settings' = new /\ file' \in Settings /\ unsaved' \in BOOLEAN /\ FileTells'
    BY <2>1, <2>2, SaveTells DEF IInv, TypeOK
  <2>4. TypeOK'
    BY <1>1, <1>3, <2>3, <2>1 DEF IInv, TypeOK, CallTells
  <2> QED
    BY <1>3, <2>1, <2>3, <2>4
    DEF IInv, TypeOK, CallTells, AcquireTells, HoldTells, ReacquireTells, RecordTells,
        FirstRoleIsBack
<1>4. CASE job \in {"crash", "repair"}
  <2>1. TypeOK'
    BY <1>1, <1>4 DEF IInv, TypeOK, CallTells
  <2> QED
    BY <1>4, <2>1
    DEF IInv, TypeOK, CallTells, AcquireTells, HoldTells, ReacquireTells, FileTells,
        RecordTells, FirstRoleIsBack
<1> QED
  BY <1>2, <1>3, <1>4 DEF IInv, TypeOK, CallTells

LEMMA RefuseKeepsInv == IInv /\ Refuse => IInv'
<1> SUFFICES ASSUME IInv, Refuse PROVE IInv'
  OBVIOUS
<1> USE DEF Refuse, windows, ui, guard
<1>1. CASE spare # NoDevice /\ (spare # goal \/ job = "repair")
  <2>1. TypeOK'
    BY <1>1 DEF Point, store, IInv, TypeOK
  <2> QED
    BY <1>1, <2>1
    DEF Point, store, IInv, TypeOK, CallTells, AcquireTells, HoldTells, ReacquireTells, FileTells,
        RecordTells, FirstRoleIsBack
<1>2. CASE /\ ~(spare # NoDevice /\ (spare # goal \/ job = "repair"))
           /\ job \in {"acquire", "release"}
  <2> DEFINE new == [settings EXCEPT !.previous = NoDevice]
  <2>1. new \in Settings /\ new.previous = NoDevice
    BY RecordIsSetting DEF IInv, TypeOK
  <2>2. Save(new)
    BY <1>2 DEF SaveRecord
  <2> HIDE DEF new
  <2>3. settings' = new /\ file' \in Settings /\ unsaved' \in BOOLEAN /\ FileTells'
    BY <2>1, <2>2, SaveTells DEF IInv, TypeOK
  <2>4. below' \in Seq({"start", "persist"})
    <3>1. job = "acquire" => next \in {"start", "persist"}
      BY DEF IInv, CallTells
    <3>2. below \in Seq({"start", "persist"})
      BY DEF IInv, TypeOK
    <3> QED
      BY <1>2, <3>1, <3>2, AppendProperties
  <2>5. TypeOK'
    BY <1>2, <2>1, <2>3, <2>4 DEF IInv, TypeOK, CallTells
  <2> QED
    BY <1>2, <2>1, <2>3, <2>5
    DEF IInv, TypeOK, CallTells, AcquireTells, HoldTells, ReacquireTells, RecordTells,
        FirstRoleIsBack
<1>3. CASE /\ ~(spare # NoDevice /\ (spare # goal \/ job = "repair"))
           /\ job \in {"crash", "repair"}
  <2>1. TypeOK'
    BY <1>3 DEF store, IInv, TypeOK, CallTells
  <2> QED
    BY <1>3, <2>1
    DEF store, IInv, TypeOK, CallTells, AcquireTells, HoldTells, ReacquireTells, FileTells,
        RecordTells, FirstRoleIsBack
<1> QED
  BY <1>1, <1>2, <1>3 DEF IInv, TypeOK, CallTells

LEMMA SwitchingKeepsInv == IInv /\ Switching => IInv'
BY SetConsoleKeepsInv, SetMultimediaKeepsInv, RefuseKeepsInv DEF Switching

-----------------------------------------------------------------------------
(* The user, or a request, begins a handler.                               *)
LEMMA UserKeepsInv == IInv /\ User => IInv'
<1> SUFFICES ASSUME IInv, User PROVE IInv'
  OBVIOUS
<1> USE DEF Idle, AtRest
<1>1. /\ phase \in Controller!Phases /\ button \in BOOLEAN /\ takeOver \in BOOLEAN
      /\ chosen \in Choice
  BY DEF IInv, TypeOK
<1>2. CASE PowerOn
  BY <1>1, <1>2, AcquireKeepsInv DEF PowerOn
<1>3. CASE PowerOff
  <2>1. phase' \in Controller!Phases
    BY <1>3 DEF PowerOff, Controller!Stop, Controller!Phases
  <2> QED
    BY <1>1, <1>3, <2>1, ReleaseKeepsInv DEF PowerOff
<1>4. CASE TakeOverOff
  BY <1>1, <1>4, ReleaseKeepsInv DEF TakeOverOff
<1>5. CASE TakeOverOn
  <2>1. CASE phase = "on"
    BY <1>1, <1>5, <2>1, AcquireKeepsInv DEF TakeOverOn
  <2>2. CASE phase # "on"
    BY <1>5, <2>2
    DEF TakeOverOn, Handler, guard, store, windows, history, IInv, TypeOK, CallTells,
        AcquireTells, HoldTells, ReacquireTells, FileTells, RecordTells, FirstRoleIsBack
  <2> QED
    BY <2>1, <2>2
<1>6. CASE \E devices \in Choice : ChooseDevices(devices)
  BY <1>1, <1>6, ReleaseKeepsInv DEF ChooseDevices
<1> QED
  BY <1>2, <1>3, <1>4, <1>5, <1>6 DEF User

(* A handler goes on.                                                      *)
LEMMA ContinueKeepsInv == IInv /\ Continue => IInv'
<1> SUFFICES ASSUME IInv, Continue PROVE IInv'
  OBVIOUS
<1> USE DEF windows, history, guard, Handler
<1>1. /\ phase \in Controller!Phases /\ button \in BOOLEAN /\ takeOver \in BOOLEAN
      /\ chosen \in Choice
  BY DEF IInv, TypeOK
<1>2. CASE Starts
  <2>1. phase' = "on"
    BY <1>2 DEF Starts, Controller!Start
  <2>2. TypeOK'
    BY <1>2, <2>1 DEF Starts, store, IInv, TypeOK, Controller!Phases
  <2> QED
    BY <1>2, <2>1, <2>2
    DEF Starts, store, IInv, TypeOK, CallTells, AcquireTells, HoldTells, ReacquireTells,
        FileTells, RecordTells, FirstRoleIsBack
<1>3. CASE StartFails
  <2>1. phase' \in Controller!Phases
    BY <1>1, <1>3 DEF StartFails, DropBack, Controller!Stop, Controller!Phases
  <2>2. up
    BY <1>3 DEF StartFails, DropBack, IInv, CallTells
  <2> QED
    BY <1>1, <1>3, <2>1, <2>2, ReleaseKeepsInv DEF StartFails, DropBack
<1>4. CASE SetDevices
  <2>1. phase' \in Controller!Phases /\ button' \in BOOLEAN
    BY <1>1, <1>4 DEF SetDevices, Controller!Stop, Controller!Phases
  <2>2. TypeOK'
    BY <1>4, <2>1 DEF SetDevices, store, IInv, TypeOK
  <2> QED
    BY <1>4, <2>2
    DEF SetDevices, store, IInv, TypeOK, CallTells, AcquireTells, HoldTells, ReacquireTells,
        FileTells, RecordTells, FirstRoleIsBack
<1>5. CASE Reacquire
  <2>1. up /\ phase = "on"
    BY <1>5 DEF Reacquire, IInv, CallTells, ReacquireTells
  <2> QED
    BY <1>1, <1>5, <2>1, AcquireKeepsInv DEF Reacquire
<1>6. CASE Persist
  <2> DEFINE new == [settings EXCEPT !.devices = chosen]
  <2>1. new \in Settings /\ new.previous = settings.previous
    BY DEF IInv, TypeOK, Settings
  <2>2. Save(new)
    BY <1>6 DEF Persist
  <2> HIDE DEF new
  <2>3. settings' = new /\ file' \in Settings /\ unsaved' \in BOOLEAN /\ FileTells'
    BY <2>1, <2>2, SaveTells DEF IInv, TypeOK
  <2>4. TypeOK'
    BY <1>6, <2>1, <2>3 DEF Persist, ui, IInv, TypeOK
  <2> QED
    BY <1>6, <2>1, <2>3, <2>4
    DEF Persist, ui, IInv, TypeOK, CallTells, AcquireTells, HoldTells, ReacquireTells,
        RecordTells, FirstRoleIsBack
<1>7. CASE CloseWarning
  <2>1. Last(below) \in {"start", "persist"} /\ Front(below) \in Seq({"start", "persist"})
    <3>1. below \in Seq({"start", "persist"}) /\ below # <<>>
      BY <1>7 DEF CloseWarning, IInv, TypeOK
    <3>2. Len(below) \in 1 .. Len(below)
      BY <3>1, EmptySeq, LenProperties
    <3>3. Last(below) \in {"start", "persist"}
      BY <3>1, <3>2, ElementOfSeq DEF Last
    <3>4. Front(below) \in Seq({"start", "persist"})
      BY <3>1, <3>2, SubSeqProperties DEF Front
    <3> QED
      BY <3>3, <3>4
  <2>2. TypeOK'
    BY <1>7, <2>1 DEF CloseWarning, ui, store, IInv, TypeOK
  <2> QED
    BY <1>7, <2>1, <2>2
    DEF CloseWarning, Idle, ui, store, IInv, TypeOK, CallTells, AcquireTells, HoldTells,
        ReacquireTells, FileTells, RecordTells, FirstRoleIsBack
<1> QED
  BY <1>2, <1>3, <1>4, <1>5, <1>6, <1>7 DEF Continue

-----------------------------------------------------------------------------
(* The controller, the process and Windows.                                *)

LEMMA EngineKeepsInv == IInv /\ Engine => IInv'
<1> SUFFICES ASSUME IInv, Engine PROVE IInv'
  OBVIOUS
<1>1. /\ phase' \in Controller!Phases \ {"off"} /\ button' \in BOOLEAN
      /\ pc = "idle"
  BY DEF Engine, Faults, Reconnects, GivesUp, Rearms, Idle, IInv, TypeOK, Controller!Fault,
         Controller!Reconnect, Controller!GiveUp, Controller!Rearm, Controller!Phases
<1> USE DEF windows, store, guard, call, history
<1>2. TypeOK'
  BY <1>1 DEF Engine, IInv, TypeOK
<1> QED
  BY <1>1, <1>2
  DEF Engine, IInv, TypeOK, CallTells, AcquireTells, HoldTells, ReacquireTells, FileTells,
      RecordTells, FirstRoleIsBack

(* What a process leaves behind, however it ends.                          *)
LEMMA GoneKeepsInv == IInv /\ Gone => IInv'
<1> SUFFICES ASSUME IInv, Gone PROVE IInv'
  OBVIOUS
<1> USE DEF Gone, windows, history
<1>1. chosen' \in Choice /\ below' \in Seq({"start", "persist"})
  BY DEF IInv, TypeOK, Settings
<1>2. TypeOK'
  BY <1>1 DEF IInv, TypeOK, Controller!Phases
<1> QED
  BY <1>2
  DEF IInv, TypeOK, CallTells, AcquireTells, HoldTells, ReacquireTells, FileTells,
      RecordTells, FirstRoleIsBack

LEMMA LaunchKeepsInv == IInv /\ Launch => IInv'
<1> SUFFICES ASSUME IInv, Launch PROVE IInv'
  OBVIOUS
<1> USE DEF Launch, windows, ui, guard, history
<1>1. CASE file.previous = NoDevice
  <2>1. TypeOK'
    BY <1>1 DEF IInv, TypeOK
  <2> QED
    BY <1>1, <2>1
    DEF IInv, TypeOK, CallTells, AcquireTells, HoldTells, ReacquireTells, FileTells,
        RecordTells, FirstRoleIsBack
<1>2. CASE file.previous # NoDevice
  <2> DEFINE new == [file EXCEPT !.previous = NoDevice]
  <2>1. new \in Settings /\ new.previous = NoDevice
    BY DEF IInv, TypeOK, Settings
  <2>2. Save(new)
    BY <1>2
  <2>3. {file.devices.render, file.previous} \subseteq Device \cup {NoDevice}
    BY DEF IInv, TypeOK, Settings, Choice
  <2> HIDE DEF new
  <2>4. settings' = new /\ file' \in Settings /\ unsaved' \in BOOLEAN /\ FileTells'
    BY <2>1, <2>2, SaveTells DEF IInv, TypeOK
  <2>5. TypeOK'
    BY <1>2, <2>1, <2>3, <2>4 DEF Point, IInv, TypeOK
  <2> QED
    BY <1>2, <2>1, <2>4, <2>5
    DEF Point, IInv, TypeOK, CallTells, AcquireTells, HoldTells, ReacquireTells,
        RecordTells, FirstRoleIsBack
<1> QED
  BY <1>1, <1>2

LEMMA OpenedKeepsInv == IInv /\ Opened => IInv'
<1> SUFFICES ASSUME IInv, Opened PROVE IInv'
  OBVIOUS
<1> USE DEF Opened, windows, guard, history
<1> DEFINE new == [settings EXCEPT !.devices = chosen']
<1>1. chosen' \in Choice
  <2>1. ASSUME NEW device \in Device, NEW candidates \in SUBSET present
        PROVE  Substitute(device, candidates) \subseteq Device
    BY DEF Substitute, IInv, TypeOK
  <2>2. settings.devices.capture \in Device /\ settings.devices.render \in Device
    BY DEF IInv, TypeOK, Settings, Choice
  <2>3. {default["console"]} \in SUBSET present /\ present \ {default["console"]} \in SUBSET present
    BY DEF IInv, TypeOK, Role
  <2> QED
    BY <2>1, <2>2, <2>3 DEF Choice
<1>2. new \in Settings /\ new.previous = settings.previous
  BY <1>1 DEF IInv, TypeOK, Settings
<1>3. Save(new)
  OBVIOUS
<1> HIDE DEF new
<1>4. settings' = new /\ file' \in Settings /\ unsaved' \in BOOLEAN /\ FileTells'
  BY <1>2, <1>3, SaveTells DEF IInv, TypeOK
<1>5. TypeOK'
  BY <1>1, <1>2, <1>4 DEF IInv, TypeOK
<1> QED
  BY <1>2, <1>4, <1>5
  DEF IInv, TypeOK, CallTells, AcquireTells, HoldTells, ReacquireTells, RecordTells,
      FirstRoleIsBack

LEMMA CrashKeepsInv == IInv /\ Crash => IInv'
<1> SUFFICES ASSUME IInv, Crash PROVE IInv'
  OBVIOUS
<1> USE DEF Crash, CanDie, GiveBack, Point, windows, store, ui, history
<1>1. TypeOK'
  BY DEF IInv, TypeOK
<1> QED
  BY <1>1
  DEF IInv, TypeOK, CallTells, AcquireTells, HoldTells, ReacquireTells, FileTells,
      RecordTells, FirstRoleIsBack

LEMMA ProcessKeepsInv == IInv /\ Process => IInv'
<1> SUFFICES ASSUME IInv, Process PROVE IInv'
  OBVIOUS
<1>1. CASE Quit
  <2>1. phase \in Controller!Phases /\ button \in BOOLEAN /\ takeOver \in BOOLEAN
        /\ chosen \in Choice
    BY DEF IInv, TypeOK
  <2> QED
    BY <1>1, <2>1, ReleaseKeepsInv DEF Quit, AtRest, Idle, ui
<1>2. CASE Exit \/ Killed
  BY <1>2, GoneKeepsInv DEF Exit, Killed
<1> QED
  BY <1>1, <1>2, LaunchKeepsInv, OpenedKeepsInv, CrashKeepsInv DEF Process

LEMMA DevicesChangeKeepsInv == IInv /\ DevicesChange => IInv'
<1> SUFFICES ASSUME IInv, DevicesChange PROVE IInv'
  OBVIOUS
<1> USE DEF DevicesChange, store, ui, guard, call
<1>1. TypeOK'
  BY DEF IInv, TypeOK
<1> QED
  BY <1>1
  DEF IInv, TypeOK, CallTells, AcquireTells, HoldTells, ReacquireTells, FileTells,
      RecordTells, FirstRoleIsBack

-----------------------------------------------------------------------------
LEMMA NextKeepsInv == IInv /\ [Next]_vars => IInv'
<1> SUFFICES ASSUME IInv, [Next]_vars PROVE IInv'
  OBVIOUS
<1>1. CASE Next
  BY <1>1, SwitchingKeepsInv, UserKeepsInv, ContinueKeepsInv, EngineKeepsInv,
     ProcessKeepsInv, DevicesChangeKeepsInv DEF Next
<1>2. CASE UNCHANGED vars
  BY <1>2
  DEF vars, windows, store, ui, guard, call, history, IInv, TypeOK, CallTells, AcquireTells,
      HoldTells, ReacquireTells, FileTells, RecordTells, FirstRoleIsBack
<1> QED
  BY <1>1, <1>2

(* What is said of calls, holds and records holds at every step.           *)
THEOREM TakeoverInvariant == Spec => []IInv
BY InitInv, NextKeepsInv, PTL DEF Spec

(* The default of every role is a device that is there, and the guard      *)
(* knows where to give it back exactly when it holds it.                   *)
THEOREM TypeCorrect == Spec => []TypeOK
<1>1. IInv => TypeOK
  BY DEF IInv
<1> QED
  BY <1>1, TakeoverInvariant, PTL

(* Between two handlers the default is held with the user's consent, for a *)
(* run that is there or may come back.                                     *)
THEOREM HeldOnlyWithConsent == Spec => []HeldWithConsent
<1>1. IInv => HeldWithConsent
  BY DEF IInv, HoldTells, HeldWithConsent, AtRest, Idle
<1> QED
  BY <1>1, TakeoverInvariant, PTL

(* The hold is always for the devices in force.                            *)
THEOREM HoldFollowsDevices == Spec => []HoldMovesAlong
<1>1. IInv => HoldMovesAlong
  BY DEF IInv, HoldTells, HoldMovesAlong
<1> QED
  BY <1>1, TakeoverInvariant, PTL

-----------------------------------------------------------------------------
(* The record, for a process that does not die while it repairs.  A run    *)
(* that does is the violation RecordOutlivesRun.                           *)

(* A handler that leaves the file alone leaves the record there.           *)
LEMMA UntouchedKeepsRecord ==
  ASSUME SwitchIsOnRecord, job # "repair", UNCHANGED <<store, history>>
  PROVE  SwitchIsOnRecord'
BY DEF SwitchIsOnRecord, store, history

(* A save that names the displaced device, or the same as before.          *)
LEMMA SaveKeepsRecord ==
  ASSUME NEW new \in Settings, Save(new), SwitchIsOnRecord, FileTells,
         new.previous # NoDevice \/ new.previous = settings.previous,
         job # "repair", UNCHANGED history
  PROVE  SwitchIsOnRecord'
BY DEF Save, SwitchIsOnRecord, FileTells, history

LEMMA AcquireKeepsRecord ==
  ASSUME IInv, SwitchIsOnRecord, NEW after, Acquire(after), job # "repair", UNCHANGED history
  PROVE  SwitchIsOnRecord'
<1>1. CASE takeOver' /\ ~held
  <2> DEFINE new == [settings EXCEPT !.previous = default["console"]]
  <2>1. default["console"] \in Device /\ default["console"] # NoDevice
    BY TakeoverAssumption DEF IInv, TypeOK, Role
  <2>2. new \in Settings /\ new.previous # NoDevice
    BY <2>1, RecordIsSetting DEF IInv, TypeOK
  <2>3. Save(new)
    BY <1>1 DEF Acquire, SaveRecord
  <2> HIDE DEF new
  <2> QED
    BY <2>2, <2>3, SaveKeepsRecord DEF IInv
<1>2. CASE ~(takeOver' /\ ~held)
  BY <1>2, UntouchedKeepsRecord DEF Acquire
<1> QED
  BY <1>1, <1>2

LEMMA ReleaseKeepsRecord ==
  ASSUME SwitchIsOnRecord, NEW after, Release(after), job # "repair", UNCHANGED history
  PROVE  SwitchIsOnRecord'
BY UntouchedKeepsRecord DEF Release

(* What has been taken is on record, and what is off the record has been   *)
(* given back or Windows has refused to take it.                           *)
LEMMA SwitchingKeepsRecord ==
  IInv /\ SwitchIsOnRecord /\ Switching => SwitchIsOnRecord'
<1> SUFFICES ASSUME IInv, SwitchIsOnRecord, Switching PROVE SwitchIsOnRecord'
  OBVIOUS
<1>1. job = "acquire" => file.previous # NoDevice \/ unsaved
  BY DEF IInv, AcquireTells, FileTells
<1>2. CASE SetConsole
  BY <1>1, <1>2 DEF SetConsole, Points, store, SwitchIsOnRecord
<1>3. CASE SetMultimedia
  <2>1. CASE job = "acquire"
    BY <1>1, <1>3, <2>1 DEF SetMultimedia, Finish, store, SwitchIsOnRecord
  <2>2. CASE job # "acquire"
    <3>1. taken' = {} \/ refused'
      <4>1. CASE refused
        BY <1>3, <2>2, <4>1 DEF SetMultimedia
      <4>2. CASE ~refused
        <5>1. taken \subseteq Role /\ "console" \notin taken
          BY <1>3, <2>2, <4>2 DEF SetMultimedia, IInv, TypeOK, FirstRoleIsBack
        <5>2. taken' = taken \ {"multimedia"}
          BY <1>3, <2>2, <4>2 DEF SetMultimedia, Points
        <5> QED
          BY <5>1, <5>2 DEF Role
      <4> QED
        BY <4>1, <4>2
    <3> QED
      BY <3>1 DEF SwitchIsOnRecord
  <2> QED
    BY <2>1, <2>2
<1>4. CASE Refuse
  BY <1>4 DEF Refuse, SwitchIsOnRecord
<1> QED
  BY <1>2, <1>3, <1>4 DEF Switching

LEMMA HandlersKeepRecord ==
  IInv /\ SwitchIsOnRecord /\ (User \/ Continue) => SwitchIsOnRecord'
<1> SUFFICES ASSUME IInv, SwitchIsOnRecord, User \/ Continue PROVE SwitchIsOnRecord'
  OBVIOUS
<1>1. job # "repair"
  BY DEF User, PowerOn, PowerOff, TakeOverOff, TakeOverOn, ChooseDevices, Continue, Starts,
         StartFails, DropBack, SetDevices, Reacquire, Persist, CloseWarning, Idle, AtRest,
         IInv, CallTells
<1>2. CASE PowerOn \/ Reacquire
  BY <1>1, <1>2, AcquireKeepsRecord DEF PowerOn, Reacquire
<1>3. CASE PowerOff \/ TakeOverOff \/ StartFails \/ \E devices \in Choice : ChooseDevices(devices)
  BY <1>1, <1>3, ReleaseKeepsRecord DEF PowerOff, TakeOverOff, StartFails, DropBack, ChooseDevices
<1>4. CASE TakeOverOn
  BY <1>1, <1>4, AcquireKeepsRecord, UntouchedKeepsRecord DEF TakeOverOn, Handler
<1>5. CASE Starts \/ SetDevices \/ CloseWarning
  BY <1>1, <1>5, UntouchedKeepsRecord DEF Starts, SetDevices, CloseWarning, Handler
<1>6. CASE Persist
  <2> DEFINE new == [settings EXCEPT !.devices = chosen]
  <2>1. new \in Settings /\ new.previous = settings.previous
    BY DEF IInv, TypeOK, Settings
  <2>2. Save(new) /\ UNCHANGED history
    BY <1>6 DEF Persist
  <2> HIDE DEF new
  <2> QED
    BY <1>1, <2>1, <2>2, SaveKeepsRecord DEF IInv
<1> QED
  BY <1>2, <1>3, <1>4, <1>5, <1>6 DEF User, Continue

LEMMA ProcessKeepsRecord ==
  ~DiesInRepair /\ IInv /\ SwitchIsOnRecord /\ Process => SwitchIsOnRecord'
<1> SUFFICES ASSUME ~DiesInRepair, IInv, SwitchIsOnRecord, Process PROVE SwitchIsOnRecord'
  OBVIOUS
<1>1. CASE Launch
  <2>1. job # "repair"
    BY <1>1 DEF Launch, IInv, CallTells
  <2>2. CASE file.previous = NoDevice
    BY <1>1, <2>1, <2>2 DEF Launch, history, SwitchIsOnRecord
  <2>3. CASE file.previous # NoDevice
    BY <1>1, <2>3 DEF Launch, Point, SwitchIsOnRecord
  <2> QED
    BY <2>2, <2>3
<1>2. CASE Opened
  <2> DEFINE new == [settings EXCEPT !.devices = chosen']
  <2>1. job # "repair" /\ chosen' \in Choice
    <3>1. TypeOK'
      BY <1>2, OpenedKeepsInv DEF IInv
    <3> QED
      BY <1>2, <3>1 DEF Opened, IInv, CallTells, TypeOK
  <2>2. new \in Settings /\ new.previous = settings.previous
    BY <2>1 DEF IInv, TypeOK, Settings
  <2>3. Save(new) /\ UNCHANGED history
    BY <1>2 DEF Opened
  <2> HIDE DEF new
  <2> QED
    BY <2>1, <2>2, <2>3, SaveKeepsRecord DEF IInv
<1>3. CASE Quit
  BY <1>3, ReleaseKeepsRecord DEF Quit, AtRest, Idle, IInv, CallTells
<1>4. CASE Exit \/ Killed
  <2>1. job # "repair"
    BY <1>4 DEF Exit, Killed, CanDie, IInv, CallTells
  <2> QED
    BY <1>4, <2>1 DEF Exit, Killed, Gone, history, SwitchIsOnRecord
<1>5. CASE Crash
  BY <1>5, UntouchedKeepsRecord DEF Crash, CanDie
<1> QED
  BY <1>1, <1>2, <1>3, <1>4, <1>5 DEF Process

LEMMA NextKeepsRecord ==
  ~DiesInRepair /\ IInv /\ SwitchIsOnRecord /\ [Next]_vars => SwitchIsOnRecord'
<1> SUFFICES ASSUME ~DiesInRepair, IInv, SwitchIsOnRecord, [Next]_vars
             PROVE  SwitchIsOnRecord'
  OBVIOUS
<1>1. CASE Engine
  BY <1>1 DEF Engine, store, call, history, SwitchIsOnRecord
<1>2. CASE DevicesChange
  BY <1>2 DEF DevicesChange, store, call, SwitchIsOnRecord
<1>3. CASE UNCHANGED vars
  BY <1>3 DEF vars, store, call, history, SwitchIsOnRecord
<1> QED
  BY <1>1, <1>2, <1>3, SwitchingKeepsRecord, HandlersKeepRecord, ProcessKeepsRecord DEF Next

(* At every instant at which the process may die, a default it has taken   *)
(* is on record for the next launch, unless Windows or the disk refused.   *)
THEOREM TakenIsOnRecord == ~DiesInRepair => (Spec => []SwitchIsOnRecord)
<1> SUFFICES ASSUME ~DiesInRepair PROVE Spec => []SwitchIsOnRecord
  OBVIOUS
<1>1. Init => SwitchIsOnRecord
  BY DEF Init, SwitchIsOnRecord
<1>2. IInv /\ SwitchIsOnRecord /\ [Next]_vars => SwitchIsOnRecord'
  BY NextKeepsRecord
<1> QED
  BY <1>1, <1>2, TakeoverInvariant, PTL DEF Spec

(* An application at rest that holds nothing has left nothing behind and   *)
(* has no record that outlives its hold.                                   *)
THEOREM NothingStays == ~DiesInRepair => (Spec => []NothingIsLeftBehind)
<1> SUFFICES ASSUME ~DiesInRepair PROVE Spec => []NothingIsLeftBehind
  OBVIOUS
<1>1. IInv /\ SwitchIsOnRecord => NothingIsLeftBehind
  BY DEF IInv, TypeOK, CallTells, FileTells, RecordTells, SwitchIsOnRecord, NothingIsLeftBehind,
         AtRest, Idle
<1> QED
  BY <1>1, TakeoverInvariant, TakenIsOnRecord, PTL
===============================================================================
