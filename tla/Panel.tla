-------------------------------- MODULE Panel --------------------------------
(***************************************************************************)
(* What the window shows, what the chain is given and what is remembered:  *)
(* the preset list, the sliders, the output and the profiles of the        *)
(* outputs (src/src/app/main_window.cpp, settings_store.cpp).              *)
(*                                                                         *)
(* The widgets call their handlers themselves, whoever sets them: the      *)
(* user, another handler, a profile, a request of another launch.  Two     *)
(* dialogs have an event loop of their own, in which requests are served   *)
(* while the window itself is dead.  A handler is a function of the        *)
(* window; an action is what one event makes of it.  The three amounts are *)
(* set together, and count as one.                                         *)
(*                                                                         *)
(* The disk may refuse any save, and nobody looks.  A file that a save has *)
(* not replaced is the one before, so all that can differ is which save of *)
(* an event was the last to get through: an event finds room for n of them.*)
(***************************************************************************)
EXTENDS Integers, FiniteSets, Functions

CONSTANTS Output,           \* the output devices
          NoOutput,         \* no device id
          Builtin, First,   \* the built-in presets, the one of row 0
          Own,              \* names for presets of the user
          Amounts, HomeOf,  \* positions of the amounts, those of the built-ins
          LoudestVolume,    \* the volume slider ends at 0 and there
          Balances,         \* positions of the balance slider
          CentreDetent,     \* kCentreDetent
          MaxFlags,         \* bound on the flags of a request
          MaxSaves,         \* bound on the saves an event finds room for
          ServesUnsaved,    \* bound: are requests served after a refused save?
          RefusesAgain      \* bound: does the disk refuse two events in a row?

ASSUME PanelAssumption ==
  /\ NoOutput \notin Output /\ First \in Builtin /\ Builtin \cap Own = {}
  /\ HomeOf \in [Builtin -> Amounts]
  /\ LoudestVolume \in Nat /\ CentreDetent \in Nat /\ MaxFlags \in Nat
  /\ MaxSaves \in Nat /\ ServesUnsaved \in BOOLEAN /\ RefusesAgain \in BOOLEAN
  /\ Balances \subseteq Int /\ 0 \in Balances

VARIABLES window,   \* the widgets, settings_, settings.json, what the chain has,
                    \* room left on disk; history: the last save was refused
          dialog    \* the dialog that is open

panelVars == <<window, dialog>>

Volumes == 0 .. LoudestVolume

-----------------------------------------------------------------------------
(* Presets: the built-in ones and those on disk (window.own), a curve and  *)
(* the amounts it is meant to have.                                        *)

Presets(w) == Builtin \cup DOMAIN w.own

Curve(w, preset) == IF preset \in Builtin THEN preset ELSE w.own[preset].curve

Home(w, preset) == IF preset \in Builtin THEN HomeOf[preset] ELSE w.own[preset].home

(* selectPresetById(): row 0 for one that is gone.                         *)
Known(w, preset) == IF preset \in Presets(w) THEN preset ELSE First

Shown(w) ==
  [preset |-> w.preset, amounts |-> w.amounts, volume |-> w.volume, balance |-> w.balance]

-----------------------------------------------------------------------------
(* applyCurrentSettings(): the list and the amounts from the screen, the   *)
(* volume and the balance from the settings.                               *)
Apply(w) ==
  [w EXCEPT !.heard = [curve |-> Curve(w, w.preset), amounts |-> w.amounts,
                       volume |-> w.settings.volume, balance |-> w.settings.balance]]

(* QMap::insert: an entry is added, or takes the place of one.             *)
Insert(map, key, value) ==
  [k \in {key} \cup DOMAIN map |-> IF k = key THEN value ELSE map[k]]

(* storeDeviceProfile()                                                    *)
StoreProfile(w) ==
  IF w.remember
  THEN [w EXCEPT !.settings.profiles = Insert(@, w.output, Shown(w))]
  ELSE w

(* persistSettings(): saveSettings() may fail, and the result is dropped.  *)
Persist(w) ==
  LET s == StoreProfile([w EXCEPT !.settings.output = w.output, !.settings.shown = Shown(w),
                                  !.settings.volume = w.volume,
                                  !.settings.balance = w.balance])
  IN IF w.room = 0 THEN [s EXCEPT !.unsaved = TRUE]
     ELSE [s EXCEPT !.file = s.settings, !.unsaved = FALSE, !.room = w.room - 1]

(* onPresetSelectionChanged(): choosing a preset means wanting its amounts.*)
SelectPreset(w, preset) ==
  Persist(Apply([w EXCEPT !.preset = preset, !.amounts = Home(w, preset)]))

(* A widget that is set to what it shows calls nobody.                     *)
SetPreset(w, preset) == IF preset = w.preset THEN w ELSE SelectPreset(w, preset)

(* onSliderChanged()                                                       *)
SetAmounts(w, amounts) ==
  IF amounts = w.amounts THEN w ELSE Persist(Apply([w EXCEPT !.amounts = amounts]))

(* onOutputVolumeChanged()                                                 *)
SetVolume(w, volume) ==
  IF volume = w.volume THEN w
  ELSE Persist(Apply([w EXCEPT !.volume = volume, !.settings.volume = volume]))

(* onBalanceChanged(): near the centre the slider is set again, to it.     *)
Detented(balance) ==
  IF balance \in -CentreDetent .. CentreDetent THEN 0 ELSE balance

SetBalance(w, balance) ==
  IF balance = w.balance THEN w
  ELSE Persist(Apply([w EXCEPT !.balance = Detented(balance),
                               !.settings.balance = Detented(balance)]))

(* Mutant: the profile reaches the screen and not the settings (the fault  *)
(* of docs/m3-gui-notes.md 5.6).                                           *)
ApplyProfile_ScreenOnly(w) ==
  IF w.output \notin DOMAIN w.settings.profiles THEN [w EXCEPT !.remember = FALSE]
  ELSE LET p == w.settings.profiles[w.output]
       IN Apply([w EXCEPT !.remember = TRUE, !.preset = Known(w, p.preset),
                          !.amounts = p.amounts, !.volume = p.volume,
                          !.balance = Detented(p.balance)])

(* applyDeviceProfile()                                                    *)
ApplyProfile(w) ==
  IF w.output \notin DOMAIN w.settings.profiles THEN [w EXCEPT !.remember = FALSE]
  ELSE LET p == w.settings.profiles[w.output]
       IN Apply([w EXCEPT !.remember = TRUE, !.preset = Known(w, p.preset),
                          !.amounts = p.amounts, !.volume = p.volume,
                          !.balance = Detented(p.balance),
                          !.settings.volume = p.volume,
                          !.settings.balance = Detented(p.balance)])

(* Mutant: the settings are kept before the profile is looked up.          *)
OnDevice_PersistsFirst(w) ==
  LET kept == Persist(w)
  IN IF w.output = w.profileOf THEN kept
     ELSE Persist(ApplyProfile([kept EXCEPT !.profileOf = w.output]))

(* onDeviceChanged(), of either device; the routing is Takeover's.         *)
OnDevice(w) ==
  Persist(IF w.output = w.profileOf THEN w
          ELSE ApplyProfile([w EXCEPT !.profileOf = w.output]))

SetOutput(w, output) ==
  IF output = w.output THEN w ELSE OnDevice([w EXCEPT !.output = output])

(* onRememberDeviceToggled()                                               *)
ToggleRemember(w) ==
  IF w.remember
  THEN Persist([w EXCEPT !.remember = FALSE,
                         !.settings.profiles = Restrict(@, DOMAIN @ \ {w.output})])
  ELSE Persist([w EXCEPT !.remember = TRUE])

-----------------------------------------------------------------------------
(* The constructor.  The handlers of the lists are silent while it fills   *)
(* them (loading_); those of the volume, the balance and the devices run   *)
(* at its end, before which no output is remembered.  The output shown is  *)
(* that of the file, or another if it is gone.                             *)
Opened(file, own, output, room) ==
  LET w == [preset |-> First, amounts |-> file.shown.amounts, volume |-> file.shown.volume,
            balance |-> Detented(file.shown.balance), output |-> output, remember |-> FALSE,
            profileOf |-> NoOutput, own |-> own, settings |-> file, file |-> file,
            heard |-> {}, room |-> room, unsaved |-> FALSE]
      listed == [w EXCEPT !.preset = Known(w, file.shown.preset)]
  IN OnDevice(Persist(Apply([listed EXCEPT !.settings.volume = w.volume,
                                           !.settings.balance = w.balance])))

(* The first run: the amounts of the first preset, everything else at rest.*)
Fresh ==
  [output |-> NoOutput, profiles |-> <<>>, volume |-> LoudestVolume, balance |-> 0,
   shown |-> [preset |-> First, amounts |-> HomeOf[First], volume |-> LoudestVolume,
              balance |-> 0]]

(* An event finds room for n saves; the room is looked for anew by each.   *)
OnDisk(n) == [window EXCEPT !.room = n]

Room == IF window.unsaved /\ ~RefusesAgain THEN {MaxSaves} ELSE 0 .. MaxSaves

Settled(w) == [w EXCEPT !.room = 0]

PanelInit ==
  /\ \E output \in Output, n \in 0 .. MaxSaves :
       window = Settled(Opened(Fresh, <<>>, output, n))
  /\ dialog = <<>>

(* Quitting, or dying in any other way, and the next launch.               *)
Relaunch ==
  /\ \E output \in Output, n \in Room :
       window' = Settled(Opened(window.file, window.own, output, n))
  /\ dialog' = <<>>

-----------------------------------------------------------------------------
(* The user at the window.                                                 *)

AtWindow == dialog = <<>> /\ UNCHANGED dialog

ChooseOutput(output) ==
  AtWindow /\ \E n \in Room : window' = Settled(SetOutput(OnDisk(n), output))

ChooseInput == AtWindow /\ \E n \in Room : window' = Settled(OnDevice(OnDisk(n)))

ChoosePreset ==
  /\ AtWindow
  /\ \E preset \in Presets(window), n \in Room :
       window' = Settled(SetPreset(OnDisk(n), preset))

MoveSlider ==
  /\ AtWindow
  /\ \E n \in Room :
       \/ \E amounts \in Amounts : window' = Settled(SetAmounts(OnDisk(n), amounts))
       \/ \E volume \in Volumes : window' = Settled(SetVolume(OnDisk(n), volume))
       \/ \E balance \in Balances : window' = Settled(SetBalance(OnDisk(n), balance))

Remember ==
  AtWindow /\ \E n \in Room : window' = Settled(ToggleRemember(OnDisk(n)))

(* onSaveUserPreset(), onDeleteUserPreset(): a dialog is opened about the  *)
(* preset selected now.                                                    *)
AskToSave ==
  dialog = <<>> /\ dialog' = <<"save", window.preset>> /\ UNCHANGED window

AskToDelete ==
  /\ dialog = <<>> /\ window.preset \in Own
  /\ dialog' = <<"delete", window.preset>> /\ UNCHANGED window

(* The list is read again, from disk, and forgets which row was selected.  *)
SaveAs(name) ==
  /\ dialog # <<>> /\ dialog[1] = "save" /\ dialog' = <<>>
  /\ LET saved == [curve |-> Curve(window, dialog[2]), home |-> window.amounts]
     IN \E n \in Room :
          window' = Settled(SelectPreset([OnDisk(n) EXCEPT !.own = Insert(@, name, saved)],
                                         name))

Delete ==
  /\ dialog # <<>> /\ dialog[1] = "delete" /\ dialog' = <<>>
  /\ \E n \in Room :
       window' = Settled(SelectPreset(
         [OnDisk(n) EXCEPT !.own = Restrict(@, DOMAIN @ \ {dialog[2]})], First))

(* The user cancels, or the disk refuses.                                  *)
Cancel == dialog # <<>> /\ dialog' = <<>> /\ UNCHANGED window

-----------------------------------------------------------------------------
(* applyControlRequest(): a request is served at the window and in its     *)
(* dialogs.  A flag is absent or has a value.  A name that nothing matches *)
(* is as good as absent.                                                   *)

Absent == "absent"

Flags ==
  [output : Output \cup {Absent}, preset : Builtin \cup Own \cup {Absent},
   amounts : {{a} : a \in Amounts} \cup {{}}, volume : {{v} : v \in Volumes} \cup {{}},
   by : {-1, 0, 1}, balance : {{b} : b \in Balances} \cup {{}}]

(* How many flags a request has.                                           *)
Given(r) ==
  Cardinality({f \in {"output", "preset"} : r[f] # Absent}
              \cup {f \in {"amounts", "volume", "balance"} : r[f] # {}}
              \cup {f \in {"by"} : r[f] # 0})

Requests == {r \in Flags : Given(r) \in 1 .. MaxFlags}

(* The slider clamps.                                                      *)
Stepped(volume, by) ==
  IF volume + by \in Volumes THEN volume + by ELSE volume

Routed(w, r) == IF r.output = Absent THEN w ELSE SetOutput(w, r.output)

Preset(w, r) == IF r.preset \notin Presets(w) THEN w ELSE SetPreset(w, r.preset)

(* The amounts, the volume, a step of it, the balance.                     *)
Moved(w, r) ==
  LET a == IF r.amounts = {} THEN w ELSE SetAmounts(w, CHOOSE x \in r.amounts : TRUE)
      v == IF r.volume = {} THEN a ELSE SetVolume(a, CHOOSE x \in r.volume : TRUE)
      s == SetVolume(v, Stepped(v.volume, r.by))
  IN IF r.balance = {} THEN s ELSE SetBalance(s, CHOOSE x \in r.balance : TRUE)

(* Mutant: the preset is chosen last.                                      *)
Answered_PresetLast(w, r) == Preset(Moved(Routed(w, r), r), r)

(* A fixed order, not that of the command line.                            *)
Answered(w, r) == Moved(Preset(Routed(w, r), r), r)

Serve ==
  /\ window.unsaved => ServesUnsaved
  /\ \E r \in Requests, n \in Room : window' = Settled(Answered(OnDisk(n), r))
  /\ UNCHANGED dialog

PanelNext ==
  \/ \E output \in Output : ChooseOutput(output)
  \/ ChooseInput \/ ChoosePreset \/ MoveSlider \/ Remember
  \/ AskToSave \/ AskToDelete \/ (\E name \in Own : SaveAs(name)) \/ Delete \/ Cancel
  \/ Serve \/ Relaunch

PanelSpec == PanelInit /\ [][PanelNext]_panelVars

-----------------------------------------------------------------------------
(* What the window shows, what the chain has been given and the settings   *)
(* never come apart, whoever moved what; else there would be "the window   *)
(* showing one thing and the engine doing another" (main_window.cpp        *)
(* 1459-1460).  The settings file is no older than the last save, unless   *)
(* the disk refused that one.  The profile of a remembered output "follows *)
(* whatever the user does next" (1204), and the box is ticked for those.   *)
ShownIsHeard ==
  /\ window.heard = [curve |-> Curve(window, window.preset), amounts |-> window.amounts,
                     volume |-> window.volume, balance |-> window.balance]
  /\ window.unsaved \/ window.file = window.settings
  /\ window.settings.shown = Shown(window) /\ window.settings.output = window.output
  /\ window.remember = (window.output \in DOMAIN window.settings.profiles)
  /\ window.remember => window.settings.profiles[window.output] = Shown(window)

(* "Switching back to it restores them" (417-418): what a remembered       *)
(* output was left with is what is shown once it is chosen again, and no   *)
(* profile is touched by a switch, however much has been changed between   *)
(* on other outputs, unless its preset has been deleted.                   *)
SwitchRestores ==
  [][\A output \in Output :
       LET profiles == window.settings.profiles
       IN ChooseOutput(output) /\ output \in DOMAIN profiles
            /\ profiles[output].preset \in Presets(window) =>
          /\ Shown(window') = profiles[output]
          /\ window'.settings.profiles = profiles]_panelVars

(* Everything a request asks for is shown in the end: neither the profile  *)
(* of the output nor the amounts of the preset that it also asks for undo  *)
(* it (1418-1429).                                                         *)
RequestIsHonoured ==
  \A r \in Requests :
    LET w == Answered(window, r)
    IN /\ r.output # Absent => w.output = r.output
       /\ r.preset \in Presets(window) => w.preset = r.preset
       /\ r.amounts # {} => w.amounts \in r.amounts
       /\ r.volume # {} /\ r.by = 0 => w.volume \in r.volume
       /\ r.balance # {} => w.balance \in {Detented(b) : b \in r.balance}
=============================================================================
