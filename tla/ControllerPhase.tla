-------------------------- MODULE ControllerPhase --------------------------
(***************************************************************************)
(* What the audio controller promises to the window that owns it           *)
(* (src/src/app/audio_controller.h): it is off, running, fetching a run    *)
(* back, or has given up on one, and only the user turns it off or on.     *)
(***************************************************************************)

VARIABLE phase

Phases == {"off", "on", "recovering", "gaveUp"}

Init == phase = "off"

(* The user's doing.                                                       *)
Start == phase # "on" /\ phase' = "on"

Stop == phase' = "off"

(* A run has ended on its own.                                             *)
Fault == phase = "on" /\ phase' = "recovering"

Reconnect == phase = "recovering" /\ phase' = "on"

GiveUp == phase = "recovering" /\ phase' = "gaveUp"

Rearm == phase = "gaveUp" /\ phase' = "recovering"

Unasked == Fault \/ Reconnect \/ GiveUp \/ Rearm

Next == Start \/ Stop \/ Unasked

Spec == Init /\ [][Next]_phase
=============================================================================
