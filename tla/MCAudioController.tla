------------------------- MODULE MCAudioController -------------------------
(***************************************************************************)
(* Model checking of the controller and of the window that owns it.  What  *)
(* the controller tells the window and what the window asks of it is in    *)
(* Takeover; what is left shares no variable, and a behaviour is one of    *)
(* the part that is chosen in its first state.                             *)
(***************************************************************************)
EXTENDS AudioController, Panel

VARIABLE part

allVars == <<part, vars, panelVars>>

MCInit ==
  /\ part \in {"controller", "panel"}
  /\ Init /\ PanelInit
  /\ part = "controller" => window.output = CHOOSE output \in Output : TRUE
  /\ part = "panel" => present

ControllerPart(action) == part = "controller" /\ action /\ UNCHANGED <<part, panelVars>>

PanelPart == part = "panel" /\ PanelNext /\ UNCHANGED <<part, vars>>

MCNext == ControllerPart(Next) \/ PanelPart

\* The fairness of AudioController.
MCFairSpec ==
  /\ MCInit /\ [][MCNext]_allVars
  /\ WF_allVars(ControllerPart(Poll))
  /\ WF_allVars(ControllerPart(OnDeviceChanged))
  /\ WF_allVars(ControllerPart(EngineLosesDevice))

-----------------------------------------------------------------------------
(* Values: a built-in preset means its row; a balance in the detent, one   *)
(* off it.                                                                 *)

PresetAmounts == [preset \in Builtin |-> IF preset = First THEN 0 ELSE 1]

SomeBalances == {-1, 0}
=============================================================================
