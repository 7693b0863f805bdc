------------------------------ MODULE MCDriver ------------------------------
(***************************************************************************)
(* Model checking of the virtual audio device.  Its five parts share no    *)
(* variable: the model is their sum, and a behaviour is one of the part    *)
(* that is chosen in its first state.                                      *)
(***************************************************************************)
EXTENDS WaveRtStream, SaveData, WaveRtMiniport, AdapterCommon, FilterProperties

VARIABLE part

driverVars ==
  <<part, streamVars, saveVars, miniportVars, adapterVars, propertyVars>>

DriverInit ==
  /\ part \in {"stream", "recorder", "miniport", "adapter", "properties"}
  /\ StreamInit /\ SaveInit /\ MiniportInit /\ AdapterInit /\ PropertyInit

StreamPart ==
  /\ part = "stream" /\ StreamNext
  /\ UNCHANGED <<part, saveVars, miniportVars, adapterVars, propertyVars>>

RecorderPart(next) ==
  /\ part = "recorder" /\ next
  /\ UNCHANGED <<part, streamVars, miniportVars, adapterVars, propertyVars>>

MiniportPart ==
  /\ part = "miniport" /\ MiniportNext
  /\ UNCHANGED <<part, streamVars, saveVars, adapterVars, propertyVars>>

AdapterPart ==
  /\ part = "adapter" /\ AdapterNext
  /\ UNCHANGED <<part, streamVars, saveVars, miniportVars, propertyVars>>

PropertyPart ==
  /\ part = "properties" /\ PropertyNext
  /\ UNCHANGED <<part, streamVars, saveVars, miniportVars, adapterVars>>

DriverNext ==
  \/ StreamPart \/ RecorderPart(SaveNext) \/ MiniportPart \/ AdapterPart \/ PropertyPart

\* The fairness of SaveData.
DriverSpec ==
  /\ DriverInit /\ [][DriverNext]_driverVars
  /\ WF_driverVars(RecorderPart(Stopped))
  /\ \A i \in Items : WF_driverVars(RecorderPart(Worker(i)))

-----------------------------------------------------------------------------
(* Values: a volume range of two steps of four, and volumes on both sides  *)
(* of it; buffer sizes around everything the handlers ask for.             *)

SuppliedSizes == {0, 1, 2, 3, 5, 7}
AskedVolumes == {-11, -7, 3}
LowestVolume == -8

=============================================================================
