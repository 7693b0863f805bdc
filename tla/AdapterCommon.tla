--------------------------- MODULE AdapterCommon ---------------------------
(***************************************************************************)
(* The adapter object of the virtual device: starting and removing a       *)
(* device (src/driver/Source/Main/adapter.cpp), installing its two filters *)
(* and the cache that remembers them (Main/common.cpp).                    *)
(*                                                                         *)
(* A start is a chain of calls into the port class driver, each of which   *)
(* may fail; what has been done so far is undone or left for the removal.  *)
(* Several device objects may exist (a second device node, or the same one *)
(* plugged in again after a surprise removal), but one adapter object at a *)
(* time, because the work items of the recorder are static members.  The   *)
(* topology miniport refers to the adapter, the wave miniport points at it *)
(* without a reference, and the adapter refers to the wave port.           *)
(*                                                                         *)
(* External, from how the driver uses it: a registered filter can be       *)
(* opened; IRP_MN_REMOVE_DEVICE arrives when no handle is open, a surprise *)
(* removal at any time; the port class driver gives up the filters and the *)
(* power management registration when it handles the removal.  One device  *)
(* installs its two filters once, so the cache never answers an install.   *)
(***************************************************************************)
EXTENDS Naturals

CONSTANT Devices   \* device objects

VARIABLES
  phase,      \* how far StartDevice() of a device is, or how it ended
  adapter,    \* the adapter object of a device: "none", "new", "ready", "dying"
  holders,    \* references on it: "extension", "power" (the topology's is in sub)
  sub,        \* references on each filter: "registered", "cached", "handle", "etw"
  connected,  \* the physical connections are registered
  instances,  \* m_AdapterInstances
  leaked,     \* history: an allocation failed after the count was taken
  workItems   \* CSaveData::m_pWorkItems exists

adapterVars ==
  <<phase, adapter, holders, sub, connected, instances, leaked, workItems>>

Filters == {"topology", "wave"}
Alive(d, f) == sub[d][f] # {}

AdapterInit ==
  /\ phase = [d \in Devices |-> "added"]
  /\ adapter = [d \in Devices |-> "none"]
  /\ holders = [d \in Devices |-> {}]
  /\ sub = [d \in Devices |-> [f \in Filters |-> {}]]
  /\ connected = [d \in Devices |-> FALSE]
  /\ instances = 0 /\ leaked = FALSE /\ workItems = FALSE

\* Reference r on filter f is taken or given back.
Take(d, f, r) == [sub EXCEPT ![d][f] = @ \cup {r}]
Drop(d, f, r) == [sub EXCEPT ![d][f] = @ \ {r}]

-----------------------------------------------------------------------------
(* StartDevice.                                                            *)

\* Mutant: the count that admits one adapter is not looked at.
NewAdapter_Unguarded(d) ==
  /\ phase[d] = "added"
  /\ instances' = 1
  /\ adapter' = [adapter EXCEPT ![d] = "new"]
  /\ holders' = [holders EXCEPT ![d] = {"extension"}]
  /\ phase' = [phase EXCEPT ![d] = "init"]
  /\ UNCHANGED <<sub, connected, leaked, workItems>>

\* NewAdapterCommon, and the reference that StartDevice keeps in the extension.
NewAdapter(d) ==
  /\ phase[d] = "added" /\ instances = 0
  /\ instances' = 1
  /\ adapter' = [adapter EXCEPT ![d] = "new"]
  /\ holders' = [holders EXCEPT ![d] = {"extension"}]
  /\ phase' = [phase EXCEPT ![d] = "init"]
  /\ UNCHANGED <<sub, connected, leaked, workItems>>

\* The count is taken before the allocation and not given back when that fails.
NewAdapterFails(d) ==
  /\ phase[d] = "added" /\ instances = 0
  /\ instances' = 1 /\ leaked' = TRUE
  /\ phase' = [phase EXCEPT ![d] = "failed"]
  /\ UNCHANGED <<adapter, holders, sub, connected, workItems>>

\* STATUS_DEVICE_BUSY.
StartBusy(d) ==
  /\ phase[d] = "added" /\ instances = 1
  /\ phase' = [phase EXCEPT ![d] = "failed"]
  /\ UNCHANGED <<adapter, holders, sub, connected, instances, leaked, workItems>>

\* Init: the WDF device, the mixer and the static work items.
InitAdapter(d) ==
  /\ phase[d] = "init"
  /\ phase' = [phase EXCEPT ![d] = "power"]
  /\ adapter' = [adapter EXCEPT ![d] = "ready"]
  /\ workItems' = TRUE
  /\ UNCHANGED <<holders, sub, connected, instances, leaked>>

\* Init fails, with or without the work items made; or the power management
\* cannot be registered.  The adapter stays with the extension.
StartFails(d) ==
  /\ phase[d] \in {"init", "power"}
  /\ phase' = [phase EXCEPT ![d] = "failed"]
  /\ workItems' \in IF phase[d] = "init" THEN BOOLEAN ELSE {workItems}
  /\ UNCHANGED <<adapter, holders, sub, connected, instances, leaked>>

\* PcRegisterAdapterPowerManagement.
RegisterPower(d) ==
  /\ phase[d] = "power"
  /\ holders' = [holders EXCEPT ![d] = @ \cup {"power"}]
  /\ phase' = [phase EXCEPT ![d] = "topology"]
  /\ UNCHANGED <<adapter, sub, connected, instances, leaked, workItems>>

-----------------------------------------------------------------------------
(* InstallEndpointFilters.                                                 *)

\* InstallSubdevice and CacheSubdevice of filter f: the filter is registered or
\* not, and then remembered or not.
InstallSubdevice(d, f, next) ==
  /\ phase[d] = f
  /\ \E refs \in {{}, {"registered"}, {"registered", "cached"}} :
       sub' = [sub EXCEPT ![d][f] = refs]
  /\ phase' = [phase EXCEPT ![d] = next]
  /\ UNCHANGED <<adapter, holders, connected, instances, leaked, workItems>>

\* The status of the topology is overwritten by that of the wave filter.
InstallTopology(d) == InstallSubdevice(d, "topology", "wave")
InstallWave(d) == InstallSubdevice(d, "wave", "connect")

Both(d) == \A f \in Filters : Alive(d, f)

\* What InstallEndpointFilters returns when there is nothing to connect.
WaveInstalled(d) == "cached" \in sub[d]["wave"]

\* The filters are connected, or there is only the wave filter; the adapter
\* takes the wave port's logging interface if there is one.
InstallSucceeds(d) ==
  /\ phase[d] = "connect"
  /\ Both(d) \/ WaveInstalled(d)
  /\ connected' = [connected EXCEPT ![d] = Both(d)]
  /\ sub' \in {sub, Take(d, "wave", "etw")}
  /\ phase' = [phase EXCEPT ![d] = "queries"]
  /\ UNCHANGED <<adapter, holders, instances, leaked, workItems>>

\* UnregisterSubdevice and RemoveCachedSubdevice for both filters.
Unregistered(d) == [sub EXCEPT ![d] = [f \in Filters |-> @[f] \ {"registered", "cached"}]]

\* What has been created is unregistered (a refusal of that is ignored, and left
\* out) and forgotten; what a client has opened meanwhile is his until he closes it.
InstallFails(d) ==
  /\ phase[d] = "connect"
  /\ Both(d) \/ ~WaveInstalled(d)
  /\ sub' = Unregistered(d)
  /\ phase' = [phase EXCEPT ![d] = "failed"]
  /\ UNCHANGED <<adapter, holders, connected, instances, leaked, workItems>>

\* InstallEndpointRenderFilters returns the status of the last interface it asks
\* the wave port for, whatever InstallEndpointFilters has returned: an older
\* port class driver fails the start of a device that is complete.
Started(d) ==
  /\ phase[d] = "queries"
  /\ phase' \in {[phase EXCEPT ![d] = "started"], [phase EXCEPT ![d] = "refused"]}
  /\ UNCHANGED <<adapter, holders, sub, connected, instances, leaked, workItems>>

-----------------------------------------------------------------------------
(* Clients.                                                                *)

OpenHandle(d, f) ==
  /\ "registered" \in sub[d][f] /\ phase[d] # "gone"
  /\ sub' = Take(d, f, "handle")
  /\ UNCHANGED <<phase, adapter, holders, connected, instances, leaked, workItems>>

CloseHandle(d, f) ==
  /\ "handle" \in sub[d][f]
  /\ sub' = Drop(d, f, "handle")
  /\ UNCHANGED <<phase, adapter, holders, connected, instances, leaked, workItems>>

-----------------------------------------------------------------------------
(* PnpHandler.                                                             *)

Ended == {"started", "refused", "failed"}

\* EmptySubdeviceCache.
Cleanup(d) == [sub EXCEPT ![d] = [f \in Filters |-> @[f] \ {"cached"}]]

\* Cleanup empties the cache, and the reference of the extension is released.
SurpriseRemoval(d) ==
  /\ phase[d] \in Ended
  /\ sub' = Cleanup(d)
  /\ holders' = [holders EXCEPT ![d] = @ \ {"extension"}]
  /\ phase' = [phase EXCEPT ![d] = "gone"]
  /\ UNCHANGED <<adapter, connected, instances, leaked, workItems>>

\* The same, or nothing after a surprise removal; then the port class driver
\* lets go of the filters and of the adapter.
RemoveDevice(d) ==
  /\ phase[d] \in Ended \cup {"gone"}
  /\ \A f \in Filters : "handle" \notin sub[d][f]
  /\ sub' = Unregistered(d)   \* Cleanup, then the port class driver
  /\ holders' = [holders EXCEPT ![d] = {}]
  /\ connected' = [connected EXCEPT ![d] = FALSE]
  /\ phase' = [phase EXCEPT ![d] = "added"]
  /\ UNCHANGED <<adapter, instances, leaked, workItems>>

\* ~CAdapterCommon after the last reference: the work items are destroyed and
\* the wave port's interface is released ...
Destroy(d) ==
  /\ adapter[d] \in {"new", "ready"}
  /\ holders[d] = {} /\ ~Alive(d, "topology")
  /\ adapter' = [adapter EXCEPT ![d] = "dying"]
  /\ workItems' = FALSE
  /\ sub' = Drop(d, "wave", "etw")
  /\ UNCHANGED <<phase, holders, connected, instances, leaked>>

\* ... before the next adapter is let in.
Forget(d) ==
  /\ adapter[d] = "dying"
  /\ adapter' = [adapter EXCEPT ![d] = "none"]
  /\ instances' = 0
  /\ UNCHANGED <<phase, holders, sub, connected, leaked, workItems>>

-----------------------------------------------------------------------------

StartDevice(d) ==
  \/ NewAdapter(d) \/ NewAdapterFails(d) \/ StartBusy(d)
  \/ InitAdapter(d) \/ StartFails(d) \/ RegisterPower(d)
  \/ InstallTopology(d) \/ InstallWave(d) \/ InstallSucceeds(d) \/ InstallFails(d)
  \/ Started(d)

AdapterNext ==
  \E d \in Devices :
    \/ StartDevice(d)
    \/ \E f \in Filters : OpenHandle(d, f) \/ CloseHandle(d, f)
    \/ SurpriseRemoval(d) \/ RemoveDevice(d) \/ Destroy(d) \/ Forget(d)

AdapterSpec == AdapterInit /\ [][AdapterNext]_adapterVars

-----------------------------------------------------------------------------
(* Properties.                                                             *)

\* An install is all or nothing, although each filter's status is overwritten by
\* the next one's: a device that has failed to install leaves no filter that can
\* be opened, and one that has started has its wave filter registered, with the
\* topology connected if that is there too.
InstalledTogether ==
  \A d \in Devices :
    /\ phase[d] = "failed" =>
         \A f \in Filters : sub[d][f] \cap {"registered", "cached"} = {}
    /\ phase[d] \in {"started", "refused"} =>
         "registered" \in sub[d]["wave"] /\ (connected[d] <=> Both(d))

\* The static work items exist as long as a device that may record does: no
\* start or removal of another device object takes them away.
WorkItemsLive ==
  \A d \in Devices : adapter[d] = "ready" => workItems

\* The wave miniport's pointer to the adapter is not a reference; yet the
\* adapter is there as long as a client has the wave filter open, also after a
\* surprise removal.
AdapterOutlivesWave ==
  \A d \in Devices : "handle" \in sub[d]["wave"] => adapter[d] = "ready"

\* A start is refused as busy only while there is an adapter to be busy with, or
\* for ever after an allocation that failed: the count follows the objects.
BusyHasReason ==
  instances = 1 <=> leaked \/ \E d \in Devices : adapter[d] # "none"

\* What must be true of the device objects together, whatever fails in an install
\* and however starts and removals of several devices follow each other.
AdapterSound ==
  InstalledTogether /\ WorkItemsLive /\ AdapterOutlivesWave /\ BusyHasReason

=============================================================================
