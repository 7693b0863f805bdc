# AudioLens in TLA+

AudioLens (a C++20 / Qt application for Windows) taps what is played into one
output device, processes it, and plays it on another. Its repository also
holds a kernel driver for a virtual output device to tap. This directory holds
TLA+ modules translated from the source of both, the TLC configurations that
check them, and proofs checked by TLAPS. Paths are relative to the repository;
`engine/x.cpp` stands for `src/engine/x.cpp`, `driver/x.cpp` for
`driver/Source/Main/x.cpp`.

    tlc -config MCAudioEngine.cfg MCAudioEngine      # check a model
    tlapm AudioEngineProofs.tla                      # check the proofs

`PROJECT.json` lists the components, the runs, one deliberate bug (mutant) per
checked property, the source lines of every definition, the hazards and the
theorems.

## Inventory

| Component | State | Operations | Interacts with | Correct when |
|---|---|---|---|---|
| Ring buffer (`engine/ring_buffer.h`) | storage, two atomic indices | write, writeSilence, read, discard | one capture and one render thread | a FIFO queue; no slot used by both threads |
| Audio engine (`engine/audio_engine.cpp`) | run flags, fault text, ring, both threads' locals | start, stop, the two loops, faultReason, stats | controller (calls), endpoints (events, packets), DSP chain (call per packet), resampler | threads end before what they use; decisions on an old fill are safe; every wait ends; every self-made end has a reason |
| DSP chain (`dsp/dsp_chain.cpp`) | shared, target, current and built parameter sets | setParameters, process, prepare | GUI thread publishes, capture thread fetches | no torn set; what is published is heard |
| Resampler (`dsp/resampler.cpp`) | FIFO of input frames, fractional read position | setTrim, inputFramesWanted, push, pullOutput | render thread | what was asked for is enough |
| Limiter (`dsp/limiter.cpp`) | monotonic queue, delay line, gain in force | setSettings, processFrame, reset | DSP chain | the target is the minimum of the window; no peak over the ceiling |
| Audio controller (`app/audio_controller.cpp`) | wish, recovery, budget, timers | start, stop, setDevices, onDeviceChanged, poll | engine, device watcher (queued calls), window (signals) | a stop is final; a lost device is fetched back or given up on |
| Default device take-over (`app/default_device_guard.cpp`, `app/main_window.cpp`) | hold, restore targets, record in the settings file | acquire, release, repair, crash filter | Windows, settings file, controller, process life | the default is never left on the capture device |
| Window: presets, profiles, requests (`app/main_window.cpp`) | widgets, settings, device profiles, open dialog | one handler per widget, request, dialog | chain (applySettings), settings file, other launches | what is shown, heard and in the settings is one, and on disk once a save gets through |
| Settings store, presets (`app/settings_store.cpp`, `app/preset_json.cpp`, `core/preset.cpp`) | JSON files | load, save, resolve | window | whole files only; a boost is no passthrough |
| Device watcher (`engine/device_watcher.cpp`) | registration | start, stop, notify | MMDevice thread, queued to the GUI thread | no callback after stop |
| Single instance (`app/main.cpp`, `app/control_channel.cpp`, `app/control_request.cpp`) | named pipe, requests | claim, deliver, handle | other processes, window | at most one instance; every request answered once |
| Driver: stream (`driver/minwavertstream.cpp`) | KS state, buffer, two clocks, timer | SetState, buffers, positions, timer callback | client, timer, recorder | the two positions and the packet count agree |
| Driver: recorder (`driver/Source/Utilities/savedata.cpp`) | ring of frames, work items | WriteData, workers, WaitAllWorkItems | stream, system worker threads | no frame touched while it is saved; the stop waits |
| Driver: wave filter (`driver/minwavert.cpp`) | streams, content rights | NewStream, stream release, SetContentId, formats | port class driver | count, table and rights follow the streams |
| Driver: adapter (`driver/adapter.cpp`, `driver/common.cpp`) | adapter objects, filters, references | AddDevice to removal | plug and play, port class driver | installs are all or nothing; nothing outlives what it uses |
| Driver: properties (`driver/mintopo.cpp`, `driver/basetopo.cpp`, `driver/Source/Utilities/kshelper.cpp`, `hw.cpp`) | volume, mute | property requests | clients | what is announced is accepted |
| Filters and dynamics, endpoints, rest of the window, log, meters, tools, analysis | | | | not modelled, see below |

The driver is derived from Microsoft's simple audio sample and its README calls
it discontinued (2026-08-04): it is neither built nor used with the application,
which taps an existing virtual device. It is modelled because it is in the
repository as a record, with the concurrency the application does not have.

Threads of the application: the GUI thread (window, controller, watcher
callbacks once queued), the capture thread (which runs the DSP chain), the
render thread (which runs the resampler), the MMDevice notification thread.
Shared between them are the ring, the run flags and the fault text, the
parameter set with its sequence number, and the queue of events. In the driver:
the client's calls, the timer callback, the workers of the recorder, plug and
play. The hard parts are the lock-free accesses, values read in one access and
used in a later one, stops racing faults, retries racing notifications, event
loops nested in a dialog, and a process that may be killed while the default
output of Windows is borrowed.

## Modules

| Module | Models | Extended or used by |
|---|---|---|
| `SpscQueue` | abstract bounded queue | `RingBuffer` (refinement) |
| `RingBuffer` | `engine/ring_buffer.h` | `RingBufferProofs`, `MCRingBuffer` |
| `AudioEngine` | `engine/audio_engine.cpp` | `AudioEngineProofs`, `MCAudioEngine` |
| `DspChain` | parameters in `dsp/dsp_chain.cpp` | `DspChainProofs`, `MCDsp` |
| `Resampler` | `dsp/resampler.cpp` and the loop of the render thread around it | `ResamplerProofs`, `MCDsp` |
| `Limiter` | `dsp/limiter.cpp` | `DspChainProofs`, `MCDsp` |
| `ControllerPhase` | abstract controller: off, on, recovering, gaveUp | `AudioController` (refinement), `Takeover` (component) |
| `AudioController` | `app/audio_controller.cpp` | `AudioControllerProofs`, `MCAudioController` |
| `Takeover` | guard, window handlers, record, process life | `TakeoverProofs`, `MCTakeover` |
| `Panel` | presets, profiles, requests in `app/main_window.cpp` | `AudioControllerProofs`, `MCAudioController` |
| `SingleInstance` | `app/main.cpp`, `app/control_channel.cpp`, `app/control_request.cpp` | `SingleInstanceProofs`, `MCSingleInstance` |
| `WaveRtStream`, `SaveData`, `WaveRtMiniport`, `AdapterCommon` | the parts of the driver, in the order of the inventory | `DriverProofs`, `MCDriver` |
| `FilterProperties` | the property handlers of both filters of the driver | `DriverProofs`, `MCDriver` |

The composition follows the abstractions. `AudioEngine` uses the ring as a
number of frames whose operations are instantaneous, which is what
`RingBuffer => SpscQueue` justifies. `Takeover` uses the controller as its four
phases, which is what `AudioController => ControllerPhase` justifies; it holds
what the window and the controller have to say to each other. `AudioEngine`
lets the render thread ask for any number of frames, which covers what
`Resampler` asks for.

`MCDsp`, `MCAudioController` and `MCDriver` check several components that share
no variable: the variable `part` chooses in the first state which of them a
behaviour is about, and the others stay as they are. The state space is the sum
of the parts' and a property of one part is a property of its behaviours.

### RingBuffer

`write_`, `read_` and `data_` are `write`, `read`, `data`. A call is a Begin
step (load of the other side's index and cut of the request: `BeginWrite`,
`BeginRead`, `BeginDiscard`), one step per frame of the memcpy (`CopyIn`,
`CopyOut`) and a Publish step (store of the own index). A party's load of its
own index is not a step, since nobody else writes it. Acquire and release make
every interleaving of these steps the only behaviours; the frame copies are
plain accesses, so `NoSharedSlot` (the threads are never inside one slot) is
the absence of a data race and not an assumption.

### AudioEngine

`gpc` is the control thread, `cpc` the capture loop, `rpc` the render loop; a
value of a pc names the statement that comes next. Every access to the ring is
a step: check and write of a packet, load and write of the top-up, the three
accesses of the resync, the read. `seenFill` and `excess` are the values
carried from one access to the next. `reportFault()` is two steps. Failures
are possible wherever the code tests for one; a failure in the drain loop ends
the inner loop only, as in the code. Frames counters, levels, conversion and
the drift loop are left out: the drift loop decides how many frames the
resampler asks for, and `ReadRing` takes any number up to `MaxWanted`. The
count of idle wakes is capped at the value it is compared with.

### DspChain

Two of the parameters stand for all: `passthrough`, which follows at once, and
`gain` (outputGainDb), which ramps. Both sides copy the structure field by
field in any order, which covers what the compiler may do with the plain
assignment between the fences. The ramp goes any distance towards its goal in
a step and not past it. `built` is what the coefficients were last computed
for: they are computed again when the target is further from it than
`Tolerance`, and the property `PublishedIsHeard` is about them, not only about
the set fetched. Bypass, a separate atomic flag, is left out. `Resolved` is
what `resolveParameters()` can produce: passthrough only without a boost.

### Resampler

Positions are counted in `1/Unit` of a frame and one output frame advances the
position by one of `Steps` (the trim, set by `SetRatioTrim` between blocks).
`Request`, `Feed` and `PullOutput` are one block of the render thread: it may
push in several calls, with whatever the ring held and silence for the rest, and
a full FIFO turns frames away. `compact()` is part of the push it happens in.
Not the samples but their number is modelled.

### Limiter

Peaks, ceilings and gains are small integers, chosen so that every gain and
attack step is whole. A frame of the delay line is its peak and the ceiling it
was judged by. The queue is the array with head and tail the code has, wrapping
as it does. `SetSettings` changes ceiling and look-ahead under way.

### AudioController

`engine` is off, on, or dead (faulted, not stopped yet). Waits are counted in
polls. `events` are queued calls of `onDeviceChanged()`; a change of devices
queues one. `PollFault` to `PollHealthy` are the branches of `poll()`, in the
order of the code. `CanStart` and `CanFail` are the outcomes of
`engine_.start()`; with `FlakyStart` a start may fail on devices that are
there (that setting is covered by the proofs; under it the liveness properties
cannot hold). Signals, levels, the dropout and the health report are left out.

### Takeover

One handler of the window runs at a time (`pc`); switching a role of the
default and writing the file are steps, between which the process may be
killed or Windows may change the devices. `held`, `restoreId`, `fallbackId` are
the guard. A save replaces the file whole or leaves it (a full disk), and
nobody looks at the result: `settings` and `file` may differ. `Crash` is the
exception filter, which preempts the GUI thread.

The warning after a failed acquisition is modal, with an event loop of its own:
polls of the controller and requests of other launches are handled in the
middle of the handler that opened it, `below` being the places where the
handlers underneath go on. `MaxWarnings` bounds the nesting.

History variables: `taken` (the roles the application has pointed at its
capture device), `refused` (Windows has refused a call since the last one that
went through), `unsaved` (the disk has refused the save that the present state
would need). A start that fails out of a recovery drops the button, which runs
`onPowerToggled(false)` with its save (`Toggles`). The repair tries its second
candidate even when it is the first one again; the guard does not (`Refuse`).

### Panel

`window` is a record of what the widgets show, `settings_`, the settings file,
the user's presets on disk and what the chain has been given (`heard`). A
handler is an operator from window to window, so that one handler calling
another, as the widgets do, is composition of operators; an action is what one
event makes of it. Signals blocked in the code are calls left out. The three
amounts are set together and count as one. The dialogs for saving and deleting
a preset have event loops: requests are served while one is open, and
`dialog` remembers what it was opened about. `Relaunch` reads the file back.

`Persist` may be refused by the disk and nobody looks at the result, as in the
code. A refused save leaves the file of an earlier one, and the saves of one
event differ only in what they write, so an event chooses how many saves it
finds room for (`room`, at most `MaxSaves`); `unsaved`, a history variable, says
that the last one was refused. The run lets the event after a refused save find
room (`RefusesAgain = FALSE`) and serves no request before a save got through
(`ServesUnsaved = FALSE`), which keeps it short; the proofs cover all values of
the three.

### SingleInstance

A process is one run of `main()` (`pc`): it asks a running instance
(`FindNobody`, `Connect`, `Send`, `Receive`, `GiveUp`), claims the name of the
pipe (`Claim`, `LoseClaim`, each tried twice as `listen()` does), asks once
more if it has lost it, and builds the window. `link` is the connection of a
launch, `server` whom it reached; a request stays in the pipe after its client
has given up. The instance serves requests whenever an event loop runs: that of
`exec()`, or the nested one of the warning of `acquireDefaultDevice()`
(`dialog`), which may be open in the constructor (`BuildWarns`), in the
request of the instance itself (`ApplyOwn`) or in a request it serves. `CutOff`
is the five-second timer of a connection, `QuitIsLost` a `quit()` before
`exec()`. Of a command line only the flags that decide something are kept.
Qt and the pipe are external: a name belongs to its listener and goes with it,
an answer once written is read, a pipe nobody owns can be opened.
A request of several flags is carried out flag by flag, past those that fail
(a device or a preset that is not there, a start); the answer is then "refused"
although the rest has been done. `ServeInWindow` and `CloseDialog` choose it.
`asked` counts the calls of `sendToRunningInstance()`; `flawed` (a part of the
request failed), `carried` and `vanished` are history variables. A launch that
loses the name, and whose owner is gone when it asks again, carries on without
the channel and is then a second instance: `AloneUnlessVanished` states exactly
this exception.

### WaveRtStream

There is no hardware: positions are computed from the time that has passed.
Times are ages (`dmaAge`, `dpcAge`) counted in ticks; the timer callback, which
holds the spin lock from end to end, is one step, `SetState()` and
`SetWritePacket()` are several. `MaxLate` bounds how late a look at the clock
may be, `MaxLinear` the length of a run. There is no recording pin, and the
end-of-stream flag is refused, so branches that need either are left out.

### SaveData

The copying side (`ReadBytes`, which copies up to the end of the DMA buffer at
a time) against the workers: a work item is queued, saves under the file mutex,
gives the frame back, and sets its event last, each a step. At most `Workers`
threads are between the last two. `strayed` records that data has been dropped
and the two offsets have come apart, after which the code no longer guarantees
anything about frames; `torn` that a frame in a worker's hands was written to.
`FramesAreSafe` says that a copy lies in the frame that was tested and in the
buffer, that a used frame has a worker who gives it back, and, until data is
dropped or the stream stopped in mid-frame, that no frame is written while a
worker has it or has two workers. It does not count saves: a partial frame
handed out by a stop is not marked and the offset does not move on, so after a
restart it is completed and saved again (`savedata.cpp` 933-938).

### WaveRtMiniport

`NewStream()` goes through a chain of allocations (`built`), any of which may
fail and destroys the half-built stream; `UpdateSucceeds` and `UpdateFails` are
the port's answers to a mix of content ids. A stream keeps its new id even when
the port refuses to mix it; the history variable `unmixed` holds the streams
this has happened to since the last mix, and `RightsCoverStreams` excepts them.

### AdapterCommon

`phase` is how far the start of a device object has come; every call in the
chain may fail. `sub` holds the references on the two filters. Several device
objects exist, one adapter at a time (`instances`). Handles are opened and
closed at any time, a surprise removal comes at any time, the removal proper
only without handles, as plug and play has it.

### FilterProperties

`RequestControl` (volume, mute) and `RequestTable` (jack, formats, modes) are a
client's request with a buffer of any of `RequestSizes`; `AnswerOf` is the
handler's verdict on it, and `reply` records request, status, size and value.
`SizeAnswerHolds` asks the same request again with the size that was announced.
The mixer has one volume and one mute whatever the channel, as the code does.

## Runs

| Run | Bounds and why they are enough | Shows |
|---|---|---|
| `ring` | 3 frames (4 slots), blocks up to 3, 2 frame values: copies split after one and two frames, full ring, cut blocks | no slot shared; refinement of the queue |
| `engine` | period 2, ring 12 (the least `start()` builds), packets up to 3, requests up to 3, 2 idle wakes, 1 priming wake: packets shorter and longer than a period, resync, drop, top-up all occur | five safety properties, and that stops end, the hold-off ends and an empty ring is filled |
| `dsp` | gains -1..1, tolerance 2, three publications (one in force, one overlapping its fetch, one overlapping that); one and a half to two input frames per output frame, blocks that overfill the FIFO; six frames through a window of three, as many gains as fill the queue | whole sets, what is published is heard, no rise on the limiter-free path; blocks are never short; the limiter's minimum and its ceiling |
| `controller` | delays 2 and 3, two fast and three attempts in all, healthy after 2 polls, two queued events: both cadences, verdict, short and long runs. Window: two outputs, two built-in presets and one of the user's, requests of two flags, saves refused in any event that follows one which got through, at its first, its second or all of its saves | safety, liveness and refinement of the controller; the window's three properties |
| `takeover` | three devices (capture, output, one more), interchangeable, hence the symmetry set (only safety is checked with it); one nested warning | four invariants |
| `instance` | three launches (an instance, one that loses the name to it, one more), one kind of command line per branch of `main()` | three invariants, and that every launch concludes |
| `driver` | half-millisecond ticks, a buffer of two packets with a packet of whole milliseconds, looks up to 1.5 ms late, ten bytes of playing; frames of two buffers, two workers and as few work items as are enough; two system streams of three objects; two device objects; buffer sizes on both sides of every size a handler asks for | seven invariants, stillness while paused, stops return |
| `dsp_chain_latest` | two publications | **violated**: a set published while the flag is being cleared is lost |
| `resampler_demand` | one input frame per output frame, blocks up to 4 | **violated**: retired frames are asked for again, a block takes nothing or twice its input |
| `controller_flapping` | as `controller` | **violated**: a device that connects and drops is retried for ever |
| `takeover_repair` | as `takeover`, and the process may die in the repair | **violated**: the record is cleared before the restore |
| `takeover_routed` | as `takeover` | **violated**: running with the box ticked and the default not switched |

The five violated properties state what a comment, a header or a label says;
`findings` in `PROJECT.json` quotes them. In the run `takeover` the process does
not die in the repair (`DiesInRepair = FALSE`), because `takeover_repair` shows
what happens then.

Deadlock is checked in `ring`, `engine`, `controller` and `takeover`, whose
systems never stop. It is off in `instance`, where every process may have ended,
and in `dsp` and `driver`, where a part stops at a bound of the model (the
frames between two resets of the limiter, the bytes played in a run).

Some departures from a comment are in the models without a run of their own:
the boost that is still ramping down when the limiter-free path is entered
(`dsp/dsp_chain.cpp` 315-317; `PassthroughNeverRaises` bounds it), a second
instance after the owner of the name has vanished (`app/main.cpp` 189-219;
`AloneUnlessVanished` states the exception), requests refused in the warning of
the constructor (`app/main.cpp` 204-207), a connection cut off while it is being
served and then answered (`app/control_channel.cpp` 164-172), `--quit` forgotten
in a warning at startup, an `--off` in the warning of a start that the start
then overrules (`app/main_window.cpp` 1050), the driver's carries that survive a
stop (`driver/minwavertstream.cpp` 1179-1206; `PacketsArePlayed` holds up to
then) and its instance count that leaks with a failed allocation
(`driver/common.cpp` 382-397), its partial frame that is saved twice
(`driver/Source/Utilities/savedata.cpp` 933-938), and its content id: "Restore
the passed-in content Id" (`driver/minwavertstream.cpp` 1495) puts back
`ulOldContentId`, which was read from the new id (1485) and not from the stream,
so that nothing is restored and the stream has an id the mix does not know
(`RightsCoverStreams` excepts it until the next mix). `hazards` lists them.

### Fairness

* `AudioEngine`: weak fairness of each thread (the scheduler runs it; waits
  have timeouts), strong fairness of `RenderWake` (an endpoint consumes in real
  time, so there is room again and again) and of `NoPacket` (an endpoint
  delivers in real time, so the drain loop catches up), weak fairness of the
  join. Nothing forces a run to start, stop or fail. `CaptureFairness` is a
  hypothesis of the properties that need it, so that `PrimingEnds` is shown
  without it.
* `DspChain`: weak fairness of `Process` (packets keep coming). Publications
  are not fair.
* `AudioController`: weak fairness of the poll timer and of the event loop; an
  engine without its devices faults in the end. `NoStorm` (notifications cease)
  is a hypothesis: each one puts the next attempt two polls off, so without it
  the code really may wait for ever.
* `SingleInstance`: weak fairness of each launched process, whose waits all
  have timeouts. Nothing is asked of the instance it talks to.
* `SaveData`: weak fairness of each worker (the system runs its work items) and
  of the return of the wait. Nothing forces a stream to play or to stop.

The composed runs state the same fairness of the part that a behaviour is about.

## Proofs

All theorems hold for every value of the constants that the named assumptions
allow. In each proof module an inductive invariant is shown to hold initially,
to survive each action (a step per action) and to imply the properties.

* `RingBufferProofs`. `IInv` adds to the types that a call's count fits the
  free or filled part as seen *now* (`CopiesFit`; each side only ever increases
  what the other one sees), and that what is copied is right so far
  (`CopiesFaithful`). `NoSharedSlot` follows by arithmetic on the slots of the
  two chunks. `RingImplementsQueue` shows that Publish steps are Enqueue,
  Dequeue and Drop on the sequence of unread frames and all others stutters.
* `AudioEngineProofs`. Needed beyond the properties: the top-up's fill is only
  ever too high (`TopUpFillIsStale`), a thread on its way out of a fault has put
  a reason on record (`FaultOnRecord`), and only a run that was asked to stop is
  joined (`JoinIsRequested`). `RingFrames >= 6 * Period`, from
  `start()`, is what keeps the resync's difference from wrapping.
* `DspChainProofs`. The number is odd exactly while fields are written
  (`WriterOrder`), and as long as it has not moved the copy equals what is
  shared (`CopyIsCurrent`). `PassthroughIsQuiet` rests on the whole set.
  The module also proves the limiter, whose state is separate. The queue's
  entries are in order of time and of gain (`QueueIsOrdered`) and have the gains
  their frames asked for (`EntriesAreAskedFor`), and for every frame of the delay
  line there is an entry that came no earlier and asks for no more
  (`FramesAreCovered`): its head is then the least gain of the window
  (`LimiterTargetIsMinimum`), and it has at most one entry more than the line has
  frames (`LimiterQueueHolds`). For `LimiterBrickWall` the gain has been on its
  way to what a frame asks for ever since it came in (`GainIsOnItsWay`). No
  induction over the queue is needed: each entry is looked at by its place, and
  that there is a first one to keep comes from well-founded inclusion of finite
  sets. The assumption is that gains and attack steps are whole, as they are
  in the model's small integers.
* `ResamplerProofs`. What was asked for and not yet pushed, together with what
  is in the FIFO, always covers the block (`Covered`); the live frames begin at
  the first tap (`LiveStartsAtTaps`). The case that needs the capacity is the
  full FIFO that turns frames away: after it has been slid to the front it
  holds the longest block at the slowest ratio by itself. `RequestsAreBounded`
  bounds what is asked for, retired frames included (the violated run
  `resampler_demand` is about those).
* `AudioControllerProofs`. `NothingOnAccount` (no attempt is on the account
  while a run lasts) makes `RecoveryIsLive` inductive; it is also the reason
  for the flapping run. `ControllerImplementsPhases` maps each step to one of
  `ControllerPhase` or a stutter. The module holds the window's proof, too: each
  handler is an operator from windows to windows, and one lemma each shows that
  it takes a window that is `Sound` to one that is: the settings the chain gets
  are those on the screen (`Tracked`), the chain has what the screen shows
  (`Heard`), the profile is that of the screen and so is the file unless its last
  save was refused (`Kept`). That profiles
  hold balances already detented makes restoring one exact; an answer finds its
  preset because a dialog is about one that is there (`DialogTells`).
* `TakeoverProofs`. The job in progress determines the goal, the record and the
  step that follows (`CallTells`, `AcquireTells`), what is held is held for the
  devices in force (`HoldTells`), memory and disk differ only by a refused save
  (`FileTells`), and a record is about a default held, taken or given back
  (`RecordTells`). `SwitchIsOnRecord` and `NothingIsLeftBehind` are proved under
  `~DiesInRepair`, without which `takeover_repair` refutes what they rest on;
  the number of nested warnings is any.
* `SingleInstanceProofs`. For any number of launches: unless a listener has
  vanished, every instance is the listener and whoever has lost the name finds
  it listening (`OnlyTheOwner`); where a launch is, its connection and what its
  shell was told each determine whether its request has been carried out, and
  whether a part of it failed
  (`PlaceTells`, `LinkTells`, `OutcomeTells`).
* `DriverProofs`. Stream: the bytes accounted for are those of whole
  milliseconds (`WholeTicks`) and the packet clock is never ahead of the
  position clock (`ClocksAgree`), two clocks with a carry each that are looked
  at at different times. Recorder: a frame in hand is marked and has one worker
  (`RecorderTells`), the workers between giving back and signalling are at most
  as many as there are threads (`WorkersFit`), so that by counting there is
  always a free item for a full frame; and the copy stays inside the frame it
  tested as long as the offsets agree (`Aligned`, `CopyEnds`). Wave filter: a stream under
  construction has no content (`NewHasNoContent`). Adapter: power registration
  comes before any filter and goes after all of them (`FiltersTell`). Filters:
  every class of requests is answered truthfully whatever the sizes are
  (`Truthful`, one lemma per handler), and a volume is brought to a step because
  the range ends at steps (`NormalizedIsAStep`).

### Progress

The prover reaches no fairness, so the liveness properties stay with TLC. What
they rest on beside fairness is proved, for every value of the constants:
that nobody is blocked, and that what is left to do is a number which every step
of the party concerned lowers and no other step raises, within a bound known
beforehand. Weak fairness of that party is then all that is missing.

| Property (TLC) | Safety half (proved) | What is left to do, and who does it |
|---|---|---|
| `StopEndsThreads` | `FaultsBringStops`, `StopsAreShort` | `RenderSteps`, `CaptureSteps`: each thread's own. The capture thread's drain loop goes on while it finds packets, which is what strong fairness of `NoPacket` is for |
| `PrimingEnds` | `HoldOffIsShort` | `HoldOffLeft`: wakes of the render thread |
| `StarvationEnds` | `DryRingIsFilled` | `DryLeft`: idle wakes and top-up of the capture thread |
| `PublishedIsHeard` | `PublishedSetsArrive` | `HearingLeft`: the round of the audio thread, the copy started again at most once, then the ramp. It also says which publications are lost (`dsp_chain_latest`): those during the clearing of the flag |
| `RecoveryConcludes` | `RecoveriesAreShort`, `RecoveryRunsOut` | `PollsLeft`: polls, put off only by notifications |
| `ReturnMeansSound` | `SoundIsDue` | `PollsToSound`: polls with the devices there |
| `LaunchConcludes` | `LaunchesAreShort` | `StepsLeft`: six steps of the launch |
| `StopReturns` | `WorkersNeverBlock`, `StopDrains` | `StepsLeft`: three steps of each work item |

Only model-checked is therefore the step from these numbers to the liveness
properties, with `CaptureFairness` and `NoStorm` as hypotheses where it says so
above.

## Not modelled, and why

* Filters, compressor, de-esser, auto gain, the resampler's kernel, the
  interpolation of a preset's curve: floating-point arithmetic on samples,
  tested offline by the repository's tests. The modules that drive them
  (parameters, FIFO, limiter) are modelled.
* Endpoint wrappers and device enumeration: COM calls, modelled by their
  outcomes where the engine and the controller use them.
* Log, meters, translations, tray, autostart, layout, tools, WAV files,
  loudness: output or offline code, on which no state depends. The fill marks
  (`engine/audio_engine.cpp` 727) only feed the text of the health report.
* JSON field by field: a file is read and written as the record it holds.
* Of the driver: power management, registry and property store, the tone
  generator (its capture endpoint has been removed), the handlers of nodes its
  filters do not have, and data ranges and other constant tables. Stopping a
  device without removing it (`IRP_MN_STOP_DEVICE`, `driver/adapter.cpp` 818),
  which plug and play does only to rebalance resources this device has none of,
  and its restart with handles still open. The rounding of a requested buffer
  down to whole frames (`driver/minwavertstream.cpp` 484): the sizes of the
  model are whole. Of the property handlers: the GET verb of the proposed
  format (`driver/minwavert.cpp` 1189-1192) and the SET verb of its second form
  (1419-1422), which are refused or answered without state; the pin id that
  `IsSystemRenderPin` looks up unchecked (1149), the requests of the model being
  for pins that exist; and a missing value buffer, STATUS_UNSUCCESSFUL
  (`kshelper.cpp` 129).
* A packet that is announced with frames and acquired with none
  (`engine/audio_engine.cpp` 398): an endpoint promises the size it announces.
* Of the limiter's release, an exponential (`dsp/limiter.cpp` 116), only that it
  has not begun or is over, and of the resampler's feed the cut to the scratch
  buffer (`engine/audio_engine.cpp` 649-650), which is taken to hold what is
  asked for, as the comment at its allocation does (221-223).
* Weak memory beyond acquire/release on the ring's indices, and races on
  `std::wstring` in the crash filter.

## Plan

The plan of the first stage is carried out: resampler and limiter, the
presets with their device profiles, the proof of `Takeover`, and its handlers
inside the nested loop of a warning. What would come next:

1. The device watcher with its registration and its failure, on which giving
   up for good depends.
2. A `--quit` served in the warning of `Takeover`, which joins the process life
   of `SingleInstance` with the handlers of the window.
