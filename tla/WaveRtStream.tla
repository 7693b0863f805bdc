---------------------------- MODULE WaveRtStream ----------------------------
(***************************************************************************)
(* A playback stream of the virtual audio device                           *)
(* (src/driver/Source/Main/minwavertstream.cpp).                           *)
(*                                                                         *)
(* There is no hardware: positions are computed from the time that has     *)
(* passed whenever somebody asks, and a timer that expires every           *)
(* millisecond counts the packets and signals the client.  Two clocks run  *)
(* over the same time: m_ullDmaTimeStamp with its carry moves the          *)
(* positions, m_ullLastDPCTimeStamp with its own carry counts the packets. *)
(* The timer callback holds m_PositionSpinLock from end to end and is one  *)
(* step; SetState() takes the lock only for parts of what it does, so the  *)
(* client's transitions into and out of RUN are several steps.             *)
(*                                                                         *)
(* Time stamps are kept as the time since (ages).  Time passes in ticks of *)
(* 1/Ms of a millisecond, and the device moves Rate bytes in PerMs         *)
(* milliseconds.  m_bEoSReceived is never set (SetWritePacket refuses the  *)
(* flag, 963), so the branches that need it are left out; and there is no  *)
(* recording pin, so GetReadPacket() is never reached.                     *)
(***************************************************************************)
EXTENDS Integers

CONSTANTS
  Ms,          \* ticks in a millisecond
  Rate, PerMs, \* the device moves Rate bytes in PerMs milliseconds
  Sizes,       \* buffer sizes a client may ask for
  Counts,      \* notifications per buffer; 0 asks for a plain buffer
  MaxLate,     \* bound: ticks that a look at the clock, or the timer, may be late
  MaxLinear    \* bound: bytes played in a run

ASSUME StreamAssumption ==
  /\ {Ms, Rate, PerMs, MaxLate, MaxLinear} \subseteq Nat \ {0}
  /\ Sizes \subseteq Nat \ {0}
  /\ Counts \subseteq Nat

VARIABLES
  ksState,      \* m_KsState
  client,       \* where SetState() or SetWritePacket() is
  buffer,       \* m_ulDmaBufferSize, m_ulNotificationsPerBuffer, interval
  armed,        \* the timer is set
  dmaAge, dmaCarry, byteCarry,   \* since m_ullDmaTimeStamp; the two carries
  dpcAge, dpcCarry, dpcStamped,  \* since m_ullLastDPCTimeStamp; its carry; > 0
  linear, playPosition,          \* m_ullLinearPosition, m_ullPlayPosition
  packets,      \* m_llPacketCounter
  writePos, written, \* m_ulCurrentWritePosition, m_IsCurrentWritePositionUpdated
  restarted     \* history: stopped after having run

dmaClock == <<dmaAge, dmaCarry, byteCarry, linear, playPosition>>
dpcClock == <<dpcAge, dpcCarry, dpcStamped>>
packetState == <<writePos, written>>
streamVars ==
  <<ksState, client, buffer, armed, dmaClock, dpcClock, packets, packetState,
    restarted>>

KsStates == {"STOP", "ACQUIRE", "PAUSE", "RUN"}
NoBuffer == [size |-> 0, count |-> 0, interval |-> 0]
PacketSize == buffer.size \div buffer.count

StreamInit ==
  /\ ksState = "STOP" /\ client = [at |-> "idle"] /\ buffer = NoBuffer /\ armed = FALSE
  /\ dmaAge = 0 /\ dmaCarry = 0 /\ byteCarry = 0 /\ linear = 0 /\ playPosition = 0
  /\ dpcAge = 0 /\ dpcCarry = 0 /\ dpcStamped = FALSE
  /\ packets = 0 /\ writePos = 0 /\ written = FALSE
  /\ restarted = FALSE

-----------------------------------------------------------------------------
(* The clock.                                                              *)

\* UpdatePosition(): whole milliseconds become bytes, what is left over of both
\* divisions is carried to the next call.
ElapsedMs == (dmaAge + dmaCarry) \div Ms
Displacement == (Rate * ElapsedMs + byteCarry) \div PerMs

UpdatePosition ==
  /\ dmaCarry' = (dmaAge + dmaCarry) % Ms
  /\ byteCarry' = (Rate * ElapsedMs + byteCarry) % PerMs
  /\ playPosition' = (playPosition + Displacement) % buffer.size
  /\ linear' = linear + Displacement
  /\ dmaAge' = 0

\* Time passes while it is being measured.  (Nothing counts packets in a
\* buffer without an interval.)
Tick ==
  /\ armed \/ ksState = "RUN"
  /\ dmaAge < MaxLate /\ linear < MaxLinear
  /\ buffer.interval > 0 => dpcAge + dpcCarry < MaxLate + Ms * buffer.interval
  /\ dmaAge' = dmaAge + 1
  /\ dpcAge' = IF buffer.interval > 0 THEN dpcAge + 1 ELSE dpcAge
  /\ UNCHANGED <<ksState, client, buffer, armed, dmaCarry, byteCarry, linear,
       playPosition, dpcCarry, dpcStamped, packets, packetState, restarted>>

-----------------------------------------------------------------------------
(* The timer callback, TimerNotifyRT.                                      *)

NotificationDue == (dpcAge + dpcCarry) \div Ms >= buffer.interval

TimerIdle ==
  /\ armed /\ ~NotificationDue
  /\ UNCHANGED streamVars

\* A packet is complete.  Between ExSetTimer and the assignment of RUN the
\* state is still PAUSE: the packet is counted, but nobody is told.
TimerNotify ==
  /\ armed /\ NotificationDue
  /\ dpcCarry' = dpcAge + dpcCarry - Ms * buffer.interval
  /\ dpcAge' = 0 /\ dpcStamped' = TRUE
  /\ UpdatePosition
  /\ packets' = packets + 1
  /\ written' = IF ksState = "RUN" THEN FALSE ELSE written
  /\ UNCHANGED <<ksState, client, buffer, armed, writePos, restarted>>

-----------------------------------------------------------------------------
(* The client: its buffer.                                                 *)

Idle == client.at = "idle"

\* The interval is whole milliseconds, twice rounded down.
AllocateBufferWithNotification(size, count) ==
  /\ Idle /\ ksState = "STOP" /\ buffer.size = 0
  /\ count > 0 /\ size % count = 0
  /\ buffer' = [size |-> size, count |-> count,
                interval |-> ((size * PerMs) \div Rate) \div count]
  /\ UNCHANGED <<ksState, client, armed, dmaClock, dpcClock, packets, packetState,
       restarted>>

\* A plain buffer leaves an interval from an earlier buffer in place.
AllocateAudioBuffer(size) ==
  /\ Idle /\ ksState = "STOP" /\ buffer.size = 0
  /\ buffer' = [buffer EXCEPT !.size = size, !.count = 0]
  /\ UNCHANGED <<ksState, client, armed, dmaClock, dpcClock, packets, packetState,
       restarted>>

FreeBuffer ==
  /\ Idle /\ ksState = "STOP" /\ buffer.size > 0
  /\ buffer' = [buffer EXCEPT !.size = 0, !.count = 0]
  /\ UNCHANGED <<ksState, client, armed, dmaClock, dpcClock, packets, packetState,
       restarted>>

-----------------------------------------------------------------------------
(* The client: SetState, one step of the KS ladder at a time.              *)

\* Mutant: a stop that forgets the play position.
SetStop_KeepsPlayPosition ==
  /\ Idle /\ ksState = "ACQUIRE"
  /\ ksState' = "STOP"
  /\ packets' = 0 /\ linear' = 0 /\ writePos' = 0
  /\ restarted' = (restarted \/ dpcStamped)
  /\ UNCHANGED <<client, buffer, armed, dmaAge, dmaCarry, byteCarry, playPosition,
       dpcClock, written>>

\* Stopping resets positions and counters, none of the three carries.
SetStop ==
  /\ Idle /\ ksState = "ACQUIRE"
  /\ ksState' = "STOP"
  /\ packets' = 0 /\ linear' = 0 /\ playPosition' = 0
  /\ writePos' = 0
  /\ restarted' = (restarted \/ dpcStamped)
  /\ UNCHANGED <<client, buffer, armed, dmaAge, dmaCarry, byteCarry, dpcClock,
       written>>

SetAcquire ==
  /\ Idle /\ ksState \in {"STOP", "PAUSE"} /\ buffer.size > 0
  /\ ksState' = "ACQUIRE"
  /\ UNCHANGED <<client, buffer, armed, dmaClock, dpcClock, packets, packetState,
       restarted>>

\* Up the ladder, PAUSE does nothing but look at positions that stand still.
SetPauseUp ==
  /\ Idle /\ ksState = "ACQUIRE"
  /\ ksState' = "PAUSE"
  /\ UNCHANGED <<client, buffer, armed, dmaClock, dpcClock, packets, packetState,
       restarted>>

\* Mutant: setState(PAUSE) leaves the timer set.
PauseTimer_StaysSet ==
  /\ Idle /\ ksState = "RUN"
  /\ client' = [at |-> "pausing"]
  /\ UNCHANGED <<ksState, buffer, armed, dmaClock, dpcClock, packets, packetState,
       restarted>>

\* Out of RUN: the timer is cancelled and a callback in progress waited for ...
PauseTimer ==
  /\ Idle /\ ksState = "RUN"
  /\ client' = [at |-> "pausing"]
  /\ armed' = FALSE
  /\ UNCHANGED <<ksState, buffer, dmaClock, dpcClock, packets, packetState,
       restarted>>

\* ... the time since the last packet is kept ...
KeepCarry ==
  /\ client.at = "pausing"
  /\ client' = [at |-> "settling"]
  /\ dpcCarry' = IF buffer.interval > 0 /\ dpcStamped THEN dpcAge + dpcCarry ELSE dpcCarry
  /\ dpcAge' = 0
  /\ UNCHANGED <<ksState, buffer, armed, dmaClock, dpcStamped, packets, packetState,
       restarted>>

\* Mutant: a pause that brings the positions up to date only after the state is PAUSE,
\* that is, not at all: the packet clock keeps the time, the position loses it.
SettlePause_TooLate ==
  /\ client.at = "settling"
  /\ ksState' = "PAUSE" /\ client' = [at |-> "idle"] /\ dpcAge' = 0 /\ dmaAge' = 0
  /\ UNCHANGED <<buffer, armed, dmaCarry, byteCarry, linear, playPosition, dpcCarry,
       dpcStamped, packets, packetState, restarted>>

\* ... and the positions are brought up to date while the state is still RUN.
SettlePause ==
  /\ client.at = "settling"
  /\ UpdatePosition
  /\ ksState' = "PAUSE" /\ client' = [at |-> "idle"] /\ dpcAge' = 0
  /\ UNCHANGED <<buffer, armed, dpcCarry, dpcStamped, packets, packetState,
       restarted>>

\* Into RUN: both stamps are taken and the timer is set before the state changes.
StartTimer ==
  /\ Idle /\ ksState = "PAUSE"
  /\ client' = [at |-> "starting"]
  /\ dmaAge' = 0 /\ dpcAge' = 0 /\ dpcStamped' = TRUE
  /\ armed' = (buffer.interval > 0)
  /\ UNCHANGED <<ksState, buffer, dmaCarry, byteCarry, linear, playPosition, dpcCarry,
       packets, packetState, restarted>>

SettleRun ==
  /\ client.at = "starting"
  /\ ksState' = "RUN" /\ client' = [at |-> "idle"]
  /\ UNCHANGED <<buffer, armed, dmaClock, dpcClock, packets, packetState,
       restarted>>

-----------------------------------------------------------------------------
(* The client: positions and packets.                                      *)

\* GetPosition, GetPositions, GetPacketCount: the clock is read under the lock.
ReadPosition ==
  /\ Idle /\ ksState = "RUN" /\ dmaAge > 0
  /\ UpdatePosition
  /\ UNCHANGED <<ksState, client, buffer, armed, dpcClock, packets, packetState,
       restarted>>

\* SetWritePacket: the counter is read under the lock, judged after it ...
ExpectedPacket(counted) == counted + (IF ksState = "RUN" THEN 1 ELSE 0)

SampleCounter ==
  /\ Idle /\ buffer.count > 0
  /\ client' = [at |-> "writing", packet |-> ExpectedPacket(packets)]
  /\ UNCHANGED <<ksState, buffer, armed, dmaClock, dpcClock, packets, packetState,
       restarted>>

\* ... and the write position set under it again; any other packet number is
\* late or an overrun and changes nothing.
SetCurrentWritePosition(position) == writePos' = position /\ written' = TRUE

SetWritePacket ==
  /\ client.at = "writing"
  /\ SetCurrentWritePosition((client.packet % buffer.count) * PacketSize)
  /\ client' = [at |-> "idle"]
  /\ UNCHANGED <<ksState, buffer, armed, dmaClock, dpcClock, packets, restarted>>

-----------------------------------------------------------------------------

Timer == TimerIdle \/ TimerNotify

Buffers ==
  \/ \E size \in Sizes : \/ AllocateAudioBuffer(size)
                         \/ \E count \in Counts : AllocateBufferWithNotification(size, count)
  \/ FreeBuffer

SetState ==
  \/ SetStop \/ SetAcquire \/ SetPauseUp
  \/ PauseTimer \/ KeepCarry \/ SettlePause
  \/ StartTimer \/ SettleRun

Packets == ReadPosition \/ SampleCounter \/ SetWritePacket

StreamNext == Tick \/ Timer \/ Buffers \/ SetState \/ Packets

StreamSpec == StreamInit /\ [][StreamNext]_streamVars

-----------------------------------------------------------------------------
(* Properties.                                                             *)

\* Every variable stays in its range: the remainders carried by the position
\* clock are less than one unit, and the play position is inside the buffer.
StreamTypeOK ==
  /\ ksState \in KsStates
  /\ client.at \in {"idle", "pausing", "settling", "starting", "writing"}
  /\ buffer \in [size : Nat, count : Nat, interval : Nat]
  /\ {armed, dpcStamped, written, restarted} \subseteq BOOLEAN
  /\ {dmaAge, dpcAge, dpcCarry, linear, packets, writePos} \subseteq Nat
  /\ dmaCarry \in 0..Ms - 1 /\ byteCarry \in 0..PerMs - 1
  /\ playPosition \in Nat /\ (buffer.size > 0 => playPosition < buffer.size)

\* The offset that is reported to the client (m_ullPlayPosition) and the offset
\* the data is taken from (m_ullLinearPosition modulo the buffer, in ReadBytes)
\* are kept apart and reset apart, and never differ.
PositionsAgree ==
  buffer.size > 0 => playPosition = linear % buffer.size

\* A packet that has been counted has been played: the client that is told to
\* write the packet after the current one does not write where the device is
\* still reading.  The two clocks agree on this as long as a packet lasts whole
\* milliseconds and the stream has not been stopped after a run: a stop keeps
\* the carries and resets the positions they belong to.
WholeMilliseconds == buffer.interval * Rate = PacketSize * PerMs

PacketsArePlayed ==
  (buffer.count > 0 /\ WholeMilliseconds /\ ~restarted) =>
     packets * PacketSize * PerMs <= linear * PerMs + byteCarry

\* Nothing moves in a stream that has been paused: once SetState(PAUSE) has
\* returned no timer callback is under way any more, so positions and packets
\* stand still until the stream is run again or reset.
StillWhilePaused ==
  [][(Idle /\ ksState # "RUN") =>
       \/ UNCHANGED <<linear, playPosition, packets>>
       \/ linear' = 0 /\ playPosition' = 0 /\ packets' = 0]_streamVars

=============================================================================
