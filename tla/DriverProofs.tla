----------------------------- MODULE DriverProofs -----------------------------
(***************************************************************************)
(* The safety properties of the five parts of the virtual audio device, for*)
(* every value of their constants: the positions and the packet clock of a *)
(* stream (WaveRtStream), the frames and the mutex of the recorder         *)
(* (SaveData), the streams and content rights of the wave miniport         *)
(* (WaveRtMiniport), the device objects (AdapterCommon), and the answers   *)
(* of the two filters (FilterProperties).                                  *)
(***************************************************************************)
EXTENDS WaveRtStream, SaveData, WaveRtMiniport, AdapterCommon, FilterProperties,
        FiniteSetTheorems, TLAPS

-----------------------------------------------------------------------------
(* Integer division.                                                       *)

LEMMA DivMod ==
  ASSUME NEW a \in Nat, NEW s \in Nat \ {0}
  PROVE  /\ a % s \in 0 .. s - 1 /\ a % s \in Nat /\ a \div s \in Nat
         /\ a = s * (a \div s) + (a % s)
BY SMTT(30)

LEMMA RemainderUnique ==
  ASSUME NEW s \in Nat \ {0}, NEW q1 \in Int, NEW q2 \in Int,
         NEW r1 \in 0 .. s - 1, NEW r2 \in 0 .. s - 1,
         s * q1 + r1 = s * q2 + r2
  PROVE  r1 = r2
<1>1. CASE q1 < q2
  <2>1. s * (q2 - q1) >= s
    <3>1. q2 - q1 >= 1
      BY <1>1
    <3> QED
      BY <3>1
  <2>2. s * (q2 - q1) = r1 - r2
    OBVIOUS
  <2> QED
    BY <2>1, <2>2
<1>2. CASE q1 > q2
  <2>1. s * (q1 - q2) >= s
    <3>1. q1 - q2 >= 1
      BY <1>2
    <3> QED
      BY <3>1
  <2>2. s * (q1 - q2) = r2 - r1
    OBVIOUS
  <2> QED
    BY <2>1, <2>2
<1> QED
  BY <1>1, <1>2

LEMMA RemainderOfSum ==
  ASSUME NEW a \in Nat, NEW d \in Nat, NEW s \in Nat \ {0}
  PROVE  ((a % s) + d) % s = (a + d) % s
<1> DEFINE x == (a % s) + d
           y == a + d
<1>1. a = s * (a \div s) + (a % s) /\ a % s \in Nat /\ a \div s \in Nat
  BY DivMod
<1>2. x \in Nat /\ y \in Nat
  BY <1>1
<1>3. x = s * (x \div s) + (x % s) /\ x % s \in 0 .. s - 1 /\ x \div s \in Nat
  BY <1>2, DivMod
<1>4. y = s * (y \div s) + (y % s) /\ y % s \in 0 .. s - 1 /\ y \div s \in Nat
  BY <1>2, DivMod
<1>5. s * ((a \div s) + (x \div s)) = s * (a \div s) + s * (x \div s)
  BY <1>1, <1>3
<1>6. y = s * (a \div s) + x
  BY <1>1
<1>7. (a \div s) + (x \div s) \in Int /\ y \div s \in Int
  BY <1>1, <1>3, <1>4
<1>8. s * ((a \div s) + (x \div s)) + (x % s) = s * (y \div s) + (y % s)
  <2> HIDE DEF x, y
  <2> QED
    BY <1>1, <1>2, <1>3, <1>4, <1>5, <1>6
<1> QED
  BY <1>3, <1>4, <1>7, <1>8, RemainderUnique

-----------------------------------------------------------------------------
(* The stream.                                                             *)

(* The timer is set only in a stream that runs or is about to, a stream    *)
(* that is not stopped has a buffer, one that is stopped is at its         *)
(* beginning, and no time is being measured but in a stream that runs or   *)
(* is about to.                                                            *)
StateTells ==
  /\ client.at \in {"pausing", "settling"} => ksState = "RUN" /\ ~armed
  /\ client.at = "starting" => ksState = "PAUSE"
  /\ armed => client.at = "starting" \/ ksState = "RUN"
  /\ ksState # "STOP" => buffer.size > 0
  /\ ksState = "STOP" => linear = 0 /\ playPosition = 0 /\ packets = 0
  /\ client.at = "writing" => client.packet \in Nat /\ buffer.count > 0
  /\ ksState # "RUN" /\ client.at # "starting" => dmaAge = 0 /\ dpcAge = 0

(* Bytes that the position clock has accounted for, in units of 1/PerMs.   *)
Moved == linear * PerMs + byteCarry

(* Those are the bytes of whole milliseconds.                              *)
WholeTicks == restarted \/ \E m \in Nat : Moved = Rate * m

(* The packet clock is never ahead of the position clock: the time of the  *)
(* packets counted and of the one under way is time that has been played   *)
(* or is about to be accounted for.                                        *)
PacketTime == packets * buffer.interval * Ms + dpcAge + dpcCarry

ClocksAgree ==
  restarted \/ Rate * PacketTime <= Ms * Moved + Rate * (dmaAge + dmaCarry)

(* A stream that has never run has accounted for nothing.                  *)
NeverRan ==
  /\ ~dpcStamped => /\ packets = 0 /\ dpcAge = 0 /\ dpcCarry = 0
                    /\ linear = 0 /\ byteCarry = 0
                    /\ ksState # "RUN" /\ ~armed /\ client.at # "starting"
  /\ ksState = "STOP" /\ dpcStamped => restarted

ClockInv == PositionsAgree /\ WholeTicks /\ ClocksAgree /\ PacketsArePlayed

StreamInv == StreamTypeOK /\ StateTells /\ NeverRan /\ ClockInv

LEMMA StreamStarts == StreamInit => StreamInv
<1> SUFFICES ASSUME StreamInit PROVE StreamInv
  OBVIOUS
<1> USE StreamAssumption DEF StreamAssumption
<1>1. StreamTypeOK
  <2>1. {armed, dpcStamped, written, restarted} \subseteq BOOLEAN
    BY Zenon DEF StreamInit
  <2>2. {dmaAge, dpcAge, dpcCarry, linear, packets, writePos} \subseteq Nat
    BY DEF StreamInit
  <2>3. dmaCarry \in 0 .. Ms - 1 /\ byteCarry \in 0 .. PerMs - 1
    BY DEF StreamInit
  <2>4. buffer \in [size : Nat, count : Nat, interval : Nat] /\ ~(buffer.size > 0)
    BY DEF StreamInit, NoBuffer
  <2>5. ksState \in KsStates /\ client.at = "idle" /\ playPosition \in Nat
    BY DEF StreamInit, KsStates
  <2> QED
    BY <2>1, <2>2, <2>3, <2>4, <2>5, Zenon DEF StreamTypeOK
<1>2. StateTells /\ NeverRan
  BY DEF StreamInit, StateTells, NeverRan, NoBuffer
<1>3. PositionsAgree /\ PacketsArePlayed
  BY DEF StreamInit, PositionsAgree, PacketsArePlayed, NoBuffer
<1>4. WholeTicks
  <2>1. Moved = Rate * 0
    BY DEF StreamInit, Moved
  <2> QED
    BY <2>1 DEF WholeTicks
<1>5. ClocksAgree
  BY DEF StreamInit, ClocksAgree, PacketTime, Moved, NoBuffer
<1> QED
  BY <1>1, <1>2, <1>3, <1>4, <1>5 DEF StreamInv, ClockInv

(* What UpdatePosition() does to the clock: nothing is lost, neither time  *)
(* nor bytes, and the two positions stay together.                         *)
LEMMA UpdateEffect ==
  ASSUME StreamTypeOK, UpdatePosition, buffer.size > 0
  PROVE  /\ ElapsedMs \in Nat
         /\ dmaAge' = 0 /\ dmaCarry' \in 0 .. Ms - 1 /\ byteCarry' \in 0 .. PerMs - 1
         /\ linear' \in Nat /\ linear' >= linear
         /\ playPosition' \in Nat /\ playPosition' < buffer.size
         /\ dmaAge + dmaCarry = Ms * ElapsedMs + dmaCarry'
         /\ Moved' = Moved + Rate * ElapsedMs
         /\ Moved \in Nat /\ Moved' \in Nat
         /\ PositionsAgree => playPosition' = linear' % buffer.size
<1> USE StreamAssumption DEF StreamAssumption
<1>1. /\ Ms \in Nat \ {0} /\ Rate \in Nat \ {0} /\ PerMs \in Nat \ {0}
      /\ dmaAge + dmaCarry \in Nat /\ byteCarry \in Nat /\ linear \in Nat
      /\ playPosition \in Nat /\ buffer.size \in Nat \ {0}
  BY DEF StreamTypeOK
<1>2. /\ dmaAge + dmaCarry = Ms * ElapsedMs + dmaCarry'
      /\ ElapsedMs \in Nat /\ dmaCarry' \in 0 .. Ms - 1
  BY <1>1, DivMod DEF UpdatePosition, ElapsedMs
<1>3. Rate * ElapsedMs \in Nat /\ Rate * ElapsedMs + byteCarry \in Nat
  BY <1>1, <1>2
<1>4. /\ Rate * ElapsedMs + byteCarry = PerMs * Displacement + byteCarry'
      /\ Displacement \in Nat /\ byteCarry' \in 0 .. PerMs - 1
  BY <1>1, <1>3, DivMod DEF UpdatePosition, Displacement
<1>5. linear' = linear + Displacement /\ linear' \in Nat /\ linear' >= linear
  BY <1>1, <1>4 DEF UpdatePosition
<1>6. Moved' = Moved + Rate * ElapsedMs
  <2>1. linear' * PerMs = linear * PerMs + PerMs * Displacement
    BY <1>1, <1>4, <1>5
  <2> QED
    BY <1>1, <1>3, <1>4, <2>1 DEF Moved
<1>7. Moved \in Nat /\ Moved' \in Nat
  BY <1>1, <1>3, <1>6 DEF Moved
<1>8. playPosition' \in Nat /\ playPosition' < buffer.size
  <2>1. playPosition + Displacement \in Nat
    BY <1>1, <1>4
  <2>2. (playPosition + Displacement) % buffer.size \in 0 .. buffer.size - 1
    BY <1>1, <2>1, DivMod
  <2>3. playPosition' = (playPosition + Displacement) % buffer.size
    BY DEF UpdatePosition
  <2> QED
    BY <1>1, <2>2, <2>3
<1>9. PositionsAgree => playPosition' = linear' % buffer.size
  <2> SUFFICES ASSUME PositionsAgree PROVE playPosition' = linear' % buffer.size
    OBVIOUS
  <2>1. playPosition' = ((linear % buffer.size) + Displacement) % buffer.size
    BY DEF PositionsAgree, UpdatePosition
  <2> QED
    BY <1>1, <1>4, <1>5, <2>1, RemainderOfSum
<1>10. dmaAge' = 0
  BY DEF UpdatePosition
<1> QED
  BY <1>2, <1>4, <1>5, <1>6, <1>7, <1>8, <1>9, <1>10

(* A step that leaves both clocks alone.                                   *)
LEMMA ClocksUntouched ==
  ASSUME ClockInv, UNCHANGED <<buffer, dmaClock, dpcClock, packets, restarted>>
  PROVE  ClockInv'
BY DEF ClockInv, dmaClock, dpcClock, PositionsAgree, WholeTicks, ClocksAgree, Moved,
   PacketTime, PacketsArePlayed, WholeMilliseconds, PacketSize

(* The packets counted have been played once the position has been brought *)
(* up to date: the milliseconds they take are whole.                       *)
LEMMA WholePackets ==
  ASSUME NEW p \in Nat, NEW m \in Nat, NEW c \in 0 .. Ms - 1,
         Rate * (p * Ms) <= Ms * (Rate * m) + Rate * c
  PROVE  Rate * p <= Rate * m
<1> USE StreamAssumption DEF StreamAssumption
<1>1. Rate * (p * Ms) <= Rate * (Ms * m + c)
  <2>1. Rate * (Ms * m + c) = Ms * (Rate * m) + Rate * c
    OBVIOUS
  <2> QED
    BY <2>1
<1>2. p * Ms <= Ms * m + c
  <2> DEFINE x == p * Ms
             y == Ms * m + c
  <2>1. x \in Nat /\ y \in Nat /\ Rate \in Nat /\ Rate > 0
    OBVIOUS
  <2>2. Rate * x <= Rate * y
    BY <1>1
  <2> HIDE DEF x, y
  <2>3. x <= y
    <3> SUFFICES ASSUME x >= y + 1 PROVE FALSE
      BY <2>1
    <3>1. Rate * x >= Rate * (y + 1)
      BY <2>1
    <3>2. Rate * (y + 1) = Rate * y + Rate
      BY <2>1
    <3> QED
      BY <2>1, <2>2, <3>1, <3>2
  <2> QED
    BY <2>3 DEF x, y
<1>3. p <= m
  <2> SUFFICES ASSUME p >= m + 1 PROVE FALSE
    OBVIOUS
  <2>1. p * Ms >= (m + 1) * Ms
    OBVIOUS
  <2>2. (m + 1) * Ms = Ms * m + Ms
    OBVIOUS
  <2> QED
    BY <1>2, <2>1, <2>2
<1> QED
  BY <1>3

(* The flags of a stream.                                                  *)
Flags == {armed, dpcStamped, written, restarted} \subseteq BOOLEAN

LEMMA FlagsStep ==
  ASSUME Flags, StreamNext
  PROVE  Flags'
<1>1. \/ armed' = armed \/ armed' = FALSE \/ armed' = (buffer.interval > 0)
  BY Zenon DEF StreamNext, streamVars, Tick, Timer, TimerIdle, TimerNotify, Buffers,
     AllocateBufferWithNotification, AllocateAudioBuffer, FreeBuffer, SetState, SetStop,
     SetAcquire, SetPauseUp, PauseTimer, KeepCarry, SettlePause, StartTimer, SettleRun,
     Packets, ReadPosition, SampleCounter, SetWritePacket
<1>2. armed' \in BOOLEAN
  <2>1. (buffer.interval > 0) \in BOOLEAN
    OBVIOUS
  <2> QED
    BY <1>1, <2>1, Zenon DEF Flags
<1>3. /\ dpcStamped' = dpcStamped \/ dpcStamped' = TRUE
      /\ written' = written \/ written' = FALSE \/ written' = TRUE
      /\ restarted' = restarted \/ restarted' = (restarted \/ dpcStamped)
  BY Zenon DEF StreamNext, streamVars, dpcClock, packetState, Tick, Timer, TimerIdle,
     TimerNotify, Buffers, AllocateBufferWithNotification, AllocateAudioBuffer,
     FreeBuffer, SetState, SetStop, SetAcquire, SetPauseUp, PauseTimer, KeepCarry,
     SettlePause, StartTimer, SettleRun, Packets, ReadPosition, SampleCounter,
     SetWritePacket, SetCurrentWritePosition
<1> QED
  BY <1>2, <1>3, Zenon DEF Flags

(* The rest of the type invariant.                                         *)
Ranges ==
  /\ ksState \in KsStates
  /\ client.at \in {"idle", "pausing", "settling", "starting", "writing"}
  /\ buffer \in [size : Nat, count : Nat, interval : Nat]
  /\ dmaAge \in Nat /\ dpcAge \in Nat /\ dpcCarry \in Nat
  /\ linear \in Nat /\ packets \in Nat /\ writePos \in Nat
  /\ dmaCarry \in 0 .. Ms - 1 /\ byteCarry \in 0 .. PerMs - 1
  /\ playPosition \in Nat /\ (buffer.size > 0 => playPosition < buffer.size)

LEMMA TypeParts == StreamTypeOK <=> Flags /\ Ranges
<1>1. {dmaAge, dpcAge, dpcCarry, linear, packets, writePos} \subseteq Nat <=>
        /\ dmaAge \in Nat /\ dpcAge \in Nat /\ dpcCarry \in Nat
        /\ linear \in Nat /\ packets \in Nat /\ writePos \in Nat
  BY Zenon
<1> QED
  BY <1>1, Zenon DEF StreamTypeOK, Flags, Ranges

(* A stream that is at its beginning: its buffer may be exchanged.         *)
LEMMA AtBeginning ==
  ASSUME Ranges', NeverRan', ksState' = "STOP", linear' = 0, playPosition' = 0,
         packets' = 0, dmaAge' = 0
  PROVE  ClockInv'
<1> USE StreamAssumption DEF StreamAssumption
<1>1. PositionsAgree'
  <2> SUFFICES ASSUME buffer'.size > 0 PROVE 0 % buffer'.size = 0
    BY DEF PositionsAgree
  <2>1. buffer'.size \in Nat \ {0}
    BY DEF Ranges
  <2> QED
    BY <2>1
<1>2. restarted' \/ (dpcAge' = 0 /\ dpcCarry' = 0 /\ byteCarry' = 0)
  BY DEF NeverRan
<1>3. WholeTicks'
  <2>1. ~restarted' => Moved' = Rate * 0
    BY <1>2 DEF Moved
  <2> QED
    BY <2>1 DEF WholeTicks
<1>4. ClocksAgree'
  <2> SUFFICES ASSUME ~restarted'
      PROVE Rate * PacketTime' <= Ms * Moved' + Rate * (dmaAge' + dmaCarry')
    BY DEF ClocksAgree
  <2>1. PacketTime' = 0
    <3>1. packets' * buffer'.interval * Ms = 0
      BY DEF Ranges
    <3> QED
      BY <1>2, <3>1 DEF PacketTime
  <2>2. Moved' = 0
    BY <1>2 DEF Moved
  <2>3. dmaCarry' \in Nat
    BY DEF Ranges
  <2> QED
    BY <2>1, <2>2, <2>3
<1>5. PacketsArePlayed'
  <2> SUFFICES ASSUME buffer'.count > 0
      PROVE packets' * PacketSize' * PerMs <= linear' * PerMs + byteCarry'
    BY DEF PacketsArePlayed
  <2>1. PacketSize' \in Nat
    <3>1. buffer'.size \in Nat /\ buffer'.count \in Nat \ {0}
      BY DEF Ranges
    <3> QED
      BY <3>1, DivMod DEF PacketSize
  <2>2. packets' * PacketSize' * PerMs = 0
    BY <2>1
  <2>3. linear' * PerMs = 0 /\ byteCarry' \in Nat
    BY DEF Ranges
  <2> QED
    BY <2>2, <2>3
<1> QED
  BY <1>1, <1>3, <1>4, <1>5 DEF ClockInv

(* A step that brings the position up to date and does not bring the time  *)
(* of the packets forward.                                                 *)
LEMMA UpdateKeepsClocks ==
  ASSUME Flags, Ranges, ClockInv, UpdatePosition, buffer.size > 0, Ranges',
         buffer' = buffer, restarted' = restarted, PacketTime' <= PacketTime
  PROVE  ClockInv'
<1> USE StreamAssumption DEF StreamAssumption
<1>0. StreamTypeOK
  BY TypeParts
<1>1. /\ ElapsedMs \in Nat /\ dmaAge' = 0 /\ dmaCarry' \in 0 .. Ms - 1
      /\ linear' \in Nat
      /\ dmaAge + dmaCarry = Ms * ElapsedMs + dmaCarry'
      /\ Moved' = Moved + Rate * ElapsedMs
      /\ Moved \in Nat /\ Moved' \in Nat
      /\ PositionsAgree => playPosition' = linear' % buffer.size
  BY <1>0, UpdateEffect
<1>2. PositionsAgree'
  BY <1>1 DEF ClockInv, PositionsAgree
<1>3. WholeTicks'
  <2> SUFFICES ASSUME ~restarted PROVE \E m \in Nat : Moved' = Rate * m
    BY DEF WholeTicks
  <2>1. PICK m \in Nat : Moved = Rate * m
    BY DEF ClockInv, WholeTicks
  <2>2. Moved' = Rate * (m + ElapsedMs) /\ m + ElapsedMs \in Nat
    <3>1. Rate * (m + ElapsedMs) = Rate * m + Rate * ElapsedMs
      BY <1>1
    <3> QED
      BY <1>1, <2>1, <3>1
  <2> QED
    BY <2>2
<1>4. PacketTime \in Nat /\ PacketTime' \in Nat
  BY DEF PacketTime, Ranges
<1>5. ~restarted => Rate * PacketTime' <= Ms * Moved' + Rate * dmaCarry'
  <2> SUFFICES ASSUME ~restarted
      PROVE Rate * PacketTime' <= Ms * Moved' + Rate * dmaCarry'
    OBVIOUS
  <2>1. Rate * PacketTime' <= Rate * PacketTime
    BY <1>4
  <2>2. Rate * PacketTime <= Ms * Moved + Rate * (dmaAge + dmaCarry)
    BY DEF ClockInv, ClocksAgree
  <2>3. Rate * (dmaAge + dmaCarry) = Ms * (Rate * ElapsedMs) + Rate * dmaCarry'
    BY <1>1
  <2>4. Ms * Moved' = Ms * Moved + Ms * (Rate * ElapsedMs)
    BY <1>1
  <2>5. /\ Rate * PacketTime \in Int /\ Rate * PacketTime' \in Int
        /\ Ms * Moved \in Int /\ Ms * Moved' \in Int
        /\ Ms * (Rate * ElapsedMs) \in Int /\ Rate * dmaCarry' \in Int
    BY <1>1, <1>4
  <2> QED
    BY <2>1, <2>2, <2>3, <2>4, <2>5
<1>6. ClocksAgree'
  BY <1>1, <1>5 DEF ClocksAgree
<1>7. PacketsArePlayed'
  <2> SUFFICES ASSUME buffer.count > 0, WholeMilliseconds, ~restarted
      PROVE packets' * PacketSize * PerMs <= linear' * PerMs + byteCarry'
    BY DEF PacketsArePlayed, WholeMilliseconds, PacketSize
  <2> DEFINE p == packets' * buffer.interval
  <2>1. p \in Nat /\ packets' \in Nat /\ buffer.interval \in Nat
    BY DEF Ranges
  <2>2. PICK m \in Nat : Moved' = Rate * m
    BY <1>3 DEF WholeTicks
  <2>3. p * Ms <= PacketTime' /\ p * Ms \in Nat
    BY <2>1 DEF PacketTime, Ranges
  <2>4. Rate * (p * Ms) <= Rate * PacketTime'
    <3> HIDE DEF p
    <3> QED
      BY <1>4, <2>3
  <2>5. Rate * (p * Ms) <= Ms * (Rate * m) + Rate * dmaCarry'
    <3>1. Rate * (p * Ms) \in Int /\ Rate * PacketTime' \in Int
      BY <1>4, <2>3
    <3>2. Ms * Moved' \in Int /\ Rate * dmaCarry' \in Int
      BY <1>1
    <3> HIDE DEF p
    <3> QED
      BY <1>5, <2>2, <2>4, <3>1, <3>2
  <2>6. Rate * p <= Rate * m
    BY <1>1, <2>1, <2>5, WholePackets
  <2>7. packets' * PacketSize * PerMs = Rate * p
    <3>1. PacketSize \in Nat
      <4>1. buffer.size \in Nat /\ buffer.count \in Nat \ {0}
        BY DEF Ranges
      <4> QED
        BY <4>1, DivMod DEF PacketSize
    <3>2. packets' * PacketSize * PerMs = packets' * (PacketSize * PerMs)
      BY <2>1, <3>1
    <3>3. PacketSize * PerMs = buffer.interval * Rate
      BY DEF WholeMilliseconds
    <3>4. packets' * (buffer.interval * Rate) = Rate * p
      BY <2>1
    <3> QED
      BY <3>2, <3>3, <3>4
  <2>8. Rate * m = linear' * PerMs + byteCarry'
    BY <2>2 DEF Moved
  <2> QED
    BY <2>6, <2>7, <2>8
<1> QED
  BY <1>2, <1>3, <1>6, <1>7 DEF ClockInv

LEMMA LessTime ==
  ASSUME NEW b \in Nat, NEW x \in Nat, NEW y \in Nat, NEW u \in Nat, NEW v \in Nat,
         u + v <= x + y
  PROVE  b + u + v \in Nat /\ b + u + v <= b + x + y
OBVIOUS

(* A step that only moves the time of the packets back.                    *)
LEMMA EarlierPackets ==
  ASSUME Ranges, ClocksAgree, UNCHANGED <<dmaAge, dmaCarry, linear, byteCarry, restarted>>,
         PacketTime' \in Nat, PacketTime' <= PacketTime
  PROVE  ClocksAgree'
<1> USE StreamAssumption DEF StreamAssumption
<1> SUFFICES ASSUME ~restarted
    PROVE Rate * PacketTime' <= Ms * Moved' + Rate * (dmaAge' + dmaCarry')
  BY DEF ClocksAgree
<1>1. PacketTime \in Nat /\ Moved \in Nat /\ Moved' = Moved
  BY DEF Ranges, PacketTime, Moved
<1>2. Rate * PacketTime' <= Rate * PacketTime
  BY <1>1
<1>3. Rate * PacketTime <= Ms * Moved + Rate * (dmaAge + dmaCarry)
  BY DEF ClocksAgree
<1>4. /\ Rate * PacketTime \in Int /\ Rate * PacketTime' \in Int
      /\ Ms * Moved + Rate * (dmaAge + dmaCarry) \in Int
  BY <1>1 DEF Ranges
<1> QED
  BY <1>1, <1>2, <1>3, <1>4

StreamStates == Ranges /\ StateTells /\ NeverRan

(* A stopped stream that stays where it is gets another buffer.            *)
LEMMA BuffersStep ==
  ASSUME StreamInv, Buffers
  PROVE  StreamStates' /\ ClockInv'
<1> USE StreamAssumption DEF StreamAssumption
<1>1. Ranges /\ StateTells /\ NeverRan
  BY TypeParts DEF StreamInv
<1> DEFINE Exchanged ==
             /\ ksState = "STOP" /\ client.at = "idle"
             /\ UNCHANGED <<ksState, client, armed, dmaClock, dpcClock, packets,
                            packetState, restarted>>
             /\ buffer' \in [size : Nat, count : Nat, interval : Nat]
             /\ playPosition = 0
<1>2. Exchanged
  <2>1. CASE FreeBuffer
    BY <1>1, <2>1 DEF FreeBuffer, Idle, Ranges, StateTells
  <2>2. ASSUME NEW size \in Sizes, AllocateAudioBuffer(size)
        PROVE  Exchanged
    BY <1>1, <2>2 DEF AllocateAudioBuffer, Idle, Ranges, StateTells
  <2>3. ASSUME NEW size \in Sizes, NEW count \in Counts,
               AllocateBufferWithNotification(size, count)
        PROVE  Exchanged
    <3>1. size \in Nat /\ count \in Nat \ {0}
      <4>1. Sizes \subseteq Nat /\ Counts \subseteq Nat
        OBVIOUS
      <4>2. count > 0
        BY <2>3 DEF AllocateBufferWithNotification
      <4> QED
        BY <4>1, <4>2
    <3>2. size * PerMs \in Nat
      BY <3>1
    <3>3. (size * PerMs) \div Rate \in Nat
      BY <3>2, DivMod
    <3>4. ((size * PerMs) \div Rate) \div count \in Nat
      BY <3>1, <3>3, DivMod
    <3> QED
      BY <1>1, <2>3, <3>1, <3>4
      DEF AllocateBufferWithNotification, Idle, Ranges, StateTells
  <2> QED
    BY <2>1, <2>2, <2>3 DEF Buffers
<1>3. Ranges'
  BY <1>1, <1>2 DEF Ranges, dmaClock, dpcClock, packetState
<1>4. StateTells' /\ NeverRan'
  BY <1>1, <1>2 DEF StateTells, NeverRan, dmaClock, dpcClock
<1>5. ClockInv'
  BY <1>1, <1>2, <1>3, <1>4, AtBeginning DEF dmaClock, StateTells
<1> QED
  BY <1>3, <1>4, <1>5 DEF StreamStates

LEMMA StreamStep == StreamInv /\ [StreamNext]_streamVars => StreamInv'
<1> SUFFICES ASSUME StreamInv, [StreamNext]_streamVars
    PROVE  StreamInv'
  OBVIOUS
<1> USE StreamAssumption DEF StreamAssumption
<1>1. Flags /\ Ranges /\ StateTells /\ NeverRan /\ ClockInv
  BY TypeParts DEF StreamInv
<1>2. CASE UNCHANGED streamVars
  <2>1. Flags' /\ Ranges' /\ StateTells' /\ NeverRan'
    BY <1>1, <1>2, Zenon DEF streamVars, dmaClock, dpcClock, packetState, Flags, Ranges,
       StateTells, NeverRan
  <2>2. ClockInv'
    BY <1>1, <1>2, ClocksUntouched DEF streamVars
  <2> QED
    BY <2>1, <2>2, TypeParts, PTL DEF StreamInv
<1>3. CASE StreamNext
  <2>1. Flags'
    BY <1>1, <1>3, FlagsStep
  <2>0. StreamTypeOK' <=> Flags' /\ Ranges'
    BY TypeParts, PTL
  <2> SUFFICES StreamStates' /\ ClockInv'
    BY <2>1, <2>0, Zenon DEF StreamInv, StreamStates
  <2> USE <1>1 DEF Ranges, StateTells, NeverRan, StreamStates, Idle
  <2>2. CASE Tick
    <3>1. Ranges' /\ StateTells' /\ NeverRan'
      BY <2>2 DEF Tick, packetState
    <3>2. PositionsAgree' /\ WholeTicks' /\ PacketsArePlayed'
      BY <2>2 DEF Tick, ClockInv, PositionsAgree, WholeTicks, Moved, PacketsArePlayed,
         WholeMilliseconds, PacketSize
    <3>3. ClocksAgree'
      <4> SUFFICES ASSUME ~restarted
          PROVE Rate * PacketTime' <= Ms * Moved' + Rate * (dmaAge' + dmaCarry')
        BY <2>2 DEF ClocksAgree, Tick
      <4>1. PacketTime' <= PacketTime + 1 /\ Moved' = Moved
        BY <2>2 DEF Tick, PacketTime, Moved
      <4>2. Rate * PacketTime <= Ms * Moved + Rate * (dmaAge + dmaCarry)
        BY DEF ClockInv, ClocksAgree
      <4>3. PacketTime \in Int /\ PacketTime' \in Int /\ Moved \in Nat
        BY <3>1 DEF PacketTime, Moved
      <4>4. Rate * PacketTime' <= Rate * (PacketTime + 1)
        BY <4>1, <4>3
      <4>5. Rate * (PacketTime + 1) = Rate * PacketTime + Rate
        BY <4>3
      <4>6. dmaAge' + dmaCarry' = dmaAge + dmaCarry + 1
        BY <2>2 DEF Tick
      <4>7. Rate * (dmaAge + dmaCarry + 1) = Rate * (dmaAge + dmaCarry) + Rate
        OBVIOUS
      <4>8. /\ Rate * PacketTime \in Int /\ Rate * PacketTime' \in Int
            /\ Ms * Moved \in Int /\ Rate * (dmaAge + dmaCarry) \in Int
        BY <4>3
      <4> QED
        BY <4>1, <4>2, <4>4, <4>5, <4>6, <4>7, <4>8
    <3> QED
      BY <3>1, <3>2, <3>3 DEF ClockInv
  <2>3. CASE TimerNotify
    <3>1. /\ dmaAge' = 0 /\ dmaCarry' \in 0 .. Ms - 1 /\ byteCarry' \in 0 .. PerMs - 1
          /\ linear' \in Nat /\ playPosition' \in Nat /\ playPosition' < buffer.size
      BY <2>3, TypeParts, UpdateEffect DEF TimerNotify
    <3>2. Ms * buffer.interval <= dpcAge + dpcCarry /\ Ms * buffer.interval \in Nat
      <4> DEFINE q == (dpcAge + dpcCarry) \div Ms
      <4>1. q >= buffer.interval
        BY <2>3 DEF TimerNotify, NotificationDue
      <4>2. dpcAge + dpcCarry \in Nat
        OBVIOUS
      <4>3. dpcAge + dpcCarry = Ms * q + ((dpcAge + dpcCarry) % Ms) /\ q \in Nat
            /\ (dpcAge + dpcCarry) % Ms \in Nat
        BY <4>2, DivMod
      <4>4. buffer.interval \in Nat
        OBVIOUS
      <4> HIDE DEF q
      <4>5. Ms * q >= Ms * buffer.interval
        BY <4>1, <4>3, <4>4
      <4> QED
        BY <4>3, <4>4, <4>5
    <3>3. Ranges'
      BY <2>3, <3>1, <3>2 DEF TimerNotify
    <3>4. StateTells' /\ NeverRan'
      BY <2>3, <3>1 DEF TimerNotify
    <3>5. PacketTime' = PacketTime
      <4>1. (packets + 1) * buffer.interval * Ms
              = packets * buffer.interval * Ms + Ms * buffer.interval
        OBVIOUS
      <4>2. packets * buffer.interval * Ms \in Int
        OBVIOUS
      <4> QED
        BY <2>3, <3>2, <4>1, <4>2 DEF TimerNotify, PacketTime
    <3>6. PacketTime \in Nat
      BY DEF PacketTime
    <3>7. ClockInv'
      BY <2>3, <3>3, <3>5, <3>6, UpdateKeepsClocks DEF TimerNotify
    <3> QED
      BY <3>3, <3>4, <3>7
  <2>4. CASE Buffers
    BY <2>4, BuffersStep
  <2>5. CASE SetStop
    <3>0. (dpcStamped => restarted') /\ (restarted => restarted')
      BY <2>5, Zenon DEF SetStop
    <3>1. Ranges' /\ StateTells' /\ NeverRan'
      <4>1. Ranges' /\ StateTells'
        BY <2>5 DEF SetStop, dpcClock, KsStates
      <4> QED
        BY <2>5, <3>0, <4>1 DEF SetStop, dpcClock
    <3>2. ClockInv'
      BY <2>5, <3>1, AtBeginning DEF SetStop
    <3> QED
      BY <3>1, <3>2
  <2>6. CASE KeepCarry
    <3>1. Ranges' /\ StateTells' /\ NeverRan'
      BY <2>6 DEF KeepCarry, dmaClock, packetState
    <3>2. PositionsAgree' /\ WholeTicks' /\ PacketsArePlayed'
      BY <2>6 DEF KeepCarry, dmaClock, ClockInv, PositionsAgree, WholeTicks, Moved,
         PacketsArePlayed, WholeMilliseconds, PacketSize
    <3>3. ClocksAgree'
      <4>1. packets * buffer.interval * Ms \in Nat
        OBVIOUS
      <4>2. dpcAge' + dpcCarry' <= dpcAge + dpcCarry /\ dpcAge' + dpcCarry' \in Nat
        BY <2>6 DEF KeepCarry
      <4>3. PacketTime' = packets * buffer.interval * Ms + dpcAge' + dpcCarry'
        BY <2>6 DEF KeepCarry, PacketTime
      <4>4. PacketTime' \in Nat /\ PacketTime' <= PacketTime
        <5> DEFINE b == packets * buffer.interval * Ms
        <5>1. PacketTime = b + dpcAge + dpcCarry /\ b \in Nat
          BY <4>1 DEF PacketTime
        <5>2. PacketTime' = b + dpcAge' + dpcCarry'
          BY <4>3
        <5>3. dpcAge' \in Nat /\ dpcCarry' \in Nat
          BY <3>1
        <5>4. dpcAge \in Nat /\ dpcCarry \in Nat
          OBVIOUS
        <5>5. b + dpcAge' + dpcCarry' \in Nat
              /\ b + dpcAge' + dpcCarry' <= b + dpcAge + dpcCarry
          BY <4>2, <5>1, <5>3, <5>4, LessTime
        <5> QED
          BY <5>1, <5>2, <5>5
      <4> QED
        BY <2>6, <4>4, EarlierPackets DEF KeepCarry, dmaClock, ClockInv
    <3> QED
      BY <3>1, <3>2, <3>3 DEF ClockInv
  <2>7. CASE SettlePause
    <3>1. /\ dmaAge' = 0 /\ dmaCarry' \in 0 .. Ms - 1 /\ byteCarry' \in 0 .. PerMs - 1
          /\ linear' \in Nat /\ playPosition' \in Nat /\ playPosition' < buffer.size
      BY <2>7, TypeParts, UpdateEffect DEF SettlePause
    <3>2. Ranges'
      BY <2>7, <3>1 DEF SettlePause, packetState, KsStates
    <3>3. StateTells' /\ NeverRan'
      BY <2>7, <3>1 DEF SettlePause
    <3>4. PacketTime' <= PacketTime
      <4>1. packets * buffer.interval * Ms \in Int
        OBVIOUS
      <4> QED
        BY <2>7, <4>1 DEF SettlePause, PacketTime
    <3>5. ClockInv'
      BY <2>7, <3>2, <3>4, UpdateKeepsClocks DEF SettlePause
    <3> QED
      BY <3>2, <3>3, <3>5
  <2>8. CASE StartTimer
    <3>1. dmaAge = 0 /\ dpcAge = 0
      BY <2>8 DEF StartTimer
    <3>2. Ranges' /\ StateTells' /\ NeverRan'
      BY <2>8 DEF StartTimer, packetState
    <3>3. ClockInv'
      BY <2>8, <3>1 DEF StartTimer, ClockInv, PositionsAgree, WholeTicks, ClocksAgree,
         Moved, PacketTime, PacketsArePlayed, WholeMilliseconds, PacketSize
    <3> QED
      BY <3>2, <3>3
  <2>9. CASE ReadPosition
    <3>1. /\ dmaAge' = 0 /\ dmaCarry' \in 0 .. Ms - 1 /\ byteCarry' \in 0 .. PerMs - 1
          /\ linear' \in Nat /\ playPosition' \in Nat /\ playPosition' < buffer.size
      BY <2>9, TypeParts, UpdateEffect DEF ReadPosition
    <3>2. Ranges'
      BY <2>9, <3>1 DEF ReadPosition, packetState, dpcClock
    <3>3. StateTells' /\ NeverRan'
      BY <2>9, <3>1 DEF ReadPosition, dpcClock
    <3>4. PacketTime' <= PacketTime
      <4>1. PacketTime' = PacketTime
        BY <2>9 DEF ReadPosition, PacketTime, dpcClock
      <4>2. PacketTime \in Int
        BY DEF PacketTime
      <4> QED
        BY <4>1, <4>2
    <3>5. ClockInv'
      BY <2>9, <3>2, <3>4, UpdateKeepsClocks DEF ReadPosition
    <3> QED
      BY <3>2, <3>3, <3>5
  <2>10. CASE TimerIdle
    BY <2>10, ClocksUntouched DEF TimerIdle, streamVars, dmaClock, dpcClock, packetState
  <2>11. CASE SetAcquire
    <3>1. ClockInv'
      BY <2>11, ClocksUntouched DEF SetAcquire, dmaClock
    <3> QED
      BY <2>11, <3>1 DEF SetAcquire, KsStates, dmaClock, dpcClock, packetState
  <2>12. CASE SetPauseUp
    <3>1. ClockInv'
      BY <2>12, ClocksUntouched DEF SetPauseUp, dmaClock
    <3> QED
      BY <2>12, <3>1 DEF SetPauseUp, KsStates, dmaClock, dpcClock, packetState
  <2>13. CASE PauseTimer
    <3>1. ClockInv'
      BY <2>13, ClocksUntouched DEF PauseTimer, dmaClock
    <3> QED
      BY <2>13, <3>1 DEF PauseTimer, dmaClock, dpcClock, packetState
  <2>14. CASE SettleRun
    <3>1. ClockInv'
      BY <2>14, ClocksUntouched DEF SettleRun, dmaClock
    <3> QED
      BY <2>14, <3>1 DEF SettleRun, KsStates, dmaClock, dpcClock, packetState
  <2>15. CASE SampleCounter
    <3>1. ExpectedPacket(packets) \in Nat
      BY DEF ExpectedPacket
    <3>2. ClockInv'
      BY <2>15, ClocksUntouched DEF SampleCounter
    <3> QED
      BY <2>15, <3>1, <3>2 DEF SampleCounter, dmaClock, dpcClock, packetState
  <2>16. CASE SetWritePacket
    <3>1. /\ client.packet \in Nat /\ buffer.count \in Nat \ {0}
          /\ buffer.size \in Nat /\ client.at = "writing"
      BY <2>16 DEF SetWritePacket
    <3>2. client.packet % buffer.count \in Nat /\ PacketSize \in Nat
      BY <3>1, DivMod DEF PacketSize
    <3>3. (client.packet % buffer.count) * PacketSize \in Nat
      BY <3>2
    <3>4. ClockInv'
      BY <2>16, ClocksUntouched DEF SetWritePacket
    <3> QED
      BY <2>16, <3>3, <3>4 DEF SetWritePacket, SetCurrentWritePosition, dmaClock,
         dpcClock
  <2> QED
    BY <1>3, <2>2, <2>3, <2>4, <2>5, <2>6, <2>7, <2>8, <2>9, <2>10, <2>11, <2>12, <2>13,
       <2>14, <2>15, <2>16
    DEF StreamNext, Timer, SetState, Packets
<1> QED
  BY <1>2, <1>3

THEOREM StreamInvariant == StreamSpec => []StreamInv
BY StreamStarts, StreamStep, PTL DEF StreamSpec

(* The handlers and the timer keep every variable in its range.            *)
THEOREM StreamTypeCorrect == StreamSpec => []StreamTypeOK
BY StreamInvariant, PTL DEF StreamInv

(* The offset reported to the client and the offset the data is taken from *)
(* never differ, whatever the rates, buffers and times.                    *)
THEOREM OffsetsAgree == StreamSpec => []PositionsAgree
BY StreamInvariant, PTL DEF StreamInv, ClockInv

(* A packet that has been counted has been played, for every rate and      *)
(* every lateness of the timer.                                            *)
THEOREM CountedIsPlayed == StreamSpec => []PacketsArePlayed
BY StreamInvariant, PTL DEF StreamInv, ClockInv

(* Nothing moves in a stream that has been paused.                         *)
THEOREM PausedIsStill == StreamSpec => StillWhilePaused
<1> DEFINE Step == (Idle /\ ksState # "RUN") =>
                     \/ UNCHANGED <<linear, playPosition, packets>>
                     \/ linear' = 0 /\ playPosition' = 0 /\ packets' = 0
<1>1. ASSUME StateTells, [StreamNext]_streamVars PROVE [Step]_streamVars
  <2> SUFFICES ASSUME StreamNext, Idle, ksState # "RUN"
      PROVE  \/ UNCHANGED <<linear, playPosition, packets>>
             \/ linear' = 0 /\ playPosition' = 0 /\ packets' = 0
    BY <1>1
  <2>1. ~armed
    BY <1>1 DEF StateTells, Idle
  <2> QED
    BY <2>1 DEF StreamNext, streamVars, dmaClock, Idle, Tick, Timer, TimerIdle,
       TimerNotify, Buffers, AllocateBufferWithNotification, AllocateAudioBuffer,
       FreeBuffer, SetState, SetStop, SetAcquire, SetPauseUp, PauseTimer, KeepCarry,
       SettlePause, StartTimer, SettleRun, Packets, ReadPosition, SampleCounter,
       SetWritePacket
<1>2. StreamInv => StateTells
  BY DEF StreamInv
<1> QED
  BY <1>1, <1>2, StreamInvariant, PTL DEF StreamSpec, StillWhilePaused

-----------------------------------------------------------------------------
(* The wave miniport.                                                      *)

(* One stream is opened at a time, there is a place for it, and the table  *)
(* holds streams or nothing.                                               *)
MiniportShape ==
  /\ built \in [Streams -> {"none", "building", "open"}]
  /\ slot \in [Slots -> Streams \cup {Null}]
  /\ contentId \in [Streams -> Nat]
  /\ allocated \in Nat
  /\ IsFiniteSet(OpenStreams)
  /\ \A s, t \in Streams : built[s] = "building" /\ built[t] = "building" => s = t
  /\ (\E s \in Streams : built[s] = "building") => allocated < MaxSystemStreams

(* While a stream is being built its content is none, so that it can be    *)
(* opened without a look at the rights.                                    *)
NewHasNoContent == \A s \in Streams : built[s] = "building" => contentId[s] = 0

MiniportInv == MiniportShape /\ NewHasNoContent /\ MiniportSound

(* The streams in the table are the streams that are open.                 *)
InTable(table) == {table[i] : i \in Slots} \ {Null}

(* A mix that has been made covers the streams of the table it was made    *)
(* from, and it is the only one.                                           *)
LEMMA MixCovers ==
  ASSUME NEW table, NEW ids \in [Streams -> Nat], UpdateSucceeds(table, ids),
         mixes \subseteq {mix.id}
  PROVE  /\ \A s \in InTable(table) : ids[s] \in mix'.of
         /\ mixes' \subseteq {mix'.id} /\ unmixed' = {}
<1>1. PICK id \in (1 .. MaxMixes) \ mixes :
        /\ mix' = [id |-> id, of |-> ContentsOf(table, ids)]
        /\ mixes' = (mixes \ {mix.id}) \cup {id}
  BY DEF UpdateSucceeds
<1>2. \A s \in InTable(table) : ids[s] \in ContentsOf(table, ids)
  BY DEF InTable, ContentsOf
<1>3. unmixed' = {}
  BY DEF UpdateSucceeds
<1> QED
  BY <1>1, <1>2, <1>3

LEMMA MiniportStarts == MiniportInit => MiniportInv
<1> SUFFICES ASSUME MiniportInit PROVE MiniportInv
  OBVIOUS
<1> USE MiniportAssumption DEF MiniportAssumption
<1>1. OpenStreams = {}
  BY DEF MiniportInit, OpenStreams
<1>2. IsFiniteSet(OpenStreams) /\ Cardinality(OpenStreams) = 0
  BY <1>1, FS_EmptySet
<1>3. MiniportShape
  BY <1>2 DEF MiniportInit, MiniportShape, Slots, Null
<1>4. PinsAreAccounted
  BY <1>1, <1>2 DEF MiniportInit, PinsAreAccounted, Slots, Null
<1>5. NewHasNoContent /\ RightsCoverStreams
  BY <1>1 DEF MiniportInit, NewHasNoContent, RightsCoverStreams
<1> QED
  BY <1>3, <1>4, <1>5 DEF MiniportInv, MiniportSound

LEMMA MiniportStep == MiniportInv /\ [MiniportNext]_miniportVars => MiniportInv'
<1> SUFFICES ASSUME MiniportInv, [MiniportNext]_miniportVars
    PROVE  MiniportInv'
  OBVIOUS
<1> USE MiniportAssumption DEF MiniportAssumption
<1>0. MiniportShape /\ NewHasNoContent /\ PinsAreAccounted /\ RightsCoverStreams
  BY DEF MiniportInv, MiniportSound
<1> SUFFICES MiniportShape' /\ NewHasNoContent' /\ PinsAreAccounted' /\ RightsCoverStreams'
  BY DEF MiniportInv, MiniportSound
<1>1. CASE UNCHANGED miniportVars
  <2>1. OpenStreams' = OpenStreams
    BY <1>1 DEF miniportVars, OpenStreams
  <2> QED
    BY <1>0, <1>1, <2>1, Zenon DEF miniportVars, MiniportShape, NewHasNoContent,
       PinsAreAccounted, RightsCoverStreams
<1>2. ASSUME NEW s \in Streams, BeginStream(s) \/ ReferMiniport(s) \/ InitFails(s)
      PROVE  MiniportShape' /\ NewHasNoContent' /\ PinsAreAccounted' /\ RightsCoverStreams'
  <2>1. /\ UNCHANGED <<allocated, slot, mix, mixes, unmixed>>
        /\ built' \in [Streams -> {"none", "building", "open"}]
        /\ \A t \in Streams : built'[t] = "open" <=> built[t] = "open"
        /\ \A t \in Streams : built'[t] = "building" => built[t] = "building" \/ t = s
        /\ \A t \in Streams : contentId'[t] = contentId[t] \/ contentId'[t] = 0
        /\ contentId' \in [Streams -> Nat]
    BY <1>0, <1>2 DEF BeginStream, ReferMiniport, InitFails, MiniportShape
  <2>2. OpenStreams' = OpenStreams
    BY <2>1 DEF OpenStreams
  <2>3. MiniportShape' /\ NewHasNoContent'
    BY <1>0, <1>2, <2>1, <2>2 DEF BeginStream, ReferMiniport, InitFails, MiniportShape,
       NewHasNoContent
  <2>4. PinsAreAccounted'
    BY <1>0, <2>1, <2>2 DEF PinsAreAccounted
  <2>5. RightsCoverStreams'
    BY <1>0, <2>1, <2>2 DEF RightsCoverStreams, OpenStreams
  <2> QED
    BY <2>3, <2>4, <2>5
<1>3. ASSUME NEW s \in Streams, StreamCreated(s)
      PROVE  MiniportShape' /\ NewHasNoContent' /\ PinsAreAccounted' /\ RightsCoverStreams'
  <2>1. OpenStreams' = OpenStreams \cup {s} /\ s \notin OpenStreams
    BY <1>0, <1>3 DEF StreamCreated, OpenStreams, MiniportShape
  <2>2. /\ IsFiniteSet(OpenStreams')
        /\ Cardinality(OpenStreams') = Cardinality(OpenStreams) + 1
    BY <1>0, <2>1, FS_AddElement DEF MiniportShape
  <2>3. PICK i \in Slots : slot[i] = Null /\ slot' = [slot EXCEPT ![i] = s]
    BY <1>3 DEF StreamCreated
  <2>4. slot' \in [Slots -> Streams \cup {Null}]
    BY <1>0, <2>3 DEF MiniportShape
  <2>5. /\ built[s] = "building" /\ built' = [built EXCEPT ![s] = "open"]
        /\ allocated' = allocated + 1 /\ UNCHANGED <<contentId, mix, mixes, unmixed>>
    BY <1>3 DEF StreamCreated
  <2>6. MiniportShape' /\ NewHasNoContent'
    BY <1>0, <2>2, <2>4, <2>5 DEF MiniportShape, NewHasNoContent
  <2>7. PinsAreAccounted'
    <3>1. allocated' = Cardinality(OpenStreams') /\ allocated' <= MaxSystemStreams
      BY <1>0, <2>2, <2>5 DEF PinsAreAccounted, MiniportShape
    <3>2. {slot'[j] : j \in Slots} \ {Null} = ({slot[j] : j \in Slots} \ {Null}) \cup {s}
      BY <1>0, <2>3 DEF MiniportShape, Null
    <3>3. \A j \in Slots : slot[j] # s
      BY <1>0, <2>1 DEF PinsAreAccounted, Null
    <3>4. \A j, k \in Slots : slot'[j] = slot'[k] /\ slot'[j] # Null => j = k
      BY <1>0, <2>3, <3>3 DEF PinsAreAccounted, MiniportShape, Null
    <3>5. OpenStreams' = {slot'[j] : j \in Slots} \ {Null}
      BY <1>0, <2>1, <3>2 DEF PinsAreAccounted
    <3> QED
      BY <3>1, <3>4, <3>5, Zenon DEF PinsAreAccounted
  <2>8. RightsCoverStreams'
    BY <1>0, <2>1, <2>5 DEF RightsCoverStreams, NewHasNoContent
  <2> QED
    BY <2>6, <2>7, <2>8
<1>4. ASSUME NEW s \in Streams, StreamClosed(s)
      PROVE  MiniportShape' /\ NewHasNoContent' /\ PinsAreAccounted' /\ RightsCoverStreams'
  <2> DEFINE table == [i \in Slots |-> IF slot[i] = s THEN Null ELSE slot[i]]
  <2>1. /\ slot' = table /\ allocated' = allocated - 1 /\ built[s] = "open"
        /\ built' = [built EXCEPT ![s] = "none"] /\ contentId' = contentId
        /\ \/ UpdateSucceeds(table, contentId)
           \/ UpdateFails /\ unmixed' = unmixed \ {s}
    BY <1>4 DEF StreamClosed
  <2>2. OpenStreams' = OpenStreams \ {s} /\ s \in OpenStreams
    BY <1>0, <2>1 DEF OpenStreams, MiniportShape
  <2>3. /\ IsFiniteSet(OpenStreams')
        /\ Cardinality(OpenStreams') = Cardinality(OpenStreams) - 1
        /\ Cardinality(OpenStreams) \in Nat \ {0}
    <3>1. Cardinality(OpenStreams) \in Nat /\ Cardinality(OpenStreams) # 0
      BY <1>0, <2>2, FS_CardinalityType, FS_EmptySet DEF MiniportShape
    <3> QED
      BY <1>0, <2>2, <3>1, FS_RemoveElement DEF MiniportShape
  <2>4. slot' \in [Slots -> Streams \cup {Null}]
    BY <1>0, <2>1 DEF MiniportShape
  <2>5. allocated' = Cardinality(OpenStreams') /\ allocated' \in Nat
        /\ allocated' < allocated
    <3>1. allocated = Cardinality(OpenStreams) /\ allocated' = allocated - 1
      BY <1>0, <2>1 DEF PinsAreAccounted
    <3> QED
      BY <2>3, <3>1
  <2>6. MiniportShape' /\ NewHasNoContent'
    BY <1>0, <2>1, <2>3, <2>4, <2>5 DEF MiniportShape, NewHasNoContent
  <2>7. InTable(slot') = InTable(slot) \ {s}
    BY <2>1 DEF InTable
  <2>8. PinsAreAccounted'
    <3>1. \A j, k \in Slots : slot'[j] = slot'[k] /\ slot'[j] # Null => j = k
      BY <1>0, <2>1 DEF PinsAreAccounted
    <3>2. OpenStreams' = {slot'[j] : j \in Slots} \ {Null}
      BY <1>0, <2>2, <2>7 DEF PinsAreAccounted, InTable
    <3>3. allocated' <= MaxSystemStreams
      BY <1>0, <2>5 DEF PinsAreAccounted, MiniportShape
    <3> QED
      BY <2>5, <3>1, <3>2, <3>3, Zenon DEF PinsAreAccounted
  <2>9. RightsCoverStreams'
    <3>1. CASE UpdateFails /\ unmixed' = unmixed \ {s}
      BY <1>0, <2>1, <2>2, <3>1 DEF UpdateFails, RightsCoverStreams
    <3>2. CASE UpdateSucceeds(table, contentId)
      <4>1. /\ \A t \in InTable(slot') : contentId[t] \in mix'.of
            /\ mixes' \subseteq {mix'.id} /\ unmixed' = {}
        BY <1>0, <2>1, <3>2, MixCovers DEF MiniportShape, RightsCoverStreams
      <4>2. OpenStreams' = InTable(slot')
        BY <2>8 DEF PinsAreAccounted, InTable
      <4> QED
        BY <2>1, <4>1, <4>2 DEF RightsCoverStreams
    <3> QED
      BY <2>1, <3>1, <3>2
  <2> QED
    BY <2>6, <2>8, <2>9
<1>5. ASSUME NEW s \in Streams, NEW id \in Contents \cup {0}, SetContentId(s, id)
      PROVE  MiniportShape' /\ NewHasNoContent' /\ PinsAreAccounted' /\ RightsCoverStreams'
  <2> DEFINE ids == [contentId EXCEPT ![s] = id]
  <2>1. /\ UNCHANGED <<built, refs, allocated, slot>> /\ built[s] = "open"
        /\ contentId' = ids
        /\ \/ UpdateSucceeds(slot, ids)
           \/ UpdateFails /\ unmixed' = unmixed \cup {s}
    BY <1>5 DEF SetContentId
  <2>2. OpenStreams' = OpenStreams
    BY <2>1 DEF OpenStreams
  <2>3. ids \in [Streams -> Nat]
    BY <1>0 DEF MiniportShape
  <2>4. MiniportShape' /\ NewHasNoContent'
    BY <1>0, <2>1, <2>2, <2>3 DEF MiniportShape, NewHasNoContent
  <2>5. PinsAreAccounted'
    BY <1>0, <2>1, <2>2 DEF PinsAreAccounted
  <2>6. RightsCoverStreams'
    <3>1. CASE UpdateFails /\ unmixed' = unmixed \cup {s}
      <4>1. \A t \in OpenStreams' \ unmixed' : t # s /\ contentId'[t] = contentId[t]
        BY <1>0, <2>1, <2>2, <3>1 DEF OpenStreams, MiniportShape
      <4> QED
        BY <1>0, <2>2, <3>1, <4>1 DEF UpdateFails, RightsCoverStreams
    <3>2. CASE UpdateSucceeds(slot, ids)
      <4>1. /\ \A t \in InTable(slot) : ids[t] \in mix'.of
            /\ mixes' \subseteq {mix'.id} /\ unmixed' = {}
        BY <1>0, <2>3, <3>2, MixCovers DEF RightsCoverStreams
      <4>2. OpenStreams' = InTable(slot)
        BY <1>0, <2>2 DEF PinsAreAccounted, InTable
      <4> QED
        BY <2>1, <4>1, <4>2 DEF RightsCoverStreams
    <3> QED
      BY <2>1, <3>1, <3>2
  <2> QED
    BY <2>4, <2>5, <2>6
<1> QED
  BY <1>1, <1>2, <1>3, <1>4, <1>5 DEF MiniportNext

(* The count, the table and the open streams agree for every number of     *)
(* pins and whatever fails, and the rights cover the streams but for those *)
(* whose last content the port refused to mix, until the next mix.         *)
THEOREM MiniportIsSound == MiniportSpec => []MiniportSound
BY MiniportStarts, MiniportStep, PTL DEF MiniportSpec, MiniportInv

-----------------------------------------------------------------------------
(* The device objects.                                                     *)

References == {"registered", "cached", "handle", "etw"}

AdapterTypes ==
  /\ phase \in [Devices -> {"added", "init", "power", "topology", "wave", "connect",
                            "queries", "started", "refused", "failed", "gone"}]
  /\ adapter \in [Devices -> {"none", "new", "ready", "dying"}]
  /\ holders \in [Devices -> SUBSET {"extension", "power"}]
  /\ sub \in [Devices -> [Filters -> SUBSET References]]
  /\ connected \in [Devices -> BOOLEAN]
  /\ instances \in {0, 1}

(* How far the start of a device has come tells who holds its adapter.     *)
StartTells(d) ==
  /\ phase[d] = "init" => adapter[d] = "new"
  /\ phase[d] = "power" => adapter[d] = "ready"
  /\ phase[d] \in {"init", "power"} => "extension" \in holders[d]
  /\ phase[d] \in {"topology", "wave", "connect", "queries", "started", "refused"}
       => "power" \in holders[d]
  /\ "power" \in holders[d] => adapter[d] = "ready"
  /\ "extension" \in holders[d] => adapter[d] \in {"new", "ready"}

(* A filter that can be reached needs the power registration, which is     *)
(* made before any filter is; one that is not registered is gone, once its *)
(* install is over.                                                        *)
FiltersTell(d) ==
  /\ \A f \in Filters :
       sub[d][f] \cap {"registered", "cached", "handle"} # {} => "power" \in holders[d]
  /\ phase[d] \in {"added", "init", "power", "failed"} =>
       \A f \in Filters : sub[d][f] \cap {"registered", "cached"} = {}
  /\ phase[d] \in {"wave", "connect", "queries", "started", "refused"} =>
       (Alive(d, "topology") => "registered" \in sub[d]["topology"])
  /\ phase[d] \in {"connect", "queries", "started", "refused"} =>
       (Alive(d, "wave") => "registered" \in sub[d]["wave"])
  /\ phase[d] \in {"queries", "started", "refused"} =>
       "registered" \in sub[d]["wave"] /\ (connected[d] <=> Both(d))

(* One adapter at a time, and none for ever after the count has leaked.    *)
OneAdapter ==
  /\ \A d, e \in Devices : adapter[d] # "none" /\ adapter[e] # "none" => d = e
  /\ leaked => \A d \in Devices : adapter[d] = "none"

DevicesTell == \A d \in Devices : StartTells(d) /\ FiltersTell(d)

AdapterInv ==
  AdapterTypes /\ DevicesTell /\ OneAdapter /\ WorkItemsLive /\ BusyHasReason

LEMMA AdapterIsSound == AdapterInv => AdapterSound
<1> SUFFICES ASSUME AdapterInv PROVE AdapterSound
  OBVIOUS
<1>1. InstalledTogether
  BY DEF AdapterInv, DevicesTell, FiltersTell, InstalledTogether
<1>2. AdapterOutlivesWave
  BY DEF AdapterInv, DevicesTell, StartTells, FiltersTell, AdapterOutlivesWave, Filters
<1> QED
  BY <1>1, <1>2 DEF AdapterInv, AdapterSound

LEMMA AdapterStarts == AdapterInit => AdapterInv
<1> SUFFICES ASSUME AdapterInit PROVE AdapterInv
  OBVIOUS
<1>1. AdapterTypes
  <2>1. connected \in [Devices -> BOOLEAN]
    BY Zenon DEF AdapterInit
  <2> QED
    BY <2>1 DEF AdapterInit, AdapterTypes
<1>2. DevicesTell
  BY DEF AdapterInit, DevicesTell, StartTells, FiltersTell
<1>3. OneAdapter /\ WorkItemsLive /\ BusyHasReason
  BY DEF AdapterInit, OneAdapter, WorkItemsLive, BusyHasReason
<1> QED
  BY <1>1, <1>2, <1>3 DEF AdapterInv

(* The actions of one device object.                                       *)
LEMMA DeviceStep ==
  ASSUME NEW d \in Devices, AdapterInv,
         \/ StartDevice(d)
         \/ \E f \in Filters : OpenHandle(d, f) \/ CloseHandle(d, f)
         \/ SurpriseRemoval(d) \/ RemoveDevice(d) \/ Destroy(d) \/ Forget(d)
  PROVE  AdapterInv'
<1> SUFFICES AdapterTypes' /\ DevicesTell' /\ OneAdapter' /\ WorkItemsLive' /\ BusyHasReason'
  BY DEF AdapterInv
<1> USE DEF AdapterInv, AdapterTypes, OneAdapter, WorkItemsLive, BusyHasReason,
   Filters, References
<1>1. CASE NewAdapter(d)
  <2>1. AdapterTypes'
    BY <1>1 DEF NewAdapter
  <2>2. DevicesTell'
    BY <1>1 DEF NewAdapter, DevicesTell, StartTells, FiltersTell, Alive, Both
  <2>3. OneAdapter' /\ WorkItemsLive' /\ BusyHasReason'
    BY <1>1 DEF NewAdapter, DevicesTell, StartTells
  <2> QED
    BY <2>1, <2>2, <2>3
<1>2. CASE NewAdapterFails(d)
  <2>1. AdapterTypes'
    BY <1>2 DEF NewAdapterFails
  <2>2. DevicesTell'
    BY <1>2 DEF NewAdapterFails, DevicesTell, StartTells, FiltersTell, Alive, Both
  <2>3. OneAdapter' /\ WorkItemsLive' /\ BusyHasReason'
    BY <1>2 DEF NewAdapterFails, DevicesTell, StartTells
  <2> QED
    BY <2>1, <2>2, <2>3
<1>3. CASE StartBusy(d)
  <2>1. AdapterTypes'
    BY <1>3 DEF StartBusy
  <2>2. DevicesTell'
    BY <1>3 DEF StartBusy, DevicesTell, StartTells, FiltersTell, Alive, Both
  <2>3. OneAdapter' /\ WorkItemsLive' /\ BusyHasReason'
    BY <1>3 DEF StartBusy, DevicesTell, StartTells
  <2> QED
    BY <2>1, <2>2, <2>3
<1>4. CASE InitAdapter(d)
  <2>1. AdapterTypes'
    BY <1>4 DEF InitAdapter
  <2>2. DevicesTell'
    BY <1>4 DEF InitAdapter, DevicesTell, StartTells, FiltersTell, Alive, Both
  <2>3. OneAdapter' /\ WorkItemsLive' /\ BusyHasReason'
    BY <1>4 DEF InitAdapter, DevicesTell, StartTells
  <2> QED
    BY <2>1, <2>2, <2>3
<1>5. CASE StartFails(d)
  <2>1. AdapterTypes'
    BY <1>5 DEF StartFails
  <2>2. DevicesTell'
    BY <1>5 DEF StartFails, DevicesTell, StartTells, FiltersTell, Alive, Both
  <2>3. OneAdapter' /\ WorkItemsLive' /\ BusyHasReason'
    BY <1>5 DEF StartFails, DevicesTell, StartTells
  <2> QED
    BY <2>1, <2>2, <2>3
<1>6. CASE RegisterPower(d)
  <2>1. AdapterTypes'
    BY <1>6 DEF RegisterPower
  <2>2. DevicesTell'
    BY <1>6 DEF RegisterPower, DevicesTell, StartTells, FiltersTell, Alive, Both
  <2>3. OneAdapter' /\ WorkItemsLive' /\ BusyHasReason'
    BY <1>6 DEF RegisterPower, DevicesTell, StartTells
  <2> QED
    BY <2>1, <2>2, <2>3
<1>7. CASE InstallTopology(d)
  <2>1. AdapterTypes'
    BY <1>7 DEF InstallTopology, InstallSubdevice
  <2>2. DevicesTell'
    BY <1>7 DEF InstallTopology, InstallSubdevice, DevicesTell, StartTells,
       FiltersTell, Alive, Both
  <2>3. OneAdapter' /\ WorkItemsLive' /\ BusyHasReason'
    BY <1>7 DEF InstallTopology, InstallSubdevice, DevicesTell, StartTells
  <2> QED
    BY <2>1, <2>2, <2>3
<1>8. CASE InstallWave(d)
  <2>1. AdapterTypes'
    BY <1>8 DEF InstallWave, InstallSubdevice
  <2>2. DevicesTell'
    BY <1>8 DEF InstallWave, InstallSubdevice, DevicesTell, StartTells, FiltersTell,
       Alive, Both
  <2>3. OneAdapter' /\ WorkItemsLive' /\ BusyHasReason'
    BY <1>8 DEF InstallWave, InstallSubdevice, DevicesTell, StartTells
  <2> QED
    BY <2>1, <2>2, <2>3
<1>9. CASE InstallSucceeds(d)
  <2>1. AdapterTypes'
    <3>1. Both(d) \in BOOLEAN
      BY Zenon DEF Both
    <3>2. connected' \in [Devices -> BOOLEAN]
      BY <1>9, <3>1, Zenon DEF InstallSucceeds
    <3>3. sub' \in [Devices -> [Filters -> SUBSET References]]
      BY <1>9 DEF InstallSucceeds, Take
    <3> QED
      BY <1>9, <3>2, <3>3 DEF InstallSucceeds
  <2>2. DevicesTell'
    BY <1>9 DEF InstallSucceeds, Take, WaveInstalled, DevicesTell, StartTells,
       FiltersTell, Alive, Both
  <2>3. OneAdapter' /\ WorkItemsLive' /\ BusyHasReason'
    BY <1>9 DEF InstallSucceeds, Take, WaveInstalled, DevicesTell, StartTells
  <2> QED
    BY <2>1, <2>2, <2>3
<1>10. CASE InstallFails(d)
  <2>1. AdapterTypes'
    BY <1>10 DEF InstallFails, Unregistered, WaveInstalled
  <2>2. DevicesTell'
    BY <1>10 DEF InstallFails, Unregistered, WaveInstalled, DevicesTell, StartTells,
       FiltersTell, Alive, Both
  <2>3. OneAdapter' /\ WorkItemsLive' /\ BusyHasReason'
    BY <1>10 DEF InstallFails, Unregistered, WaveInstalled, DevicesTell, StartTells
  <2> QED
    BY <2>1, <2>2, <2>3
<1>11. CASE Started(d)
  <2>1. AdapterTypes'
    BY <1>11 DEF Started
  <2>2. DevicesTell'
    BY <1>11 DEF Started, DevicesTell, StartTells, FiltersTell, Alive, Both
  <2>3. OneAdapter' /\ WorkItemsLive' /\ BusyHasReason'
    BY <1>11 DEF Started, DevicesTell, StartTells
  <2> QED
    BY <2>1, <2>2, <2>3
<1>12. CASE SurpriseRemoval(d)
  <2>1. AdapterTypes'
    BY <1>12 DEF SurpriseRemoval, Cleanup, Ended
  <2>2. DevicesTell'
    BY <1>12 DEF SurpriseRemoval, Cleanup, Ended, DevicesTell, StartTells, FiltersTell,
       Alive, Both
  <2>3. OneAdapter' /\ WorkItemsLive' /\ BusyHasReason'
    BY <1>12 DEF SurpriseRemoval, Cleanup, Ended, DevicesTell, StartTells
  <2> QED
    BY <2>1, <2>2, <2>3
<1>13. CASE RemoveDevice(d)
  <2>1. AdapterTypes'
    BY <1>13 DEF RemoveDevice, Unregistered, Ended
  <2>2. DevicesTell'
    BY <1>13 DEF RemoveDevice, Unregistered, Ended, DevicesTell, StartTells,
       FiltersTell, Alive, Both
  <2>3. OneAdapter' /\ WorkItemsLive' /\ BusyHasReason'
    BY <1>13 DEF RemoveDevice, Unregistered, Ended, DevicesTell, StartTells
  <2> QED
    BY <2>1, <2>2, <2>3
<1>14. CASE Destroy(d)
  <2>1. AdapterTypes'
    BY <1>14 DEF Destroy, Drop
  <2>2. DevicesTell'
    BY <1>14 DEF Destroy, Drop, DevicesTell, StartTells, FiltersTell, Alive, Both
  <2>3. OneAdapter' /\ WorkItemsLive' /\ BusyHasReason'
    BY <1>14 DEF Destroy, Drop, DevicesTell, StartTells
  <2> QED
    BY <2>1, <2>2, <2>3
<1>15. CASE Forget(d)
  <2>1. AdapterTypes'
    BY <1>15 DEF Forget
  <2>2. DevicesTell'
    BY <1>15 DEF Forget, DevicesTell, StartTells, FiltersTell, Alive, Both
  <2>3. OneAdapter' /\ WorkItemsLive' /\ BusyHasReason'
    BY <1>15 DEF Forget, DevicesTell, StartTells
  <2> QED
    BY <2>1, <2>2, <2>3
<1>16. CASE \E f \in Filters : OpenHandle(d, f)
  <2>1. AdapterTypes'
    BY <1>16 DEF OpenHandle, Take
  <2>2. DevicesTell'
    BY <1>16 DEF OpenHandle, Take, DevicesTell, StartTells, FiltersTell, Alive, Both
  <2>3. OneAdapter' /\ WorkItemsLive' /\ BusyHasReason'
    BY <1>16 DEF OpenHandle, Take, DevicesTell, StartTells
  <2> QED
    BY <2>1, <2>2, <2>3
<1>17. CASE \E f \in Filters : CloseHandle(d, f)
  <2>1. AdapterTypes'
    BY <1>17 DEF CloseHandle, Drop
  <2>2. DevicesTell'
    BY <1>17 DEF CloseHandle, Drop, DevicesTell, StartTells, FiltersTell, Alive, Both
  <2>3. OneAdapter' /\ WorkItemsLive' /\ BusyHasReason'
    BY <1>17 DEF CloseHandle, Drop, DevicesTell, StartTells
  <2> QED
    BY <2>1, <2>2, <2>3
<1> QED
  BY <1>1, <1>2, <1>3, <1>4, <1>5, <1>6, <1>7, <1>8, <1>9, <1>10, <1>11, <1>12, <1>13,
     <1>14, <1>15, <1>16, <1>17 DEF StartDevice

LEMMA AdapterStep == AdapterInv /\ [AdapterNext]_adapterVars => AdapterInv'
<1> SUFFICES ASSUME AdapterInv, [AdapterNext]_adapterVars PROVE AdapterInv'
  OBVIOUS
<1>1. CASE UNCHANGED adapterVars
  BY <1>1, Zenon DEF adapterVars, AdapterInv, AdapterTypes, DevicesTell, StartTells,
     FiltersTell,
     Alive, Both, OneAdapter, WorkItemsLive, BusyHasReason
<1>2. CASE AdapterNext
  BY <1>2, DeviceStep DEF AdapterNext
<1> QED
  BY <1>1, <1>2

(* Whatever fails in an install and however starts and removals follow each *)
(* other, for any number of device objects.                                *)
THEOREM DevicesAreSound == AdapterSpec => []AdapterSound
BY AdapterStarts, AdapterStep, AdapterIsSound, PTL DEF AdapterSpec

-----------------------------------------------------------------------------
(* The recorder.                                                           *)

(* Work items whose worker has not begun, or is at the file, or has given  *)
(* its frame back and has still to set its event.                          *)
Held == {i \in Items : item[i].at \in {"queued", "saving"}}
Saved == {i \in Items : item[i].at = "saved"}

RecorderTypes ==
  /\ recorder \in {"closed", "running", "stopping", "stopped"}
  /\ dmaOffset \in 0 .. DmaSize - 1 /\ toCopy \in Nat /\ offset \in Int
  /\ frame \in Frames
  /\ DOMAIN used = Frames
  /\ item \in [Items -> [frame : Frames, at : {"done", "queued", "saving", "saved"}]]

(* Only a stream that runs copies, and only one that has been told to stop *)
(* has workers left while it does not run; a frame that is in hand is      *)
(* marked and has one worker as long as the stream runs.                   *)
RecorderTells ==
  /\ toCopy > 0 => recorder = "running"
  /\ recorder \in {"stopped", "closed"} => \A i \in Items : item[i].at = "done"
  /\ \A i \in Items : item[i].at = "done" => item[i] = IdleItem
  /\ recorder = "running" => \A i \in Held : used[item[i].frame]
  /\ recorder = "running" => \A i, j \in Held : item[i].frame = item[j].frame => i = j

(* The file has one worker, and the system as many as it has threads.      *)
WorkersFit ==
  /\ \A i, j \in Items : item[i].at = "saving" /\ item[j].at = "saving" => i = j
  /\ IsFiniteSet(Saved) /\ Cardinality(Saved) <= Workers
  /\ (\E i \in Items : item[i].at = "saving") => Cardinality(Saved) < Workers

(* As long as the offsets agree, a frame that is still in use is waited for *)
(* at its start.                                                           *)
Aligned ==
  strayed \/ /\ offset % DmaSize = dmaOffset
             /\ used[frame] => offset = frame * FrameSize

RecorderInv ==
  RecorderTypes /\ RecorderTells /\ WorkersFit /\ Aligned /\ FramesAreSafe

LEMMA SaveConstants ==
  /\ DmaSize \in Nat \ {0} /\ Multiple \in Nat \ {0} /\ FrameCount \in Nat
  /\ FrameCount > 1 /\ ItemCount \in Nat /\ Workers \in Nat \ {0} /\ MaxMove \in Nat
  /\ ItemCount >= FrameCount + Workers /\ MaxMove <= DmaSize
  /\ FrameSize \in Nat \ {0} /\ BufferSize \in Nat /\ 0 \in Frames
  /\ IsFiniteSet(Items) /\ Cardinality(Items) = ItemCount
<1>1. /\ DmaSize \in Nat \ {0} /\ Multiple \in Nat \ {0} /\ FrameCount \in Nat
      /\ FrameCount > 1 /\ ItemCount \in Nat \ {0} /\ Workers \in Nat \ {0} /\ MaxMove \in Nat
      /\ ItemCount >= FrameCount + Workers /\ MaxMove <= DmaSize
  BY SaveDataAssumption
<1>2. FrameSize \in Nat \ {0}
  BY <1>1 DEF FrameSize
<1>3. BufferSize \in Nat /\ 0 \in Frames
  BY <1>1, <1>2 DEF BufferSize, Frames
<1>4. IsFiniteSet(Items) /\ Cardinality(Items) = ItemCount
  <2>1. 1 \in Int /\ ItemCount \in Int /\ ~(1 > ItemCount) /\ ItemCount - 1 + 1 = ItemCount
    BY <1>1
  <2> QED
    BY <2>1, FS_Interval DEF Items
<1> QED
  BY <1>1, <1>2, <1>3, <1>4

(* There is a work item for the frame that has just been filled: each of   *)
(* the others has one at most, and a worker one of its own.                *)
LEMMA ItemIsFree ==
  ASSUME RecorderTypes, RecorderTells, WorkersFit, recorder = "running", ~used[frame]
  PROVE  FreeItems # {}
<1> SUFFICES ASSUME FreeItems = {} PROVE FALSE
  OBVIOUS
<1> DEFINE others == Frames \ {frame}
           hand == [i \in Held |-> item[i].frame]
<1>1. Items = Held \cup Saved
  BY DEF RecorderTypes, FreeItems, Held, Saved
<1>2. IsFiniteSet(Held) /\ IsFiniteSet(Saved)
  <2>1. Held \in SUBSET Items /\ Saved \in SUBSET Items
    BY DEF Held, Saved
  <2> QED
    BY <2>1, SaveConstants, FS_Subset
<1>3. IsFiniteSet(others) /\ Cardinality(others) = FrameCount - 1
  <2>1. IsFiniteSet(Frames) /\ Cardinality(Frames) = FrameCount
    <3>1. /\ 0 \in Int /\ FrameCount - 1 \in Int /\ ~(0 > FrameCount - 1)
          /\ FrameCount - 1 - 0 + 1 = FrameCount
      BY SaveConstants
    <3> QED
      BY <3>1, FS_Interval DEF Frames
  <2> QED
    BY <2>1, FS_RemoveElement DEF RecorderTypes
<1>4. hand \in [Held -> others]
  BY DEF RecorderTypes, RecorderTells, Held
<1>5. \A i, j \in Held : hand[i] = hand[j] => i = j
  BY DEF RecorderTells
<1>6. ~(Cardinality(others) < Cardinality(Held))
  <2> HIDE DEF others, hand
  <2> QED
    BY <1>2, <1>3, <1>4, <1>5, FS_PigeonHole
<1>7. Held \cap Saved = {}
  BY DEF Held, Saved
<1>8. Cardinality(Items) = Cardinality(Held) + Cardinality(Saved)
  <2>1. Cardinality(Held \cup Saved)
          = Cardinality(Held) + Cardinality(Saved) - Cardinality(Held \cap Saved)
    BY <1>2, FS_Union
  <2>2. Cardinality(Held) \in Nat /\ Cardinality(Saved) \in Nat
    BY <1>2, FS_CardinalityType
  <2>3. Cardinality(Held \cap Saved) = 0
    BY <1>7, FS_EmptySet
  <2> QED
    BY <1>1, <2>1, <2>2, <2>3
<1>9. Cardinality(Held) \in Nat /\ Cardinality(Saved) \in Nat
  BY <1>2, FS_CardinalityType
<1> QED
  BY <1>3, <1>6, <1>8, <1>9, SaveConstants DEF WorkersFit

(* A copy that starts in step with the DMA buffer stays in its frame, and  *)
(* whatever worker has a frame has another one.                            *)
LEMMA CopyStaysInFrame ==
  ASSUME RecorderTypes, Aligned, OffsetIsInFrame, ~strayed,
         NEW n \in Nat, n <= DmaSize - dmaOffset
  PROVE  /\ offset + n <= (frame + 1) * FrameSize
         /\ (frame + 1) * FrameSize <= BufferSize
         /\ \A f \in Frames : Overlaps(offset, offset + n, f) => f = frame
<1>1. /\ DmaSize \in Nat \ {0} /\ Multiple \in Nat \ {0} /\ FrameSize \in Nat \ {0}
      /\ FrameCount \in Nat /\ frame \in Nat /\ frame < FrameCount
  BY SaveConstants DEF RecorderTypes, Frames
<1>2. /\ offset % DmaSize = dmaOffset /\ offset \in Nat
      /\ frame * FrameSize <= offset /\ offset < (frame + 1) * FrameSize
      /\ frame * FrameSize \in Nat /\ (frame + 1) * FrameSize \in Nat
  <2>1. frame * FrameSize \in Nat /\ (frame + 1) * FrameSize \in Nat
    BY <1>1
  <2> QED
    BY <2>1 DEF Aligned, OffsetIsInFrame, RecorderTypes
<1>3. offset + n <= (frame + 1) * FrameSize
  <2> DEFINE q == offset \div DmaSize
             m == (frame + 1) * Multiple
  <2>1. offset = DmaSize * q + dmaOffset /\ q \in Nat /\ dmaOffset \in Nat
    BY <1>1, <1>2, DivMod
  <2>2. (frame + 1) * FrameSize = DmaSize * m /\ m \in Nat
    BY <1>1 DEF FrameSize
  <2> HIDE DEF q, m
  <2>3. q + 1 <= m
    <3> SUFFICES ASSUME q >= m PROVE FALSE
      BY <2>1, <2>2
    <3>1. DmaSize * q >= DmaSize * m
      BY <1>1, <2>1, <2>2
    <3> QED
      BY <1>1, <1>2, <2>1, <2>2, <3>1
  <2>4. DmaSize * (q + 1) <= DmaSize * m
    BY <1>1, <2>1, <2>2, <2>3
  <2>5. DmaSize * (q + 1) = DmaSize * q + DmaSize
    BY <1>1, <2>1
  <2> QED
    BY <1>1, <2>1, <2>2, <2>4, <2>5
<1>4. (frame + 1) * FrameSize <= BufferSize
  BY <1>1 DEF BufferSize
<1>5. ASSUME NEW f \in Frames, Overlaps(offset, offset + n, f)
      PROVE  f = frame
  <2>1. f \in Nat
    BY SaveConstants DEF Frames
  <2>2. offset < (f + 1) * FrameSize /\ offset + n > f * FrameSize
    BY <1>5 DEF Overlaps
  <2>3. ~(f < frame)
    <3> SUFFICES ASSUME f + 1 <= frame PROVE FALSE
      BY <1>1, <2>1
    <3>1. (f + 1) * FrameSize <= frame * FrameSize
      BY <1>1, <2>1
    <3> QED
      BY <1>1, <1>2, <2>1, <2>2, <3>1
  <2>4. ~(f > frame)
    <3> SUFFICES ASSUME frame + 1 <= f PROVE FALSE
      BY <1>1, <2>1
    <3>1. (frame + 1) * FrameSize <= f * FrameSize
      BY <1>1, <2>1
    <3> QED
      BY <1>1, <1>2, <1>3, <2>1, <2>2, <3>1
  <2> QED
    BY <1>1, <2>1, <2>3, <2>4
<1> QED
  BY <1>3, <1>4, <1>5

LEMMA MinOfTwo ==
  ASSUME NEW a \in Int, NEW b \in Int
  PROVE  Min({a, b}) = IF a <= b THEN a ELSE b
<1> DEFINE m == IF a <= b THEN a ELSE b
<1>1. m \in {a, b} /\ \A y \in {a, b} : m <= y
  OBVIOUS
<1>2. \A x \in {a, b} : (\A y \in {a, b} : x <= y) => x = m
  OBVIOUS
<1> HIDE DEF m
<1>3. Min({a, b}) = m
  BY <1>1, <1>2 DEF Min
<1> QED
  BY <1>3 DEF m

LEMMA RecorderStarts == SaveInit => RecorderInv
<1> SUFFICES ASSUME SaveInit PROVE RecorderInv
  OBVIOUS
<1>1. RecorderTypes
  BY SaveConstants DEF SaveInit, RecorderTypes, IdleItem
<1>2. RecorderTells
  BY DEF SaveInit, RecorderTells, IdleItem
<1>3. Saved = {}
  BY DEF SaveInit, Saved, IdleItem
<1>4. WorkersFit
  BY <1>3, FS_EmptySet, SaveConstants DEF SaveInit, WorkersFit, IdleItem
<1>5. Aligned
  BY SaveConstants DEF SaveInit, Aligned
<1>6. FramesAreSafe
  <2>1. 0 * FrameSize = 0 /\ (0 + 1) * FrameSize = FrameSize
    BY SaveConstants
  <2> QED
    BY <2>1, SaveConstants DEF SaveInit, FramesAreSafe, FramesAreStable, UsedIsInHand,
       OffsetIsInFrame, OneWorkerEach, IdleItem
<1> QED
  BY <1>1, <1>2, <1>4, <1>5, <1>6 DEF RecorderInv

(* A frame is handed to a work item whose event is set: the items in use   *)
(* stay as they are.                                                       *)
Handed(f) ==
  /\ item' \in [Items -> [frame : Frames, at : {"done", "queued", "saving", "saved"}]]
  /\ \A i \in Items : item[i].at # "done" => item'[i] = item[i]
  /\ \A i \in Items : item'[i] # item[i] => item'[i] = [frame |-> f, at |-> "queued"]
  /\ \A i, j \in Items : item'[i] # item[i] /\ item'[j] # item[j] => i = j
  /\ FreeItems # {} => \E i \in Items : item'[i] = [frame |-> f, at |-> "queued"]
  /\ \A i \in Items : item'[i].at = "done" => item'[i] = IdleItem
  /\ \A g \in Frames : InHand(g) => InHand(g)'
  /\ WorkersFit'

LEMMA HandsOut ==
  ASSUME RecorderTypes, RecorderTells, WorkersFit, NEW f \in Frames, SaveFrame(f)
  PROVE  Handed(f)
<1>1. CASE FreeItems = {} /\ UNCHANGED item
  <2>1. Saved' = Saved
    BY <1>1 DEF Saved
  <2> QED
    BY <1>1, <2>1 DEF Handed, RecorderTypes, RecorderTells, WorkersFit, InHand
<1>2. ASSUME NEW i \in FreeItems,
             item' = [item EXCEPT ![i] = [frame |-> f, at |-> "queued"]]
      PROVE  Handed(f)
  <2>1. Saved' = Saved
    BY <1>2 DEF Saved, FreeItems, RecorderTypes
  <2> QED
    BY <1>2, <2>1 DEF Handed, RecorderTypes, RecorderTells, WorkersFit, InHand, FreeItems
<1> QED
  BY <1>1, <1>2 DEF SaveFrame

(* Except while a stop waits, a worker is the only one of its frame.       *)
LEMMA OneEachNext ==
  ASSUME RecorderTypes', RecorderTells', recorder' # "stopping"
  PROVE  OneWorkerEach'
BY DEF RecorderTypes, RecorderTells, OneWorkerEach, Held

(* No frame comes to have two workers by what they do themselves.          *)
LEMMA OneEachStays ==
  ASSUME OneWorkerEach, UNCHANGED <<recorder, strayed>>,
         \A i \in Items : item'[i].at \in {"queued", "saving"} =>
           item[i].at \in {"queued", "saving"} /\ item'[i].frame = item[i].frame
  PROVE  OneWorkerEach'
BY DEF OneWorkerEach

(* Where a copy of at most a frame ends: in the frame that is next.        *)
LEMMA CopyEnds ==
  ASSUME RecorderTypes, OffsetIsInFrame, NEW n \in Nat, n <= FrameSize, CopyIntoFrame(n)
  PROVE  LET end == offset + Min({n, BufferSize - offset})
             full == end >= (frame + 1) * FrameSize
         IN /\ OffsetIsInFrame'
            /\ ~full => frame' = frame /\ used' = used
            /\ full /\ end <= (frame + 1) * FrameSize /\ offset + n <= BufferSize =>
                 offset' = frame' * FrameSize
<1> DEFINE first == Min({n, BufferSize - offset})
           end == offset + first
           full == end >= (frame + 1) * FrameSize
           start == IF end = BufferSize THEN 0 ELSE end
           next == IF full THEN (frame + 1) % FrameCount ELSE frame
           rest == IF used[next] THEN 0 ELSE n - first
           low == frame * FrameSize
           high == (frame + 1) * FrameSize
<1>1. /\ offset' = start + rest /\ frame' = next
      /\ ~full => used' = used
  BY DEF CopyIntoFrame
<1>2. /\ FrameSize \in Nat \ {0} /\ FrameCount \in Nat /\ BufferSize \in Nat
      /\ frame \in Nat /\ frame < FrameCount /\ offset \in Int
  BY SaveConstants DEF RecorderTypes, Frames
<1>3. /\ low \in Nat /\ high \in Nat /\ high = low + FrameSize
      /\ high <= BufferSize /\ low <= offset /\ offset < high
  BY <1>2 DEF OffsetIsInFrame, BufferSize
<1>4. first = IF n <= BufferSize - offset THEN n ELSE BufferSize - offset
  <2>1. BufferSize - offset \in Int
    BY <1>2
  <2> QED
    BY <2>1, MinOfTwo
<1>5. rest \in {0, n - first}
  OBVIOUS
<1> HIDE DEF first, rest
<1>6. CASE ~full
  <2> HIDE DEF low, high
  <2>1. end < high
    BY <1>2, <1>3, <1>4, <1>6 DEF high
  <2>2. first = n /\ end < BufferSize
    BY <1>2, <1>3, <1>4, <2>1
  <2>3. offset' = end /\ frame' = frame /\ offset <= end /\ end \in Int
    BY <1>1, <1>2, <1>5, <1>6, <2>2
  <2>4. low <= offset' /\ offset' < high
    BY <1>2, <1>3, <2>1, <2>3
  <2>5. OffsetIsInFrame'
    BY <2>3, <2>4 DEF OffsetIsInFrame, low, high
  <2> QED
    BY <1>1, <1>6, <2>3, <2>5 DEF first
<1>7. CASE full /\ frame + 1 = FrameCount
  <2>1. BufferSize = high
    BY <1>2, <1>7 DEF BufferSize
  <2>2. (frame + 1) % FrameCount = 0 /\ 0 * FrameSize = 0 /\ (0 + 1) * FrameSize = FrameSize
    BY <1>2, <1>7
  <2> HIDE DEF low, high
  <2>3. end = BufferSize
    BY <1>2, <1>3, <1>4, <1>7, <2>1 DEF high
  <2>4. first \in Int /\ first > 0 /\ first <= n
    BY <1>2, <1>3, <1>4, <2>1, <2>3
  <2>5. frame' = 0 /\ offset' = rest
    BY <1>1, <1>5, <1>7, <2>2, <2>3, <2>4
  <2>6. 0 <= rest /\ rest < FrameSize
    BY <1>2, <1>5, <2>4
  <2>7. OffsetIsInFrame'
    BY <2>2, <2>5, <2>6 DEF OffsetIsInFrame
  <2>8. offset + n <= BufferSize => rest = 0
    BY <1>2, <1>4, <1>5
  <2> QED
    BY <1>7, <2>2, <2>5, <2>7, <2>8 DEF first
<1>8. CASE full /\ frame + 1 # FrameCount
  <2>1. (frame + 1) % FrameCount = frame + 1
    BY <1>2, <1>8
  <2>2. (frame + 2) * FrameSize <= BufferSize /\ (frame + 2) * FrameSize = high + FrameSize
    BY <1>2, <1>8 DEF BufferSize
  <2>3. (frame + 1 + 1) * FrameSize = (frame + 2) * FrameSize
    BY <1>2
  <2> HIDE DEF low
  <2>4. high \in Nat /\ (end >= high)
    BY <1>3, <1>8
  <2> HIDE DEF high
  <2>5. first = n /\ end = offset + n /\ end < high + FrameSize /\ end < BufferSize
    BY <1>2, <1>3, <1>4, <2>2
  <2>6. frame' = frame + 1 /\ offset' = end
    BY <1>1, <1>2, <1>5, <1>8, <2>1, <2>5
  <2>7. OffsetIsInFrame'
    BY <2>2, <2>3, <2>4, <2>5, <2>6 DEF OffsetIsInFrame, high
  <2>8. end <= high => offset' = frame' * FrameSize
    <3>1. end <= high => offset' = high
      BY <1>2, <2>4, <2>5, <2>6
    <3> QED
      BY <2>6, <3>1 DEF high
  <2> QED
    BY <1>8, <2>7, <2>8 DEF first, high
<1> QED
  BY <1>6, <1>7, <1>8

(* The copy of what one round of ReadBytes() takes.                        *)
LEMMA CopyKeepsInv ==
  ASSUME RecorderInv, NEW n \in Nat, n <= DmaSize - dmaOffset, n <= toCopy,
         recorder = "running", ~used[frame], CopyIntoFrame(n),
         toCopy' = toCopy - n, dmaOffset' \in 0 .. DmaSize - 1,
         UNCHANGED <<recorder, writeDisabled>>,
         ~strayed' => ~strayed /\ offset' % DmaSize = dmaOffset'
  PROVE  RecorderInv'
<1> DEFINE first == Min({n, BufferSize - offset})
           end == offset + first
           full == end >= (frame + 1) * FrameSize
           start == IF end = BufferSize THEN 0 ELSE end
           next == IF full THEN (frame + 1) % FrameCount ELSE frame
           rest == IF used[next] THEN 0 ELSE n - first
           tears == Tears(offset, end) \/ (rest > 0 /\ Tears(start, start + rest))
<1>1. /\ offset' = start + rest /\ frame' = next
      /\ full => used' = [used EXCEPT ![frame] = TRUE] /\ SaveFrame(frame)
      /\ ~full => UNCHANGED <<used, item>>
  BY DEF CopyIntoFrame
<1>2. torn' => torn \/ tears
  BY Zenon DEF CopyIntoFrame
<1>3. /\ RecorderTypes /\ RecorderTells /\ WorkersFit /\ Aligned
      /\ FramesAreStable /\ UsedIsInHand /\ OffsetIsInFrame
      /\ offset \in Int /\ BufferSize \in Nat /\ FrameSize \in Nat \ {0}
      /\ FrameCount \in Nat \ {0} /\ frame \in Frames /\ frame \in Nat /\ frame < FrameCount
  BY SaveConstants DEF RecorderInv, FramesAreSafe, RecorderTypes, Frames
<1>4. first \in Int
  <2>1. BufferSize - offset \in Int
    BY <1>3
  <2> QED
    BY <2>1, MinOfTwo
<1>5. next \in Frames
  <2>1. frame + 1 \in Nat
    BY <1>3
  <2>2. (frame + 1) % FrameCount \in Frames
    BY <1>3, <2>1, DivMod DEF Frames
  <2> QED
    BY <1>3, <2>2
<1>6. full => Handed(frame)
  BY <1>1, <1>3, HandsOut
<1>7. ~(\E i \in Held : item[i].frame = frame)
  BY <1>3 DEF RecorderTells
<1>8. ~strayed' => /\ first = n /\ rest = 0 /\ end <= (frame + 1) * FrameSize
                   /\ (frame + 1) * FrameSize <= BufferSize /\ ~Tears(offset, end)
  <2> SUFFICES ASSUME ~strayed'
      PROVE  /\ first = n /\ rest = 0 /\ end <= (frame + 1) * FrameSize
             /\ (frame + 1) * FrameSize <= BufferSize /\ ~Tears(offset, end)
    OBVIOUS
  <2>1. /\ offset + n <= (frame + 1) * FrameSize
        /\ (frame + 1) * FrameSize <= BufferSize
        /\ \A f \in Frames : Overlaps(offset, offset + n, f) => f = frame
    BY <1>3, CopyStaysInFrame
  <2>2. (frame + 1) * FrameSize \in Nat
    BY <1>3
  <2>3. first = n
    <3>1. BufferSize - offset \in Int /\ n <= BufferSize - offset
      BY <1>3, <2>1, <2>2
    <3> QED
      BY <3>1, MinOfTwo
  <2> HIDE DEF first
  <2>4. rest = 0
    BY <2>3
  <2>5. ~Tears(offset, end)
    BY <1>7, <2>1, <2>3 DEF Tears, InHand, Held
  <2> QED
    BY <2>1, <2>3, <2>4, <2>5
<1>9. FramesAreStable'
  <2> SUFFICES ASSUME ~strayed', torn' PROVE FALSE
    BY DEF FramesAreStable
  <2>1. ~torn
    BY <1>3 DEF FramesAreStable
  <2>2. ~(rest > 0)
    <3> HIDE DEF rest
    <3> QED
      BY <1>8
  <2> QED
    BY <1>2, <1>8, <2>1, <2>2
<1>10. OffsetIsInFrame' /\ Aligned'
  <2>1. n <= FrameSize
    <3>1. DmaSize \in Nat \ {0} /\ Multiple \in Nat \ {0} /\ n <= DmaSize
      BY <1>3, SaveConstants DEF RecorderTypes
    <3>2. DmaSize * 1 <= DmaSize * Multiple
      BY <3>1
    <3> QED
      BY <3>1, <3>2 DEF FrameSize
  <2>2. /\ OffsetIsInFrame'
        /\ ~full => frame' = frame /\ used' = used
        /\ full /\ end <= (frame + 1) * FrameSize /\ offset + n <= BufferSize =>
             offset' = frame' * FrameSize
    BY <1>3, <2>1, CopyEnds
  <2>3. ASSUME ~strayed' PROVE used'[frame'] => offset' = frame' * FrameSize
    <3>1. end <= (frame + 1) * FrameSize
      BY <1>8, <2>3
    <3>2. offset + n <= BufferSize
      <4>1. offset + n <= (frame + 1) * FrameSize /\ (frame + 1) * FrameSize <= BufferSize
        BY <1>3, <2>3, CopyStaysInFrame
      <4>2. (frame + 1) * FrameSize \in Int
        BY <1>3
      <4> QED
        BY <1>3, <4>1, <4>2
    <3> HIDE DEF full, end
    <3>3. CASE full
      BY <2>2, <3>1, <3>2, <3>3
    <3>4. CASE ~full
      BY <2>2, <3>4
    <3> QED
      BY <3>3, <3>4
  <2> QED
    BY <2>2, <2>3 DEF Aligned
<1>11. RecorderTypes'
  <2>1. offset' \in Int
    <3>1. start + rest \in Int
      <4> HIDE DEF first
      <4> QED
        BY <1>3, <1>4
    <3> QED
      BY <1>1, <3>1
  <2>2. DOMAIN used' = Frames
    BY <1>1, <1>3 DEF RecorderTypes
  <2>3. item' \in [Items -> [frame : Frames, at : {"done", "queued", "saving", "saved"}]]
    BY <1>1, <1>3, <1>6 DEF RecorderTypes, Handed
  <2>4. toCopy' \in Nat /\ frame' \in Frames
    <3> HIDE DEF next
    <3> QED
      BY <1>1, <1>3, <1>5 DEF RecorderTypes
  <2> QED
    BY <1>3, <2>1, <2>2, <2>3, <2>4 DEF RecorderTypes
<1> HIDE DEF full
<1>12. WorkersFit'
  <2>1. ~full => Saved' = Saved
    BY <1>1 DEF Saved
  <2> QED
    BY <1>1, <1>3, <1>6, <2>1 DEF WorkersFit, Handed
<1>13. RecorderTells'
  <2>1. CASE ~full
    BY <1>1, <1>3, <2>1 DEF RecorderTells, Held
  <2>2. CASE full
    BY <1>1, <1>3, <1>6, <1>7, <2>2 DEF RecorderTells, Held, Handed, RecorderTypes
  <2> QED
    BY <2>1, <2>2
<1>14. UsedIsInHand'
  <2>1. CASE ~full
    BY <1>1, <1>3, <2>1 DEF UsedIsInHand, InHand
  <2>2. CASE full
    <3>1. FreeItems # {}
      BY <1>3, ItemIsFree
    <3>2. \A f \in Frames : used'[f] => f = frame \/ used[f]
      BY <1>1, <1>3, <2>2 DEF RecorderTypes
    <3>3. ASSUME NEW f \in Frames, used'[f] PROVE InHand(f)'
      <4>1. CASE f = frame
        BY <1>1, <1>6, <2>2, <3>1, <4>1 DEF Handed, InHand
      <4>2. CASE used[f]
        BY <1>3, <1>6, <2>2, <4>2 DEF Handed, UsedIsInHand
      <4> QED
        BY <3>2, <3>3, <4>1, <4>2
    <3> QED
      BY <1>3, <3>3 DEF UsedIsInHand
  <2> QED
    BY <2>1, <2>2
<1>15. OneWorkerEach'
  BY <1>11, <1>13, OneEachNext
<1> QED
  BY <1>9, <1>10, <1>11, <1>12, <1>13, <1>14, <1>15 DEF RecorderInv, FramesAreSafe

LEMMA ReadKeepsInv ==
  ASSUME RecorderInv, ReadBytes
  PROVE  RecorderInv'
<1> DEFINE n == Min({toCopy, DmaSize - dmaOffset})
<1>1. /\ toCopy > 0 /\ toCopy' = toCopy - n /\ dmaOffset' = (dmaOffset + n) % DmaSize
      /\ WriteData(n) /\ UNCHANGED <<recorder, writeDisabled>>
  BY DEF ReadBytes
<1>2. ~strayed' => ~strayed /\ offset' % DmaSize = dmaOffset'
  BY Zenon DEF ReadBytes
<1>3. /\ RecorderTypes /\ RecorderTells /\ WorkersFit /\ Aligned
      /\ FramesAreStable /\ UsedIsInHand /\ OffsetIsInFrame
      /\ toCopy \in Nat /\ DmaSize \in Nat \ {0} /\ dmaOffset \in 0 .. DmaSize - 1
  BY SaveConstants DEF RecorderInv, FramesAreSafe, RecorderTypes
<1>4. n \in Nat /\ n <= toCopy /\ n <= DmaSize - dmaOffset
  <2>1. DmaSize - dmaOffset \in Int
    BY <1>3
  <2> QED
    BY <1>3, <2>1, MinOfTwo
<1> HIDE DEF n
<1>5. dmaOffset' \in 0 .. DmaSize - 1 /\ toCopy' \in Nat
  <2>1. dmaOffset + n \in Nat
    BY <1>3, <1>4
  <2> QED
    BY <1>1, <1>3, <1>4, <2>1, DivMod
<1>6. recorder = "running"
  BY <1>1, <1>3 DEF RecorderTells
<1>7. CASE writeDisabled \/ used[frame]
  <2>1. UNCHANGED <<offset, frame, used, item, torn, recorder>>
    BY <1>1, <1>7 DEF WriteData
  <2>2. Saved' = Saved
    BY <2>1 DEF Saved
  <2>3. RecorderTypes' /\ RecorderTells' /\ WorkersFit'
    BY <1>3, <1>5, <1>6, <2>1, <2>2 DEF RecorderTypes, RecorderTells, WorkersFit, Held
  <2>4. Aligned' /\ FramesAreStable' /\ UsedIsInHand' /\ OffsetIsInFrame'
    BY <1>2, <1>3, <2>1 DEF Aligned, FramesAreStable, UsedIsInHand, InHand, OffsetIsInFrame
  <2>5. OneWorkerEach'
    BY <1>6, <2>1, <2>3, OneEachNext
  <2> QED
    BY <2>3, <2>4, <2>5 DEF RecorderInv, FramesAreSafe
<1>8. CASE ~(writeDisabled \/ used[frame])
  <2>1. CopyIntoFrame(n) /\ ~used[frame]
    BY <1>1, <1>8 DEF WriteData
  <2> QED
    BY <1>1, <1>2, <1>4, <1>5, <1>6, <2>1, CopyKeepsInv
<1> QED
  BY <1>7, <1>8

LEMMA WorkerKeepsInv ==
  ASSUME RecorderInv, NEW i \in Items, Worker(i)
  PROVE  RecorderInv'
<1>1. /\ RecorderTypes /\ RecorderTells /\ WorkersFit /\ Aligned
      /\ FramesAreStable /\ UsedIsInHand /\ OffsetIsInFrame /\ OneWorkerEach
  BY DEF RecorderInv, FramesAreSafe
<1>2. /\ UNCHANGED <<recorder, dmaOffset, toCopy, offset, frame, strayed, torn>>
      /\ FramesAreStable' /\ OffsetIsInFrame'
      /\ used'[frame] => used[frame]
  BY <1>1 DEF Worker, BeginSave, EndSave, SetDone, FramesAreStable, OffsetIsInFrame,
     RecorderTypes
<1>7. Aligned'
  BY <1>1, <1>2 DEF Aligned
<1>8. OneWorkerEach'
  <2>1. \A j \in Items : item'[j].at \in {"queued", "saving"} =>
          item[j].at \in {"queued", "saving"} /\ item'[j].frame = item[j].frame
    BY <1>1 DEF Worker, BeginSave, EndSave, SetDone, RecorderTypes, IdleItem
  <2> QED
    BY <1>1, <1>2, <2>1, OneEachStays
<1>3. IsFiniteSet(Saved) /\ Cardinality(Saved) \in Nat /\ Workers \in Nat
  BY <1>1, FS_CardinalityType, SaveConstants DEF WorkersFit
<1>4. CASE BeginSave(i)
  <2>1. /\ item[i].at = "queued" /\ \A j \in Items : item[j].at # "saving"
        /\ Cardinality(Saved) < Workers
        /\ item' = [item EXCEPT ![i].at = "saving"] /\ used' = used
    BY <1>4 DEF BeginSave, Saved
  <2>2. Saved' = Saved
    BY <1>1, <2>1 DEF Saved, RecorderTypes
  <2>3. RecorderTypes' /\ RecorderTells' /\ WorkersFit' /\ UsedIsInHand'
    BY <1>1, <1>2, <2>1, <2>2
    DEF RecorderTypes, RecorderTells, WorkersFit, UsedIsInHand, InHand, Held
  <2> QED
    BY <1>2, <1>7, <1>8, <2>3 DEF RecorderInv, FramesAreSafe
<1>5. CASE EndSave(i)
  <2>1. /\ item[i].at = "saving"
        /\ used' = [used EXCEPT ![item[i].frame] = FALSE]
        /\ item' = [item EXCEPT ![i].at = "saved"]
    BY <1>5 DEF EndSave
  <2>2. Saved' = Saved \cup {i} /\ i \notin Saved
    BY <1>1, <2>1 DEF Saved, RecorderTypes
  <2>3. IsFiniteSet(Saved') /\ Cardinality(Saved') = Cardinality(Saved) + 1
    BY <1>3, <2>2, FS_AddElement
  <2>4. WorkersFit'
    BY <1>1, <1>3, <2>1, <2>3 DEF WorkersFit, RecorderTypes
  <2>5. RecorderTypes'
    BY <1>1, <1>2, <2>1 DEF RecorderTypes
  <2>6. Held' = Held \ {i} /\ i \in Held /\ \A j \in Held \ {i} : item'[j] = item[j]
    BY <1>1, <2>1 DEF Held, RecorderTypes
  <2>7. RecorderTells'
    <3>1. \A f \in Frames : f # item[i].frame => used'[f] = used[f]
      BY <1>1, <2>1 DEF RecorderTypes
    <3>2. recorder = "running" => \A j \in Held' : used'[item'[j].frame]
      BY <1>1, <2>6, <3>1 DEF RecorderTells, RecorderTypes, Held
    <3>3. recorder = "running" =>
            \A j, k \in Held' : item'[j].frame = item'[k].frame => j = k
      BY <1>1, <2>6 DEF RecorderTells
    <3> QED
      BY <1>1, <1>2, <2>1, <3>2, <3>3 DEF RecorderTells, RecorderTypes
  <2>8. UsedIsInHand'
    BY <1>1, <1>2, <2>1 DEF UsedIsInHand, InHand, RecorderTypes
  <2> QED
    BY <1>2, <1>7, <1>8, <2>4, <2>5, <2>7, <2>8 DEF RecorderInv, FramesAreSafe
<1>6. CASE SetDone(i)
  <2>1. /\ item[i].at = "saved" /\ item' = [item EXCEPT ![i] = IdleItem] /\ used' = used
    BY <1>6 DEF SetDone
  <2>2. Saved' = Saved \ {i} /\ i \in Saved
    BY <1>1, <2>1 DEF Saved, RecorderTypes, IdleItem
  <2>3. IsFiniteSet(Saved') /\ Cardinality(Saved') = Cardinality(Saved) - 1
    BY <1>3, <2>2, FS_RemoveElement
  <2>4. WorkersFit'
    BY <1>1, <1>3, <2>1, <2>3 DEF WorkersFit, RecorderTypes, IdleItem
  <2>5. RecorderTypes'
    BY <1>1, <1>2, <2>1, SaveConstants DEF RecorderTypes, IdleItem
  <2>6. RecorderTells'
    BY <1>1, <1>2, <2>1 DEF RecorderTells, RecorderTypes, IdleItem, Held
  <2>7. UsedIsInHand'
    BY <1>1, <1>2, <2>1 DEF UsedIsInHand, InHand, RecorderTypes, IdleItem
  <2> QED
    BY <1>2, <1>7, <1>8, <2>4, <2>5, <2>6, <2>7 DEF RecorderInv, FramesAreSafe
<1> QED
  BY <1>4, <1>5, <1>6 DEF Worker

LEMMA RecorderStep == RecorderInv /\ [SaveNext]_saveVars => RecorderInv'
<1> SUFFICES ASSUME RecorderInv, [SaveNext]_saveVars PROVE RecorderInv'
  OBVIOUS
<1>0. /\ RecorderTypes /\ RecorderTells /\ WorkersFit /\ Aligned
      /\ FramesAreStable /\ UsedIsInHand /\ OffsetIsInFrame /\ OneWorkerEach
  BY DEF RecorderInv, FramesAreSafe
<1> SUFFICES /\ RecorderTypes' /\ RecorderTells' /\ WorkersFit' /\ Aligned'
             /\ FramesAreStable' /\ UsedIsInHand' /\ OffsetIsInFrame' /\ OneWorkerEach'
  BY DEF RecorderInv, FramesAreSafe
<1> USE <1>0
<1>1. item' = item => Saved' = Saved /\ Held' = Held
  BY DEF Saved, Held
<1>2. CASE UNCHANGED saveVars
  BY <1>1, <1>2 DEF saveVars, RecorderTypes, RecorderTells, WorkersFit, Aligned,
     FramesAreStable, UsedIsInHand, InHand, OffsetIsInFrame, OneWorkerEach
<1>3. CASE Open
  <2>1. 0 * FrameSize = 0 /\ (0 + 1) * FrameSize = FrameSize /\ 0 % DmaSize = 0
    BY SaveConstants
  <2>2. Aligned' /\ FramesAreStable' /\ OffsetIsInFrame'
    BY <1>3, <2>1, SaveConstants DEF Open, Aligned, FramesAreStable, OffsetIsInFrame
  <2>3. RecorderTypes'
    BY <1>3, SaveConstants DEF Open, RecorderTypes
  <2>4. RecorderTells' /\ WorkersFit' /\ UsedIsInHand'
    BY <1>1, <1>3 DEF Open, RecorderTells, WorkersFit, UsedIsInHand, InHand
  <2>5. OneWorkerEach'
    BY <1>3, <2>3, <2>4, OneEachNext DEF Open
  <2> QED
    BY <2>2, <2>3, <2>4, <2>5
<1>4. CASE Run
  <2>1. \A i \in Items : item[i].at = "done"
    BY <1>4 DEF Run, RecorderTells
  <2>2. Held = {}
    BY <2>1 DEF Held
  <2> QED
    BY <1>1, <1>4, <2>1, <2>2 DEF Run, RecorderTypes, RecorderTells, WorkersFit, Aligned,
       FramesAreStable, UsedIsInHand, InHand, OffsetIsInFrame, OneWorkerEach
<1>5. ASSUME NEW flag \in BOOLEAN, Disable(flag)
      PROVE  /\ RecorderTypes' /\ RecorderTells' /\ WorkersFit' /\ Aligned'
             /\ FramesAreStable' /\ UsedIsInHand' /\ OffsetIsInFrame' /\ OneWorkerEach'
  BY <1>1, <1>5 DEF Disable, RecorderTypes, RecorderTells, WorkersFit, Aligned,
     FramesAreStable, UsedIsInHand, InHand, OffsetIsInFrame, OneWorkerEach
<1>6. ASSUME NEW n \in 1 .. MaxMove, Displace(n)
      PROVE  /\ RecorderTypes' /\ RecorderTells' /\ WorkersFit' /\ Aligned'
             /\ FramesAreStable' /\ UsedIsInHand' /\ OffsetIsInFrame' /\ OneWorkerEach'
  BY <1>1, <1>6, SaveConstants DEF Displace, RecorderTypes, RecorderTells, WorkersFit,
     Aligned, FramesAreStable, UsedIsInHand, InHand, OffsetIsInFrame, OneWorkerEach
<1>7. CASE Stop
  <2>1. SaveFrame(frame) \/ UNCHANGED item
    BY <1>7 DEF Stop
  <2>2. SaveFrame(frame) => Handed(frame)
    BY HandsOut DEF RecorderTypes
  <2>3. /\ recorder = "running" /\ toCopy = 0 /\ recorder' = "stopping" /\ dmaOffset' = 0
        /\ UNCHANGED <<toCopy, offset, frame, used, writeDisabled, torn>>
    BY <1>7 DEF Stop
  <2>4. ~strayed' => ~strayed /\ offset % DmaSize = 0
    BY <1>7, Zenon DEF Stop
  <2>5. RecorderTypes'
    BY <2>1, <2>2, <2>3, SaveConstants DEF RecorderTypes, Handed
  <2>6. RecorderTells' /\ WorkersFit'
    BY <1>1, <2>1, <2>2, <2>3 DEF RecorderTells, WorkersFit, Handed
  <2>7. Aligned' /\ FramesAreStable' /\ OffsetIsInFrame'
    BY <2>3, <2>4 DEF Aligned, FramesAreStable, OffsetIsInFrame
  <2>8. UsedIsInHand'
    BY <2>1, <2>2, <2>3 DEF UsedIsInHand, InHand, Handed
  <2>9. OneWorkerEach'
    <3> SUFFICES ASSUME ~strayed' PROVE OneWorkerEach'
      BY <2>3 DEF OneWorkerEach
    <3>1. \A i \in Held : item[i].frame = frame => offset = frame * FrameSize
      BY <2>3, <2>4 DEF RecorderTells, Aligned
    <3>2. CASE item' = item
      BY <2>3, <3>2 DEF RecorderTells, OneWorkerEach, Held
    <3>3. CASE item' # item
      <4>1. offset > frame * FrameSize /\ SaveFrame(frame)
        BY <1>7, <3>3 DEF Stop
      <4>2. ~ \E i \in Held : item[i].frame = frame
        <5>1. offset \in Int /\ frame * FrameSize \in Int
          BY SaveConstants DEF RecorderTypes, Frames
        <5> QED
          BY <3>1, <4>1, <5>1
      <4>3. Handed(frame)
        BY <2>2, <4>1
      <4>4. ASSUME NEW i \in Items, NEW j \in Items, i # j,
                   item'[i].frame = item'[j].frame,
                   {item'[i].at, item'[j].at} \subseteq {"queued", "saving"}
            PROVE  FALSE
        <5>1. item'[i] = item[i] \/ item'[j] = item[j]
          BY <4>3, <4>4 DEF Handed
        <5>2. CASE item'[i] = item[i] /\ item'[j] = item[j]
          BY <2>3, <4>4, <5>2 DEF RecorderTells, Held
        <5>3. CASE item'[i] # item[i]
          BY <4>2, <4>3, <4>4, <5>1, <5>3 DEF Handed, Held
        <5>4. CASE item'[j] # item[j]
          BY <4>2, <4>3, <4>4, <5>1, <5>4 DEF Handed, Held
        <5> QED
          BY <5>2, <5>3, <5>4
      <4> QED
        BY <4>4 DEF OneWorkerEach
    <3> QED
      BY <3>2, <3>3
  <2> QED
    BY <2>5, <2>6, <2>7, <2>8, <2>9
<1>8. CASE Stopped
  BY <1>1, <1>8 DEF Stopped, AllDone, RecorderTypes, RecorderTells, WorkersFit, Aligned,
     FramesAreStable, UsedIsInHand, InHand, OffsetIsInFrame, OneWorkerEach
<1>9. CASE Close
  BY <1>1, <1>9 DEF Close, RecorderTypes, RecorderTells, WorkersFit, Aligned,
     FramesAreStable, UsedIsInHand, InHand, OffsetIsInFrame, OneWorkerEach
<1>10. CASE ReadBytes
  BY <1>10, ReadKeepsInv DEF RecorderInv, FramesAreSafe
<1>11. ASSUME NEW i \in Items, Worker(i)
       PROVE  /\ RecorderTypes' /\ RecorderTells' /\ WorkersFit' /\ Aligned'
              /\ FramesAreStable' /\ UsedIsInHand' /\ OffsetIsInFrame' /\ OneWorkerEach'
  BY <1>11, WorkerKeepsInv DEF RecorderInv, FramesAreSafe
<1> QED
  BY <1>2, <1>3, <1>4, <1>5, <1>6, <1>7, <1>8, <1>9, <1>10, <1>11 DEF SaveNext

(* Frames in the hands of the workers, items and offsets fit together, for *)
(* every number of frames, and of work items enough for them.              *)
THEOREM RecorderInvariant == SaveSpec => []RecorderInv
BY RecorderStarts, RecorderStep, PTL DEF SaveSpec

(* No frame is written into while it is being saved, unless the offsets    *)
(* have come apart, and none is lost for want of a work item.              *)
THEOREM RecordedFramesAreSafe == SaveSpec => []FramesAreSafe
BY RecorderInvariant, PTL DEF RecorderInv

(* Once a stop has returned no worker touches the frames or the file.      *)
THEOREM StopWaitsForAll == SaveSpec => []NoWorkAfterStop
<1>1. RecorderInv => NoWorkAfterStop
  BY DEF RecorderInv, RecorderTells, NoWorkAfterStop
<1> QED
  BY <1>1, RecorderInvariant, PTL

(* Steps that the worker of an item has still to take.                     *)
StepsLeft(i) ==
  CASE item[i].at = "queued" -> 3
    [] item[i].at = "saving" -> 2
    [] item[i].at = "saved" -> 1
    [] OTHER -> 0

(* The guards of a worker's steps: the file is free and a thread is, or it *)
(* has begun.                                                              *)
WorkerGoesOn(i) ==
  \/ /\ item[i].at = "queued" /\ \A j \in Items : item[j].at # "saving"
     /\ Cardinality({j \in Items : item[j].at = "saved"}) < Workers
  \/ item[i].at \in {"saving", "saved"}

(* The workers never all wait for each other, neither for the file nor for *)
(* a thread: as long as a work item is out, one of them can go on.         *)
THEOREM WorkersNeverBlock == SaveSpec => [](AllDone \/ \E i \in Items : WorkerGoesOn(i))
<1>1. RecorderInv => AllDone \/ \E i \in Items : WorkerGoesOn(i)
  <2> SUFFICES ASSUME RecorderInv, ~AllDone PROVE \E i \in Items : WorkerGoesOn(i)
    OBVIOUS
  <2>1. PICK i \in Items : item[i].at # "done"
    BY DEF AllDone
  <2>2. CASE \E j \in Items : item[j].at \in {"saving", "saved"}
    BY <2>2 DEF WorkerGoesOn
  <2>3. CASE \A j \in Items : item[j].at \notin {"saving", "saved"}
    <3>1. item[i].at = "queued"
      BY <2>1, <2>3 DEF RecorderInv, RecorderTypes
    <3>2. {j \in Items : item[j].at = "saved"} = {}
      BY <2>3
    <3>3. Cardinality({}) < Workers
      BY FS_EmptySet, SaveConstants
    <3> QED
      BY <2>3, <3>1, <3>2, <3>3 DEF WorkerGoesOn
  <2> QED
    BY <2>2, <2>3
<1> QED
  BY <1>1, RecorderInvariant, PTL

(* A stop that waits is over when every item has taken its three steps, at *)
(* most: while it waits no frame is handed out any more, no item goes back *)
(* and each step of a worker brings its own nearer to the end.             *)
THEOREM StopDrains ==
  SaveSpec => [][recorder = "stopping" =>
                   /\ recorder' \in {"stopping", "stopped"}
                   /\ \A i \in Items : StepsLeft(i)' =< StepsLeft(i)
                   /\ \A i \in Items : Worker(i) => StepsLeft(i)' < StepsLeft(i)]_saveVars
<1> DEFINE Drains == /\ recorder' \in {"stopping", "stopped"}
                     /\ \A i \in Items : StepsLeft(i)' =< StepsLeft(i)
                     /\ \A i \in Items : Worker(i) => StepsLeft(i)' < StepsLeft(i)
<1>1. ASSUME NEW i \in Items PROVE StepsLeft(i) \in Nat
  BY DEF StepsLeft
<1>2. ASSUME RecorderInv, NEW i \in Items, Worker(i)
      PROVE  /\ StepsLeft(i)' < StepsLeft(i)
             /\ \A j \in Items \ {i} : StepsLeft(j)' = StepsLeft(j)
  <2>1. item \in [Items -> [frame : Frames, at : {"done", "queued", "saving", "saved"}]]
    BY <1>2 DEF RecorderInv, RecorderTypes
  <2>2. \A j \in Items \ {i} : item'[j] = item[j]
    BY <1>2, <2>1 DEF Worker, BeginSave, EndSave, SetDone
  <2>3. \/ item[i].at = "queued" /\ item'[i].at = "saving"
        \/ item[i].at = "saving" /\ item'[i].at = "saved"
        \/ item[i].at = "saved" /\ item'[i].at = "done"
    BY <1>2, <2>1 DEF Worker, BeginSave, EndSave, SetDone, IdleItem
  <2> QED
    BY <2>2, <2>3 DEF StepsLeft
<1>3. ASSUME RecorderInv, SaveNext, recorder = "stopping" PROVE Drains
  <2>1. CASE \E i \in Items : Worker(i)
    <3>1. PICK i \in Items : Worker(i)
      BY <2>1
    <3>2. /\ StepsLeft(i)' < StepsLeft(i)
          /\ \A j \in Items \ {i} : StepsLeft(j)' = StepsLeft(j)
      BY <1>2, <1>3, <3>1
    <3>3. \A j \in Items : Worker(j) => StepsLeft(j)' < StepsLeft(j)
      BY <1>2, <1>3
    <3>4. recorder' = "stopping"
      BY <1>3, <3>1 DEF Worker, BeginSave, EndSave, SetDone
    <3>5. ASSUME NEW j \in Items PROVE StepsLeft(j)' =< StepsLeft(j)
      <4>1. StepsLeft(j) \in Nat /\ StepsLeft(j)' \in Nat
        BY DEF StepsLeft
      <4> QED
        BY <3>2, <4>1
    <3> QED
      BY <3>3, <3>4, <3>5
  <2>2. CASE ~ \E i \in Items : Worker(i)
    <3>1. item' = item /\ recorder' \in {"stopping", "stopped"}
      BY <1>3, <2>2 DEF SaveNext, Open, Run, Stop, Stopped, Close, Disable, Displace,
                        ReadBytes, RecorderInv, RecorderTells
    <3>2. \A i \in Items : StepsLeft(i)' = StepsLeft(i)
      BY <3>1 DEF StepsLeft
    <3> QED
      BY <1>1, <2>2, <3>1, <3>2
  <2> QED
    BY <2>1, <2>2
<1> HIDE DEF Drains
<1>4. RecorderInv /\ [SaveNext]_saveVars => [recorder = "stopping" => Drains]_saveVars
  BY <1>3
<1> QED
  BY <1>4, RecorderInvariant, PTL DEF SaveSpec, Drains

-----------------------------------------------------------------------------
(* The properties of the two filters.                                      *)

AllRequests == Controls \cup Jacks \cup Proposals \cup Defaults \cup ModeLists

(* The reply is the handler's answer to a request.                         *)
Replied(r) ==
  reply = [request |-> r, status |-> AnswerOf(r).status, size |-> AnswerOf(r).size,
           value |-> reply.value]

ReplyTells ==
  \/ reply = NoReply
  \/ \E r \in AllRequests : Replied(r) /\ (r.item = "format2" => reply.value = DefaultFormat)

MixerTells == mixer \in [volume : Int, mute : {0, 1}] /\ VolumeAsAnnounced

PropertyInv == ReplyTells /\ MixerTells

Refusals == {"OVERFLOW", "TOO_SMALL", "TOO_SHORT"}

(* Asked again with the size that was announced, a request is not refused  *)
(* for its size, and what is written fits.                                 *)
Truthful(r) ==
  LET a == AnswerOf(r)
  IN /\ (a.status = "TOO_SHORT" \/ (a.status = "OVERFLOW" /\ r.instance)) =>
          AnswerOf([r EXCEPT !.size = a.size]).status \notin Refusals
     /\ a.status = "SUCCESS" /\ r.verb # "count" => a.size <= r.size

LEMMA PropertyConstants ==
  /\ {Ulong, Description, Members, Stepping, JackSize, FormatSize, ListSize,
      MaxChannels, VolumeStep} \subseteq Nat \ {0}
  /\ Ulong < Description /\ Volumes \subseteq Int /\ RequestSizes \subseteq Nat
  /\ FullProperty \in Nat /\ Format2Size \in Nat \ {0}
<1>1. Stepping * MaxChannels \in Nat
  BY PropertyAssumption DEF PropertyAssumption
<1> QED
  BY <1>1, PropertyAssumption DEF PropertyAssumption, FullProperty, Format2Size

LEMMA ControlsAreTruthful == \A r \in Controls : Truthful(r)
<1> SUFFICES ASSUME NEW r \in Controls PROVE Truthful(r)
  OBVIOUS
<1> DEFINE a == AnswerOf(r)
           q == [r EXCEPT !.size = a.size]
<1>1. /\ r.item \in {"volume", "mute"} /\ r.verb \in {"set", "get", "support"}
      /\ r.size \in Nat /\ r.instance \in BOOLEAN
      /\ q.item = r.item /\ q.verb = r.verb /\ q.size = a.size
      /\ q.instance = r.instance /\ q.channel = r.channel
  BY PropertyConstants DEF Controls, ControlRequests
<1> HIDE DEF q
<1>2. a = ControlAnswer(r) /\ AnswerOf(q) = ControlAnswer(q)
  BY <1>1 DEF AnswerOf
<1> HIDE DEF a
<1>3. CASE r.verb = "support"
  BY <1>1, <1>2, <1>3, PropertyConstants
     DEF ControlAnswer, BasicSupportRanges, BasicSupport, Answer, Truthful, Refusals, a, q
<1>4. CASE r.verb # "support"
  BY <1>1, <1>2, <1>4, PropertyConstants
     DEF ControlAnswer, ValidateParams, Answer, Truthful, Refusals, a, q
<1> QED
  BY <1>3, <1>4

LEMMA JacksAreTruthful == \A r \in Jacks : Truthful(r)
<1> SUFFICES ASSUME NEW r \in Jacks PROVE Truthful(r)
  OBVIOUS
<1> DEFINE a == AnswerOf(r)
           q == [r EXCEPT !.size = a.size]
<1>1. /\ r.item \in {"jack", "jack2"} /\ r.verb \in {"get", "support"}
      /\ r.size \in Nat /\ r.instance \in BOOLEAN
      /\ q.item = r.item /\ q.verb = r.verb /\ q.size = a.size
      /\ q.instance = r.instance /\ q.pin = r.pin
  BY PropertyConstants DEF Jacks
<1> HIDE DEF q
<1>2. a = JackAnswer(r) /\ AnswerOf(q) = JackAnswer(q)
  BY <1>1 DEF AnswerOf
<1> HIDE DEF a
<1> QED
  BY <1>1, <1>2, PropertyConstants
     DEF JackAnswer, BasicSupport, JudgeSize, Answer, Truthful, Refusals, a, q

LEMMA ProposalsAreTruthful == \A r \in Proposals : Truthful(r)
<1> SUFFICES ASSUME NEW r \in Proposals PROVE Truthful(r)
  OBVIOUS
<1> DEFINE a == AnswerOf(r)
           q == [r EXCEPT !.size = a.size]
<1>1. /\ r.item = "format" /\ r.verb \in {"set", "support"}
      /\ r.pin \in {SystemPin, BridgePin, NoPin}
      /\ r.size \in Nat /\ r.instance \in BOOLEAN
      /\ q.item = r.item /\ q.verb = r.verb /\ q.size = a.size
      /\ q.instance = r.instance /\ q.pin = r.pin /\ q.format = r.format
  BY PropertyConstants DEF Proposals
<1> HIDE DEF q
<1>2. a = ProposedFormatAnswer(r) /\ AnswerOf(q) = ProposedFormatAnswer(q)
  BY <1>1 DEF AnswerOf
<1> HIDE DEF a
<1> QED
  BY <1>1, <1>2, PropertyConstants
     DEF ProposedFormatAnswer, BasicSupport, JudgeSize, Answer, Truthful, Refusals, a, q,
         SystemPin, BridgePin, NoPin

LEMMA DefaultsAreTruthful == \A r \in Defaults : Truthful(r)
<1> SUFFICES ASSUME NEW r \in Defaults PROVE Truthful(r)
  OBVIOUS
<1> DEFINE a == AnswerOf(r)
           q == [r EXCEPT !.size = a.size]
<1>1. /\ r.item = "format2" /\ r.verb \in {"get", "support"}
      /\ r.pin \in {SystemPin, BridgePin, NoPin}
      /\ r.size \in Nat /\ r.instance \in BOOLEAN
      /\ q.item = r.item /\ q.verb = r.verb /\ q.size = a.size
      /\ q.instance = r.instance /\ q.pin = r.pin /\ q.list = r.list
  BY PropertyConstants DEF Defaults
<1> HIDE DEF q
<1>2. a = ProposedFormat2Answer(r) /\ AnswerOf(q) = ProposedFormat2Answer(q)
  BY <1>1 DEF AnswerOf
<1>3. ListVerdict(r.list) \in {"SUCCESS", "INVALID", "NOT_SUPPORTED"}
  BY DEF ListVerdict
<1> HIDE DEF a
<1> QED
  BY <1>1, <1>2, <1>3, PropertyConstants
     DEF ProposedFormat2Answer, BasicSupport, JudgeSize, Answer, Truthful, Refusals, a, q,
         SystemPin, BridgePin, NoPin, Format2Size

LEMMA ModesAreTruthful == \A r \in ModeLists : Truthful(r)
<1> SUFFICES ASSUME NEW r \in ModeLists PROVE Truthful(r)
  OBVIOUS
<1> DEFINE a == AnswerOf(r)
           q == [r EXCEPT !.size = a.size]
<1>1. /\ r.item = "modes" /\ r.verb \in {"get", "count"}
      /\ r.pin \in {SystemPin, BridgePin, NoPin} /\ r.size \in Nat
      /\ q.item = r.item /\ q.verb = r.verb /\ q.size = a.size /\ q.pin = r.pin
  BY PropertyConstants DEF ModeLists
<1> HIDE DEF q
<1>2. a = ModesAnswer(r) /\ AnswerOf(q) = ModesAnswer(q)
  BY <1>1 DEF AnswerOf
<1> HIDE DEF a
<1> QED
  BY <1>1, <1>2
     DEF ModesAnswer, ModeCount, Answer, Truthful, Refusals, a, q,
         SystemPin, BridgePin, NoPin

(* The default format is only reported for the pin that has it.            *)
LEMMA DefaultsAreAccepted ==
  ASSUME NEW r \in AllRequests, r.item = "format2", r.verb = "get",
         AnswerOf(r).status = "SUCCESS"
  PROVE  FormatSupported(r.pin, DefaultFormat)
<1>1. r \in Defaults
  BY DEF AllRequests, Controls, ControlRequests, Jacks, Proposals, ModeLists
<1>2. r.pin \in {SystemPin, BridgePin, NoPin} /\ r.instance \in BOOLEAN
  BY <1>1 DEF Defaults
<1>3. AnswerOf(r) = ProposedFormat2Answer(r)
  BY DEF AnswerOf
<1> QED
  BY <1>2, <1>3 DEF ProposedFormat2Answer, Answer, FormatSupported, DefaultFormat,
     SystemPin, BridgePin, NoPin

(* A volume is brought to a step of the range: the range ends at steps.    *)
LEMMA NormalizedIsAStep ==
  ASSUME NEW v \in Int
  PROVE  /\ Normalize(v) \in VolumeMin .. 0
         /\ (-Normalize(v)) % VolumeStep = 0
<1> DEFINE half == VolumeStep \div 2
           q == (-v + half) \div VolumeStep
<1>1. VolumeStep \in Nat \ {0}
  BY PropertyConstants
<1>2. VolumeMin \in Int /\ VolumeMin <= 0 /\ (-VolumeMin) % VolumeStep = 0
  BY PropertyAssumption DEF PropertyAssumption
<1> DEFINE n == (-VolumeMin) \div VolumeStep
<1>7. n \in Nat /\ -VolumeMin = n * VolumeStep
  <2>1. -VolumeMin \in Nat
    BY <1>2
  <2>2. n \in Nat /\ -VolumeMin = VolumeStep * n + ((-VolumeMin) % VolumeStep)
    BY <1>1, <2>1, DivMod
  <2> HIDE DEF n
  <2> QED
    BY <1>1, <1>2, <2>2
<1> HIDE DEF n
<1>3. ASSUME NEW k \in Nat PROVE k * VolumeStep \in Nat /\ (k * VolumeStep) % VolumeStep = 0
  <2>1. k * VolumeStep \in Nat
    BY <1>1
  <2>2. k * VolumeStep = VolumeStep * ((k * VolumeStep) \div VolumeStep)
                           + ((k * VolumeStep) % VolumeStep)
    BY <1>1, <2>1, DivMod
  <2>3. /\ (k * VolumeStep) % VolumeStep \in 0 .. VolumeStep - 1
        /\ (k * VolumeStep) \div VolumeStep \in Nat
    BY <1>1, <2>1, DivMod
  <2>4. VolumeStep * k + 0 = k * VolumeStep
    BY <1>1
  <2> HIDE <1>3
  <2> QED
    BY <1>1, <2>2, <2>3, <2>4, RemainderUnique
<1>4. CASE v > 0
  <2>1. PICK z \in Nat : z = 0
    OBVIOUS
  <2>2. Normalize(v) = z
    BY <1>2, <1>4, <2>1 DEF Normalize
  <2>3. -z = z * VolumeStep /\ z \in VolumeMin .. 0
    BY <1>1, <1>2, <2>1
  <2>4. (-z) % VolumeStep = 0
    BY <1>3, <2>3
  <2> QED
    BY <2>2, <2>3, <2>4, Zenon
<1>5. CASE v < VolumeMin
  <2>1. VolumeMin \in Int /\ VolumeMin <= 0 /\ -VolumeMin = n * VolumeStep
    BY <1>2, <1>7
  <2>2. Normalize(v) = VolumeMin
    BY <1>5, <2>1 DEF Normalize
  <2>3. VolumeMin \in VolumeMin .. 0
    BY <2>1
  <2> QED
    BY <1>2, <2>2, <2>3, Zenon
<1>6. CASE ~(v > 0) /\ ~(v < VolumeMin)
  <2>1. VolumeMin \in Int /\ VolumeMin <= 0 /\ -VolumeMin = n * VolumeStep
    BY <1>2, <1>7
  <2>2. half \in Nat /\ half < VolumeStep
    BY <1>1
  <2>3. -v + half \in Nat /\ -v + half < n * VolumeStep + VolumeStep
    BY <1>1, <1>6, <1>7, <2>1, <2>2
  <2> HIDE DEF half
  <2>4. q \in Nat /\ VolumeStep * q <= -v + half
    <3> DEFINE w == -v + half
    <3>1. w \in Nat
      BY <2>3
    <3>2. /\ w % VolumeStep \in Nat /\ w \div VolumeStep \in Nat
          /\ w = VolumeStep * (w \div VolumeStep) + (w % VolumeStep)
      <4> HIDE DEF w
      <4> QED
        BY <1>1, <3>1, DivMod
    <3>3. q = w \div VolumeStep
      OBVIOUS
    <3> HIDE DEF w, q
    <3>4. q \in Nat /\ VolumeStep * q <= w
      BY <1>1, <3>1, <3>2, <3>3
    <3> QED
      BY <3>4 DEF w
  <2> HIDE DEF q
  <2>5. q <= n
    <3> SUFFICES ASSUME q >= n + 1 PROVE FALSE
      BY <1>7, <2>4
    <3>1. VolumeStep * q >= VolumeStep * (n + 1)
      BY <1>1, <1>7, <2>4
    <3> QED
      BY <1>1, <1>7, <2>3, <2>4, <3>1
  <2>6. q * VolumeStep <= n * VolumeStep
    BY <1>1, <1>7, <2>4, <2>5
  <2>7. Normalize(v) = -(q * VolumeStep)
    BY <1>6, <2>1 DEF Normalize, RoundedStep, q, half
  <2>8. q * VolumeStep \in Nat /\ (q * VolumeStep) % VolumeStep = 0
    BY <1>3, <2>4
  <2>9. -(-(q * VolumeStep)) = q * VolumeStep
    BY <2>8
  <2> QED
    BY <2>1, <2>6, <2>7, <2>8, <2>9
<1> QED
  BY <1>4, <1>5, <1>6

LEMMA PropertyStarts == PropertyInit => PropertyInv
BY DEF PropertyInit, PropertyInv, ReplyTells, MixerTells, VolumeAsAnnounced, ResetMixer

LEMMA PropertyStep ==
  ASSUME PropertyInv, [PropertyNext]_propertyVars PROVE PropertyInv'
<1>1. CASE UNCHANGED propertyVars
  BY <1>1 DEF PropertyInv, propertyVars, ReplyTells, Replied, MixerTells, VolumeAsAnnounced
<1>2. ASSUME NEW r \in AllRequests, NEW value, Reply(r, value),
             r.item = "format2" => value = DefaultFormat
      PROVE  ReplyTells'
  BY <1>2 DEF Reply, ReplyTells, Replied
<1>3. ASSUME NEW r \in Controls, RequestControl(r) PROVE PropertyInv'
  <2>1. r \in AllRequests /\ r.item # "format2"
    BY DEF AllRequests, Controls, ControlRequests
  <2>2. ReplyTells'
    BY <1>2, <1>3, <2>1 DEF RequestControl
  <2>3. CASE mixer' = mixer
    BY <2>2, <2>3 DEF PropertyInv, MixerTells, VolumeAsAnnounced
  <2>4. CASE mixer' = SetControl(r) /\ r.verb = "set"
    <3>1. r.value \in Int
      BY <2>4, PropertyConstants DEF Controls, ControlRequests
    <3>2. CASE r.item = "volume"
      <4>1. mixer' = [mixer EXCEPT !.volume = Normalize(r.value)]
        BY <2>4, <3>2 DEF SetControl, SetMixerVolume
      <4>2. /\ Normalize(r.value) \in VolumeMin .. 0
            /\ (-Normalize(r.value)) % VolumeStep = 0
        BY <3>1, NormalizedIsAStep
      <4> QED
        BY <2>2, <4>1, <4>2 DEF PropertyInv, MixerTells, VolumeAsAnnounced
    <3>3. CASE r.item # "volume"
      <4>1. PICK m \in {0, 1} : mixer' = [mixer EXCEPT !.mute = m]
        BY <2>4, <3>3 DEF SetControl, SetMixerMute
      <4> QED
        BY <2>2, <4>1 DEF PropertyInv, MixerTells, VolumeAsAnnounced
    <3> QED
      BY <3>2, <3>3
  <2> QED
    BY <1>3, <2>3, <2>4 DEF RequestControl
<1>4. ASSUME NEW r \in Jacks \cup Proposals \cup Defaults \cup ModeLists, RequestTable(r)
      PROVE  PropertyInv'
  <2>1. ReplyTells'
    BY <1>2, <1>4 DEF RequestTable, AllRequests
  <2> QED
    BY <1>4, <2>1 DEF RequestTable, PropertyInv, MixerTells, VolumeAsAnnounced
<1>5. CASE MixerReset
  BY <1>5 DEF MixerReset, PropertyInv, ReplyTells, MixerTells, VolumeAsAnnounced, ResetMixer
<1> QED
  BY <1>1, <1>3, <1>4, <1>5 DEF PropertyNext

LEMMA RepliesAreTrue == PropertyInv => AnswersAreTrue
<1> SUFFICES ASSUME PropertyInv PROVE AnswersAreTrue
  OBVIOUS
<1>1. CASE reply = NoReply
  BY <1>1 DEF PropertyInv, MixerTells, AnswersAreTrue, SizeAnswerHolds, DefaultIsAccepted,
     NoReply
<1>2. ASSUME NEW r \in AllRequests, Replied(r), r.item = "format2" => reply.value = DefaultFormat
      PROVE  AnswersAreTrue
  <2>1. /\ reply.request = r /\ reply.status = AnswerOf(r).status
        /\ reply.size = AnswerOf(r).size
    BY <1>2 DEF Replied
  <2>2. Truthful(r)
    BY ControlsAreTruthful, JacksAreTruthful, ProposalsAreTruthful, DefaultsAreTruthful,
       ModesAreTruthful DEF AllRequests
  <2>3. TellsSize => AnswerOf([r EXCEPT !.size = reply.size]).status \notin Refusals
    <3>1. TellsSize => \/ AnswerOf(r).status = "TOO_SHORT"
                       \/ (AnswerOf(r).status = "OVERFLOW" /\ r.instance)
      BY <2>1 DEF TellsSize
    <3>2. \/ AnswerOf(r).status = "TOO_SHORT"
          \/ (AnswerOf(r).status = "OVERFLOW" /\ r.instance)
          => AnswerOf([r EXCEPT !.size = AnswerOf(r).size]).status \notin Refusals
      BY <2>2, Zenon DEF Truthful
    <3>3. [r EXCEPT !.size = AnswerOf(r).size] = [r EXCEPT !.size = reply.size]
      BY <2>1, Zenon
    <3> QED
      BY <3>1, <3>2, <3>3, Zenon
  <2>5. (reply.status = "SUCCESS" /\ r.verb # "count") => reply.size <= r.size
    BY <2>1, <2>2 DEF Truthful
  <2>6. SizeAnswerHolds
    BY <2>1, <2>3, <2>5 DEF SizeAnswerHolds, Refusals
  <2>4. DefaultIsAccepted
    BY <1>2, <2>1, DefaultsAreAccepted DEF DefaultIsAccepted
  <2> QED
    BY <2>4, <2>6 DEF AnswersAreTrue, PropertyInv, MixerTells
<1> QED
  BY <1>1, <1>2 DEF PropertyInv, ReplyTells

(* Replies are the handlers' answers, and the volume is a step of the      *)
(* range, for all sizes of structures, buffers and ranges.                 *)
THEOREM PropertyInvariant == PropertySpec => []PropertyInv
BY PropertyStarts, PropertyStep, PTL DEF PropertySpec

(* What a client is told of sizes, formats and volumes is true.            *)
THEOREM AnswersAreKept == PropertySpec => []AnswersAreTrue
BY PropertyInvariant, RepliesAreTrue, PTL

===============================================================================
