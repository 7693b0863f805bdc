----------------------------- MODULE RingBuffer -----------------------------
(***************************************************************************)
(* The lock-free single-producer / single-consumer ring of                 *)
(* src/src/engine/ring_buffer.h, at the grain of its atomic operations.    *)
(*                                                                         *)
(* The two indices are the only shared synchronisation.  Each party owns   *)
(* one of them: it loads the other one (acquire), copies, and stores its   *)
(* own (release).  An own-index load is invisible to the other party, so   *)
(* it belongs to the step of the foreign load.  memcpy and memset are not  *)
(* atomic: the copy goes frame by frame, first the chunk up to the end of  *)
(* the storage, then the rest at its beginning.                            *)
(*                                                                         *)
(* A call that finds nothing to do (writable = 0, readable = 0) returns    *)
(* without touching anything and is a stuttering step.                     *)
(***************************************************************************)
EXTENDS Naturals, Sequences

CONSTANTS Capacity,   \* frameCapacity of the constructor
          Frame,      \* the values a frame can have
          Silence,    \* the frame writeSilence stores
          MaxBlock    \* longest block a caller hands over or asks for

ASSUME RingAssumption ==
  /\ Capacity \in Nat \ {0}
  /\ MaxBlock \in Nat \ {0}
  /\ Silence \in Frame

VARIABLES data, write, read,          \* data_, write_, read_
          wpc, src, wCount, wDone,    \* the producer's call in progress
          rpc, dst, rCount,           \* the consumer's call in progress
          result                      \* block the last read() returned

producer == <<wpc, src, wCount, wDone>>
consumer == <<rpc, dst, rCount>>
vars == <<data, write, read, producer, consumer, result>>

Slots == Capacity + 1
Slot == 0 .. Capacity

(* Distance from a read index to a write index.                            *)
Distance(w, r) == IF w >= r THEN w - r ELSE Slots - r + w

AvailableToRead == Distance(write, read)

(* Mutant: the slot that is kept empty is handed out too.                  *)
AvailableToWrite_NoEmptySlot == Slots - AvailableToRead

AvailableToWrite == Capacity - AvailableToRead

Least(a, b) == IF a =< b THEN a ELSE b

Advance(index, by) ==
  IF index + by >= Slots THEN index + by - Slots ELSE index + by

(* The slot of the k-th frame (from 0) of an n-frame copy that begins at   *)
(* slot start: two chunks, the second from slot 0.                         *)
ChunkSlot(start, n, k) ==
  LET firstChunk == Least(n, Slots - start)
  IN  IF k < firstChunk THEN start + k ELSE k - firstChunk

Init ==
  /\ data = [s \in Slot |-> Silence]
  /\ write = 0 /\ read = 0
  /\ wpc = "idle" /\ src = <<>> /\ wCount = 0 /\ wDone = 0
  /\ rpc = "idle" /\ dst = <<>> /\ rCount = 0
  /\ result = <<>>

-----------------------------------------------------------------------------
(* Producer: write() and writeSilence()                                    *)

BeginWrite(block) ==
  /\ wpc = "idle"
  /\ Least(Len(block), AvailableToWrite) > 0
  /\ wpc' = "copy"
  /\ src' = block
  /\ wCount' = Least(Len(block), AvailableToWrite)
  /\ wDone' = 0
  /\ UNCHANGED <<data, write, read, consumer, result>>

BeginWriteSilence(frames) == BeginWrite([i \in 1 .. frames |-> Silence])

CopyIn ==
  /\ wpc = "copy" /\ wDone < wCount
  /\ data' = [data EXCEPT ![ChunkSlot(write, wCount, wDone)] = src[wDone + 1]]
  /\ wDone' = wDone + 1
  /\ UNCHANGED <<write, read, wpc, src, wCount, consumer, result>>

PublishWrite ==
  /\ wpc = "copy" /\ wDone = wCount
  /\ write' = Advance(write, wCount)
  /\ wpc' = "idle" /\ src' = <<>> /\ wCount' = 0 /\ wDone' = 0
  /\ UNCHANGED <<data, read, consumer, result>>

-----------------------------------------------------------------------------
(* Consumer: read() and discard()                                          *)

(* Mutant: the request is not cut to what is there.                        *)
BeginConsume_Unclamped(frames, kind) ==
  /\ rpc = "idle"
  /\ AvailableToRead > 0
  /\ rpc' = kind
  /\ rCount' = frames
  /\ UNCHANGED <<data, write, read, producer, dst, result>>

BeginConsume(frames, kind) ==
  /\ rpc = "idle"
  /\ Least(frames, AvailableToRead) > 0
  /\ rpc' = kind
  /\ rCount' = Least(frames, AvailableToRead)
  /\ UNCHANGED <<data, write, read, producer, dst, result>>

BeginRead(frames) == BeginConsume(frames, "copy")

BeginDiscard(frames) == BeginConsume(frames, "drop")

CopyOut ==
  /\ rpc = "copy" /\ Len(dst) < rCount
  /\ dst' = Append(dst, data[ChunkSlot(read, rCount, Len(dst))])
  /\ UNCHANGED <<data, write, read, producer, rpc, rCount, result>>

EndConsume ==
  /\ read' = Advance(read, rCount)
  /\ rpc' = "idle" /\ dst' = <<>> /\ rCount' = 0
  /\ UNCHANGED <<data, write, producer>>

PublishRead ==
  /\ rpc = "copy" /\ Len(dst) = rCount
  /\ result' = dst
  /\ EndConsume

PublishDiscard ==
  /\ rpc = "drop"
  /\ EndConsume
  /\ UNCHANGED result

-----------------------------------------------------------------------------
Blocks == UNION {[1 .. n -> Frame] : n \in 1 .. MaxBlock}

Produce ==
  \/ \E block \in Blocks : BeginWrite(block)
  \/ \E frames \in 1 .. MaxBlock : BeginWriteSilence(frames)
  \/ CopyIn
  \/ PublishWrite

Consume ==
  \/ \E frames \in 1 .. MaxBlock : BeginRead(frames) \/ BeginDiscard(frames)
  \/ CopyOut
  \/ PublishRead
  \/ PublishDiscard

Next == Produce \/ Consume

Spec == Init /\ [][Next]_vars

-----------------------------------------------------------------------------
(* Type correctness of the shared state and of both calls in progress.     *)
TypeOK ==
  /\ data \in [Slot -> Frame]
  /\ write \in Slot /\ read \in Slot
  /\ wpc \in {"idle", "copy"}
  /\ src \in Seq(Frame)
  /\ wCount \in Nat /\ wDone \in 0 .. wCount
  /\ wCount =< Len(src)
  /\ rpc \in {"idle", "copy", "drop"}
  /\ dst \in Seq(Frame) /\ Len(dst) =< rCount
  /\ rCount \in Nat
  /\ result \in Seq(Frame)

(* A count taken from an index the other thread may have moved since stays *)
(* conservative: the copy in progress still fits the free space, and the   *)
(* frames being consumed are still there (39, 57, 76, 95).                 *)
CopiesFit ==
  /\ wpc = "copy" => wCount \in 1 .. AvailableToWrite
  /\ wpc = "idle" => wCount = 0
  /\ rpc # "idle" => rCount \in 1 .. AvailableToRead
  /\ rpc # "copy" => dst = <<>>
  /\ rpc = "idle" => rCount = 0

(* The slots the producer has still to fill and those the consumer has     *)
(* still to copy out.                                                      *)
Filling ==
  IF wpc = "copy" THEN {ChunkSlot(write, wCount, k) : k \in wDone .. wCount - 1}
                  ELSE {}
Draining ==
  IF rpc = "copy" THEN {ChunkSlot(read, rCount, k) : k \in Len(dst) .. rCount - 1}
                  ELSE {}

(* The two threads are never inside the same slot, whatever copies overlap *)
(* in time: the memcpy calls of write (45-49) and read (82-86) do not race.*)
NoSharedSlot == Filling \cap Draining = {}

(* What the producer has copied is what it was given, and what the         *)
(* consumer has copied is what is oldest in the ring.                      *)
CopiesFaithful ==
  /\ \A k \in 0 .. wDone - 1 :
        data[ChunkSlot(write, wCount, k)] = src[k + 1]
  /\ \A k \in 1 .. Len(dst) :
        dst[k] = data[ChunkSlot(read, rCount, k - 1)]

(* The inductive invariant of the ring.                                    *)
IInv == TypeOK /\ CopiesFit /\ CopiesFaithful

(* What is waiting in the ring, oldest first.                              *)
Contents(d, w, r) == [k \in 1 .. Distance(w, r) |-> d[Advance(r, k - 1)]]

Unread == Contents(data, write, read)

(* The ring is the bounded queue of SpscQueue: every store of write_ or    *)
(* read_ is one Enqueue, Dequeue or Drop, and every other step is          *)
(* invisible.  In particular no frame is lost, duplicated, reordered or    *)
(* seen half-written, also across the end of the storage.                  *)
Queue == INSTANCE SpscQueue WITH queue <- Unread

ImplementsQueue == Queue!Spec
=============================================================================
