-------------------------- MODULE RingBufferProofs --------------------------
(***************************************************************************)
(* Proofs about RingBuffer, for every capacity, block length and set of    *)
(* frame values.                                                           *)
(***************************************************************************)
EXTENDS RingBuffer, SequenceTheorems, TLAPS

-----------------------------------------------------------------------------
(* The arithmetic of the two indices.                                      *)

(* advance() stays within the storage for any step the ring makes.         *)
LEMMA AdvanceInRange ==
  ASSUME NEW i \in Slot, NEW n \in 0 .. Capacity
  PROVE  Advance(i, n) \in Slot
BY RingAssumption DEF Advance, Slot, Slots

(* The two memcpy chunks visit the slots advance() names, in order.        *)
LEMMA ChunkSlotIsAdvance ==
  ASSUME NEW i \in Slot, NEW n \in 0 .. Capacity, NEW k \in 0 .. n - 1
  PROVE  ChunkSlot(i, n, k) = Advance(i, k)
BY RingAssumption DEF ChunkSlot, Least, Advance, Slot, Slots

(* The distance between the indices is a number of frames the ring holds.  *)
LEMMA DistanceInRange ==
  ASSUME NEW w \in Slot, NEW r \in Slot
  PROVE  Distance(w, r) \in 0 .. Capacity
BY RingAssumption DEF Distance, Slot, Slots

(* Storing write_ adds the block to the distance.                          *)
LEMMA DistanceAfterWrite ==
  ASSUME NEW w \in Slot, NEW r \in Slot, NEW n \in 0 .. Capacity - Distance(w, r)
  PROVE  Distance(Advance(w, n), r) = Distance(w, r) + n
BY RingAssumption DEF Distance, Advance, Slot, Slots

(* Storing read_ takes the block off the distance.                         *)
LEMMA DistanceAfterRead ==
  ASSUME NEW w \in Slot, NEW r \in Slot, NEW n \in 0 .. Distance(w, r)
  PROVE  Distance(w, Advance(r, n)) = Distance(w, r) - n
BY RingAssumption DEF Distance, Advance, Slot, Slots

(* No free slot is an unread slot.                                         *)
LEMMA FreeAndUnreadDisjoint ==
  ASSUME NEW w \in Slot, NEW r \in Slot,
         NEW j \in 0 .. Capacity - Distance(w, r) - 1,
         NEW k \in 0 .. Distance(w, r) - 1
  PROVE  Advance(w, j) # Advance(r, k)
BY RingAssumption DEF Distance, Advance, Slot, Slots

(* Two frames of one copy never share a slot.                              *)
LEMMA AdvanceInjective ==
  ASSUME NEW i \in Slot, NEW j \in 0 .. Capacity, NEW k \in 0 .. Capacity,
         Advance(i, j) = Advance(i, k)
  PROVE  j = k
BY RingAssumption DEF Advance, Slot, Slots

-----------------------------------------------------------------------------
(* The inductive invariant, one action at a time.                          *)

LEMMA InitIInv == Init => IInv
BY RingAssumption DEF Init, IInv, TypeOK, CopiesFit, CopiesFaithful, Slot

LEMMA BeginWriteIInv ==
  ASSUME IInv, NEW block \in Seq(Frame), BeginWrite(block)
  PROVE  IInv'
<1>1. AvailableToRead \in 0 .. Capacity
  BY DistanceInRange DEF IInv, TypeOK, AvailableToRead
<1>2. Len(block) \in Nat
  OBVIOUS
<1>3. TypeOK'
  BY <1>1, <1>2, RingAssumption DEF IInv, TypeOK, BeginWrite, Least,
     AvailableToWrite, consumer
<1>4. CopiesFit'
  BY <1>1, <1>2, RingAssumption DEF IInv, TypeOK, CopiesFit, BeginWrite, Least,
     AvailableToWrite, AvailableToRead, consumer
<1>5. CopiesFaithful'
  BY DEF IInv, CopiesFaithful, BeginWrite, consumer
<1>6. QED
  BY <1>3, <1>4, <1>5 DEF IInv

LEMMA CopyInIInv ==
  ASSUME IInv, CopyIn
  PROVE  IInv'
<1>1. AvailableToRead \in 0 .. Capacity
  BY DistanceInRange DEF IInv, TypeOK, AvailableToRead
<1>2. wCount \in 0 .. Capacity /\ wDone \in 0 .. wCount - 1
  BY <1>1, RingAssumption DEF IInv, TypeOK, CopiesFit, CopyIn, AvailableToWrite
<1>3. ChunkSlot(write, wCount, wDone) = Advance(write, wDone)
  BY <1>2, ChunkSlotIsAdvance DEF IInv, TypeOK
<1>4. Advance(write, wDone) \in Slot
  BY <1>2, AdvanceInRange, RingAssumption DEF IInv, TypeOK
<1>5. src[wDone + 1] \in Frame
  BY <1>2 DEF IInv, TypeOK
<1>6. TypeOK'
  BY <1>2, <1>3, <1>4, <1>5 DEF IInv, TypeOK, CopyIn, consumer
<1>7. CopiesFit'
  <2>1. AvailableToRead' = AvailableToRead /\ AvailableToWrite' = AvailableToWrite
    BY DEF CopyIn, AvailableToRead, AvailableToWrite
  <2>2. QED
    BY <2>1 DEF IInv, CopiesFit, CopyIn, consumer
<1>8. CopiesFaithful'
  <2>1. ASSUME NEW k \in 0 .. wDone' - 1
        PROVE  data'[ChunkSlot(write, wCount, k)] = src[k + 1]
    <3>1. k \in 0 .. wDone
      BY <2>1, <1>2 DEF CopyIn
    <3>2. ChunkSlot(write, wCount, k) = Advance(write, k)
      BY <3>1, <1>2, ChunkSlotIsAdvance DEF IInv, TypeOK
    <3>3. CASE k = wDone
      BY <3>3, <1>3, <1>4 DEF IInv, TypeOK, CopyIn
    <3>4. CASE k # wDone
      <4>1. Advance(write, k) # Advance(write, wDone)
        BY <3>1, <3>4, <1>2, AdvanceInjective, RingAssumption DEF IInv, TypeOK
      <4>2. Advance(write, k) \in Slot
        BY <3>1, <1>2, AdvanceInRange, RingAssumption DEF IInv, TypeOK
      <4>3. data'[Advance(write, k)] = data[Advance(write, k)]
        BY <4>1, <4>2, <1>3, <1>4 DEF IInv, TypeOK, CopyIn
      <4>4. data[Advance(write, k)] = src[k + 1]
        BY <3>1, <3>2, <3>4, <1>2 DEF IInv, CopiesFaithful
      <4>5. QED
        BY <4>3, <4>4, <3>2
    <3>5. QED
      BY <3>3, <3>4
  <2>2. ASSUME NEW k \in 1 .. Len(dst)
        PROVE  dst[k] = data'[ChunkSlot(read, rCount, k - 1)]
    <3>1. rpc = "copy" /\ rCount \in 1 .. AvailableToRead /\ k =< rCount
      BY <2>2 DEF IInv, TypeOK, CopiesFit
    <3>2. ChunkSlot(read, rCount, k - 1) = Advance(read, k - 1)
      BY <3>1, <1>1, ChunkSlotIsAdvance, RingAssumption DEF IInv, TypeOK
    <3>3. Advance(read, k - 1) # Advance(write, wDone)
      <4>1. wDone \in 0 .. Capacity - Distance(write, read) - 1
        BY <1>1, <1>2, RingAssumption DEF IInv, CopiesFit, CopyIn,
           AvailableToWrite, AvailableToRead
      <4>2. k - 1 \in 0 .. Distance(write, read) - 1
        BY <3>1, <1>1, RingAssumption DEF AvailableToRead
      <4>3. QED
        BY <4>1, <4>2, FreeAndUnreadDisjoint DEF IInv, TypeOK
    <3>4. Advance(read, k - 1) \in Slot
      BY <3>1, <1>1, AdvanceInRange, RingAssumption DEF IInv, TypeOK
    <3>5. QED
      BY <2>2, <3>2, <3>3, <3>4, <1>3, <1>4 DEF IInv, TypeOK, CopyIn, CopiesFaithful
  <2>3. QED
    BY <2>1, <2>2 DEF CopiesFaithful, CopyIn, consumer
<1>9. QED
  BY <1>6, <1>7, <1>8 DEF IInv

LEMMA PublishWriteIInv ==
  ASSUME IInv, PublishWrite
  PROVE  IInv'
<1>1. AvailableToRead \in 0 .. Capacity
  BY DistanceInRange DEF IInv, TypeOK, AvailableToRead
<1>2. wCount \in 1 .. Capacity - Distance(write, read)
  BY DEF IInv, CopiesFit, PublishWrite, AvailableToWrite, AvailableToRead
<1>3. write' \in Slot
  BY <1>1, <1>2, AdvanceInRange, RingAssumption
     DEF IInv, TypeOK, PublishWrite, AvailableToRead
<1>4. AvailableToRead' = AvailableToRead + wCount
  BY <1>1, <1>2, DistanceAfterWrite, RingAssumption
     DEF IInv, TypeOK, PublishWrite, AvailableToRead, consumer
<1>5. TypeOK'
  BY <1>3 DEF IInv, TypeOK, PublishWrite, consumer
<1>6. CopiesFit'
  BY <1>1, <1>2, <1>4 DEF IInv, TypeOK, CopiesFit, PublishWrite, consumer
<1>7. CopiesFaithful'
  BY DEF IInv, TypeOK, CopiesFaithful, PublishWrite, consumer
<1>8. QED
  BY <1>5, <1>6, <1>7 DEF IInv

LEMMA BeginConsumeIInv ==
  ASSUME IInv, NEW frames \in Nat, NEW kind \in {"copy", "drop"},
         BeginConsume(frames, kind)
  PROVE  IInv'
<1>1. AvailableToRead \in 0 .. Capacity
  BY DistanceInRange DEF IInv, TypeOK, AvailableToRead
<1>2. dst = <<>>
  BY DEF IInv, CopiesFit, BeginConsume
<1>3. TypeOK'
  BY <1>1, <1>2, RingAssumption DEF IInv, TypeOK, BeginConsume, Least, producer
<1>4. CopiesFit'
  BY <1>1, <1>2, RingAssumption DEF IInv, TypeOK, CopiesFit, BeginConsume, Least,
     producer, AvailableToRead, AvailableToWrite
<1>5. CopiesFaithful'
  BY <1>2 DEF IInv, CopiesFaithful, BeginConsume, producer
<1>6. QED
  BY <1>3, <1>4, <1>5 DEF IInv

LEMMA CopyOutIInv ==
  ASSUME IInv, CopyOut
  PROVE  IInv'
<1>1. AvailableToRead \in 0 .. Capacity
  BY DistanceInRange DEF IInv, TypeOK, AvailableToRead
<1>2. rCount \in 0 .. Capacity /\ Len(dst) \in 0 .. rCount - 1
  BY <1>1, RingAssumption DEF IInv, TypeOK, CopiesFit, CopyOut
<1>3. ChunkSlot(read, rCount, Len(dst)) = Advance(read, Len(dst))
  BY <1>2, ChunkSlotIsAdvance DEF IInv, TypeOK
<1>4. Advance(read, Len(dst)) \in Slot
  BY <1>2, AdvanceInRange, RingAssumption DEF IInv, TypeOK
<1>5. data[ChunkSlot(read, rCount, Len(dst))] \in Frame
  BY <1>3, <1>4 DEF IInv, TypeOK
<1>6. TypeOK'
  BY <1>2, <1>5 DEF IInv, TypeOK, CopyOut, producer
<1>7. CopiesFit'
  <2>1. AvailableToRead' = AvailableToRead /\ AvailableToWrite' = AvailableToWrite
    BY DEF CopyOut, AvailableToRead, AvailableToWrite
  <2>2. QED
    BY <2>1 DEF IInv, CopiesFit, CopyOut, producer
<1>8. CopiesFaithful'
  <2>1. ASSUME NEW k \in 1 .. Len(dst')
        PROVE  dst'[k] = data[ChunkSlot(read, rCount, k - 1)]
    <3>1. dst \in Seq(Frame) /\ dst' = Append(dst, data[ChunkSlot(read, rCount, Len(dst))])
      BY DEF IInv, TypeOK, CopyOut
    <3>2. CASE k =< Len(dst)
      BY <3>1, <3>2, <2>1, <1>5 DEF IInv, CopiesFaithful
    <3>3. CASE k = Len(dst) + 1
      BY <3>1, <3>3, <1>5
    <3>4. QED
      BY <3>1, <3>2, <3>3, <2>1, <1>5
  <2>2. QED
    BY <2>1 DEF IInv, CopiesFaithful, CopyOut, producer
<1>9. QED
  BY <1>6, <1>7, <1>8 DEF IInv

LEMMA EndConsumeIInv ==
  ASSUME IInv, rpc # "idle", EndConsume, result' \in Seq(Frame)
  PROVE  IInv'
<1>1. AvailableToRead \in 0 .. Capacity
  BY DistanceInRange DEF IInv, TypeOK, AvailableToRead
<1>2. rCount \in 1 .. Distance(write, read)
  BY DEF IInv, CopiesFit, AvailableToRead
<1>3. read' \in Slot
  BY <1>1, <1>2, AdvanceInRange, RingAssumption
     DEF IInv, TypeOK, EndConsume, AvailableToRead
<1>4. AvailableToRead' = AvailableToRead - rCount
  BY <1>1, <1>2, DistanceAfterRead, RingAssumption
     DEF IInv, TypeOK, EndConsume, AvailableToRead
<1>5. TypeOK'
  BY <1>3 DEF IInv, TypeOK, EndConsume, producer
<1>6. CopiesFit'
  BY <1>1, <1>2, <1>4, RingAssumption
     DEF IInv, TypeOK, CopiesFit, EndConsume, producer, AvailableToWrite
<1>7. CopiesFaithful'
  BY DEF IInv, TypeOK, CopiesFaithful, EndConsume, producer
<1>8. QED
  BY <1>5, <1>6, <1>7 DEF IInv

LEMMA NextIInv == IInv /\ [Next]_vars => IInv'
<1> SUFFICES ASSUME IInv, [Next]_vars PROVE IInv'
  OBVIOUS
<1>1. ASSUME NEW block \in Blocks, BeginWrite(block)
      PROVE  IInv'
  <2>1. block \in Seq(Frame)
    BY RingAssumption DEF Blocks
  <2>2. QED
    BY <1>1, <2>1, BeginWriteIInv
<1>2. ASSUME NEW frames \in 1 .. MaxBlock, BeginWriteSilence(frames)
      PROVE  IInv'
  <2>1. [i \in 1 .. frames |-> Silence] \in Seq(Frame)
    BY RingAssumption
  <2>2. QED
    BY <1>2, <2>1, BeginWriteIInv DEF BeginWriteSilence
<1>3. CASE CopyIn
  BY <1>3, CopyInIInv
<1>4. CASE PublishWrite
  BY <1>4, PublishWriteIInv
<1>5. ASSUME NEW frames \in 1 .. MaxBlock, BeginRead(frames) \/ BeginDiscard(frames)
      PROVE  IInv'
  BY <1>5, BeginConsumeIInv, RingAssumption DEF BeginRead, BeginDiscard
<1>6. CASE CopyOut
  BY <1>6, CopyOutIInv
<1>7. CASE PublishRead
  BY <1>7, EndConsumeIInv DEF PublishRead, IInv, TypeOK
<1>8. CASE PublishDiscard
  BY <1>8, EndConsumeIInv DEF PublishDiscard, IInv, TypeOK
<1>9. CASE UNCHANGED vars
  BY <1>9 DEF vars, producer, consumer, IInv, TypeOK, CopiesFit, CopiesFaithful,
     AvailableToRead, AvailableToWrite
<1>10. QED
  BY <1>1, <1>2, <1>3, <1>4, <1>5, <1>6, <1>7, <1>8, <1>9
     DEF Next, Produce, Consume

(* The inductive invariant of the ring: the indices and the calls in       *)
(* progress are well formed, a count taken from a stale index never        *)
(* exceeds what is really there, and what has been copied is faithful      *)
(* (ring_buffer.h:38-102).                                                 *)
THEOREM RingInvariant == Spec => []IInv
<1>1. Init => IInv
  BY InitIInv
<1>2. IInv /\ [Next]_vars => IInv'
  BY NextIInv
<1>3. QED
  BY <1>1, <1>2, PTL DEF Spec

(* Type correctness of the indices, the storage and the calls.             *)
THEOREM TypeCorrect == Spec => []TypeOK
<1>1. IInv => TypeOK
  BY DEF IInv
<1>2. QED
  BY <1>1, RingInvariant, PTL

(* A write that fits when its count is taken still fits when it is stored, *)
(* and a read's frames are still there when it ends, although the other    *)
(* thread moves its index in between.                                      *)
THEOREM CountsStayConservative == Spec => []CopiesFit
<1>1. IInv => CopiesFit
  BY DEF IInv
<1>2. QED
  BY <1>1, RingInvariant, PTL

(* The copies of the two threads never touch the same slot, so the plain   *)
(* memcpy calls of write() and read() are free of data races.              *)
THEOREM NoDataRace == Spec => []NoSharedSlot
<1>1. IInv => NoSharedSlot
  <2> SUFFICES ASSUME IInv, wpc = "copy", rpc = "copy",
                      NEW j \in wDone .. wCount - 1,
                      NEW k \in Len(dst) .. rCount - 1
               PROVE  ChunkSlot(write, wCount, j) # ChunkSlot(read, rCount, k)
    BY DEF NoSharedSlot, Filling, Draining
  <2>1. AvailableToRead \in 0 .. Capacity
    BY DistanceInRange DEF IInv, TypeOK, AvailableToRead
  <2>2. /\ wCount \in 0 .. Capacity - Distance(write, read) /\ wDone \in Nat
        /\ rCount \in 0 .. Distance(write, read) /\ Len(dst) \in Nat
    BY DEF IInv, TypeOK, CopiesFit, AvailableToWrite, AvailableToRead
  <2>3. ChunkSlot(write, wCount, j) = Advance(write, j)
    BY <2>1, <2>2, ChunkSlotIsAdvance, RingAssumption
       DEF IInv, TypeOK, AvailableToRead
  <2>4. ChunkSlot(read, rCount, k) = Advance(read, k)
    BY <2>1, <2>2, ChunkSlotIsAdvance, RingAssumption
       DEF IInv, TypeOK, AvailableToRead
  <2>5. Advance(write, j) # Advance(read, k)
    BY <2>1, <2>2, FreeAndUnreadDisjoint, RingAssumption
       DEF IInv, TypeOK, AvailableToRead
  <2>6. QED
    BY <2>3, <2>4, <2>5
<1>2. QED
  BY <1>1, RingInvariant, PTL

-----------------------------------------------------------------------------
(* The ring implements the bounded queue.                                  *)

(* What is waiting is a sequence of as many frames as the indices are      *)
(* apart.                                                                  *)
LEMMA ContentsProperties ==
  ASSUME NEW d \in [Slot -> Frame], NEW w \in Slot, NEW r \in Slot
  PROVE  /\ Distance(w, r) \in 0 .. Capacity
         /\ Contents(d, w, r) \in Seq(Frame)
         /\ Len(Contents(d, w, r)) = Distance(w, r)
         /\ \A k \in 1 .. Distance(w, r) :
               Contents(d, w, r)[k] = d[Advance(r, k - 1)]
<1>1. Distance(w, r) \in 0 .. Capacity
  BY DistanceInRange
<1>2. \A k \in 1 .. Distance(w, r) : d[Advance(r, k - 1)] \in Frame
  BY <1>1, AdvanceInRange, RingAssumption
<1>3. Contents(d, w, r) \in [1 .. Distance(w, r) -> Frame]
  BY <1>2 DEF Contents
<1>4. Contents(d, w, r) \in Seq(Frame) /\ Len(Contents(d, w, r)) = Distance(w, r)
  BY <1>1, <1>3, RingAssumption
<1>5. QED
  BY <1>1, <1>4 DEF Contents

LEMMA UnreadProperties ==
  ASSUME IInv
  PROVE  /\ AvailableToRead \in 0 .. Capacity
         /\ Unread \in Seq(Frame)
         /\ Len(Unread) = AvailableToRead
         /\ \A k \in 1 .. AvailableToRead :
               Unread[k] = data[Advance(read, k - 1)]
BY ContentsProperties DEF IInv, TypeOK, AvailableToRead, Unread

LEMMA UnreadPropertiesNext ==
  ASSUME IInv'
  PROVE  /\ AvailableToRead' \in 0 .. Capacity
         /\ Unread' \in Seq(Frame)
         /\ Len(Unread') = AvailableToRead'
         /\ \A k \in 1 .. AvailableToRead' :
               Unread'[k] = data'[Advance(read', k - 1)]
BY ContentsProperties DEF IInv, TypeOK, AvailableToRead, Unread

(* Copying into free slots does not change what is waiting.                *)
LEMMA CopyInInvisible ==
  ASSUME IInv, IInv', CopyIn
  PROVE  UNCHANGED <<Unread, result>>
<1>1. AvailableToRead \in 0 .. Capacity /\ AvailableToRead' = AvailableToRead
  BY UnreadProperties DEF CopyIn, AvailableToRead
<1>2. wCount \in 0 .. Capacity /\ wDone \in 0 .. Capacity - Distance(write, read) - 1
      /\ wDone < wCount
  BY <1>1, RingAssumption DEF IInv, TypeOK, CopiesFit, CopyIn, AvailableToWrite,
     AvailableToRead
<1>3. ChunkSlot(write, wCount, wDone) = Advance(write, wDone)
  BY <1>2, ChunkSlotIsAdvance DEF IInv, TypeOK
<1>4. ASSUME NEW k \in 1 .. AvailableToRead
      PROVE  data'[Advance(read', k - 1)] = data[Advance(read, k - 1)]
  <2>1. k - 1 \in 0 .. Distance(write, read) - 1 /\ k - 1 \in 0 .. Capacity
    BY <1>1, RingAssumption DEF AvailableToRead
  <2>2. Advance(write, wDone) # Advance(read, k - 1)
    BY <1>2, <2>1, FreeAndUnreadDisjoint DEF IInv, TypeOK
  <2>3. Advance(read, k - 1) \in Slot
    BY <2>1, AdvanceInRange DEF IInv, TypeOK
  <2>4. QED
    BY <2>2, <2>3, <1>3 DEF IInv, TypeOK, CopyIn
<1>5. Unread' = Unread
  BY <1>1, <1>4 DEF Unread, Contents, AvailableToRead
<1>6. QED
  BY <1>5 DEF CopyIn

(* Storing write_ appends the block that was copied.                       *)
LEMMA PublishWriteEnqueues ==
  ASSUME IInv, IInv', PublishWrite
  PROVE  \E block \in Queue!Blocks : Queue!Enqueue(block)
<1> DEFINE block == [k \in 1 .. wCount |-> src[k]]
<1>1. /\ AvailableToRead \in 0 .. Capacity
      /\ wCount \in 1 .. Capacity /\ wDone = wCount
      /\ wCount =< Capacity - AvailableToRead
  BY UnreadProperties, RingAssumption
     DEF IInv, TypeOK, CopiesFit, PublishWrite, AvailableToWrite
<1>2. block \in [1 .. wCount -> Frame]
  BY <1>1 DEF IInv, TypeOK
<1>3. block \in Seq(Frame) /\ Len(block) = wCount
  BY <1>1, <1>2, RingAssumption
<1>4. block \in Queue!Blocks
  BY <1>1, <1>2 DEF Queue!Blocks
<1>5. AvailableToRead' = AvailableToRead + wCount /\ read' = read /\ data' = data
  BY <1>1, DistanceAfterWrite, RingAssumption
     DEF IInv, TypeOK, PublishWrite, AvailableToRead, consumer
<1> HIDE DEF block
<1>6. Unread' = Unread \o block
  <2>1. /\ Unread \in Seq(Frame) /\ Len(Unread) = AvailableToRead
        /\ Unread' \in Seq(Frame) /\ Len(Unread') = AvailableToRead'
    BY UnreadProperties, UnreadPropertiesNext
  <2>2. /\ Unread \o block \in Seq(Frame)
        /\ Len(Unread \o block) = Len(Unread) + Len(block)
        /\ \A k \in 1 .. Len(Unread) + Len(block) :
              (Unread \o block)[k] = IF k =< Len(Unread) THEN Unread[k]
                                     ELSE block[k - Len(Unread)]
    BY <2>1, <1>3, ConcatProperties
  <2>3. ASSUME NEW k \in 1 .. AvailableToRead + wCount
        PROVE  Unread'[k] = (Unread \o block)[k]
    <3>1. Unread'[k] = data[Advance(read, k - 1)]
      BY <1>5, UnreadPropertiesNext
    <3>2. CASE k =< AvailableToRead
      <4>1. (Unread \o block)[k] = Unread[k]
        BY <3>2, <2>1, <2>2, <1>1, <1>3
      <4>2. Unread[k] = data[Advance(read, k - 1)]
        BY <3>2, <1>1, UnreadProperties
      <4>3. QED
        BY <3>1, <4>1, <4>2
    <3>3. CASE k > AvailableToRead
      <4>1. k - AvailableToRead \in 1 .. wCount
        BY <3>3, <1>1
      <4>2. Advance(read, k - 1) = Advance(write, k - AvailableToRead - 1)
        BY <4>1, <1>1, RingAssumption
           DEF IInv, TypeOK, AvailableToRead, Advance, Distance, Slot, Slots
      <4>3. ChunkSlot(write, wCount, k - AvailableToRead - 1)
              = Advance(write, k - AvailableToRead - 1)
        BY <4>1, <1>1, ChunkSlotIsAdvance DEF IInv, TypeOK
      <4>4. data[Advance(write, k - AvailableToRead - 1)] = src[k - AvailableToRead]
        BY <4>1, <4>3, <1>1 DEF IInv, CopiesFaithful
      <4>5. (Unread \o block)[k] = block[k - AvailableToRead]
        BY <3>3, <2>1, <2>2, <1>1, <1>3
      <4>6. block[k - AvailableToRead] = src[k - AvailableToRead]
        BY <4>1 DEF block
      <4>7. QED
        BY <3>1, <4>2, <4>4, <4>5, <4>6
    <3>4. k =< AvailableToRead \/ k > AvailableToRead
      BY <1>1, RingAssumption
    <3>5. QED
      BY <3>2, <3>3, <3>4
  <2>4. QED
    BY <2>1, <2>2, <2>3, <1>3, <1>5, SeqEqual
<1>7. Queue!Enqueue(block)
  <2>1. Len(Unread) + Len(block) =< Capacity
    BY <1>1, <1>3, UnreadProperties, RingAssumption
  <2>2. QED
    BY <2>1, <1>6 DEF Queue!Enqueue, PublishWrite
<1>8. QED
  BY <1>4, <1>7

(* Storing read_ takes the oldest frames off what is waiting.              *)
LEMMA EndConsumeShortens ==
  ASSUME IInv, IInv', rpc # "idle", EndConsume
  PROVE  /\ rCount \in 1 .. Len(Unread)
         /\ Unread' = SubSeq(Unread, rCount + 1, Len(Unread))
<1>1. /\ AvailableToRead \in 0 .. Capacity
      /\ rCount \in 1 .. AvailableToRead
  BY UnreadProperties DEF IInv, CopiesFit
<1>2. /\ AvailableToRead' = AvailableToRead - rCount
      /\ read' = Advance(read, rCount) /\ data' = data
  BY <1>1, DistanceAfterRead, RingAssumption
     DEF IInv, TypeOK, EndConsume, AvailableToRead
<1>3. /\ Unread \in Seq(Frame) /\ Len(Unread) = AvailableToRead
      /\ Unread' \in Seq(Frame) /\ Len(Unread') = AvailableToRead - rCount
  BY <1>2, UnreadProperties, UnreadPropertiesNext
<1> DEFINE rest == SubSeq(Unread, rCount + 1, Len(Unread))
<1>4. \A k \in rCount + 1 .. Len(Unread) : Unread[k] \in Frame
  BY <1>1, <1>3, RingAssumption
<1>5. /\ rest \in Seq(Frame)
      /\ Len(rest) = IF rCount + 1 <= Len(Unread)
                       THEN Len(Unread) - (rCount + 1) + 1 ELSE 0
      /\ \A k \in 1 .. Len(Unread) - (rCount + 1) + 1 :
            rest[k] = Unread[rCount + 1 + k - 1]
  <2>1. rCount + 1 \in Int /\ Len(Unread) \in Int
    BY <1>1, <1>3, RingAssumption
  <2>2. QED
    BY <2>1, <1>4, SubSeqProperties
<1> HIDE DEF rest
<1>6. Len(rest) = AvailableToRead - rCount
  BY <1>1, <1>3, <1>5, RingAssumption
<1>7. ASSUME NEW k \in 1 .. AvailableToRead - rCount
      PROVE  Unread'[k] = rest[k]
  <2>1. Unread'[k] = data[Advance(Advance(read, rCount), k - 1)]
    BY <1>2, UnreadPropertiesNext
  <2>2. Advance(Advance(read, rCount), k - 1) = Advance(read, (rCount + k) - 1)
    BY <1>1, RingAssumption DEF IInv, TypeOK, Advance, Slot, Slots
  <2>3. rCount + k \in 1 .. AvailableToRead
    BY <1>1, RingAssumption
  <2>4. Unread[rCount + k] = data[Advance(read, (rCount + k) - 1)]
    BY <2>3, UnreadProperties
  <2>5. rest[k] = Unread[rCount + k]
    <3>1. /\ k \in 1 .. Len(Unread) - (rCount + 1) + 1
          /\ rCount + 1 + k - 1 = rCount + k
      BY <1>1, <1>3, RingAssumption
    <3>2. QED
      BY <3>1, <1>5
  <2>6. QED
    BY <2>1, <2>2, <2>4, <2>5
<1>8. Unread' = rest
  BY <1>3, <1>5, <1>6, <1>7, SeqEqual
<1>9. QED
  BY <1>1, <1>3, <1>8 DEF rest

(* What a finished copy-out holds is the oldest frames, in order.          *)
LEMMA PublishReadDequeues ==
  ASSUME IInv, IInv', PublishRead
  PROVE  \E n \in 1 .. Len(Unread) : Queue!Dequeue(n)
<1>1. /\ rCount \in 1 .. Len(Unread)
      /\ Unread' = SubSeq(Unread, rCount + 1, Len(Unread))
  BY EndConsumeShortens DEF PublishRead
<1>2. /\ AvailableToRead \in 0 .. Capacity
      /\ Unread \in Seq(Frame) /\ Len(Unread) = AvailableToRead
      /\ dst \in Seq(Frame) /\ Len(dst) = rCount
  BY UnreadProperties DEF IInv, TypeOK, PublishRead
<1> DEFINE front == SubSeq(Unread, 1, rCount)
<1>3. \A k \in 1 .. rCount : Unread[k] \in Frame
  BY <1>1, <1>2, RingAssumption
<1>4. /\ front \in Seq(Frame)
      /\ Len(front) = IF 1 <= rCount THEN rCount - 1 + 1 ELSE 0
      /\ \A k \in 1 .. rCount - 1 + 1 : front[k] = Unread[1 + k - 1]
  <2>1. 1 \in Int /\ rCount \in Int
    BY <1>1, <1>2, RingAssumption
  <2>2. QED
    BY <2>1, <1>3, SubSeqProperties
<1> HIDE DEF front
<1>5. Len(front) = rCount
  BY <1>1, <1>2, <1>4, RingAssumption
<1>6. ASSUME NEW k \in 1 .. rCount
      PROVE  front[k] = dst[k]
  <2>1. front[k] = Unread[k]
    <3>1. k \in 1 .. rCount - 1 + 1 /\ 1 + k - 1 = k
      BY <1>1, <1>2, RingAssumption
    <3>2. QED
      BY <3>1, <1>4
  <2>2. Unread[k] = data[Advance(read, k - 1)]
    BY <1>1, <1>2, UnreadProperties, RingAssumption
  <2>3. ChunkSlot(read, rCount, k - 1) = Advance(read, k - 1)
    <3>1. rCount \in 0 .. Capacity /\ k - 1 \in 0 .. rCount - 1
      BY <1>1, <1>2, RingAssumption
    <3>2. QED
      BY <3>1, ChunkSlotIsAdvance DEF IInv, TypeOK
  <2>4. dst[k] = data[ChunkSlot(read, rCount, k - 1)]
    BY <1>2 DEF IInv, CopiesFaithful
  <2>5. QED
    BY <2>1, <2>2, <2>3, <2>4
<1>7. front = dst
  BY <1>2, <1>4, <1>5, <1>6, SeqEqual
<1>8. Queue!Dequeue(rCount)
  BY <1>1, <1>7 DEF front, Queue!Dequeue, PublishRead
<1>9. QED
  BY <1>1, <1>8

LEMMA PublishDiscardDrops ==
  ASSUME IInv, IInv', PublishDiscard
  PROVE  \E n \in 1 .. Len(Unread) : Queue!Drop(n)
<1>1. /\ rCount \in 1 .. Len(Unread)
      /\ Unread' = SubSeq(Unread, rCount + 1, Len(Unread))
  BY EndConsumeShortens DEF PublishDiscard
<1>2. Queue!Drop(rCount)
  BY <1>1 DEF Queue!Drop, PublishDiscard
<1>3. QED
  BY <1>1, <1>2

LEMMA NextImplementsQueue ==
  ASSUME IInv, IInv', [Next]_vars
  PROVE  [Queue!Next]_(Queue!vars)
<1>1. ASSUME NEW block \in Blocks, BeginWrite(block)
      PROVE  UNCHANGED <<Unread, result>>
  BY <1>1 DEF BeginWrite, Unread
<1>2. ASSUME NEW frames \in 1 .. MaxBlock, BeginWriteSilence(frames)
      PROVE  UNCHANGED <<Unread, result>>
  BY <1>2 DEF BeginWriteSilence, BeginWrite, Unread
<1>3. ASSUME CopyIn
      PROVE  UNCHANGED <<Unread, result>>
  BY <1>3, CopyInInvisible
<1>4. CASE PublishWrite
  BY <1>4, PublishWriteEnqueues DEF Queue!Next
<1>5. ASSUME NEW frames \in 1 .. MaxBlock, BeginRead(frames) \/ BeginDiscard(frames)
      PROVE  UNCHANGED <<Unread, result>>
  BY <1>5 DEF BeginRead, BeginDiscard, BeginConsume, Unread
<1>6. ASSUME CopyOut
      PROVE  UNCHANGED <<Unread, result>>
  BY <1>6 DEF CopyOut, Unread
<1>7. CASE PublishRead
  BY <1>7, PublishReadDequeues DEF Queue!Next
<1>8. CASE PublishDiscard
  BY <1>8, PublishDiscardDrops DEF Queue!Next
<1>9. ASSUME UNCHANGED vars
      PROVE  UNCHANGED <<Unread, result>>
  BY <1>9 DEF vars, Unread
<1>10. QED
  BY <1>1, <1>2, <1>3, <1>4, <1>5, <1>6, <1>7, <1>8, <1>9
     DEF Next, Produce, Consume, Queue!vars

(* The ring is a bounded first-in first-out queue whose operations happen  *)
(* at the instant an index is stored: nothing is lost, duplicated,         *)
(* reordered or read half-written (ring_buffer.h:28-111).                  *)
THEOREM RingImplementsQueue == Spec => ImplementsQueue
<1>1. Init => Queue!Init
  BY RingAssumption DEF Init, Queue!Init, Unread, Contents, Distance
<1>2. IInv /\ IInv' /\ [Next]_vars => [Queue!Next]_(Queue!vars)
  BY NextImplementsQueue
<1>3. QED
  BY <1>1, <1>2, RingInvariant, PTL DEF Spec, Queue!Spec, ImplementsQueue
=============================================================================
