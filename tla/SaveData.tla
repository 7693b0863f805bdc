------------------------------ MODULE SaveData ------------------------------
(***************************************************************************)
(* Recording of what is played on the virtual device                       *)
(* (src/driver/Source/Utilities/savedata.cpp, and ReadBytes in             *)
(* Main/minwavertstream.cpp that feeds it).  Off unless the registry value *)
(* DoNotCreateDataFiles is cleared.                                        *)
(*                                                                         *)
(* The stream's position update copies what has been played into a ring of *)
(* frames; a full frame is handed to one of a fixed number of work items,  *)
(* and system worker threads append the frames to the file under a mutex.  *)
(* The copying side runs at raised priority under the stream's lock, the   *)
(* workers run beside it.  One stream exists at a time                     *)
(* (SPEAKER_MAX_INPUT_SYSTEM_STREAMS is 1).  Sizes are in bytes; of the    *)
(* data only the frame it lies in is kept.                                 *)
(***************************************************************************)
EXTENDS Integers, FiniteSetsExt

CONSTANTS
  DmaSize,     \* m_ulDmaBufferSize of the stream
  Multiple,    \* a frame holds this many DMA buffers (4, minwavertstream.cpp:492)
  FrameCount,  \* DEFAULT_FRAME_COUNT
  ItemCount,   \* MAX_WORKER_ITEM_COUNT
  Workers,     \* threads of the system's critical work queue
  MaxMove      \* bound: bytes played between two position updates

ASSUME SaveDataAssumption ==
  /\ {DmaSize, Multiple, FrameCount, ItemCount, Workers, MaxMove} \subseteq Nat \ {0}
  /\ FrameCount > 1 /\ ItemCount >= FrameCount + Workers
  /\ MaxMove <= DmaSize

FrameSize == Multiple * DmaSize
BufferSize == FrameCount * FrameSize
Frames == 0..FrameCount - 1
Items == 1..ItemCount

VARIABLES
  recorder,     \* what the stream does: "closed", "running", "stopping", "stopped"
  dmaOffset,    \* m_ullLinearPosition % m_ulDmaBufferSize
  toCopy,       \* bytes of the position update that are still to be copied
  offset,       \* m_ulBufferOffset
  frame,        \* m_ulFrameIndex
  used,         \* m_fFrameUsed
  item,         \* m_pWorkItems: the frame, and how far its worker is
  writeDisabled,\* m_fWriteDisabled
  strayed, torn \* history: the two offsets came apart; a frame was overwritten

saveVars ==
  <<recorder, dmaOffset, toCopy, offset, frame, used, item, writeDisabled, strayed, torn>>

IdleItem == [frame |-> 0, at |-> "done"]

SaveInit ==
  /\ recorder = "closed"
  /\ dmaOffset = 0 /\ toCopy = 0 /\ offset = 0 /\ frame = 0
  /\ used = [f \in Frames |-> FALSE]
  /\ item = [i \in Items |-> IdleItem]
  /\ writeDisabled = FALSE /\ strayed = FALSE /\ torn = FALSE

\* The worker has not yet given the frame back.
InHand(f) == \E i \in Items : item[i].frame = f /\ item[i].at \in {"queued", "saving"}

-----------------------------------------------------------------------------
(* The work items.                                                         *)

\* Mutant: the event of a work item is not reset when it is queued.
FreeItems_Any == Items

\* GetNewWorkItem: the first one whose event is set.
FreeItems == {i \in Items : item[i].at = "done"}

\* SaveFrame: without a free item the frame is lost without a word.
SaveFrame(f) ==
  \/ FreeItems = {} /\ UNCHANGED item
  \/ \E i \in FreeItems :
       /\ \A j \in FreeItems : i <= j
       /\ item' = [item EXCEPT ![i] = [frame |-> f, at |-> "queued"]]

\* SaveFrameWorkerCallback takes m_FileSync and appends the frame, or fails to
\* open or to write the file ...
BeginSave(i) ==
  /\ item[i].at = "queued"
  /\ \A j \in Items : item[j].at # "saving"
  /\ Cardinality({j \in Items : item[j].at = "saved"}) < Workers
  /\ item' = [item EXCEPT ![i].at = "saving"]
  /\ UNCHANGED <<recorder, dmaOffset, toCopy, offset, frame, used, writeDisabled,
       strayed, torn>>

\* Mutant: a worker that fails to open the file keeps the mutex.
EndSave_KeepsMutex(i) ==
  /\ item[i].at = "saving"
  /\ UNCHANGED saveVars

\* ... gives the frame back either way and releases the mutex ...
EndSave(i) ==
  /\ item[i].at = "saving"
  /\ used' = [used EXCEPT ![item[i].frame] = FALSE]
  /\ item' = [item EXCEPT ![i].at = "saved"]
  /\ UNCHANGED <<recorder, dmaOffset, toCopy, offset, frame, writeDisabled, strayed, torn>>

\* ... and sets the event last.
SetDone(i) ==
  /\ item[i].at = "saved"
  /\ item' = [item EXCEPT ![i] = IdleItem]
  /\ UNCHANGED <<recorder, dmaOffset, toCopy, offset, frame, used, writeDisabled,
       strayed, torn>>

-----------------------------------------------------------------------------
(* The copying side.                                                       *)

Overlaps(from, to, f) == from < (f + 1) * FrameSize /\ to > f * FrameSize

\* The range is copied into although a worker has one of its frames.
Tears(from, to) == \E f \in Frames : InHand(f) /\ Overlaps(from, to, f)

\* WriteData of n bytes into a frame that is free.  The copy is cut at the end
\* of the buffer, not at the end of the frame; the rest of a copy that was cut
\* goes into the next frame if that one is free.
CopyIntoFrame(n) ==
  LET first   == Min({n, BufferSize - offset})
      end     == offset + first
      full    == end >= (frame + 1) * FrameSize
      start   == IF end = BufferSize THEN 0 ELSE end
      next    == IF full THEN (frame + 1) % FrameCount ELSE frame
      rest    == IF used[next] THEN 0 ELSE n - first
  IN /\ offset' = start + rest
     /\ frame' = next
     /\ IF full
        THEN used' = [used EXCEPT ![frame] = TRUE] /\ SaveFrame(frame)
        ELSE UNCHANGED <<used, item>>
     /\ torn' = (torn \/ Tears(offset, end) \/ (rest > 0 /\ Tears(start, start + rest)))

\* WriteData: nothing while disabled, and what does not find its frame free is dropped.
WriteData(n) ==
  IF writeDisabled \/ used[frame]
  THEN UNCHANGED <<offset, frame, used, item, torn>>
  ELSE CopyIntoFrame(n)

\* UpdatePosition found that n bytes have been played.
Displace(n) ==
  /\ recorder = "running" /\ toCopy = 0
  /\ toCopy' = n
  /\ UNCHANGED <<recorder, dmaOffset, offset, frame, used, item, writeDisabled, strayed, torn>>

\* One round of the loop in ReadBytes: up to the end of the DMA buffer.
ReadBytes ==
  /\ toCopy > 0
  /\ LET run == Min({toCopy, DmaSize - dmaOffset})
     IN /\ toCopy' = toCopy - run
        /\ dmaOffset' = (dmaOffset + run) % DmaSize
        /\ WriteData(run)
        /\ strayed' = (strayed \/ offset' % DmaSize # dmaOffset')
  /\ UNCHANGED <<recorder, writeDisabled>>

-----------------------------------------------------------------------------
(* The stream.                                                             *)

\* Initialize and SetMaxWriteSize on a new stream: the members start from nothing.
Open ==
  /\ recorder = "closed"
  /\ recorder' = "stopped"
  /\ dmaOffset' = 0 /\ offset' = 0 /\ frame' = 0
  /\ used' = [f \in Frames |-> FALSE]
  /\ writeDisabled' = FALSE /\ strayed' = FALSE /\ torn' = FALSE
  /\ UNCHANGED <<toCopy, item>>

Run ==
  /\ recorder = "stopped"
  /\ recorder' = "running"
  /\ UNCHANGED <<dmaOffset, toCopy, offset, frame, used, item, writeDisabled, strayed, torn>>

\* SetContentId: protected content is not recorded.
Disable(flag) ==
  /\ recorder # "closed" /\ toCopy = 0
  /\ writeDisabled' = flag
  /\ UNCHANGED <<recorder, dmaOffset, toCopy, offset, frame, used, item, strayed, torn>>

\* SetState(STOP): the positions are reset, the frame begun is handed out as far
\* as it goes without being marked as used, and its offset stays where it is: it
\* is completed after a restart, and handed out again.
Stop ==
  /\ recorder = "running" /\ toCopy = 0
  /\ recorder' = "stopping"
  /\ dmaOffset' = 0
  /\ strayed' = (strayed \/ offset % DmaSize # 0)
  /\ IF offset > frame * FrameSize THEN SaveFrame(frame) ELSE UNCHANGED item
  /\ UNCHANGED <<toCopy, offset, frame, used, writeDisabled, torn>>

\* Mutant: a stop that waits only for the frame it has handed out itself.
AllDone_LastFrame == \A i \in Items : item[i].at = "done" \/ item[i].frame # frame

\* WaitAllWorkItems has seen every event set.
AllDone == \A i \in Items : item[i].at = "done"

Stopped ==
  /\ recorder = "stopping" /\ AllDone
  /\ recorder' = "stopped"
  /\ UNCHANGED <<dmaOffset, toCopy, offset, frame, used, item, writeDisabled, strayed, torn>>

\* ~CSaveData: the header is completed and the buffers are freed.
Close ==
  /\ recorder = "stopped"
  /\ recorder' = "closed"
  /\ UNCHANGED <<dmaOffset, toCopy, offset, frame, used, item, writeDisabled, strayed, torn>>

Worker(i) == BeginSave(i) \/ EndSave(i) \/ SetDone(i)

SaveNext ==
  \/ Open \/ Run \/ Stop \/ Stopped \/ Close
  \/ \E flag \in BOOLEAN : Disable(flag)
  \/ \E n \in 1..MaxMove : Displace(n)
  \/ ReadBytes
  \/ \E i \in Items : Worker(i)

\* Worker threads run: an item that is queued is carried out.
SaveFairness == WF_saveVars(Stopped) /\ \A i \in Items : WF_saveVars(Worker(i))

SaveSpec == SaveInit /\ [][SaveNext]_saveVars /\ SaveFairness

-----------------------------------------------------------------------------
(* Properties.                                                             *)

\* What is copied goes into the frame that is tested and that will be handed
\* out, and stays inside the buffer, also after data has been dropped.
OffsetIsInFrame ==
  /\ frame * FrameSize <= offset /\ offset < (frame + 1) * FrameSize

\* A frame is not written into while a worker is saving it, although only the
\* frame a copy begins in is tested: as long as the offset in the DMA buffer and
\* the offset in the frames agree, no copy crosses the end of a frame.  They
\* come apart when data has been dropped or the stream stopped in mid-frame, and
\* from then on nothing protects the next frame.
FramesAreStable == torn => strayed

\* No frame is lost: a frame that is marked as used is in the hands of a worker
\* who will give it back.  A frame for which no work item was left would stay
\* used for ever, and the recording would end at it.  (A frame is given back
\* before its item is: there must be an item for every frame and one for every
\* worker thread that has not set its event yet.)
UsedIsInHand == recorder # "closed" => \A f \in Frames : used[f] => InHand(f)

\* No two workers have the same frame, but for one that was not tested and is
\* handed out by the stop while it is being saved.
OneWorkerEach ==
  \A i, j \in Items :
    /\ i # j /\ item[i].frame = item[j].frame
    /\ {item[i].at, item[j].at} \subseteq {"queued", "saving"}
    => strayed /\ recorder = "stopping"

\* Until data has been dropped or the stream stopped in mid-frame a worker finds
\* in its frame what the stream has put there; and at any time the copies stay
\* in the buffer, and a frame that is used will be free again.  A frame begun at
\* a stop reaches the file twice, in part and, after a restart, when it is full:
\* nothing is said of that.
FramesAreSafe ==
  OffsetIsInFrame /\ FramesAreStable /\ UsedIsInHand /\ OneWorkerEach

\* Once the stop has returned, no worker touches the frames or the file any
\* more: the stream may be closed and its buffers freed.
NoWorkAfterStop ==
  recorder \in {"stopped", "closed"} => \A i \in Items : item[i] = IdleItem

\* Stopping waits for the workers, and they do finish.
StopReturns == recorder = "stopping" ~> recorder = "stopped"

=============================================================================
