----------------------------- MODULE SpscQueue -----------------------------
(***************************************************************************)
(* What the ring between the capture and the render thread promises        *)
(* (src/src/engine/ring_buffer.h, doc comments 12-15, 36-37, 55, 73-74,    *)
(* 92-93): a bounded first-in first-out queue of frames whose operations   *)
(* take effect at one instant.  A block is appended whole or cut short at  *)
(* the free space; a read returns the oldest frames, in order; a discard   *)
(* drops the oldest frames.                                                *)
(***************************************************************************)
EXTENDS Naturals, Sequences

CONSTANTS Capacity,   \* frames the ring can hold
          Frame       \* the values a frame can have

VARIABLES queue,      \* frames waiting, oldest first
          result      \* the block the last completed read handed over

vars == <<queue, result>>

Init == queue = <<>> /\ result = <<>>

Enqueue(block) ==
  /\ Len(queue) + Len(block) =< Capacity
  /\ queue' = queue \o block
  /\ UNCHANGED result

Dequeue(n) ==
  /\ result' = SubSeq(queue, 1, n)
  /\ queue' = SubSeq(queue, n + 1, Len(queue))

Drop(n) ==
  /\ queue' = SubSeq(queue, n + 1, Len(queue))
  /\ UNCHANGED result

Blocks == UNION {[1 .. n -> Frame] : n \in 1 .. Capacity}

Next ==
  \/ \E block \in Blocks : Enqueue(block)
  \/ \E n \in 1 .. Len(queue) : Dequeue(n) \/ Drop(n)

Spec == Init /\ [][Next]_vars
=============================================================================
