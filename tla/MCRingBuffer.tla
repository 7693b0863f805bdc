---------------------------- MODULE MCRingBuffer ----------------------------
(* RingBuffer on a ring small enough that every copy length meets every    *)
(* position of the indices, the wrap included.                             *)
EXTENDS RingBuffer
=============================================================================
