--------------------------- MODULE MCAudioEngine ---------------------------
(* AudioEngine for model checking.                                         *)
EXTENDS AudioEngine
=============================================================================
