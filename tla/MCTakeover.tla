----------------------------- MODULE MCTakeover -----------------------------
(* Takeover for model checking.                                            *)
EXTENDS Takeover, TLC

(* The devices are interchangeable.                                        *)
Symmetry == Permutations(Device)
=============================================================================
