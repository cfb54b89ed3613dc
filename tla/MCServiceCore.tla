--------------------------- MODULE MCServiceCore ---------------------------
(* Small instances of ServiceCore for TLC. *)
EXTENDS ServiceCore, TLC

SlotSymmetry == Permutations(Slots)
=============================================================================
