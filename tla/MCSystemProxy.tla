--------------------------- MODULE MCSystemProxy ---------------------------
(***************************************************************************)
(* Ports are interchangeable, as long as no liveness is checked.           *)
(***************************************************************************)
EXTENDS SystemProxy, TLC

Symmetry == Permutations(Ports)
=============================================================================
