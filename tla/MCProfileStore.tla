--------------------------- MODULE MCProfileStore ---------------------------
(* Symmetry for ProfileStore. *)
EXTENDS ProfileStore, TLC

\* Ids, urls and names are interchangeable.
Symmetry == Permutations(Ids) \cup Permutations(Urls) \cup Permutations(ProfileNames)
=============================================================================
