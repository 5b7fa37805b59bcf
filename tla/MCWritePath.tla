----------------------------- MODULE MCWritePath -----------------------------
(* Instances of WritePath for TLC. *)
EXTENDS WritePath, TLC

Symmetry == Permutations(Writer \ {Loader}) \cup Permutations(FlushThread)

==============================================================================
