-------------------------------- MODULE MCIndex --------------------------------
(* Instances of Index for TLC. *)
EXTENDS Index, TLC

MCSymmetry == Permutations(File) \cup Permutations(Content)
=============================================================================
