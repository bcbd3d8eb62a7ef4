------------------------------- MODULE MCSync -------------------------------
(* Instances of Sync for TLC. *)
EXTENDS Trello, TLC

MCSymmetry == Permutations(Group) \cup Permutations(Task) \cup Permutations(Title)
                \cup Permutations(Syncer)
=============================================================================
