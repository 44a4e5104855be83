---------------------------- MODULE MCTaskCenter ----------------------------
(* Instance of TaskCenter for TLC. *)
EXTENDS TaskCenter, TLC

Symmetry == Permutations(Instants) \cup Permutations(Workers)
=============================================================================
