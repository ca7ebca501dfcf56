---------------------------- MODULE MCStatusPoll ----------------------------
(* Instances of StatusPoll for TLC. *)
EXTENDS StatusPoll, TLC

Symmetry == Permutations(Workers) \cup Permutations(Docs) \cup Permutations(Chunks)
=============================================================================
