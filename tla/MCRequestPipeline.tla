------------------------- MODULE MCRequestPipeline -------------------------
(* Instances of RequestPipeline for TLC. *)
EXTENDS RequestPipeline, TLC

Symmetry ==
  Permutations(Asks) \cup Permutations(Workers) \cup Permutations(Docs) \cup Permutations(Chunks)
=============================================================================
