----------------------------- MODULE MCIndexing -----------------------------
(* Instances of Indexing for TLC: an empty text and texts of one and two    *)
(* chunks.                                                                  *)
EXTENDS Indexing, TLC

CONSTANTS empty, short, long

MCContents == {empty, short, long}
MCLength == (empty :> 0) @@ (short :> 1) @@ (long :> 2)
MCInitially == [u \in Uris |-> short]

Symmetry == Permutations(Indexers)
=============================================================================
