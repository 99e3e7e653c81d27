-------------------------- MODULE MCVectorIterator --------------------------
(* A finite instance of VectorIterator. *)
EXTENDS VectorIterator, TLC

Symmetric == Permutations(Block)
=============================================================================
