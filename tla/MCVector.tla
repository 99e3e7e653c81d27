------------------------------ MODULE MCVector ------------------------------
(* Finite instances of Vector. *)
EXTENDS VectorAsSeq, TLC

Symmetric == Permutations(Block) \cup Permutations(Value) \cup Permutations(Vec)
=============================================================================
