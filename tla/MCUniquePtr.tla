---------------------------- MODULE MCUniquePtr ----------------------------
(* Finite instances of UniquePtr. *)
EXTENDS UniquePtr, TLC

Symmetric == Permutations(Ptr) \cup Permutations(Object) \cup Permutations(Deleter)
=============================================================================
