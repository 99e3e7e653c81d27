---------------------------- MODULE MCAllocator ----------------------------
(***************************************************************************)
(* Finite instances of Allocator.  Elements have two bytes, so that bytes  *)
(* and elements cannot be confused; a block holds up to two elements.      *)
(***************************************************************************)
EXTENDS Allocator, TLC

Symmetric == Permutations(Block) \cup Permutations(Alloc)
=============================================================================
