---------------------------- MODULE AllocatorOps ----------------------------
(***************************************************************************)
(* ft::allocator<T>::allocate (include/ft.hpp:54-69) as operators, shared  *)
(* by the specification of the allocator itself (Allocator) and by the     *)
(* specification of the container that grows through it (Vector).          *)
(*                                                                         *)
(* Sizes are size_type, unsigned: they are kept modulo SizeMod.            *)
(***************************************************************************)
EXTENDS CHeap

CONSTANTS
  SizeOf,    \* sizeof(value_type)
  SizeMod,   \* 2^w for a size_type of w bits
  Capacity   \* capacity_: the most bytes an allocator may have allocated

(***************************************************************************)
(* A block the heap grants plus everything already accounted for fits      *)
(* size_type.  For the default allocator on a 64-bit machine Capacity is   *)
(* (2^63 - 1) / sizeof(T) and HeapMax is below 2^48.                       *)
(***************************************************************************)
ASSUME SizeAssumption ==
  /\ SizeOf \in Nat \ {0}
  /\ SizeMod \in Nat \ {0}
  /\ Capacity \in Nat
  /\ HeapMax + Capacity < SizeMod

(* n * sizeof(value_type), in size_type arithmetic (ft.hpp:56, 78, 84) *)
Footprint(n) == (n * SizeOf) % SizeMod

(* Mutant: the test looks only at what was allocated before. *)
RefusesLate(allocated, n) == allocated > Capacity

(* The test of ft.hpp:57; the sum wraps too. *)
Refuses(allocated, n) == (Footprint(n) + allocated) % SizeMod > Capacity

(* Mutant: a reallocation is taken to cost nothing. *)
ChargeFresh(allocated, hint, n) ==
  IF hint = NULL THEN (allocated + Footprint(n)) % SizeMod ELSE allocated

(***************************************************************************)
(* allocated_ += footprint (ft.hpp:66), whether the request is a new block *)
(* or the reallocation of an old one (the FIXME of that line).             *)
(***************************************************************************)
Charge(allocated, hint, n) == (allocated + Footprint(n)) % SizeMod

(* Mutant: the request is made in elements, not bytes. *)
AllocateResultsInElements(allocated, heap, hint, n) ==
  { IF r.mem = NULL
      THEN [exc |-> "bad_alloc", mem |-> hint,
            heap |-> r.heap, allocated |-> allocated]
      ELSE [exc |-> "none", mem |-> r.mem, heap |-> r.heap,
            allocated |-> Charge(allocated, hint, n)] :
    r \in ReallocResults(heap, hint, n) }

(* Mutant: a call that cannot get memory frees the old block. *)
AllocateResultsFreeing(allocated, heap, hint, n) ==
  { IF r.mem = NULL
      THEN [exc |-> "bad_alloc", mem |-> hint,
            heap |-> Release(r.heap, hint), allocated |-> allocated]
      ELSE [exc |-> "none", mem |-> r.mem, heap |-> r.heap,
            allocated |-> Charge(allocated, hint, n)] :
    r \in ReallocResults(heap, hint, Footprint(n)) }

(***************************************************************************)
(* allocate(hint, n): its possible results.  exc is the exception it       *)
(* throws; mem and allocated are then the caller's pointer and the counter *)
(* as they were.  The assert of line 55 is the invariant WithinCapacity.   *)
(***************************************************************************)
AllocateResults(allocated, heap, hint, n) ==
  IF Refuses(allocated, n)
    THEN { [exc |-> "runtime_error", mem |-> hint,
            heap |-> heap, allocated |-> allocated] }
    ELSE { IF r.mem = NULL
             THEN [exc |-> "bad_alloc", mem |-> hint,
                   heap |-> r.heap, allocated |-> allocated]
             ELSE [exc |-> "none", mem |-> r.mem, heap |-> r.heap,
                   allocated |-> Charge(allocated, hint, n)] :
           r \in ReallocResults(heap, hint, Footprint(n)) }

(* Mutant: a signed counter, and one element too many. *)
DischargeSigned(allocated, n) == allocated - Footprint(n + 1)

(* Mutant: elements are subtracted, not bytes. *)
DischargeElements(allocated, n) == (allocated - n) % SizeMod

(* allocated_ -= n * sizeof(value_type) (ft.hpp:84) *)
Discharge(allocated, n) == (allocated - Footprint(n)) % SizeMod
=============================================================================
