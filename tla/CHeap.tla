------------------------------- MODULE CHeap -------------------------------
(***************************************************************************)
(* The C heap, as include/ft.hpp uses it: realloc (ft.hpp:62) and free     *)
(* (ft.hpp:83).  The heap is external code; it is a function that gives    *)
(* every block its size in bytes, or Free.  Only sizes are kept here: a    *)
(* module that cares about what a block holds keeps that beside the heap.  *)
(*                                                                         *)
(* A Block is an address.  A freed address may be handed out again, which  *)
(* is how a dangling pointer comes to alias a later allocation.            *)
(***************************************************************************)
EXTENDS Integers

CONSTANTS
  Block,    \* the addresses the heap can hand out
  NULL,     \* the null pointer; NEW_ALLOC in ft.hpp:28
  HeapMax   \* the largest request, in bytes, the heap can ever satisfy

ASSUME HeapAssumption ==
  /\ NULL \notin Block
  /\ HeapMax \in Nat

Free == -1

Heaps == [Block -> Free .. HeapMax]

IsLive(heap, p) == p \in Block /\ heap[p] # Free

(* free(p); p is live or NULL *)
Release(heap, p) == [b \in Block |-> IF b = p THEN Free ELSE heap[b]]

(* p, unless NULL or q itself, gives way to a block q of the given bytes *)
Grant(heap, p, q, bytes) ==
  [b \in Block |-> IF b = q THEN bytes ELSE IF b = p THEN Free ELSE heap[b]]

(***************************************************************************)
(* realloc(p, bytes), p live or NULL: the set of its possible results.     *)
(* The request may fail at any time, and must fail when it exceeds         *)
(* HeapMax; a failed request leaves p alone.  A granted request stays in   *)
(* place or moves to a free block.  A live p with zero bytes is freed and  *)
(* the result is NULL, which the caller cannot tell from a failure (glibc  *)
(* and the Microsoft CRT agree on this); NULL with zero bytes is malloc(0),*)
(* a block of no bytes.                                                    *)
(***************************************************************************)
ReallocResults(heap, p, bytes) ==
  IF p # NULL /\ bytes = 0
    THEN { [mem |-> NULL, heap |-> Release(heap, p)] }
    ELSE { [mem |-> NULL, heap |-> heap] }
         \cup { [mem |-> q, heap |-> Grant(heap, p, q, bytes)] :
                  q \in { b \in Block : /\ bytes <= HeapMax
                                        /\ heap[b] = Free \/ b = p } }
=============================================================================
