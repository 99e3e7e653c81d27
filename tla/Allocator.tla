----------------------------- MODULE Allocator -----------------------------
(***************************************************************************)
(* ft::allocator<T> (include/ft.hpp:30-169): objects that hand out blocks  *)
(* of the C heap and count what they handed out, and a client that keeps   *)
(* the pointers it was given and the number of elements it asked for.      *)
(*                                                                         *)
(* The client keeps to the contract of an allocator: it passes as hint,    *)
(* and gives back, only pointers it holds, to the object that accounts for *)
(* them and with the element count it asked for.                           *)
(***************************************************************************)
EXTENDS AllocatorOps, FiniteSets

CONSTANTS
  Alloc,      \* the allocator objects
  Count,      \* the element counts a client asks for
  MaxAllocs,  \* bound of the model: successful allocations per object
  Reuses,     \* TRUE: the client passes a held pointer as hint
  Moves       \* TRUE: the client moves allocators

ASSUME ClientAssumption ==
  /\ NULL \notin Alloc
  /\ Count \subseteq Nat
  /\ MaxAllocs \in Nat

ASSUME SwitchAssumption == Reuses \in BOOLEAN /\ Moves \in BOOLEAN

VARIABLES
  heap,        \* the C heap
  built,       \* the allocator objects within their lifetime
  allocated_,  \* bytes each object believes it has handed out
  n_allocs_,   \* successful calls of allocate
  n_frees_,    \* successful calls of deallocate
  charged,     \* the object that accounts for a held block, or NULL
  held,        \* the number of elements the client asked for
  outcome      \* how the last call ended: "none" or the exception thrown

counters == <<allocated_, n_allocs_, n_frees_>>
client == <<charged, held>>
vars == <<heap, built, counters, client, outcome>>

Outcomes == {"none", "runtime_error", "bad_alloc", "copy"}

ChargedTo(a) == { b \in Block : charged[b] = a }

(* The bytes of those blocks, one by one *)
Outstanding(a) == UNION { {b} \X (1 .. heap[b]) : b \in ChargedTo(a) }

-----------------------------------------------------------------------------
Init ==
  /\ heap = [b \in Block |-> Free]
  /\ built = {}
  /\ allocated_ = [a \in Alloc |-> 0]
  /\ n_allocs_ = [a \in Alloc |-> 0]
  /\ n_frees_ = [a \in Alloc |-> 0]
  /\ charged = [b \in Block |-> NULL]
  /\ held = [b \in Block |-> 0]
  /\ outcome = "none"

(* Mutant: the constructor forgets one counter. *)
ConstructStale(a) ==
  /\ a \notin built
  /\ built' = built \cup {a}
  /\ allocated_' = [allocated_ EXCEPT ![a] = 0]
  /\ n_allocs_' = [n_allocs_ EXCEPT ![a] = 0]
  /\ outcome' = "none"
  /\ UNCHANGED <<heap, client, n_frees_>>

(* allocator(size), ft.hpp:46-48, with size = Capacity *)
Construct(a) ==
  /\ a \notin built
  /\ built' = built \cup {a}
  /\ allocated_' = [allocated_ EXCEPT ![a] = 0]
  /\ n_allocs_' = [n_allocs_ EXCEPT ![a] = 0]
  /\ n_frees_' = [n_frees_ EXCEPT ![a] = 0]
  /\ outcome' = "none"
  /\ UNCHANGED <<heap, client>>

(* ~allocator(), ft.hpp:50: nothing is freed, nobody accounts for the rest *)
Destroy(a) ==
  /\ a \in built
  /\ built' = built \ {a}
  /\ charged' = [b \in Block |-> IF charged[b] = a THEN NULL ELSE charged[b]]
  /\ outcome' = "none"
  /\ UNCHANGED <<heap, counters, held>>

(***************************************************************************)
(* allocate(hint, n), ft.hpp:52-69, and what the client makes of it: the   *)
(* pointer returned replaces the one passed.  last is how a call that was  *)
(* granted its block ends.  When realloc frees the hint and returns NULL   *)
(* (a footprint of zero) the hint is gone although the call threw; the     *)
(* client learns it and drops the pointer.                                 *)
(***************************************************************************)
AllocateWith(a, hint, n, last) ==
  /\ a \in built
  /\ n_allocs_[a] < MaxAllocs
  /\ \E r \in AllocateResults(allocated_[a], heap, hint, n) :
       /\ heap' = r.heap
       /\ allocated_' = [allocated_ EXCEPT ![a] = r.allocated]
       /\ \/ /\ r.exc = "none"
             /\ n_allocs_' = [n_allocs_ EXCEPT ![a] = @ + 1]
             /\ charged' = [b \in Block |-> IF b = r.mem THEN a
                                            ELSE IF b = hint THEN NULL
                                            ELSE charged[b]]
             /\ held' = [b \in Block |-> IF b = r.mem THEN n
                                         ELSE IF b = hint THEN 0
                                         ELSE held[b]]
             /\ outcome' = last
          \/ /\ r.exc # "none"
             /\ charged' = [b \in Block |->
                              IF r.heap[b] = Free THEN NULL ELSE charged[b]]
             /\ held' = [b \in Block |-> IF r.heap[b] = Free THEN 0 ELSE held[b]]
             /\ outcome' = r.exc
             /\ UNCHANGED n_allocs_
  /\ UNCHANGED <<built, n_frees_>>

Allocate(a, n) == AllocateWith(a, NULL, n, "none")

Reallocate(a, b, n) ==
  /\ Reuses
  /\ charged[b] = a
  /\ AllocateWith(a, b, n, "none")

(***************************************************************************)
(* construct(ptr, n, val), both overloads (ft.hpp:90-105): allocate, then  *)
(* n assignments, one of which may throw.  ptr was assigned before the     *)
(* loop, so the client holds the block either way.                         *)
(***************************************************************************)
ConstructArray(a, n) ==
  \/ AllocateWith(a, NULL, n, "none")
  \/ n > 0 /\ AllocateWith(a, NULL, n, "copy")

(***************************************************************************)
(* deallocate(ptr, n), ft.hpp:73-88, which destroy (112-115) calls.  The   *)
(* assert of line 78 follows from NeverUndercounts.  ptr is passed by      *)
(* value, so line 86 nulls nothing the client can see.                     *)
(***************************************************************************)
Deallocate(a, b) ==
  /\ a \in built
  /\ charged[b] = a
  /\ heap' = Release(heap, b)
  /\ allocated_' = [allocated_ EXCEPT ![a] = Discharge(@, held[b])]
  /\ n_frees_' = [n_frees_ EXCEPT ![a] = @ + 1]
  /\ charged' = [charged EXCEPT ![b] = NULL]
  /\ held' = [held EXCEPT ![b] = 0]
  /\ outcome' = "none"
  /\ UNCHANGED <<built, n_allocs_>>

(***************************************************************************)
(* allocator(allocator &&) and operator=(allocator &&), both defaulted     *)
(* (ft.hpp:41, 44): the counters are copied and the source keeps them.     *)
(* The client gives the source's blocks back to the target from then on;   *)
(* blocks an assigned-to object accounted for are accounted for by nobody. *)
(***************************************************************************)
Move(a, c) ==
  /\ Moves
  /\ a \in built
  /\ a # c
  /\ built' = built \cup {c}
  /\ allocated_' = [allocated_ EXCEPT ![c] = allocated_[a]]
  /\ n_allocs_' = [n_allocs_ EXCEPT ![c] = n_allocs_[a]]
  /\ n_frees_' = [n_frees_ EXCEPT ![c] = n_frees_[a]]
  /\ charged' = [b \in Block |-> CASE charged[b] = a -> c
                                   [] charged[b] = c -> NULL
                                   [] OTHER -> charged[b]]
  /\ outcome' = "none"
  /\ UNCHANGED <<heap, held>>

Next ==
  \E a \in Alloc :
    \/ Construct(a)
    \/ Destroy(a)
    \/ \E n \in Count : Allocate(a, n)
    \/ \E b \in Block, n \in Count : Reallocate(a, b, n)
    \/ \E n \in Count : ConstructArray(a, n)
    \/ \E b \in Block : Deallocate(a, b)
    \/ \E c \in Alloc : Move(a, c)

Spec == Init /\ [][Next]_vars

(* What a client is told: available(), and num_allocations() - num_frees() *)
Available(a) == Capacity - allocated_[a]
Unfreed(a) == n_allocs_[a] - n_frees_[a]

-----------------------------------------------------------------------------
TypeOK ==
  /\ heap \in Heaps
  /\ built \subseteq Alloc
  /\ allocated_ \in [Alloc -> 0 .. SizeMod - 1]
  /\ n_allocs_ \in [Alloc -> 0 .. MaxAllocs]
  /\ n_frees_ \in [Alloc -> Nat]
  /\ charged \in [Block -> Alloc \cup {NULL}]
  /\ held \in [Block -> Count \cup {0}]
  /\ outcome \in Outcomes

(***************************************************************************)
(* The asserts of ft.hpp:55 and ft.hpp:122 never fail: no sequence of      *)
(* calls drives allocated_ past capacity_, although the test of line 57    *)
(* adds two unsigned numbers: a request for which the sum wraps passes the *)
(* test, and it is the heap, which has no block so large, that refuses it. *)
(***************************************************************************)
WithinCapacity == \A a \in Alloc : allocated_[a] <= Capacity

(***************************************************************************)
(* allocated_ never undercounts: it covers every block the object must     *)
(* still take back, whatever was reallocated, moved or refused on the way. *)
(* So the assert of deallocate (ft.hpp:78) never fails for a client that   *)
(* keeps to the contract, and the subtraction of line 84 never wraps.      *)
(***************************************************************************)
NeverUndercounts ==
  \A a \in built : Cardinality(Outstanding(a)) <= allocated_[a]

(***************************************************************************)
(* num_allocations() - num_frees() (ft.hpp:117-118) is never less than the *)
(* number of blocks outstanding: a client may use it to detect leaks.      *)
(***************************************************************************)
CountersCoverBlocks ==
  \A a \in built : Cardinality(ChargedTo(a)) <= Unfreed(a)

(***************************************************************************)
(* Every pointer the client holds is live and its block has exactly the    *)
(* bytes of the elements asked for last, through any number of             *)
(* reallocations (ft.hpp:61-68), and an address is never accounted for     *)
(* once it is free.                                                        *)
(***************************************************************************)
HeldBlocksFit ==
  \A b \in Block :
    /\ held[b] > 0 => heap[b] = Footprint(held[b])
    /\ charged[b] # NULL => charged[b] \in built /\ heap[b] = Footprint(held[b])

(***************************************************************************)
(* A call that throws (ft.hpp:58, 64) frees nothing, so that the caller    *)
(* may go on with the pointer it passed, with one exception it must know:  *)
(* a reallocation whose footprint is zero frees the block and then reports *)
(* bad_alloc.                                                              *)
(***************************************************************************)
RefusalKeepsBlocks ==
  [][ /\ outcome' = "runtime_error" => UNCHANGED <<heap, client>>
      /\ \A a \in Alloc, b \in Block, n \in Count :
           Reallocate(a, b, n) /\ Footprint(n) # 0 /\ outcome' = "bad_alloc" =>
             UNCHANGED <<heap, client>> ]_vars

(***************************************************************************)
(* The counters drift from what is outstanding only in a reallocation      *)
(* (the FIXME of ft.hpp:66) or in a move.  So for a client that does       *)
(* neither they are exact, as tests/ft/allocator.cpp:58-60 and 82-84       *)
(* expect, after any calls, refused and throwing ones included.            *)
(***************************************************************************)
Drift(a) ==
  << allocated_[a] - Cardinality(Outstanding(a)),
     Unfreed(a) - Cardinality(ChargedTo(a)) >>

DriftOnlyByReallocation ==
  [][ \A a \in built \cap built' :
        Drift(a)' # Drift(a) =>
          \/ \E b \in Block, n \in Count : Reallocate(a, b, n)
          \/ \E c \in Alloc : Move(a, c) \/ Move(c, a) ]_vars

(***************************************************************************)
(* tests/ft/allocator.cpp:84: when every block is deallocated again,       *)
(* available() is what it was at first.  Reallocation breaks it.           *)
(***************************************************************************)
AllFreedAllAvailable ==
  \A a \in built : ChargedTo(a) = {} => Available(a) = Capacity

(***************************************************************************)
(* tests/ft/allocator.cpp:62-77 and the message of ft.hpp:59: what exceeds *)
(* the allocator's maximum is refused.  A count whose footprint wraps is   *)
(* granted.                                                                *)
(***************************************************************************)
NothingPastMaximum == \A b \in Block : held[b] * SizeOf <= Capacity
=============================================================================
