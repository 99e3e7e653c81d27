-------------------------- MODULE AllocatorOpsProofs --------------------------
(***************************************************************************)
(* What one call of allocate can do, for every value of the constants: the *)
(* lemmas every component that allocates rests on.                         *)
(***************************************************************************)
EXTENDS AllocatorOps, TLAPS

(* Reducing a number that is in range already changes nothing. *)
LEMMA ModSmall ==
  ASSUME NEW m \in Nat \ {0}, NEW x \in 0 .. m - 1
  PROVE  x % m = x
  BY SMT

(* A size_type is within its width. *)
LEMMA FootprintType ==
  ASSUME NEW n \in Nat
  PROVE  Footprint(n) \in 0 .. SizeMod - 1
  <1>1. n * SizeOf \in Nat
    BY SizeAssumption, SMT
  <1>2. ASSUME NEW m \in Nat \ {0}, NEW x \in Nat
        PROVE  x % m \in 0 .. m - 1
    BY SMT
  <1>. QED
    BY <1>1, <1>2, SizeAssumption DEF Footprint

(***************************************************************************)
(* realloc (ft.hpp:62): it fails and changes nothing, frees a live block   *)
(* asked to shrink to zero bytes, or grants the request in a block that    *)
(* was free or was the caller's own.                                       *)
(***************************************************************************)
LEMMA ReallocFacts ==
  ASSUME NEW h \in Heaps, NEW p \in Block \cup {NULL}, NEW bytes \in Nat,
         NEW r \in ReallocResults(h, p, bytes)
  PROVE  /\ r.heap \in Heaps
         /\ r.mem = NULL =>
              \/ r.heap = h
              \/ p # NULL /\ bytes = 0 /\ r.heap = Release(h, p)
         /\ r.mem # NULL =>
              /\ r.mem \in Block
              /\ h[r.mem] = Free \/ r.mem = p
              /\ bytes <= HeapMax
              /\ r.heap = Grant(h, p, r.mem, bytes)
  <1>1. Release(h, p) \in Heaps
    BY HeapAssumption DEF Release, Heaps, Free
  <1>2. CASE r = [mem |-> NULL, heap |-> Release(h, p)] /\ p # NULL /\ bytes = 0
    BY <1>1, <1>2
  <1>3. CASE r = [mem |-> NULL, heap |-> h]
    BY <1>3
  <1>4. CASE \E q \in Block :
               /\ bytes <= HeapMax
               /\ h[q] = Free \/ q = p
               /\ r = [mem |-> q, heap |-> Grant(h, p, q, bytes)]
    <2>. PICK q \in Block :
           /\ bytes <= HeapMax
           /\ h[q] = Free \/ q = p
           /\ r = [mem |-> q, heap |-> Grant(h, p, q, bytes)]
      BY <1>4
    <2>1. r.mem = q /\ r.mem # NULL
      BY HeapAssumption
    <2>2. r.heap \in Heaps
      <3>1. bytes \in Free .. HeapMax /\ Free \in Free .. HeapMax
        BY HeapAssumption DEF Free
      <3>. QED
        BY <3>1 DEF Heaps, Grant
    <2>. QED
      BY <2>1, <2>2
  <1>. QED
    BY <1>2, <1>3, <1>4 DEF ReallocResults

(***************************************************************************)
(* allocate (ft.hpp:54-69): the counter of a granted request does not wrap *)
(* and stays within capacity_; a refused one leaves the counter alone, and *)
(* the heap too unless the footprint is zero.                              *)
(***************************************************************************)
Ends(al, h, hint, n, r) ==
  /\ r.heap \in Heaps
  /\ r.allocated \in 0 .. Capacity
  /\ r.exc \in {"none", "runtime_error", "bad_alloc"}
  /\ r.exc = "none" =>
       /\ r.mem \in Block
       /\ h[r.mem] = Free \/ r.mem = hint
       /\ Footprint(n) <= HeapMax
       /\ r.heap = Grant(h, hint, r.mem, Footprint(n))
       /\ r.allocated = al + Footprint(n)
  /\ r.exc # "none" =>
       /\ r.allocated = al
       /\ \/ r.heap = h
          \/ hint # NULL /\ Footprint(n) = 0 /\ r.heap = Release(h, hint)

(* Every result of allocate is one of those Ends describes. *)
LEMMA AllocateFacts ==
  ASSUME NEW al \in 0 .. Capacity, NEW h \in Heaps,
         NEW hint \in Block \cup {NULL}, NEW n \in Nat
  PROVE  \A r \in AllocateResults(al, h, hint, n) : Ends(al, h, hint, n, r)
  <1>. SUFFICES ASSUME NEW r \in AllocateResults(al, h, hint, n)
                PROVE  Ends(al, h, hint, n, r)
    OBVIOUS
  <1>f. Footprint(n) \in 0 .. SizeMod - 1
    BY FootprintType
  <1>1. CASE Refuses(al, n)
    BY <1>1 DEF AllocateResults, Ends
  <1>2. CASE ~Refuses(al, n)
    <2>1. PICK c \in ReallocResults(h, hint, Footprint(n)) :
            r = IF c.mem = NULL
                  THEN [exc |-> "bad_alloc", mem |-> hint,
                        heap |-> c.heap, allocated |-> al]
                  ELSE [exc |-> "none", mem |-> c.mem, heap |-> c.heap,
                        allocated |-> (al + Footprint(n)) % SizeMod]
      BY <1>2 DEF AllocateResults, Charge
    <2>f. /\ c.heap \in Heaps
          /\ c.mem = NULL =>
               \/ c.heap = h
               \/ hint # NULL /\ Footprint(n) = 0 /\ c.heap = Release(h, hint)
          /\ c.mem # NULL =>
               /\ c.mem \in Block
               /\ h[c.mem] = Free \/ c.mem = hint
               /\ Footprint(n) <= HeapMax
               /\ c.heap = Grant(h, hint, c.mem, Footprint(n))
      <3>1. Footprint(n) \in Nat
        BY <1>f
      <3>. QED
        BY <3>1, ReallocFacts
    <2>2. CASE c.mem = NULL
      <3>1. r = [exc |-> "bad_alloc", mem |-> hint,
                 heap |-> c.heap, allocated |-> al]
        BY <2>1, <2>2
      <3>. QED
        BY <3>1, <2>2, <2>f DEF Ends
    <2>3. CASE c.mem # NULL
      <3>1. Footprint(n) <= HeapMax
        BY <2>3, <2>f
      <3>2. (al + Footprint(n)) % SizeMod = al + Footprint(n)
        <4>1. al + Footprint(n) \in 0 .. SizeMod - 1
          BY <3>1, <1>f, SizeAssumption, HeapAssumption
        <4>. QED
          BY <4>1, ModSmall, SizeAssumption
      <3>3. al + Footprint(n) <= Capacity
        BY <1>2, <3>2, <1>f, SizeAssumption DEF Refuses
      <3>4. r = [exc |-> "none", mem |-> c.mem, heap |-> c.heap,
                 allocated |-> al + Footprint(n)]
        BY <2>1, <2>3, <3>2
      <3>5. al + Footprint(n) \in 0 .. Capacity
        BY <3>3, <1>f, SizeAssumption
      <3>. QED
        BY <3>4, <3>5, <2>3, <2>f DEF Ends
    <2>. QED
      BY <2>2, <2>3
  <1>. QED
    BY <1>1, <1>2
=============================================================================
