--------------------------- MODULE AllocatorProofs ---------------------------
(***************************************************************************)
(* For every set of allocators and blocks and every element size: the      *)
(* counter never exceeds capacity_, the asserts of ft.hpp:55, 78 and 122   *)
(* never fail, and the pointers a client holds are live and large enough.  *)
(*                                                                         *)
(* WithinCapacity is not inductive: deallocate subtracts, and the          *)
(* subtraction stays in range only because allocated_ covers the blocks    *)
(* still outstanding, each besides all the others.  That is a fact about a *)
(* sum; Ledger says it without one.  Lay the outstanding blocks of an      *)
(* allocator out as disjoint intervals of 0 .. allocated_: a new block     *)
(* goes on top, a reallocated one moves to the top and leaves a gap, and a *)
(* deallocated one is cut out, what lies above sliding down.               *)
(*                                                                         *)
(* CountersCoverBlocks counts calls, not bytes: a step adds to or takes    *)
(* from the finite set of blocks of an object at most one, and only a move *)
(* hands over more, with the counters that cover them.                     *)
(***************************************************************************)
EXTENDS Allocator, AllocatorOpsProofs, FiniteSetTheorems

(* base lays the outstanding blocks out within what their owner counted *)
Inside(base) ==
  \A b \in Block :
    charged[b] # NULL => base[b] + heap[b] <= allocated_[charged[b]]

(* ... and no two blocks of an owner overlap *)
Apart(base) ==
  \A b, c \in Block :
    b # c /\ charged[b] # NULL /\ charged[b] = charged[c] =>
      base[b] + heap[b] <= base[c] \/ base[c] + heap[c] <= base[b]

Ledger == \E base \in [Block -> Nat] : Inside(base) /\ Apart(base)

IInv == TypeOK /\ WithinCapacity /\ HeldBlocksFit /\ Ledger

(* The assert of ft.hpp:78, for the pointers the client may pass *)
DeallocateAssert ==
  \A b \in Block :
    charged[b] # NULL => allocated_[charged[b]] >= Footprint(held[b])

-----------------------------------------------------------------------------
LEMMA InitIInv == Init => IInv
  <1>. SUFFICES ASSUME Init PROVE IInv
    OBVIOUS
  <1>1. TypeOK
    BY HeapAssumption, SizeAssumption, ClientAssumption
       DEF Init, TypeOK, Heaps, Free, Outcomes
  <1>2. WithinCapacity
    BY SizeAssumption DEF Init, WithinCapacity
  <1>3. HeldBlocksFit
    <2>1. \A b \in Block : held[b] = 0 /\ charged[b] = NULL
      BY DEF Init
    <2>2. ~(0 > 0)
      OBVIOUS
    <2>. QED
      BY <2>1, <2>2, Zenon DEF HeldBlocksFit
  <1>4. Ledger
    <2>. DEFINE base == [b \in Block |-> 0]
    <2>1. base \in [Block -> Nat]
      OBVIOUS
    <2>2. Inside(base) /\ Apart(base)
      BY DEF Init, Inside, Apart
    <2>. QED
      BY <2>1, <2>2 DEF Ledger
  <1>. QED
    BY <1>1, <1>2, <1>3, <1>4 DEF IInv

(* What the parts of the invariant say of the values they range over. *)
LEMMA Types ==
  ASSUME IInv
  PROVE  /\ heap \in Heaps
         /\ \A a \in Alloc : allocated_[a] \in 0 .. Capacity
         /\ \A b \in Block : charged[b] \in Alloc \cup {NULL} /\ held[b] \in Nat
         /\ \A b \in Block : heap[b] \in Free .. HeapMax
         /\ \A b \in Block : charged[b] # NULL =>
              /\ charged[b] \in built
              /\ heap[b] \in Nat
              /\ heap[b] = Footprint(held[b])
  <1>1. \A b \in Block : charged[b] \in Alloc \cup {NULL} /\ held[b] \in Nat
    <2>1. \A b \in Block :
            charged[b] \in Alloc \cup {NULL} /\ held[b] \in Count \cup {0}
      BY DEF IInv, TypeOK
    <2>2. Count \cup {0} \subseteq Nat
      BY ClientAssumption
    <2>. QED
      BY <2>1, <2>2
  <1>2. \A a \in Alloc : allocated_[a] \in 0 .. Capacity
    BY SizeAssumption DEF IInv, TypeOK, WithinCapacity
  <1>3. heap \in Heaps /\ \A b \in Block : heap[b] \in Free .. HeapMax
    BY DEF IInv, TypeOK, Heaps
  <1>4. \A b \in Block : charged[b] # NULL =>
          charged[b] \in built /\ heap[b] \in Nat /\ heap[b] = Footprint(held[b])
    <2>. SUFFICES ASSUME NEW b \in Block, charged[b] # NULL
                  PROVE  /\ charged[b] \in built /\ heap[b] = Footprint(held[b])
                         /\ Footprint(held[b]) \in Nat
      OBVIOUS
    <2>1. Footprint(held[b]) \in Nat
      BY <1>1, FootprintType
    <2>. QED
      BY <2>1 DEF IInv, HeldBlocksFit
  <1>. QED
    BY <1>1, <1>2, <1>3, <1>4

(***************************************************************************)
(* allocate, with whatever hint and however the call that was granted its  *)
(* block ends: the new block goes on top of what the owner counted.        *)
(***************************************************************************)
LEMMA AllocateWithIInv ==
  ASSUME IInv,
         NEW a \in Alloc, NEW hint \in Block \cup {NULL}, NEW n \in Count,
         NEW last \in Outcomes,
         hint # NULL => charged[hint] = a,
         AllocateWith(a, hint, n, last)
  PROVE  IInv'
  <1>n. n \in Nat /\ Footprint(n) \in Nat
    <2>1. n \in Nat
      BY ClientAssumption
    <2>. QED
      BY <2>1, FootprintType
  <1>t. /\ heap \in Heaps
        /\ \A x \in Alloc : allocated_[x] \in 0 .. Capacity
        /\ \A b \in Block : charged[b] \in Alloc \cup {NULL} /\ held[b] \in Nat
        /\ \A b \in Block : heap[b] \in Free .. HeapMax
        /\ \A b \in Block : charged[b] # NULL =>
             charged[b] \in built /\ heap[b] \in Nat /\ heap[b] = Footprint(held[b])
    BY Types
  <1>f. \A r \in AllocateResults(allocated_[a], heap, hint, n) :
          Ends(allocated_[a], heap, hint, n, r)
    <2>1. allocated_[a] \in 0 .. Capacity /\ heap \in Heaps
      BY <1>t
    <2>. QED
      BY <1>n, <2>1, AllocateFacts
  <1>. PICK r \in AllocateResults(allocated_[a], heap, hint, n) :
         /\ heap' = r.heap
         /\ allocated_' = [allocated_ EXCEPT ![a] = r.allocated]
         /\ \/ /\ r.exc = "none"
               /\ n_allocs_' = [n_allocs_ EXCEPT ![a] = @ + 1]
               /\ charged' = [b \in Block |-> IF b = r.mem THEN a
                                              ELSE IF b = hint THEN NULL
                                              ELSE charged[b]]
               /\ held' = [b \in Block |-> IF b = r.mem THEN n
                                           ELSE IF b = hint THEN 0
                                           ELSE held[b]]
               /\ outcome' = last
            \/ /\ r.exc # "none"
               /\ charged' = [b \in Block |->
                                IF r.heap[b] = Free THEN NULL ELSE charged[b]]
               /\ held' = [b \in Block |-> IF r.heap[b] = Free THEN 0 ELSE held[b]]
               /\ outcome' = r.exc
               /\ UNCHANGED n_allocs_
    BY DEF AllocateWith
  <1>r. /\ r.heap \in Heaps
        /\ r.allocated \in 0 .. Capacity
        /\ r.exc \in {"none", "runtime_error", "bad_alloc"}
        /\ r.exc = "none" =>
             /\ r.mem \in Block
             /\ heap[r.mem] = Free \/ r.mem = hint
             /\ Footprint(n) <= HeapMax
             /\ r.heap = Grant(heap, hint, r.mem, Footprint(n))
             /\ r.allocated = allocated_[a] + Footprint(n)
        /\ r.exc # "none" =>
             /\ r.allocated = allocated_[a]
             /\ \/ r.heap = heap
                \/ hint # NULL /\ Footprint(n) = 0 /\ r.heap = Release(heap, hint)
    BY <1>f DEF Ends
  <1>u. /\ built' = built /\ n_frees_' = n_frees_
        /\ a \in built /\ n_allocs_[a] < MaxAllocs
    BY DEF AllocateWith
  <1>a. /\ allocated_' \in [Alloc -> 0 .. Capacity]
        /\ allocated_'[a] = r.allocated
        /\ \A x \in Alloc : x # a => allocated_'[x] = allocated_[x]
    BY <1>r, <1>t DEF IInv, TypeOK
  <1>w. WithinCapacity'
    BY <1>a, SizeAssumption DEF WithinCapacity
  <1>b. allocated_' \in [Alloc -> 0 .. SizeMod - 1]
    <2>1. 0 .. Capacity \subseteq 0 .. SizeMod - 1
      BY SizeAssumption, HeapAssumption
    <2>. QED
      BY <1>a, <2>1
  <1>1. CASE r.exc = "none"
    <2>. DEFINE q == r.mem
    <2>1. \A b \in Block :
            /\ b = q => heap'[b] = Footprint(n) /\ charged'[b] = a /\ held'[b] = n
            /\ b # q /\ b = hint =>
                 heap'[b] = Free /\ charged'[b] = NULL /\ held'[b] = 0
            /\ b # q /\ b # hint =>
                 /\ heap'[b] = heap[b]
                 /\ charged'[b] = charged[b]
                 /\ held'[b] = held[b]
      BY <1>1, <1>r DEF Grant
    <2>2. TypeOK'
      <3>1. charged' \in [Block -> Alloc \cup {NULL}]
        BY <1>1, <1>t
      <3>2. held' \in [Block -> Count \cup {0}]
        BY <1>1 DEF IInv, TypeOK
      <3>3. n_allocs_' \in [Alloc -> 0 .. MaxAllocs]
        BY <1>1, <1>u, ClientAssumption DEF IInv, TypeOK
      <3>. QED
        BY <1>1, <1>r, <1>u, <1>b, <3>1, <3>2, <3>3 DEF IInv, TypeOK
    <2>3. HeldBlocksFit'
      BY <2>1, <1>u, <1>t DEF IInv, HeldBlocksFit
    <2>4. Ledger'
      <3>. PICK base \in [Block -> Nat] : Inside(base) /\ Apart(base)
        BY DEF IInv, Ledger
      <3>. PICK top \in [Block -> Nat] :
             top = [b \in Block |-> IF b = q THEN allocated_[a] ELSE base[b]]
        <4>. DEFINE t == [b \in Block |-> IF b = q THEN allocated_[a] ELSE base[b]]
        <4>1. allocated_[a] \in Nat
          BY <1>t, SizeAssumption
        <4>2. t \in [Block -> Nat]
          BY <4>1
        <4>. QED
          BY <4>2
      <3>2. Inside(top)'
        <4>. SUFFICES ASSUME NEW b \in Block, charged'[b] # NULL
                      PROVE  top[b] + heap'[b] <= allocated_'[charged'[b]]
          BY DEF Inside
        <4>1. CASE b = q
          BY <4>1, <2>1, <1>1, <1>r, <1>a
        <4>2. CASE b # q
          <5>1. /\ heap'[b] = heap[b] /\ charged'[b] = charged[b]
                /\ charged[b] \in Alloc /\ heap[b] \in Nat
            BY <4>2, <2>1, <1>t
          <5>2. base[b] + heap[b] <= allocated_[charged[b]]
            BY <5>1 DEF Inside
          <5>3. allocated_[charged[b]] <= allocated_'[charged[b]]
            BY <5>1, <1>a, <1>r, <1>1, <1>n, <1>t
          <5>. QED
            BY <4>2, <5>1, <5>2, <5>3, <1>a, <1>t, SizeAssumption
        <4>. QED
          BY <4>1, <4>2
      <3>3. Apart(top)'
        <4>. SUFFICES ASSUME NEW b \in Block, NEW c \in Block, b # c,
                             charged'[b] # NULL, charged'[b] = charged'[c]
                      PROVE  \/ top[b] + heap'[b] <= top[c]
                             \/ top[c] + heap'[c] <= top[b]
          BY DEF Apart
        <4>1. CASE b = q
          BY <4>1, <2>1, <1>t DEF Inside
        <4>2. CASE c = q
          BY <4>2, <2>1, <1>t DEF Inside
        <4>3. CASE b # q /\ c # q
          BY <4>3, <2>1, <1>t DEF Apart
        <4>. QED
          BY <4>1, <4>2, <4>3
      <3>. QED
        BY <3>2, <3>3 DEF Ledger
    <2>. QED
      BY <1>w, <2>2, <2>3, <2>4 DEF IInv
  <1>2. CASE r.exc # "none"
    <2>1. \A b \in Block :
            /\ heap'[b] = heap[b] \/ heap'[b] = Free
            /\ heap'[b] = Free => charged'[b] = NULL /\ held'[b] = 0
            /\ heap'[b] # Free => charged'[b] = charged[b] /\ held'[b] = held[b]
      BY <1>2, <1>r DEF Release
    <2>2. TypeOK'
      <3>1. charged' \in [Block -> Alloc \cup {NULL}]
        BY <1>2, <1>t
      <3>2. held' \in [Block -> Count \cup {0}]
        BY <1>2 DEF IInv, TypeOK
      <3>. QED
        BY <1>2, <1>r, <1>u, <1>b, <3>1, <3>2 DEF IInv, TypeOK, Outcomes
    <2>3. HeldBlocksFit'
      BY <2>1, <1>u, <1>t DEF IInv, HeldBlocksFit
    <2>4. Ledger'
      <3>. PICK base \in [Block -> Nat] : Inside(base) /\ Apart(base)
        BY DEF IInv, Ledger
      <3>1. \A b \in Block : charged'[b] # NULL =>
              charged'[b] = charged[b] /\ heap'[b] = heap[b]
        BY <2>1
      <3>2. \A x \in Alloc : allocated_'[x] = allocated_[x]
        BY <1>2, <1>r, <1>a
      <3>3. Inside(base)'
        BY <3>1, <3>2, <1>t DEF Inside
      <3>4. Apart(base)'
        BY <3>1 DEF Apart
      <3>. QED
        BY <3>3, <3>4 DEF Ledger
    <2>. QED
      BY <1>w, <2>2, <2>3, <2>4 DEF IInv
  <1>. QED
    BY <1>1, <1>2

(* A new object has no blocks to account for. *)
LEMMA ConstructIInv ==
  ASSUME IInv, NEW a \in Alloc, Construct(a)
  PROVE  IInv'
  <1>1. \A b \in Block :
          /\ heap'[b] = heap[b]
          /\ charged'[b] = charged[b]
          /\ held'[b] = held[b]
          /\ charged[b] # a \/ charged[b] = NULL
    BY Types, ClientAssumption DEF Construct, client
  <1>2. /\ allocated_' \in [Alloc -> 0 .. Capacity]
        /\ \A x \in Alloc : x # a => allocated_'[x] = allocated_[x]
    BY Types, SizeAssumption DEF Construct, IInv, TypeOK
  <1>3. TypeOK'
    <2>1. 0 .. Capacity \subseteq 0 .. SizeMod - 1
      BY SizeAssumption, HeapAssumption
    <2>. QED
      BY <1>2, <2>1, ClientAssumption DEF Construct, client, IInv, TypeOK, Outcomes
  <1>4. WithinCapacity'
    BY <1>2, SizeAssumption DEF WithinCapacity
  <1>5. HeldBlocksFit'
    BY <1>1 DEF Construct, IInv, HeldBlocksFit
  <1>6. Ledger'
    <2>. PICK base \in [Block -> Nat] : Inside(base) /\ Apart(base)
      BY DEF IInv, Ledger
    <2>1. Inside(base)'
      BY <1>1, <1>2, Types DEF Inside
    <2>2. Apart(base)'
      BY <1>1 DEF Apart
    <2>. QED
      BY <2>1, <2>2 DEF Ledger
  <1>. QED
    BY <1>3, <1>4, <1>5, <1>6 DEF IInv

(* What a destroyed object accounted for is accounted for by nobody. *)
LEMMA DestroyIInv ==
  ASSUME IInv, NEW a \in Alloc, Destroy(a)
  PROVE  IInv'
  <1>1. \A b \in Block :
          /\ heap'[b] = heap[b]
          /\ held'[b] = held[b]
          /\ charged'[b] # NULL => charged'[b] = charged[b] /\ charged[b] # a
    BY DEF Destroy
  <1>2. /\ allocated_' = allocated_
        /\ built' = built \ {a}
    BY DEF Destroy, counters
  <1>3. TypeOK'
    <2>1. charged' \in [Block -> Alloc \cup {NULL}]
      BY Types DEF Destroy
    <2>. QED
      BY <2>1 DEF Destroy, counters, IInv, TypeOK, Outcomes
  <1>4. WithinCapacity'
    BY <1>2 DEF IInv, WithinCapacity
  <1>5. HeldBlocksFit'
    BY <1>1, <1>2 DEF IInv, HeldBlocksFit
  <1>6. Ledger'
    <2>. PICK base \in [Block -> Nat] : Inside(base) /\ Apart(base)
      BY DEF IInv, Ledger
    <2>1. Inside(base)'
      BY <1>1, <1>2 DEF Inside
    <2>2. Apart(base)'
      BY <1>1 DEF Apart
    <2>. QED
      BY <2>1, <2>2 DEF Ledger
  <1>. QED
    BY <1>3, <1>4, <1>5, <1>6 DEF IInv

(***************************************************************************)
(* deallocate: the block is cut out of the layout and what its owner has   *)
(* above it slides down by its size.                                       *)
(***************************************************************************)
LEMMA DeallocateIInv ==
  ASSUME IInv, NEW a \in Alloc, NEW b \in Block, Deallocate(a, b)
  PROVE  IInv'
  <1>. PICK base \in [Block -> Nat] : Inside(base) /\ Apart(base)
    BY DEF IInv, Ledger
  <1>t. /\ charged[b] = a /\ a # NULL
        /\ heap[b] \in Nat /\ heap[b] = Footprint(held[b])
        /\ allocated_[a] \in 0 .. Capacity
        /\ base[b] + heap[b] <= allocated_[a]
    BY Types, ClientAssumption DEF Deallocate, Inside
  <1>1. \A c \in Block :
          /\ c = b => heap'[c] = Free /\ charged'[c] = NULL /\ held'[c] = 0
          /\ c # b => /\ heap'[c] = heap[c]
                      /\ charged'[c] = charged[c]
                      /\ held'[c] = held[c]
    BY DEF Deallocate, Release, IInv, TypeOK
  <1>2. (allocated_[a] - Footprint(held[b])) % SizeMod = allocated_[a] - heap[b]
    <2>1. allocated_[a] - heap[b] \in 0 .. SizeMod - 1
      BY <1>t, SizeAssumption, HeapAssumption
    <2>. QED
      BY <1>t, <2>1, ModSmall, SizeAssumption
  <1>3. /\ allocated_' \in [Alloc -> 0 .. Capacity]
        /\ allocated_'[a] = allocated_[a] - heap[b]
        /\ \A x \in Alloc : x # a => allocated_'[x] = allocated_[x]
    <2>1. allocated_' = [allocated_ EXCEPT ![a] = allocated_[a] - heap[b]]
      BY <1>2 DEF Deallocate, Discharge
    <2>2. allocated_[a] - heap[b] \in 0 .. Capacity
      BY <1>t, SizeAssumption
    <2>. QED
      BY <2>1, <2>2, Types DEF IInv, TypeOK
  <1>4. TypeOK'
    <2>1. 0 .. Capacity \subseteq 0 .. SizeMod - 1
      BY SizeAssumption, HeapAssumption
    <2>2. heap' \in Heaps
      BY HeapAssumption DEF Deallocate, Release, IInv, TypeOK, Heaps, Free
    <2>3. n_frees_' \in [Alloc -> Nat]
      BY DEF Deallocate, IInv, TypeOK
    <2>. QED
      BY <1>3, <2>1, <2>2, <2>3 DEF Deallocate, IInv, TypeOK, Outcomes
  <1>5. WithinCapacity'
    BY <1>3, SizeAssumption DEF WithinCapacity
  <1>6. HeldBlocksFit'
    BY <1>1 DEF Deallocate, IInv, HeldBlocksFit
  <1>7. Ledger'
    <2>. PICK cut \in [Block -> Nat] :
           \A c \in Block :
             cut[c] = IF charged[c] = a /\ base[b] + heap[b] <= base[c]
                        THEN base[c] - heap[b] ELSE base[c]
      <3>. DEFINE t == [c \in Block |->
                          IF charged[c] = a /\ base[b] + heap[b] <= base[c]
                            THEN base[c] - heap[b] ELSE base[c]]
      <3>1. t \in [Block -> Nat]
        BY <1>t
      <3>. QED
        BY <3>1
    <2>1. Inside(cut)'
      <3>. SUFFICES ASSUME NEW c \in Block, charged'[c] # NULL
                    PROVE  cut[c] + heap'[c] <= allocated_'[charged'[c]]
        BY DEF Inside
      <3>1. /\ c # b /\ charged'[c] = charged[c] /\ heap'[c] = heap[c]
            /\ charged[c] \in Alloc /\ heap[c] \in Nat
            /\ base[c] + heap[c] <= allocated_[charged[c]]
        BY <1>1, Types DEF Inside
      <3>2. CASE charged[c] = a
        <4>1. base[b] + heap[b] <= base[c] \/ base[c] + heap[c] <= base[b]
          BY <3>1, <3>2, <1>t DEF Apart
        <4>2. base[c] \in Nat /\ base[b] \in Nat
          OBVIOUS
        <4>. QED
          BY <3>1, <3>2, <4>1, <4>2, <1>3, <1>t, SizeAssumption
      <3>3. CASE charged[c] # a
        BY <3>1, <3>3, <1>3
      <3>. QED
        BY <3>2, <3>3
    <2>2. Apart(cut)'
      <3>. SUFFICES ASSUME NEW c \in Block, NEW d \in Block, c # d,
                           charged'[c] # NULL, charged'[c] = charged'[d]
                    PROVE  \/ cut[c] + heap'[c] <= cut[d]
                           \/ cut[d] + heap'[d] <= cut[c]
        BY DEF Apart
      <3>1. /\ c # b /\ charged'[c] = charged[c] /\ heap'[c] = heap[c]
            /\ d # b /\ charged'[d] = charged[d] /\ heap'[d] = heap[d]
            /\ heap[c] \in Nat /\ heap[d] \in Nat /\ heap[b] \in Nat
            /\ base[c] \in Nat /\ base[d] \in Nat /\ base[b] \in Nat
        BY <1>1, <1>t, Types
      <3>2. base[c] + heap[c] <= base[d] \/ base[d] + heap[d] <= base[c]
        BY <3>1 DEF Apart
      <3>3. CASE charged[c] = a
        <4>1. /\ base[b] + heap[b] <= base[c] \/ base[c] + heap[c] <= base[b]
              /\ base[b] + heap[b] <= base[d] \/ base[d] + heap[d] <= base[b]
          BY <3>1, <3>3, <1>t DEF Apart
        <4>2. /\ \/ base[b] + heap[b] <= base[c] /\ cut[c] = base[c] - heap[b]
                 \/ base[c] < base[b] + heap[b] /\ cut[c] = base[c]
              /\ \/ base[b] + heap[b] <= base[d] /\ cut[d] = base[d] - heap[b]
                 \/ base[d] < base[b] + heap[b] /\ cut[d] = base[d]
          <5>1. /\ charged[c] = a /\ charged[d] = a
            BY <3>1, <3>3
          <5>2. ASSUME NEW x \in Block, charged[x] = a,
                       base[x] \in Nat, base[b] \in Nat, heap[b] \in Nat
                PROVE  \/ base[b] + heap[b] <= base[x] /\ cut[x] = base[x] - heap[b]
                       \/ base[x] < base[b] + heap[b] /\ cut[x] = base[x]
            BY <5>2
          <5>. QED
            BY <3>1, <5>1, <5>2
        <4>3. \/ cut[c] + heap[c] <= cut[d]
              \/ cut[d] + heap[d] <= cut[c]
          BY <3>1, <3>2, <4>1, <4>2
        <4>. QED
          BY <3>1, <4>3
      <3>4. CASE charged[c] # a
        BY <3>1, <3>2, <3>4
      <3>. QED
        BY <3>3, <3>4
    <2>. QED
      BY <2>1, <2>2 DEF Ledger
  <1>. QED
    BY <1>4, <1>5, <1>6, <1>7 DEF IInv

(* The target takes over the counters and the blocks: the layout stands. *)
LEMMA MoveIInv ==
  ASSUME IInv, NEW a \in Alloc, NEW c \in Alloc, Move(a, c)
  PROVE  IInv'
  <1>1. \A b \in Block :
          /\ heap'[b] = heap[b]
          /\ held'[b] = held[b]
          /\ charged[b] = a => charged'[b] = c
          /\ charged[b] # a /\ charged[b] = c => charged'[b] = NULL
          /\ charged[b] # a /\ charged[b] # c => charged'[b] = charged[b]
    BY DEF Move
  <1>2. /\ a # c /\ a # NULL /\ c # NULL
        /\ allocated_'[c] = allocated_[a]
        /\ \A x \in Alloc : x # c => allocated_'[x] = allocated_[x]
        /\ allocated_' \in [Alloc -> 0 .. SizeMod - 1]
    BY ClientAssumption DEF Move, IInv, TypeOK
  <1>3. TypeOK'
    <2>1. charged' \in [Block -> Alloc \cup {NULL}]
      BY Types DEF Move
    <2>. QED
      BY <1>2, <2>1 DEF Move, IInv, TypeOK, Outcomes
  <1>4. WithinCapacity'
    BY <1>2 DEF IInv, WithinCapacity
  <1>5. HeldBlocksFit'
    BY <1>1, <1>2 DEF Move, IInv, HeldBlocksFit
  <1>6. Ledger'
    <2>. PICK base \in [Block -> Nat] : Inside(base) /\ Apart(base)
      BY DEF IInv, Ledger
    <2>1. Inside(base)'
      <3>. SUFFICES ASSUME NEW b \in Block, charged'[b] # NULL
                    PROVE  base[b] + heap'[b] <= allocated_'[charged'[b]]
        BY DEF Inside
      <3>1. charged[b] \in Alloc /\ base[b] + heap[b] <= allocated_[charged[b]]
        BY <1>1, <1>2, Types DEF Inside
      <3>. QED
        BY <3>1, <1>1, <1>2
    <2>2. Apart(base)'
      BY <1>1, <1>2 DEF Apart
    <2>. QED
      BY <2>1, <2>2 DEF Ledger
  <1>. QED
    BY <1>3, <1>4, <1>5, <1>6 DEF IInv

LEMMA NextIInv == IInv /\ [Next]_vars => IInv'
  <1>. SUFFICES ASSUME IInv, [Next]_vars PROVE IInv'
    OBVIOUS
  <1>1. CASE Next
    <2>. PICK a \in Alloc :
           \/ Construct(a)
           \/ Destroy(a)
           \/ \E n \in Count : Allocate(a, n)
           \/ \E b \in Block, n \in Count : Reallocate(a, b, n)
           \/ \E n \in Count : ConstructArray(a, n)
           \/ \E b \in Block : Deallocate(a, b)
           \/ \E c \in Alloc : Move(a, c)
      BY <1>1 DEF Next
    <2>0. "none" \in Outcomes /\ "copy" \in Outcomes
      BY DEF Outcomes
    <2>1. CASE Construct(a)
      BY <2>1, ConstructIInv
    <2>2. CASE Destroy(a)
      BY <2>2, DestroyIInv
    <2>3. CASE \E n \in Count : Allocate(a, n)
      BY <2>3, <2>0, AllocateWithIInv DEF Allocate
    <2>4. CASE \E b \in Block, n \in Count : Reallocate(a, b, n)
      BY <2>4, <2>0, AllocateWithIInv DEF Reallocate
    <2>5. CASE \E n \in Count : ConstructArray(a, n)
      BY <2>5, <2>0, AllocateWithIInv DEF ConstructArray
    <2>6. CASE \E b \in Block : Deallocate(a, b)
      BY <2>6, DeallocateIInv
    <2>7. CASE \E c \in Alloc : Move(a, c)
      BY <2>7, MoveIInv
    <2>. QED
      BY <2>1, <2>2, <2>3, <2>4, <2>5, <2>6, <2>7
  <1>2. CASE UNCHANGED vars
    <2>1. /\ heap' = heap /\ built' = built /\ allocated_' = allocated_
          /\ n_allocs_' = n_allocs_ /\ n_frees_' = n_frees_
          /\ charged' = charged /\ held' = held /\ outcome' = outcome
      BY <1>2 DEF vars, counters, client
    <2>2. TypeOK' /\ WithinCapacity' /\ HeldBlocksFit'
      BY <2>1 DEF IInv, TypeOK, WithinCapacity, HeldBlocksFit
    <2>3. Ledger'
      BY <2>1 DEF IInv, Ledger, Inside, Apart
    <2>. QED
      BY <2>2, <2>3 DEF IInv
  <1>. QED
    BY <1>1, <1>2

-----------------------------------------------------------------------------
(* The strengthening holds in every reachable state. *)
LEMMA Inductive == Spec => []IInv
  BY InitIInv, NextIInv, PTL DEF Spec

(* The counters, the pointers and the outcomes of ft.hpp:30-129 keep their types. *)
THEOREM TypeCorrect == Spec => []TypeOK
  <1>1. IInv => TypeOK
    BY DEF IInv
  <1>. QED
    BY <1>1, Inductive, PTL

(***************************************************************************)
(* The asserts of ft.hpp:55 and ft.hpp:122 never fail, for any element     *)
(* size, maximum and client that keeps to the contract: the sum in the     *)
(* test of ft.hpp:57 cannot wrap into a wrong grant.                       *)
(***************************************************************************)
THEOREM CapacitySafe == Spec => []WithinCapacity
  <1>1. IInv => WithinCapacity
    BY DEF IInv
  <1>. QED
    BY <1>1, Inductive, PTL

(***************************************************************************)
(* Every pointer a client holds (ft.hpp:68) is live, with exactly the      *)
(* bytes it asked for last, and accounted for by an existing object.       *)
(***************************************************************************)
THEOREM HeldSafe == Spec => []HeldBlocksFit
  <1>1. IInv => HeldBlocksFit
    BY DEF IInv
  <1>. QED
    BY <1>1, Inductive, PTL

(***************************************************************************)
(* The assert of deallocate (ft.hpp:78) never fails and the subtraction of *)
(* ft.hpp:84 never wraps, whatever was reallocated, moved or refused.      *)
(***************************************************************************)
THEOREM DeallocateSafe == Spec => []DeallocateAssert
  <1>1. IInv => DeallocateAssert
    <2>. SUFFICES ASSUME IInv, NEW b \in Block, charged[b] # NULL
                  PROVE  allocated_[charged[b]] >= Footprint(held[b])
      BY DEF DeallocateAssert
    <2>. PICK base \in [Block -> Nat] : Inside(base)
      BY DEF IInv, Ledger
    <2>1. /\ base[b] + heap[b] <= allocated_[charged[b]]
          /\ charged[b] \in Alloc
          /\ heap[b] = Footprint(held[b]) /\ heap[b] \in Nat
      BY Types DEF Inside
    <2>2. allocated_[charged[b]] \in Nat /\ base[b] \in Nat
      BY <2>1, Types, SizeAssumption
    <2>. QED
      BY <2>1, <2>2
  <1>. QED
    BY <1>1, Inductive, PTL

-----------------------------------------------------------------------------
(***************************************************************************)
(* A call that throws frees nothing, except a reallocation to a footprint  *)
(* of zero (ft.hpp:57-64): the client still holds what it passed.          *)
(***************************************************************************)
LEMMA RefusedKeeps ==
  ASSUME IInv, NEW a \in Alloc, NEW hint \in Block \cup {NULL}, NEW n \in Count,
         NEW last \in {"none", "copy"},
         AllocateWith(a, hint, n, last),
         \/ outcome' = "runtime_error"
         \/ outcome' = "bad_alloc" /\ (Footprint(n) # 0 \/ hint = NULL)
  PROVE  UNCHANGED <<heap, client>>
  <1>1. PICK r \in AllocateResults(allocated_[a], heap, hint, n) :
          /\ heap' = r.heap
          /\ \/ r.exc = "none" /\ outcome' = last
             \/ /\ r.exc # "none"
                /\ charged' = [b \in Block |->
                                 IF r.heap[b] = Free THEN NULL ELSE charged[b]]
                /\ held' = [b \in Block |-> IF r.heap[b] = Free THEN 0 ELSE held[b]]
                /\ outcome' = r.exc
    BY DEF AllocateWith
  <1>2. Ends(allocated_[a], heap, hint, n, r)
    <2>1. n \in Nat /\ allocated_[a] \in 0 .. Capacity /\ heap \in Heaps
      BY Types, ClientAssumption
    <2>. QED
      BY <2>1, AllocateFacts
  <1>3. r.exc # "none" /\ outcome' = r.exc
    BY <1>1
  <1>4. r.heap = heap
    <2>1. CASE Footprint(n) # 0 \/ hint = NULL
      BY <1>2, <1>3, <2>1 DEF Ends
    <2>2. CASE r.exc = "runtime_error"
      BY <2>2 DEF AllocateResults
    <2>. QED
      BY <1>3, <2>1, <2>2
  <1>5. \A b \in Block : heap[b] = Free => charged[b] = NULL /\ held[b] = 0
    <2>. SUFFICES ASSUME NEW b \in Block, heap[b] = Free
                  PROVE  charged[b] = NULL /\ held[b] = 0
      OBVIOUS
    <2>1. held[b] \in Nat /\ Footprint(held[b]) \in Nat
      BY Types, FootprintType
    <2>2. ~(held[b] > 0)
      BY <2>1 DEF IInv, HeldBlocksFit, Free
    <2>. QED
      BY <2>1, <2>2 DEF IInv, HeldBlocksFit, Free
  <1>6. charged' = charged /\ held' = held
    BY <1>1, <1>3, <1>4, <1>5 DEF IInv, TypeOK
  <1>. QED
    BY <1>1, <1>4, <1>6 DEF client

(***************************************************************************)
(* A call of allocate that throws (ft.hpp:57-64) frees nothing, also when  *)
(* it was asked to reallocate, unless the new footprint is zero.           *)
(***************************************************************************)
THEOREM RefusalSafe == Spec => RefusalKeepsBlocks
  <1>. DEFINE Kept ==
         /\ outcome' = "runtime_error" => UNCHANGED <<heap, client>>
         /\ \A a \in Alloc, b \in Block, n \in Count :
              Reallocate(a, b, n) /\ Footprint(n) # 0 /\ outcome' = "bad_alloc" =>
                UNCHANGED <<heap, client>>
  <1>1. ASSUME IInv, Next
        PROVE  Kept
    <2>1. ASSUME outcome' = "runtime_error"
          PROVE  UNCHANGED <<heap, client>>
      <3>1. PICK a \in Alloc :
              \/ \E n \in Count : Allocate(a, n)
              \/ \E b \in Block, n \in Count : Reallocate(a, b, n)
              \/ \E n \in Count : ConstructArray(a, n)
        BY <1>1, <2>1 DEF Next, Construct, Destroy, Deallocate, Move
      <3>2. \E hint \in Block \cup {NULL}, n \in Count, last \in {"none", "copy"} :
              AllocateWith(a, hint, n, last)
        BY <3>1 DEF Allocate, Reallocate, ConstructArray
      <3>. QED
        BY <1>1, <2>1, <3>2, RefusedKeeps
    <2>2. ASSUME NEW a \in Alloc, NEW b \in Block, NEW n \in Count,
                 Reallocate(a, b, n), Footprint(n) # 0, outcome' = "bad_alloc"
          PROVE  UNCHANGED <<heap, client>>
      <3>1. AllocateWith(a, b, n, "none")
        BY <2>2 DEF Reallocate
      <3>. QED
        BY <1>1, <2>2, <3>1, RefusedKeeps
    <2>. QED
      BY <2>1, <2>2
  <1>2. IInv /\ [Next]_vars => [Kept]_vars
    BY <1>1
  <1>. QED
    BY <1>2, Inductive, PTL DEF Spec, RefusalKeepsBlocks

-----------------------------------------------------------------------------
(* The blocks outstanding are finitely many, and counted. *)
Counted(a) ==
  /\ IsFiniteSet(ChargedTo(a))
  /\ Cardinality(ChargedTo(a)) <= Unfreed(a)

AllCounted == \A a \in built : Counted(a)

LEMMA FewerCounted ==
  ASSUME NEW S, NEW T, IsFiniteSet(S), T \subseteq S, NEW k \in Int, NEW l \in Int,
         Cardinality(S) <= k, k <= l
  PROVE  IsFiniteSet(T) /\ Cardinality(T) <= l
  <1>1. IsFiniteSet(T) /\ Cardinality(T) <= Cardinality(S)
    BY FS_Subset
  <1>2. Cardinality(T) \in Nat /\ Cardinality(S) \in Nat
    BY <1>1, FS_CardinalityType
  <1>. QED
    BY <1>1, <1>2

LEMMA MoreCounted ==
  ASSUME NEW S, NEW T, NEW x, IsFiniteSet(S), T \subseteq S \cup {x}, NEW k \in Int,
         Cardinality(S) <= k
  PROVE  IsFiniteSet(T) /\ Cardinality(T) <= k + 1
  <1>1. /\ IsFiniteSet(S \cup {x})
        /\ Cardinality(S \cup {x}) = IF x \in S THEN Cardinality(S) ELSE Cardinality(S) + 1
    BY FS_AddElement
  <1>2. Cardinality(S) \in Nat
    BY FS_CardinalityType
  <1>3. Cardinality(S \cup {x}) <= k + 1
    BY <1>1, <1>2
  <1>. QED
    BY <1>1, <1>3, FewerCounted

LEMMA CountersTyped ==
  ASSUME IInv, NEW a \in Alloc
  PROVE  n_allocs_[a] \in Int /\ n_frees_[a] \in Int /\ Unfreed(a) \in Int
  BY ClientAssumption DEF IInv, TypeOK, Unfreed

(* Nobody accounts for a free block, nor does an object before its lifetime. *)
LEMMA ChargedFacts ==
  ASSUME IInv, NEW b \in Block, charged[b] # NULL
  PROVE  heap[b] # Free /\ charged[b] \in built /\ charged[b] \in Alloc
  BY Types DEF Free

LEMMA AllocateWithCounted ==
  ASSUME IInv, AllCounted, NEW a \in Alloc, NEW hint \in Block \cup {NULL}, NEW n \in Count,
         hint # NULL => charged[hint] = a,
         NEW last, AllocateWith(a, hint, n, last)
  PROVE  AllCounted'
  <1>1. PICK r \in AllocateResults(allocated_[a], heap, hint, n) :
          /\ heap' = r.heap
          /\ \/ /\ r.exc = "none"
                /\ n_allocs_' = [n_allocs_ EXCEPT ![a] = @ + 1]
                /\ charged' = [b \in Block |-> IF b = r.mem THEN a
                                               ELSE IF b = hint THEN NULL
                                               ELSE charged[b]]
             \/ /\ r.exc # "none"
                /\ charged' = [b \in Block |->
                                 IF r.heap[b] = Free THEN NULL ELSE charged[b]]
                /\ UNCHANGED n_allocs_
    BY DEF AllocateWith
  <1>2. built' = built /\ n_frees_' = n_frees_ /\ built \subseteq Alloc
    BY DEF AllocateWith, IInv, TypeOK
  <1>. SUFFICES ASSUME NEW x \in built PROVE Counted(x)'
    BY <1>2 DEF AllCounted
  <1>3. /\ IsFiniteSet(ChargedTo(x)) /\ Cardinality(ChargedTo(x)) <= Unfreed(x)
        /\ Unfreed(x) \in Int /\ x # NULL
    BY <1>2, CountersTyped, ClientAssumption DEF AllCounted, Counted
  <1>4. CASE r.exc # "none" \/ x # a
    <2>1. ChargedTo(x)' \subseteq ChargedTo(x)
      <3>. SUFFICES ASSUME NEW b \in Block, charged'[b] = x PROVE charged[b] = x
        BY DEF ChargedTo
      <3>. QED
        BY <1>1, <1>3, <1>4
    <2>2. Unfreed(x)' = Unfreed(x)
      BY <1>1, <1>2, <1>4 DEF Unfreed, IInv, TypeOK
    <2>3. Unfreed(x) <= Unfreed(x)
      BY <1>3
    <2>. QED
      BY <1>3, <2>1, <2>2, <2>3, FewerCounted DEF Counted
  <1>5. CASE r.exc = "none" /\ x = a
    <2>1. ChargedTo(x)' \subseteq ChargedTo(x) \cup {r.mem}
      <3>. SUFFICES ASSUME NEW b \in Block, charged'[b] = x, b # r.mem PROVE charged[b] = x
        BY DEF ChargedTo
      <3>. QED
        BY <1>1, <1>3, <1>5
    <2>2. Unfreed(x)' = Unfreed(x) + 1
      <3>1. n_allocs_'[x] = n_allocs_[x] + 1
        BY <1>1, <1>2, <1>5 DEF IInv, TypeOK
      <3>2. n_allocs_[x] \in Int /\ n_frees_[x] \in Int
        BY <1>2, CountersTyped
      <3>. QED
        BY <1>2, <3>1, <3>2 DEF Unfreed
    <2>. QED
      BY <1>3, <2>1, <2>2, MoreCounted DEF Counted
  <1>. QED
    BY <1>4, <1>5

LEMMA DeallocateCounted ==
  ASSUME IInv, AllCounted, NEW a \in Alloc, NEW b \in Block, Deallocate(a, b)
  PROVE  AllCounted'
  <1>1. /\ built' = built /\ n_allocs_' = n_allocs_ /\ built \subseteq Alloc
        /\ charged[b] = a /\ charged' = [charged EXCEPT ![b] = NULL]
        /\ n_frees_' = [n_frees_ EXCEPT ![a] = @ + 1]
    BY DEF Deallocate, IInv, TypeOK
  <1>. SUFFICES ASSUME NEW x \in built PROVE Counted(x)'
    BY <1>1 DEF AllCounted
  <1>2. /\ IsFiniteSet(ChargedTo(x)) /\ Cardinality(ChargedTo(x)) <= Unfreed(x)
        /\ Unfreed(x) \in Int /\ x # NULL /\ Unfreed(x) <= Unfreed(x)
        /\ Cardinality(ChargedTo(x)) \in Nat
    BY <1>1, CountersTyped, ClientAssumption, FS_CardinalityType DEF AllCounted, Counted
  <1>3. \A c \in Block : charged'[c] = IF c = b THEN NULL ELSE charged[c]
    BY <1>1 DEF IInv, TypeOK
  <1>4. CASE x # a
    <2>1. ChargedTo(x)' \subseteq ChargedTo(x)
      BY <1>2, <1>3 DEF ChargedTo
    <2>2. Unfreed(x)' = Unfreed(x)
      BY <1>1, <1>4 DEF Unfreed, IInv, TypeOK
    <2>. QED
      BY <1>2, <2>1, <2>2, FewerCounted DEF Counted
  <1>5. CASE x = a
    <2>1. ChargedTo(x)' = ChargedTo(x) \ {b} /\ b \in ChargedTo(x)
      BY <1>1, <1>2, <1>3, <1>5 DEF ChargedTo
    <2>2. /\ IsFiniteSet(ChargedTo(x) \ {b})
          /\ Cardinality(ChargedTo(x) \ {b}) = Cardinality(ChargedTo(x)) - 1
      BY <1>2, <2>1, FS_RemoveElement
    <2>3. Unfreed(x)' = Unfreed(x) - 1
      <3>1. n_frees_'[x] = n_frees_[x] + 1
        BY <1>1, <1>5 DEF IInv, TypeOK
      <3>2. n_allocs_[x] \in Int /\ n_frees_[x] \in Int
        BY <1>1, CountersTyped
      <3>. QED
        BY <1>1, <3>1, <3>2 DEF Unfreed
    <2>4. Cardinality(ChargedTo(x) \ {b}) <= Unfreed(x) - 1
      BY <1>2, <2>2
    <2>. QED
      BY <2>1, <2>2, <2>3, <2>4 DEF Counted
  <1>. QED
    BY <1>4, <1>5

LEMMA LifetimeCounted ==
  ASSUME IInv, AllCounted, NEW a \in Alloc, Construct(a) \/ Destroy(a)
  PROVE  AllCounted'
  <1>0. built \subseteq Alloc /\ built' \subseteq built \cup {a}
    BY DEF Construct, Destroy, IInv, TypeOK
  <1>. SUFFICES ASSUME NEW x \in built' PROVE Counted(x)'
    BY DEF AllCounted
  <1>1. CASE Construct(a) /\ x = a
    <2>1. ChargedTo(x)' = {}
      BY <1>1, ChargedFacts, ClientAssumption DEF ChargedTo, Construct, client
    <2>2. Unfreed(x)' = 0
      BY <1>1 DEF Construct, Unfreed, IInv, TypeOK
    <2>. QED
      BY <2>1, <2>2, FS_EmptySet DEF Counted
  <1>2. CASE ~(Construct(a) /\ x = a)
    <2>1. x \in built /\ x # NULL
      BY <1>0, <1>2, ClientAssumption DEF Construct, Destroy
    <2>2. ChargedTo(x)' \subseteq ChargedTo(x)
      BY <2>1 DEF ChargedTo, Construct, Destroy, client
    <2>3. Unfreed(x)' = Unfreed(x)
      BY <1>0, <1>2, <2>1 DEF Construct, Destroy, counters, Unfreed, IInv, TypeOK
    <2>4. /\ IsFiniteSet(ChargedTo(x)) /\ Cardinality(ChargedTo(x)) <= Unfreed(x)
          /\ Unfreed(x) \in Int
      BY <1>0, <2>1, CountersTyped DEF AllCounted, Counted
    <2>5. Unfreed(x) <= Unfreed(x)
      BY <2>4
    <2>. QED
      BY <2>2, <2>3, <2>4, <2>5, FewerCounted DEF Counted
  <1>. QED
    BY <1>1, <1>2

LEMMA MoveCounted ==
  ASSUME IInv, AllCounted, NEW a \in Alloc, NEW c \in Alloc, Move(a, c)
  PROVE  AllCounted'
  <1>1. /\ a \in built /\ a # c /\ built' = built \cup {c} /\ built \subseteq Alloc
        /\ n_allocs_' = [n_allocs_ EXCEPT ![c] = n_allocs_[a]]
        /\ n_frees_' = [n_frees_ EXCEPT ![c] = n_frees_[a]]
        /\ a # NULL /\ c # NULL
    BY ClientAssumption DEF Move, IInv, TypeOK
  <1>2. \A b \in Block :
          /\ charged[b] = a => charged'[b] = c
          /\ charged[b] # a /\ charged[b] = c => charged'[b] = NULL
          /\ charged[b] # a /\ charged[b] # c => charged'[b] = charged[b]
    BY DEF Move
  <1>. SUFFICES ASSUME NEW x \in built' PROVE Counted(x)'
    BY DEF AllCounted
  <1>3. PICK y \in built : /\ ChargedTo(x)' \subseteq ChargedTo(y)
                           /\ Unfreed(x)' = Unfreed(y)
    <2>1. CASE x = c
      <3>1. ChargedTo(x)' \subseteq ChargedTo(a)
        BY <1>1, <1>2, <2>1 DEF ChargedTo
      <3>2. Unfreed(x)' = Unfreed(a)
        BY <1>1, <2>1 DEF Unfreed, IInv, TypeOK
      <3>. QED
        BY <1>1, <3>1, <3>2
    <2>2. CASE x # c
      <3>1. x \in built /\ x # NULL
        BY <1>1, <2>2, ClientAssumption
      <3>2. ChargedTo(x)' \subseteq ChargedTo(x)
        BY <1>1, <1>2, <2>2, <3>1 DEF ChargedTo
      <3>3. Unfreed(x)' = Unfreed(x)
        BY <1>1, <2>2, <3>1 DEF Unfreed, IInv, TypeOK
      <3>. QED
        BY <3>1, <3>2, <3>3
    <2>. QED
      BY <2>1, <2>2
  <1>4. /\ IsFiniteSet(ChargedTo(y)) /\ Cardinality(ChargedTo(y)) <= Unfreed(y)
        /\ Unfreed(y) \in Int
    BY <1>1, CountersTyped DEF AllCounted, Counted
  <1>5. Unfreed(y) <= Unfreed(y)
    BY <1>4
  <1>. QED
    BY <1>3, <1>4, <1>5, FewerCounted DEF Counted

LEMMA CountedInductive == Spec => []AllCounted
  <1>1. Init => AllCounted
    BY DEF Init, AllCounted
  <1>2. IInv /\ AllCounted /\ [Next]_vars => AllCounted'
    <2>. SUFFICES ASSUME IInv, AllCounted, [Next]_vars PROVE AllCounted'
      OBVIOUS
    <2>1. CASE Next
      <3>. PICK a \in Alloc :
             \/ Construct(a) \/ Destroy(a)
             \/ \E n \in Count : Allocate(a, n)
             \/ \E b \in Block, n \in Count : Reallocate(a, b, n)
             \/ \E n \in Count : ConstructArray(a, n)
             \/ \E b \in Block : Deallocate(a, b)
             \/ \E c \in Alloc : Move(a, c)
        BY <2>1 DEF Next
      <3>1. CASE Construct(a) \/ Destroy(a)
        BY <3>1, LifetimeCounted
      <3>2. CASE \/ \E n \in Count : Allocate(a, n)
                 \/ \E b \in Block, n \in Count : Reallocate(a, b, n)
                 \/ \E n \in Count : ConstructArray(a, n)
        <4>1. \E hint \in Block \cup {NULL}, n \in Count, last \in Outcomes :
                /\ hint # NULL => charged[hint] = a
                /\ AllocateWith(a, hint, n, last)
          BY <3>2 DEF Allocate, Reallocate, ConstructArray, Outcomes
        <4>. QED
          BY <4>1, AllocateWithCounted
      <3>3. CASE \E b \in Block : Deallocate(a, b)
        BY <3>3, DeallocateCounted
      <3>4. CASE \E c \in Alloc : Move(a, c)
        BY <3>4, MoveCounted
      <3>. QED
        BY <3>1, <3>2, <3>3, <3>4
    <2>2. CASE UNCHANGED vars
      BY <2>2 DEF vars, counters, client, AllCounted, Counted, ChargedTo, Unfreed
    <2>. QED
      BY <2>1, <2>2
  <1>. QED
    BY <1>1, <1>2, Inductive, PTL DEF Spec

(***************************************************************************)
(* num_allocations() - num_frees() (ft.hpp:117-118) is never less than the *)
(* number of blocks an object must still take back.                        *)
(***************************************************************************)
THEOREM CountersSafe == Spec => []CountersCoverBlocks
  <1>1. AllCounted => CountersCoverBlocks
    BY DEF AllCounted, Counted, CountersCoverBlocks
  <1>. QED
    BY <1>1, CountedInductive, PTL

-----------------------------------------------------------------------------
LEMMA FirstNumbers ==
  ASSUME NEW n \in Nat
  PROVE  IsFiniteSet(1 .. n) /\ Cardinality(1 .. n) = n
  <1>1. IsFiniteSet(1 .. n) /\ Cardinality(1 .. n) = IF 1 > n THEN 0 ELSE n - 1 + 1
    BY FS_Interval
  <1>. QED
    BY <1>1

(* A block adds its bytes to a set that has none of them. *)
LEMMA BlockAdded ==
  ASSUME NEW S, IsFiniteSet(S), NEW b, NEW n \in Nat,
         S \cap ({b} \X (1 .. n)) = {}
  PROVE  Cardinality(S \cup ({b} \X (1 .. n))) = Cardinality(S) + n
  <1>. DEFINE T == {b} \X (1 .. n)
  <1>1. IsFiniteSet({b}) /\ Cardinality({b}) = 1
    BY FS_Singleton
  <1>2. IsFiniteSet(1 .. n) /\ Cardinality(1 .. n) = n
    BY FirstNumbers
  <1>3. IsFiniteSet(T) /\ Cardinality(T) = n
    <2>1. /\ IsFiniteSet({b} \X (1 .. n))
          /\ Cardinality({b} \X (1 .. n)) = Cardinality({b}) * Cardinality(1 .. n)
      BY <1>1, <1>2, FS_Product, Zenon
    <2>2. 1 * n = n
      OBVIOUS
    <2>. QED
      BY <1>1, <1>2, <2>1, <2>2, Zenon
  <1>4. Cardinality(S \cap T) = 0
    BY FS_EmptySet
  <1>5. Cardinality(S) \in Nat
    BY FS_CardinalityType
  <1>. HIDE DEF T
  <1>6. Cardinality(S \cup T) = Cardinality(S) + n
    <2>1. Cardinality(S \cup T) = Cardinality(S) + Cardinality(T) - Cardinality(S \cap T)
      BY <1>3, FS_Union, Zenon
    <2>. QED
      BY <1>3, <1>4, <1>5, <2>1
  <1>. QED
    BY <1>6 DEF T

LEMMA Bytes ==
  ASSUME NEW a, NEW p
  PROVE  p \in Outstanding(a) <=>
           \E b \in ChargedTo(a) : \E i \in 1 .. heap[b] : p = <<b, i>>
  BY DEF Outstanding

(***************************************************************************)
(* The layout gives every outstanding byte a place of its own among the    *)
(* allocated_[a] bytes that a has counted.                                 *)
(***************************************************************************)
LEMMA BytesCounted ==
  ASSUME IInv, NEW a \in Alloc
  PROVE  /\ IsFiniteSet(Outstanding(a))
         /\ Cardinality(Outstanding(a)) \in Nat
         /\ Cardinality(Outstanding(a)) <= allocated_[a]
  <1>. PICK base \in [Block -> Nat] : Inside(base) /\ Apart(base)
    BY DEF IInv, Ledger
  <1>. DEFINE place == [p \in Outstanding(a) |-> base[p[1]] + p[2]]
  <1>1. ASSUME NEW p \in Outstanding(a)
        PROVE  /\ p[1] \in Block /\ charged[p[1]] = a /\ p[2] \in 1 .. heap[p[1]]
               /\ p = <<p[1], p[2]>>
               /\ heap[p[1]] \in Nat /\ base[p[1]] \in Nat
               /\ base[p[1]] + heap[p[1]] <= allocated_[a]
    <2>1. PICK b \in ChargedTo(a) : \E i \in 1 .. heap[b] : p = <<b, i>>
      BY Bytes
    <2>2. PICK i \in 1 .. heap[b] : p = <<b, i>>
      BY <2>1
    <2>3. b \in Block /\ charged[b] = a /\ a # NULL
      BY ClientAssumption DEF ChargedTo
    <2>4. heap[b] \in Nat /\ base[b] + heap[b] <= allocated_[a]
      BY <2>3, Types DEF Inside
    <2>. QED
      BY <2>2, <2>3, <2>4
  <1>0. allocated_[a] \in Nat
    BY Types, SizeAssumption
  <1>2. ASSUME NEW p \in Outstanding(a)
        PROVE  base[p[1]] + p[2] \in 1 .. allocated_[a]
    BY <1>0, <1>1
  <1>3. place \in [Outstanding(a) -> 1 .. allocated_[a]]
    BY <1>2
  <1>4. ASSUME NEW p \in Outstanding(a), NEW q \in Outstanding(a), place[p] = place[q]
        PROVE  p = q
    <2>1. base[p[1]] + p[2] = base[q[1]] + q[2]
      BY <1>4
    <2>2. a # NULL
      BY ClientAssumption
    <2>3. CASE p[1] = q[1]
      <3>1. p[2] = q[2]
        BY <1>1, <2>1, <2>3
      <3>. QED
        BY <1>1, <2>3, <3>1
    <2>4. CASE p[1] # q[1]
      <3>1. \/ base[p[1]] + heap[p[1]] <= base[q[1]]
            \/ base[q[1]] + heap[q[1]] <= base[p[1]]
        BY <1>1, <2>2, <2>4 DEF Apart
      <3>. QED
        BY <1>1, <2>1, <3>1
    <2>. QED
      BY <2>3, <2>4
  <1>5. place \in Injection(Outstanding(a), 1 .. allocated_[a])
    BY <1>3, <1>4 DEF Injection, IsInjective
  <1>6. IsFiniteSet(1 .. allocated_[a]) /\ Cardinality(1 .. allocated_[a]) = allocated_[a]
    BY <1>0, FirstNumbers, Zenon
  <1>7. IsFiniteSet(Outstanding(a)) /\ Cardinality(Outstanding(a)) <= allocated_[a]
    BY <1>5, <1>6, FS_Injection
  <1>. QED
    BY <1>7, FS_CardinalityType

(***************************************************************************)
(* allocated_ (ft.hpp:66, 84) never falls below the bytes the object must  *)
(* still take back, in any history of reallocations, moves and failures.   *)
(***************************************************************************)
THEOREM UndercountSafe == Spec => []NeverUndercounts
  <1>1. IInv => NeverUndercounts
    <2>. SUFFICES ASSUME IInv, NEW a \in built
                  PROVE  Cardinality(Outstanding(a)) <= allocated_[a]
      BY DEF NeverUndercounts
    <2>1. a \in Alloc
      BY DEF IInv, TypeOK
    <2>. QED
      BY <2>1, BytesCounted
  <1>. QED
    BY <1>1, Inductive, PTL

-----------------------------------------------------------------------------
(* Drift depends on the counters of an object and the blocks it accounts for. *)
LEMMA SameDrift ==
  ASSUME NEW a \in Alloc,
         \A b \in Block : charged'[b] = a <=> charged[b] = a,
         \A b \in Block : charged[b] = a => heap'[b] = heap[b],
         allocated_'[a] = allocated_[a],
         n_allocs_'[a] = n_allocs_[a], n_frees_'[a] = n_frees_[a]
  PROVE  Drift(a)' = Drift(a)
  <1>1. ChargedTo(a)' = ChargedTo(a)
    BY DEF ChargedTo
  <1>2. \A b \in ChargedTo(a) : heap'[b] = heap[b]
    BY DEF ChargedTo
  <1>3. Outstanding(a)' = Outstanding(a)
    BY <1>1, <1>2 DEF Outstanding
  <1>4. Unfreed(a)' = Unfreed(a)
    BY DEF Unfreed
  <1>. QED
    BY <1>1, <1>3, <1>4 DEF Drift

(* A block's bytes are not among those of other blocks. *)
LEMMA OwnBytes ==
  ASSUME NEW C, NEW b, b \notin C, NEW n \in Nat, NEW h,
         IsFiniteSet(UNION { {c} \X (1 .. h[c]) : c \in C })
  PROVE  Cardinality((UNION { {c} \X (1 .. h[c]) : c \in C }) \cup ({b} \X (1 .. n)))
           = Cardinality(UNION { {c} \X (1 .. h[c]) : c \in C }) + n
  <1>. DEFINE S == UNION { {c} \X (1 .. h[c]) : c \in C }
  <1>1. S \cap ({b} \X (1 .. n)) = {}
    OBVIOUS
  <1>2. IsFiniteSet(S)
    OBVIOUS
  <1>. HIDE DEF S
  <1>3. Cardinality(S \cup ({b} \X (1 .. n))) = Cardinality(S) + n
    BY <1>1, <1>2, BlockAdded
  <1>. QED
    BY <1>3 DEF S

LEMMA NewBytes ==
  ASSUME NEW a, NEW b, b \notin ChargedTo(a), NEW n \in Nat, IsFiniteSet(Outstanding(a))
  PROVE  Cardinality(Outstanding(a) \cup ({b} \X (1 .. n)))
           = Cardinality(Outstanding(a)) + n
  BY OwnBytes DEF Outstanding

LEMMA AllocateDrift ==
  ASSUME IInv, AllCounted, NEW a \in built, NEW n \in Count, NEW last,
         AllocateWith(a, NULL, n, last)
  PROVE  Drift(a)' = Drift(a)
  <1>0. /\ a \in Alloc /\ a # NULL /\ n \in Nat /\ Footprint(n) \in Nat
        /\ heap \in Heaps /\ allocated_[a] \in 0 .. Capacity
        /\ allocated_ \in [Alloc -> 0 .. SizeMod - 1]
        /\ n_allocs_ \in [Alloc -> 0 .. MaxAllocs]
    BY Types, ClientAssumption, FootprintType DEF IInv, TypeOK
  <1>1. PICK r \in AllocateResults(allocated_[a], heap, NULL, n) :
          /\ heap' = r.heap
          /\ allocated_' = [allocated_ EXCEPT ![a] = r.allocated]
          /\ \/ /\ r.exc = "none"
                /\ n_allocs_' = [n_allocs_ EXCEPT ![a] = @ + 1]
                /\ charged' = [b \in Block |-> IF b = r.mem THEN a
                                               ELSE IF b = NULL THEN NULL
                                               ELSE charged[b]]
             \/ /\ r.exc # "none"
                /\ charged' = [b \in Block |->
                                 IF r.heap[b] = Free THEN NULL ELSE charged[b]]
                /\ UNCHANGED n_allocs_
    BY DEF AllocateWith
  <1>2. Ends(allocated_[a], heap, NULL, n, r)
    BY <1>0, AllocateFacts
  <1>3. n_frees_' = n_frees_
    BY DEF AllocateWith
  <1>4. CASE r.exc # "none"
    <2>1. r.heap = heap /\ r.allocated = allocated_[a]
      BY <1>2, <1>4 DEF Ends
    <2>2. \A b \in Block : charged'[b] = charged[b]
      BY <1>1, <1>4, <2>1, ChargedFacts
    <2>. QED
      BY <1>0, <1>1, <1>3, <1>4, <2>1, <2>2, SameDrift
  <1>5. CASE r.exc = "none"
    <2>. DEFINE q == r.mem
                bytes == Footprint(n)
    <2>1. /\ q \in Block /\ heap[q] = Free
          /\ r.heap = Grant(heap, NULL, q, bytes)
          /\ r.allocated = allocated_[a] + bytes
      BY <1>2, <1>5, HeapAssumption DEF Ends
    <2>2. \A b \in Block :
            /\ b = q => charged'[b] = a /\ heap'[b] = bytes
            /\ b # q => charged'[b] = charged[b] /\ heap'[b] = heap[b]
      BY <1>1, <1>5, <2>1, HeapAssumption DEF Grant
    <2>3. q \notin ChargedTo(a)
      BY <1>0, <2>1, ChargedFacts DEF ChargedTo
    <2>4. ChargedTo(a)' = ChargedTo(a) \cup {q}
      BY <2>1, <2>2 DEF ChargedTo
    <2>5. Outstanding(a)' = Outstanding(a) \cup ({q} \X (1 .. bytes))
      <3>1. \A c \in ChargedTo(a) : heap'[c] = heap[c]
        BY <2>2, <2>3 DEF ChargedTo
      <3>2. heap'[q] = bytes
        BY <2>1, <2>2
      <3>. QED
        BY <2>4, <3>1, <3>2 DEF Outstanding
    <2>6. IsFiniteSet(ChargedTo(a)) /\ IsFiniteSet(Outstanding(a))
      BY <1>0, BytesCounted DEF AllCounted, Counted
    <2>7. /\ Cardinality(Outstanding(a))' = Cardinality(Outstanding(a)) + bytes
          /\ Cardinality(ChargedTo(a))' = Cardinality(ChargedTo(a)) + 1
          /\ Cardinality(Outstanding(a)) \in Nat /\ Cardinality(ChargedTo(a)) \in Nat
      <3>1. Cardinality(Outstanding(a) \cup ({q} \X (1 .. bytes)))
              = Cardinality(Outstanding(a)) + bytes
        BY <1>0, <2>3, <2>6, NewBytes
      <3>2. Cardinality(ChargedTo(a) \cup {q}) = Cardinality(ChargedTo(a)) + 1
        BY <2>3, <2>6, FS_AddElement
      <3>3. Cardinality(Outstanding(a)) \in Nat /\ Cardinality(ChargedTo(a)) \in Nat
        BY <2>6, FS_CardinalityType
      <3>. QED
        BY <2>4, <2>5, <3>1, <3>2, <3>3
    <2>8. allocated_'[a] = allocated_[a] + bytes
      BY <1>0, <1>1, <2>1
    <2>9. Unfreed(a)' = Unfreed(a) + 1 /\ Unfreed(a) \in Int
      <3>1. n_allocs_'[a] = n_allocs_[a] + 1
        BY <1>0, <1>1, <1>5
      <3>2. n_allocs_[a] \in Int /\ n_frees_[a] \in Int /\ Unfreed(a) \in Int
        BY <1>0, CountersTyped
      <3>. QED
        BY <1>3, <3>1, <3>2 DEF Unfreed
    <2>10. allocated_[a] \in Int /\ bytes \in Int
      BY <1>0, SizeAssumption
    <2>. HIDE DEF bytes, q
    <2>. QED
      BY <2>7, <2>8, <2>9, <2>10 DEF Drift
  <1>. QED
    BY <1>4, <1>5

(* What other objects do leaves an object's blocks and counters alone. *)
LEMMA OthersDrift ==
  ASSUME IInv, NEW a \in built, NEW x \in Alloc, x # a,
         NEW hint \in Block \cup {NULL}, hint # NULL => charged[hint] = x,
         NEW n \in Count, NEW last, AllocateWith(x, hint, n, last)
  PROVE  Drift(a)' = Drift(a)
  <1>0. /\ a \in Alloc /\ a # NULL /\ n \in Nat
        /\ heap \in Heaps /\ allocated_[x] \in 0 .. Capacity
        /\ allocated_ \in [Alloc -> 0 .. SizeMod - 1]
        /\ n_allocs_ \in [Alloc -> 0 .. MaxAllocs]
    BY Types, ClientAssumption DEF IInv, TypeOK
  <1>1. PICK r \in AllocateResults(allocated_[x], heap, hint, n) :
          /\ heap' = r.heap
          /\ allocated_' = [allocated_ EXCEPT ![x] = r.allocated]
          /\ \/ /\ r.exc = "none"
                /\ n_allocs_' = [n_allocs_ EXCEPT ![x] = @ + 1]
                /\ charged' = [b \in Block |-> IF b = r.mem THEN x
                                               ELSE IF b = hint THEN NULL
                                               ELSE charged[b]]
             \/ /\ r.exc # "none"
                /\ charged' = [b \in Block |->
                                 IF r.heap[b] = Free THEN NULL ELSE charged[b]]
                /\ UNCHANGED n_allocs_
    BY DEF AllocateWith
  <1>2. Ends(allocated_[x], heap, hint, n, r)
    BY <1>0, AllocateFacts
  <1>3. /\ allocated_'[a] = allocated_[a]
        /\ n_allocs_'[a] = n_allocs_[a] /\ n_frees_'[a] = n_frees_[a]
    BY <1>0, <1>1 DEF AllocateWith
  <1>4. \A b \in Block : charged[b] = a => heap[b] # Free /\ b # hint
    BY <1>0, ChargedFacts, HeapAssumption
  <1>5. \A b \in Block : charged[b] = a => heap'[b] = heap[b] /\ charged'[b] = a
    <2>. SUFFICES ASSUME NEW b \in Block, charged[b] = a
                  PROVE  heap'[b] = heap[b] /\ charged'[b] = a
      OBVIOUS
    <2>1. heap[b] # Free /\ b # hint
      BY <1>4
    <2>2. CASE r.exc = "none"
      BY <1>1, <1>2, <2>1, <2>2 DEF Ends, Grant
    <2>3. CASE r.exc # "none"
      BY <1>1, <1>2, <2>1, <2>3 DEF Ends, Release
    <2>. QED
      BY <2>2, <2>3
  <1>6. \A b \in Block : charged'[b] = a => charged[b] = a
    BY <1>0, <1>1
  <1>. QED
    BY <1>0, <1>3, <1>5, <1>6, SameDrift

LEMMA DeallocateDrift ==
  ASSUME IInv, AllCounted, NEW a \in built, NEW b \in Block, Deallocate(a, b)
  PROVE  Drift(a)' = Drift(a)
  <1>0. /\ a \in Alloc /\ a # NULL /\ charged[b] = a
        /\ heap[b] \in Nat /\ heap[b] = Footprint(held[b])
        /\ allocated_[a] \in 0 .. Capacity
        /\ allocated_ \in [Alloc -> 0 .. SizeMod - 1]
        /\ n_frees_ \in [Alloc -> Nat]
    BY Types, ClientAssumption DEF Deallocate, IInv, TypeOK
  <1>1. \A c \in Block :
          /\ c = b => charged'[c] = NULL
          /\ c # b => charged'[c] = charged[c] /\ heap'[c] = heap[c]
    BY DEF Deallocate, Release, IInv, TypeOK
  <1>. DEFINE S == Outstanding(a)'
              C == ChargedTo(a)'
              bytes == heap[b]
  <1>2. ChargedTo(a) = C \cup {b} /\ b \notin C
    BY <1>0, <1>1 DEF ChargedTo
  <1>3. \A c \in C : heap'[c] = heap[c]
    BY <1>1, <1>2 DEF ChargedTo
  <1>4. S = UNION { {c} \X (1 .. heap[c]) : c \in C }
    BY <1>3 DEF Outstanding
  <1>5. Outstanding(a) = S \cup ({b} \X (1 .. bytes))
    BY <1>2, <1>4 DEF Outstanding
  <1>6. /\ IsFiniteSet(Outstanding(a)) /\ Cardinality(Outstanding(a)) \in Nat
        /\ Cardinality(Outstanding(a)) <= allocated_[a] /\ IsFiniteSet(ChargedTo(a))
    BY <1>0, BytesCounted DEF AllCounted, Counted
  <1>. HIDE DEF S, C
  <1>7. IsFiniteSet(S) /\ IsFiniteSet(C)
    BY <1>2, <1>5, <1>6, FS_Subset
  <1>8. /\ Cardinality(Outstanding(a)) = Cardinality(S) + bytes
        /\ Cardinality(ChargedTo(a)) = Cardinality(C) + 1
        /\ Cardinality(S) \in Nat /\ Cardinality(C) \in Nat
    <2>1. bytes \in Nat
      BY <1>0
    <2>2. Cardinality(S \cup ({b} \X (1 .. bytes))) = Cardinality(S) + bytes
      BY <1>2, <1>4, <1>7, <2>1, OwnBytes
    <2>3. Cardinality(C \cup {b}) = Cardinality(C) + 1
      BY <1>2, <1>7, FS_AddElement
    <2>4. Cardinality(S) \in Nat /\ Cardinality(C) \in Nat
      BY <1>7, FS_CardinalityType
    <2>. QED
      BY <1>2, <1>5, <2>2, <2>3, <2>4
  <1>9. allocated_'[a] = allocated_[a] - bytes
    <2>1. allocated_[a] - bytes \in 0 .. SizeMod - 1
      BY <1>0, <1>6, <1>8, SizeAssumption, HeapAssumption
    <2>2. (allocated_[a] - Footprint(held[b])) % SizeMod = allocated_[a] - bytes
      BY <1>0, <2>1, ModSmall, SizeAssumption
    <2>. QED
      BY <1>0, <2>2 DEF Deallocate, Discharge
  <1>10. Unfreed(a)' = Unfreed(a) - 1 /\ Unfreed(a) \in Int
    <2>1. n_frees_'[a] = n_frees_[a] + 1 /\ n_allocs_' = n_allocs_
      BY <1>0 DEF Deallocate
    <2>2. n_allocs_[a] \in Int /\ n_frees_[a] \in Int /\ Unfreed(a) \in Int
      BY <1>0, CountersTyped
    <2>. QED
      BY <2>1, <2>2 DEF Unfreed
  <1>11. allocated_[a] \in Int /\ bytes \in Int
    BY <1>0, SizeAssumption
  <1>12. /\ Cardinality(Outstanding(a))' = Cardinality(S)
         /\ Cardinality(ChargedTo(a))' = Cardinality(C)
    BY DEF S, C
  <1>. HIDE DEF bytes
  <1>13. /\ (allocated_[a] - Cardinality(Outstanding(a)))'
              = allocated_[a] - Cardinality(Outstanding(a))
         /\ (Unfreed(a) - Cardinality(ChargedTo(a)))'
              = Unfreed(a) - Cardinality(ChargedTo(a))
    <2>1. (allocated_[a] - Cardinality(Outstanding(a)))'
            = (allocated_[a] - bytes) - Cardinality(S)
      BY <1>9, <1>12
    <2>2. (Unfreed(a) - Cardinality(ChargedTo(a)))'
            = (Unfreed(a) - 1) - Cardinality(C)
      BY <1>10, <1>12
    <2>3. (allocated_[a] - bytes) - Cardinality(S) = allocated_[a] - (Cardinality(S) + bytes)
      BY <1>8, <1>11
    <2>4. (Unfreed(a) - 1) - Cardinality(C) = Unfreed(a) - (Cardinality(C) + 1)
      BY <1>8, <1>10
    <2>. QED
      BY <1>8, <2>1, <2>2, <2>3, <2>4
  <1>. QED
    BY <1>13 DEF Drift

(***************************************************************************)
(* The counters move with what is outstanding, in bytes and in calls,      *)
(* whatever fails or throws; only a reallocation (the FIXME of ft.hpp:66)  *)
(* and a move (ft.hpp:41, 44) come between them.                           *)
(***************************************************************************)
THEOREM DriftSafe == Spec => DriftOnlyByReallocation
  <1>. DEFINE Excused(a) ==
         \/ \E b \in Block, n \in Count : Reallocate(a, b, n)
         \/ \E c \in Alloc : Move(a, c) \/ Move(c, a)
  <1>1. ASSUME IInv, AllCounted, Next, NEW a \in built \cap built'
        PROVE  Drift(a)' = Drift(a) \/ Excused(a)
    <2>0. a \in Alloc /\ a # NULL
      BY <1>1, ClientAssumption DEF IInv, TypeOK
    <2>1. PICK x \in Alloc :
            \/ Construct(x) \/ Destroy(x)
            \/ \E n \in Count : Allocate(x, n)
            \/ \E b \in Block, n \in Count : Reallocate(x, b, n)
            \/ \E n \in Count : ConstructArray(x, n)
            \/ \E b \in Block : Deallocate(x, b)
            \/ \E c \in Alloc : Move(x, c)
      BY <1>1 DEF Next
    <2>2. CASE Construct(x)
      <3>1. x # a
        BY <1>1, <2>2 DEF Construct
      <3>2. /\ heap' = heap /\ charged' = charged
            /\ allocated_'[a] = allocated_[a]
            /\ n_allocs_'[a] = n_allocs_[a] /\ n_frees_'[a] = n_frees_[a]
        BY <1>1, <2>0, <2>2, <3>1 DEF Construct, client, IInv, TypeOK
      <3>. QED
        BY <2>0, <3>2, SameDrift
    <2>3. CASE Destroy(x)
      <3>1. x # a
        BY <1>1, <2>3 DEF Destroy
      <3>2. /\ heap' = heap
            /\ \A b \in Block : charged'[b] = a <=> charged[b] = a
            /\ allocated_' = allocated_ /\ n_allocs_' = n_allocs_ /\ n_frees_' = n_frees_
        BY <2>0, <2>3, <3>1 DEF Destroy, counters
      <3>. QED
        BY <2>0, <3>2, SameDrift
    <2>4. CASE \/ \E n \in Count : Allocate(x, n)
               \/ \E n \in Count : ConstructArray(x, n)
      <3>1. PICK n \in Count, last \in Outcomes : AllocateWith(x, NULL, n, last)
        BY <2>4 DEF Allocate, ConstructArray, Outcomes
      <3>2. CASE x = a
        BY <1>1, <3>1, <3>2, AllocateDrift
      <3>3. CASE x # a
        BY <1>1, <3>1, <3>3, OthersDrift
      <3>. QED
        BY <3>2, <3>3
    <2>5. CASE \E b \in Block, n \in Count : Reallocate(x, b, n)
      <3>1. PICK b \in Block, n \in Count : Reallocate(x, b, n)
        BY <2>5
      <3>2. charged[b] = x /\ AllocateWith(x, b, n, "none")
        BY <3>1 DEF Reallocate
      <3>3. CASE x # a
        BY <1>1, <3>2, <3>3, OthersDrift
      <3>. QED
        BY <3>1, <3>3
    <2>6. CASE \E b \in Block : Deallocate(x, b)
      <3>1. PICK b \in Block : Deallocate(x, b)
        BY <2>6
      <3>2. CASE x = a
        BY <1>1, <3>1, <3>2, DeallocateDrift
      <3>3. CASE x # a
        <4>1. /\ \A c \in Block : charged'[c] = a <=> charged[c] = a
              /\ \A c \in Block : charged[c] = a => heap'[c] = heap[c]
          BY <1>1, <2>0, <3>1, <3>3 DEF Deallocate, Release, IInv, TypeOK
        <4>2. /\ allocated_'[a] = allocated_[a]
              /\ n_allocs_'[a] = n_allocs_[a] /\ n_frees_'[a] = n_frees_[a]
          BY <1>1, <2>0, <3>1, <3>3 DEF Deallocate, IInv, TypeOK
        <4>. QED
          BY <2>0, <4>1, <4>2, SameDrift
      <3>. QED
        BY <3>2, <3>3
    <2>7. CASE \E c \in Alloc : Move(x, c)
      <3>1. PICK c \in Alloc : Move(x, c)
        BY <2>7
      <3>2. CASE x # a /\ c # a
        <4>1. /\ \A b \in Block : charged'[b] = a <=> charged[b] = a
              /\ heap' = heap
          BY <2>0, <3>1, <3>2 DEF Move
        <4>2. /\ allocated_'[a] = allocated_[a]
              /\ n_allocs_'[a] = n_allocs_[a] /\ n_frees_'[a] = n_frees_[a]
          BY <1>1, <2>0, <3>1, <3>2 DEF Move, IInv, TypeOK
        <4>. QED
          BY <2>0, <4>1, <4>2, SameDrift
      <3>. QED
        BY <3>1, <3>2
    <2>. QED
      BY <2>1, <2>2, <2>3, <2>4, <2>5, <2>6, <2>7
  <1>2. IInv /\ AllCounted /\ [Next]_vars =>
          [ \A a \in built \cap built' :
              Drift(a)' # Drift(a) =>
                \/ \E b \in Block, n \in Count : Reallocate(a, b, n)
                \/ \E c \in Alloc : Move(a, c) \/ Move(c, a) ]_vars
    BY <1>1
  <1>. QED
    BY <1>2, Inductive, CountedInductive, PTL DEF Spec, DriftOnlyByReallocation
=============================================================================
