---------------------------- MODULE VectorProofs ----------------------------
(***************************************************************************)
(* For every number of vectors, every element size and every sequence of   *)
(* calls, assignments that throw and failed allocations included: size_,   *)
(* capacity_ and arr_ agree with the heap, and no two vectors share a      *)
(* buffer.                                                                 *)
(*                                                                         *)
(* The two need each other, and the bound on allocated_: a reallocation    *)
(* frees the old block or writes the new one, which leaves the other       *)
(* vectors alone only if they have buffers of their own; and what a vector *)
(* is given is nobody else's only because theirs are live.                 *)
(***************************************************************************)
EXTENDS Vector, AllocatorOpsProofs

(***************************************************************************)
(* No count a client passes, and no capacity a vector can grow to, has a   *)
(* footprint beyond size_type.  The code does not check it (ft.hpp:56).    *)
(***************************************************************************)
NoWrap ==
  /\ \A n \in Count : n * SizeOf < SizeMod
  /\ 2 * HeapMax + SizeOf < SizeMod

AccountInRange == \A v \in Vec : allocated_[v] <= Capacity

IInv == TypeOK /\ AccountInRange /\ BufferFits /\ BuffersDisjoint

(***************************************************************************)
(* The part of the invariant that does not look at size_: what the calls   *)
(* rely on that scale a buffer, and all that is left of the invariant when *)
(* erase of a range has made a size larger than the capacity.              *)
(***************************************************************************)
Owned ==
  \A v \in Vec : IF arr_[v] = NULL THEN capacity_[v] = 0
                                   ELSE heap[arr_[v]] = capacity_[v] * SizeOf

Storage == TypeOK /\ AccountInRange /\ Owned /\ BuffersDisjoint

Cells == [Block -> [0 .. MaxLen - 1 -> Cell]]

(* What scale_capacity_ leaves of the storage of v, seen by all vectors *)
Sound(v, m) ==
  /\ m.heap \in Heaps
  /\ m.cells \in Cells
  /\ m.arr \in Block \cup {NULL}
  /\ m.capacity \in Nat
  /\ m.allocated \in 0 .. Capacity
  /\ m.exc \in {"none", "runtime_error", "bad_alloc", "abort"}
  /\ m.arr = NULL => m.capacity = 0
  /\ m.arr # NULL => m.heap[m.arr] = m.capacity * SizeOf
  /\ m.exc # "none" =>
       /\ m.heap = heap /\ m.cells = cells /\ m.arr = arr_[v]
       /\ m.capacity = capacity_[v] /\ m.allocated = allocated_[v]
  /\ \A w \in Vec : w # v /\ arr_[w] # NULL =>
       m.arr # arr_[w] /\ m.heap[arr_[w]] = heap[arr_[w]]

-----------------------------------------------------------------------------
(* Arithmetic of element counts and bytes *)
LEMMA Product ==
  ASSUME NEW n \in Nat, NEW z \in Nat \ {0}
  PROVE  n * z \in Nat /\ n <= n * z /\ (n # 0 => n * z # 0)
  BY SMT

LEMMA QuotientBound ==
  ASSUME NEW x \in Nat, NEW y \in Nat, x <= y, NEW z \in Nat \ {0}
  PROVE  x \div z \in Nat /\ x \div z <= y \div z
  BY SMT

(* A growth step cannot leave size_type while the buffer fits the heap. *)
LEMMA GrowthFits ==
  ASSUME NoWrap, NEW s \in Nat, s * SizeOf <= HeapMax
  PROVE  /\ (2 * s + 1) % SizeMod = 2 * s + 1
         /\ (2 * s + 1) * SizeOf < SizeMod
  <1>1. (2 * s + 1) * SizeOf = 2 * (s * SizeOf) + SizeOf
    BY SizeAssumption, SMT
  <1>2. (2 * s + 1) * SizeOf < SizeMod
    BY <1>1, Product, SizeAssumption, HeapAssumption DEF NoWrap
  <1>3. 2 * s + 1 \in 0 .. SizeMod - 1
    BY <1>2, Product, SizeAssumption
  <1>. QED
    BY <1>2, <1>3, ModSmall, SizeAssumption

LEMMA RoomBound ==
  ASSUME NEW h \in Heaps, NEW p \in Block \cup {NULL}
  PROVE  Room(h, p) \in Nat /\ Room(h, p) <= MaxLen
  <1>1. CASE IsLive(h, p)
    <2>1. h[p] \in Nat /\ h[p] <= HeapMax
      BY <1>1, HeapAssumption DEF IsLive, Heaps, Free
    <2>. QED
      BY <1>1, <2>1, QuotientBound, HeapAssumption, SizeAssumption DEF Room, MaxLen
  <1>2. CASE ~IsLive(h, p)
    <2>1. 0 \in Nat /\ 0 <= HeapMax /\ HeapMax \div SizeOf \in Nat
      BY QuotientBound, HeapAssumption, SizeAssumption
    <2>. QED
      BY <1>2, <2>1 DEF Room, MaxLen
  <1>. QED
    BY <1>1, <1>2

(* A loop over elements leaves cells that hold values or nothing. *)
LEMMA WrittenType ==
  ASSUME NEW cs \in Cells, NEW p, NEW from \in Int, NEW to \in Int, NEW val,
         \A i \in 0 .. MaxLen - 1 : from <= i /\ i < to => val[i] \in Cell
  PROVE  Written(cs, p, from, to, val) \in Cells
  BY DEF Written, Cells

LEMMA KilledType ==
  ASSUME NEW cs \in Cells, NEW p, NEW from \in Int, NEW to \in Int
  PROVE  Killed(cs, p, from, to) \in Cells
  <1>. DEFINE dead == [i \in 0 .. MaxLen - 1 |-> Dead]
  <1>1. \A i \in 0 .. MaxLen - 1 : dead[i] \in Cell
    BY DEF Cell
  <1>. HIDE DEF dead
  <1>2. Written(cs, p, from, to, dead) \in Cells
    BY <1>1, WrittenType
  <1>. QED
    BY <1>2 DEF Killed, dead

LEMMA BlankType == Blank \in [0 .. MaxLen - 1 -> Cell]
  BY DEF Blank, Cell

LEMMA CarriedType ==
  ASSUME NEW cs \in Cells, NEW h \in Heaps, NEW hq \in Heaps,
         NEW p \in Block \cup {NULL}, NEW q \in Block
  PROVE  Carried(cs, h, p, hq, q) \in Cells
  <1>1. ASSUME NEW i \in 0 .. MaxLen - 1, i < Room(h, p)
        PROVE  cs[p][i] \in Cell
    <2>1. p \in Block
      BY <1>1, HeapAssumption DEF Room, IsLive
    <2>. QED
      BY <2>1 DEF Cells
  <1>2. Raw \in Cell
    BY DEF Cell
  <1>3. [i \in 0 .. MaxLen - 1 |->
           IF i < Room(h, p) /\ i < Room(hq, q) THEN cs[p][i] ELSE Raw]
          \in [0 .. MaxLen - 1 -> Cell]
    BY <1>1, <1>2
  <1>4. \A b \in Block : cs[b] \in [0 .. MaxLen - 1 -> Cell]
    BY DEF Cells
  <1>. DEFINE moved == [i \in 0 .. MaxLen - 1 |->
                         IF i < Room(h, p) /\ i < Room(hq, q) THEN cs[p][i] ELSE Raw]
  <1>5. moved \in [0 .. MaxLen - 1 -> Cell]
    BY <1>3
  <1>6. Carried(cs, h, p, hq, q) =
          [b \in Block |-> IF b = q THEN moved ELSE IF b = p THEN Blank ELSE cs[b]]
    BY DEF Carried
  <1>. HIDE DEF moved
  <1>. QED
    BY <1>4, <1>5, <1>6, BlankType DEF Cells

(* How a loop of assignments ends, and how far it came *)
LEMMA WriteFacts ==
  ASSUME NEW h \in Heaps, NEW cs \in Cells, NEW p \in Block \cup {NULL},
         NEW from \in Nat, NEW to \in Nat, NEW val,
         \A i \in 0 .. MaxLen - 1 : from <= i /\ i < to => val[i] \in Cell,
         NEW w \in WriteResults(h, cs, p, from, to, val)
  PROVE  /\ w.cells \in Cells
         /\ w.done \in Nat
         /\ w.done <= to \/ w.done = from
         /\ w.exc \in {"none", "copy", "overrun"}
  <1>1. PICK k \in Nat, exc \in {"none", "copy", "overrun"} :
          /\ w = [exc |-> exc, done |-> k, cells |-> Written(cs, p, from, k, val)]
          /\ k <= to \/ k = from
    BY RoomBound DEF WriteResults
  <1>2. \A i \in 0 .. MaxLen - 1 : from <= i /\ i < k => val[i] \in Cell
    BY <1>1
  <1>3. Written(cs, p, from, k, val) \in Cells
    BY <1>2, WrittenType
  <1>. QED
    BY <1>1, <1>3

-----------------------------------------------------------------------------
(* What the invariants say of the values they range over. *)
LEMMA StorageTypes ==
  ASSUME Storage
  PROVE  /\ heap \in Heaps /\ cells \in Cells
         /\ \A v \in Vec :
              /\ arr_[v] \in Block \cup {NULL}
              /\ size_[v] \in Nat /\ capacity_[v] \in Nat
              /\ allocated_[v] \in 0 .. Capacity
              /\ arr_[v] = NULL => capacity_[v] = 0
              /\ arr_[v] # NULL => heap[arr_[v]] = capacity_[v] * SizeOf
         /\ \A v, w \in Vec : v # w /\ arr_[v] # NULL => arr_[v] # arr_[w]
  <1>1. \A v \in Vec : allocated_[v] \in 0 .. Capacity
    BY SizeAssumption DEF Storage, TypeOK, AccountInRange
  <1>. QED
    BY <1>1 DEF Storage, TypeOK, Owned, BuffersDisjoint, Cells

LEMMA HasStorage == IInv <=> Storage /\ \A v \in Vec : size_[v] <= capacity_[v]
  BY DEF IInv, Storage, BufferFits, Owned

LEMMA Types ==
  ASSUME IInv
  PROVE  /\ heap \in Heaps /\ cells \in Cells
         /\ \A v \in Vec :
              /\ arr_[v] \in Block \cup {NULL}
              /\ size_[v] \in Nat /\ capacity_[v] \in Nat
              /\ size_[v] <= capacity_[v]
              /\ allocated_[v] \in 0 .. Capacity
              /\ arr_[v] = NULL => capacity_[v] = 0
              /\ arr_[v] # NULL => heap[arr_[v]] = capacity_[v] * SizeOf
         /\ \A v, w \in Vec : v # w /\ arr_[v] # NULL => arr_[v] # arr_[w]
  BY HasStorage, StorageTypes

(* A live buffer is not a free block. *)
LEMMA OwnedIsLive ==
  ASSUME Storage, NEW v \in Vec, arr_[v] # NULL
  PROVE  heap[arr_[v]] # Free
  <1>1. capacity_[v] \in Nat /\ heap[arr_[v]] = capacity_[v] * SizeOf
    BY StorageTypes
  <1>2. capacity_[v] * SizeOf \in Nat
    BY <1>1, Product, SizeAssumption
  <1>. QED
    BY <1>1, <1>2 DEF Free

(* The storage as it is *)
LEMMA SameSound ==
  ASSUME Storage, NEW v \in Vec
  PROVE  Sound(v, Same(v))
  BY StorageTypes DEF Sound, Same

(***************************************************************************)
(* scale_capacity_ (vector.hpp:313-317) leaves a buffer of exactly the new *)
(* capacity, or everything as it was, and never touches another vector's.  *)
(***************************************************************************)
LEMMA ScaleSound ==
  ASSUME Storage, NEW v \in Vec, NEW n \in Nat, n * SizeOf < SizeMod,
         NEW m \in ScaleResults(v, n)
  PROVE  Sound(v, m) /\ (m.exc = "none" => m.capacity = n)
  <1>1. CASE n = 0
    <2>1. m = [Same(v) EXCEPT !.exc = "abort"]
      BY <1>1 DEF ScaleResults
    <2>. QED
      BY <2>1, StorageTypes DEF Sound, Same
  <1>2. CASE n # 0
    <2>f. Footprint(n) = n * SizeOf /\ n * SizeOf # 0 /\ n * SizeOf \in Nat
      <3>1. n * SizeOf \in Nat /\ n * SizeOf # 0
        BY <1>2, Product, SizeAssumption
      <3>2. n * SizeOf \in 0 .. SizeMod - 1
        BY <3>1, SizeAssumption
      <3>. QED
        BY <3>1, <3>2, ModSmall, SizeAssumption DEF Footprint
    <2>e. \A r \in AllocateResults(allocated_[v], heap, arr_[v], n) :
            Ends(allocated_[v], heap, arr_[v], n, r)
      BY StorageTypes, AllocateFacts
    <2>p. PICK r \in AllocateResults(allocated_[v], heap, arr_[v], n) :
           m = IF r.exc = "none"
                 THEN [exc |-> "none", heap |-> r.heap, arr |-> r.mem,
                       capacity |-> n, allocated |-> r.allocated,
                       cells |-> Carried(cells, heap, arr_[v], r.heap, r.mem)]
                 ELSE [Same(v) EXCEPT
                         !.exc = r.exc, !.heap = r.heap,
                         !.cells = [b \in Block |-> IF r.heap[b] = heap[b]
                                                      THEN cells[b] ELSE Blank]]
      BY <1>2 DEF ScaleResults
    <2>r. Ends(allocated_[v], heap, arr_[v], n, r)
      BY <2>e
    <2>1. CASE r.exc = "none"
      <3>1. m = [exc |-> "none", heap |-> r.heap, arr |-> r.mem,
                 capacity |-> n, allocated |-> r.allocated,
                 cells |-> Carried(cells, heap, arr_[v], r.heap, r.mem)]
        BY <2>1, <2>p
      <3>2. /\ r.heap \in Heaps
            /\ r.allocated \in 0 .. Capacity
            /\ r.mem \in Block
            /\ heap[r.mem] = Free \/ r.mem = arr_[v]
            /\ r.heap = Grant(heap, arr_[v], r.mem, n * SizeOf)
        BY <2>1, <2>r, <2>f DEF Ends
      <3>3. Carried(cells, heap, arr_[v], r.heap, r.mem) \in Cells
        BY <3>2, StorageTypes, CarriedType
      <3>4. r.heap[r.mem] = n * SizeOf /\ r.mem # NULL
        BY <3>2, HeapAssumption DEF Grant
      <3>5. ASSUME NEW w \in Vec, w # v, arr_[w] # NULL
            PROVE  r.mem # arr_[w] /\ r.heap[arr_[w]] = heap[arr_[w]]
        <4>1. arr_[w] # arr_[v] /\ arr_[w] \in Block
          BY <3>5, StorageTypes
        <4>2. r.mem # arr_[w]
          BY <3>5, <3>2, <4>1, OwnedIsLive
        <4>. QED
          BY <3>2, <4>1, <4>2 DEF Grant
      <3>6. /\ m.exc = "none" /\ m.heap = r.heap /\ m.arr = r.mem
            /\ m.capacity = n /\ m.allocated = r.allocated
            /\ m.cells = Carried(cells, heap, arr_[v], r.heap, r.mem)
        BY <3>1
      <3>. QED
        BY <3>2, <3>3, <3>4, <3>5, <3>6 DEF Sound
    <2>2. CASE r.exc # "none"
      <3>1. r.heap = heap /\ r.exc \in {"runtime_error", "bad_alloc"}
        BY <2>2, <2>r, <2>f DEF Ends
      <3>2. [b \in Block |-> IF r.heap[b] = heap[b] THEN cells[b] ELSE Blank] = cells
        BY <3>1, StorageTypes DEF Cells
      <3>3. m = [Same(v) EXCEPT !.exc = r.exc, !.heap = heap, !.cells = cells]
        BY <2>2, <2>p, <3>1, <3>2
      <3>4. /\ m.heap = heap /\ m.arr = arr_[v] /\ m.cells = cells
            /\ m.capacity = capacity_[v] /\ m.allocated = allocated_[v]
            /\ m.exc = r.exc
        BY <3>3 DEF Same
      <3>5. m.exc # "none" /\ m.exc \in {"none", "runtime_error", "bad_alloc", "abort"}
        BY <3>1, <3>4
      <3>. QED
        BY <3>4, <3>5, StorageTypes DEF Sound
    <2>. QED
      BY <2>1, <2>2
  <1>. QED
    BY <1>1, <1>2

(* grow_capacity_ asks for more than the size, with or without success. *)
LEMMA AppendSound ==
  ASSUME NoWrap, Storage, NEW v \in Vec, NEW m \in AppendResults(v)
  PROVE  /\ Sound(v, m)
         /\ m.exc = "none" /\ size_[v] <= capacity_[v] => size_[v] + 1 <= m.capacity
  <1>1. CASE size_[v] = capacity_[v]
    <2>1. size_[v] * SizeOf <= HeapMax
      <3>1. CASE arr_[v] = NULL
        BY <1>1, <3>1, StorageTypes, SizeAssumption, HeapAssumption
      <3>2. CASE arr_[v] # NULL
        BY <1>1, <3>2, StorageTypes DEF Heaps
      <3>. QED
        BY <3>1, <3>2
    <2>2. size_[v] \in Nat
      BY StorageTypes
    <2>3. m \in ScaleResults(v, 2 * size_[v] + 1) /\ (2 * size_[v] + 1) * SizeOf < SizeMod
      BY <1>1, <2>1, <2>2, GrowthFits DEF AppendResults, GrowResults
    <2>4. 2 * size_[v] + 1 \in Nat
      BY <2>2
    <2>5. Sound(v, m) /\ (m.exc = "none" => m.capacity = 2 * size_[v] + 1)
      BY <2>3, <2>4, ScaleSound
    <2>. QED
      BY <2>2, <2>5
  <1>2. CASE size_[v] # capacity_[v]
    <2>1. m = Same(v)
      BY <1>2 DEF AppendResults
    <2>. QED
      BY <1>2, <2>1, SameSound, StorageTypes DEF Same
  <1>. QED
    BY <1>1, <1>2

(* The storage for n elements, or an exception; n elements are addressable. *)
LEMMA RoomSound ==
  ASSUME Storage, NEW v \in Vec, NEW n \in Nat, n * SizeOf < SizeMod,
         NEW m \in ReserveResults(v, n)
  PROVE  /\ Sound(v, m)
         /\ m.exc = "none" => n <= m.capacity
         /\ capacity_[v] <= m.capacity
  <1>1. CASE n > capacity_[v]
    <2>1. Sound(v, m) /\ (m.exc = "none" => m.capacity = n)
      BY <1>1, ScaleSound DEF ReserveResults
    <2>. QED
      BY <1>1, <2>1, StorageTypes DEF Sound
  <1>2. CASE ~(n > capacity_[v])
    BY <1>2, SameSound, StorageTypes DEF ReserveResults, Same
  <1>. QED
    BY <1>1, <1>2

(* reserve leaves room for n elements, or throws. *)
LEMMA ReserveSound ==
  ASSUME NoWrap, Storage, NEW v \in Vec, NEW n \in Count, NEW m \in ReserveResults(v, n)
  PROVE  /\ Sound(v, m)
         /\ m.exc = "none" => n <= m.capacity
         /\ capacity_[v] <= m.capacity
  <1>1. n \in Nat /\ n * SizeOf < SizeMod
    BY VectorAssumption DEF NoWrap
  <1>. QED
    BY <1>1, RoomSound

(***************************************************************************)
(* A call on v that leaves sound storage and cells of the right type       *)
(* preserves the part of the invariant that does not look at sizes, and    *)
(* all of it if the size is within the capacity.                           *)
(***************************************************************************)
LEMMA CommitStorage ==
  ASSUME Storage, NEW v \in Vec, NEW m, Sound(v, m), NEW cs \in Cells, NEW n \in Nat,
         NEW exc \in {"none"} \cup Thrown \cup Fatal,
         Commit(v, m, cs, n, exc)
  PROVE  /\ Storage'
         /\ size_'[v] = n /\ capacity_'[v] = m.capacity
         /\ \A w \in Vec : w # v => size_'[w] = size_[w] /\ capacity_'[w] = capacity_[w]
  <1>1. /\ heap' = m.heap /\ cells' = cs /\ alive' = alive /\ outcome' = exc
        /\ arr_'[v] = m.arr /\ size_'[v] = n
        /\ capacity_'[v] = m.capacity /\ allocated_'[v] = m.allocated
        /\ \A w \in Vec : w # v =>
             /\ arr_'[w] = arr_[w] /\ size_'[w] = size_[w]
             /\ capacity_'[w] = capacity_[w] /\ allocated_'[w] = allocated_[w]
    BY DEF Commit, Storage, TypeOK
  <1>2. TypeOK'
    <2>1. 0 .. Capacity \subseteq 0 .. SizeMod - 1
      BY SizeAssumption, HeapAssumption
    <2>. QED
      BY <2>1 DEF Commit, Sound, Storage, TypeOK, Cells
  <1>3. AccountInRange'
    BY <1>1, StorageTypes, SizeAssumption DEF Sound, AccountInRange
  <1>4. Owned'
    <2>. SUFFICES ASSUME NEW w \in Vec
                  PROVE  /\ arr_'[w] = NULL => capacity_'[w] = 0
                         /\ arr_'[w] # NULL => heap'[arr_'[w]] = capacity_'[w] * SizeOf
      BY DEF Owned
    <2>1. CASE w = v
      BY <1>1, <2>1 DEF Sound
    <2>2. CASE w # v
      BY <1>1, <2>2, StorageTypes DEF Sound
    <2>. QED
      BY <2>1, <2>2
  <1>5. BuffersDisjoint'
    BY <1>1, StorageTypes DEF Sound, BuffersDisjoint
  <1>. QED
    BY <1>1, <1>2, <1>3, <1>4, <1>5 DEF Storage

(* The invariant afterwards, from its parts *)
LEMMA StorageIInv ==
  ASSUME Storage', \A v \in Vec : size_'[v] <= capacity_'[v]
  PROVE  IInv'
  BY DEF IInv, Storage, BufferFits, Owned

LEMMA CommitIInv ==
  ASSUME IInv, NEW v \in Vec, NEW m, Sound(v, m), NEW cs \in Cells,
         NEW n \in Nat, n <= m.capacity,
         NEW exc \in {"none"} \cup Thrown \cup Fatal,
         Commit(v, m, cs, n, exc)
  PROVE  IInv'
  <1>1. Storage
    BY HasStorage
  <1>2. /\ Storage'
        /\ size_'[v] = n /\ capacity_'[v] = m.capacity
        /\ \A w \in Vec : w # v => size_'[w] = size_[w] /\ capacity_'[w] = capacity_[w]
    BY <1>1, CommitStorage
  <1>3. ASSUME NEW w \in Vec
        PROVE  size_'[w] <= capacity_'[w]
    BY <1>2, Types
  <1>. QED
    BY <1>2, <1>3, StorageIInv

-----------------------------------------------------------------------------
(* An argument is a value, or what memory holds where one was. *)
LEMMA DenotesType ==
  ASSUME NEW v \in Vec, NEW m, Sound(v, m), NEW arg \in Argument(v)
  PROVE  \A i \in 0 .. MaxLen - 1 : All(Denotes(v, m, arg))[i] \in Cell
  <1>1. Denotes(v, m, arg) \in Cell
    <2>1. CASE arg \in Value
      BY <2>1 DEF Denotes, Cell
    <2>2. CASE arg \notin Value
      <3>1. PICK i \in Nat : arg = <<i>>
        BY <2>2, VectorAssumption DEF Argument, Own
      <3>2. CASE i < Room(m.heap, m.arr)
        <4>1. m.heap \in Heaps /\ m.arr \in Block \cup {NULL} /\ m.cells \in Cells
          BY DEF Sound
        <4>2. m.arr \in Block
          BY <3>1, <3>2, <4>1 DEF Room, IsLive
        <4>3. i \in 0 .. MaxLen - 1
          <5>1. MaxLen \in Nat
            BY QuotientBound, HeapAssumption, SizeAssumption DEF MaxLen
          <5>2. Room(m.heap, m.arr) \in Nat /\ Room(m.heap, m.arr) <= MaxLen
            BY <4>1, RoomBound
          <5>. QED
            BY <3>1, <3>2, <5>1, <5>2
        <4>4. m.cells[m.arr][i] \in Cell
          BY <4>1, <4>2, <4>3 DEF Cells
        <4>. QED
          BY <2>2, <3>1, <4>4 DEF Denotes, Cell
      <3>3. CASE ~(i < Room(m.heap, m.arr))
        BY <2>2, <3>1, <3>3 DEF Denotes, Cell
      <3>. QED
        BY <3>2, <3>3
    <2>. QED
      BY <2>1, <2>2
  <1>. QED
    BY <1>1 DEF All

LEMMA ReserveIInv ==
  ASSUME NoWrap, IInv, NEW v \in Vec, NEW n \in Count, Reserve(v, n)
  PROVE  IInv'
  <1>1. PICK m \in ReserveResults(v, n) : Commit(v, m, m.cells, size_[v], m.exc)
    BY DEF Reserve
  <1>2. Sound(v, m) /\ (m.exc = "none" => capacity_[v] <= m.capacity)
    BY HasStorage, ReserveSound
  <1>3. m.cells \in Cells /\ m.exc \in {"none"} \cup Thrown \cup Fatal
    BY <1>2 DEF Sound, Thrown, Fatal
  <1>4. size_[v] \in Nat /\ size_[v] <= m.capacity
    BY <1>2, Types DEF Sound
  <1>. QED
    BY <1>1, <1>2, <1>3, <1>4, CommitIInv

(* The exception of an allocation leaves the call with everything as it was. *)
LEMMA GiveUpIInv ==
  ASSUME IInv, NEW v \in Vec, NEW m, Sound(v, m), GiveUp(v, m)
  PROVE  IInv'
  <1>1. m.cells \in Cells /\ m.exc \in {"none"} \cup Thrown \cup Fatal
    BY DEF Sound, Thrown, Fatal
  <1>2. size_[v] \in Nat /\ size_[v] <= m.capacity
    BY Types DEF Sound, GiveUp
  <1>. QED
    BY <1>1, <1>2, CommitIInv DEF GiveUp

(* A loop of assignments on sound storage, and how far it comes, ... *)
LEMMA LoopSound ==
  ASSUME NEW v \in Vec, NEW m, Sound(v, m),
         NEW from \in Nat, NEW to \in Nat, NEW val,
         \A i \in 0 .. MaxLen - 1 : val[i] \in Cell,
         NEW w \in WriteResults(m.heap, m.cells, m.arr, from, to, val)
  PROVE  /\ w.cells \in Cells
         /\ w.exc \in {"none", "copy", "overrun"}
         /\ w.done \in Nat /\ (w.done <= to \/ w.done = from)
  <1>1. m.heap \in Heaps /\ m.cells \in Cells /\ m.arr \in Block \cup {NULL}
    BY DEF Sound
  <1>2. \A i \in 0 .. MaxLen - 1 : from <= i /\ i < to => val[i] \in Cell
    OBVIOUS
  <1>3. ASSUME NEW h \in Heaps, NEW cs \in Cells, NEW p \in Block \cup {NULL},
               w \in WriteResults(h, cs, p, from, to, val)
        PROVE  /\ w.cells \in Cells
               /\ w.exc \in {"none", "copy", "overrun"}
               /\ w.done \in Nat /\ (w.done <= to \/ w.done = from)
    BY <1>2, <1>3, WriteFacts
  <1>. QED
    BY <1>1, <1>3

(* ... and the size the call sets *)
LEMMA LoopIInv ==
  ASSUME IInv, NEW v \in Vec, NEW m, Sound(v, m),
         NEW from \in Nat, NEW to \in Nat, NEW val,
         \A i \in 0 .. MaxLen - 1 : val[i] \in Cell,
         NEW w \in WriteResults(m.heap, m.cells, m.arr, from, to, val),
         NEW n \in Nat, n <= m.capacity,
         Commit(v, m, w.cells, n, w.exc)
  PROVE  IInv'
  <1>1. w.cells \in Cells /\ w.exc \in {"none", "copy", "overrun"}
    BY LoopSound
  <1>2. w.exc \in {"none"} \cup Thrown \cup Fatal
    BY <1>1 DEF Thrown, Fatal
  <1>. QED
    BY <1>1, <1>2, CommitIInv

LEMMA AssignIInv ==
  ASSUME NoWrap, IInv, NEW v \in Vec, NEW n \in Count, NEW arg \in Argument(v),
         Assign(v, n, arg)
  PROVE  IInv'
  <1>0. n \in Nat /\ n * SizeOf < SizeMod /\ 0 \in Nat
    BY VectorAssumption DEF NoWrap
  <1>1. CASE /\ n < capacity_[v]
             /\ \E m \in ScaleResults(v, n) :
                  \/ GiveUp(v, m)
                  \/ /\ m.exc = "none"
                     /\ \E w \in WriteResults(m.heap, m.cells, m.arr, 0, n,
                                              All(Denotes(v, m, arg))) :
                          Commit(v, m, w.cells, n, w.exc)
    <2>1. PICK m \in ScaleResults(v, n) :
            \/ GiveUp(v, m)
            \/ /\ m.exc = "none"
               /\ \E w \in WriteResults(m.heap, m.cells, m.arr, 0, n,
                                        All(Denotes(v, m, arg))) :
                    Commit(v, m, w.cells, n, w.exc)
      BY <1>1
    <2>2. Sound(v, m) /\ (m.exc = "none" => m.capacity = n)
      BY <1>0, HasStorage, ScaleSound
    <2>3. \A i \in 0 .. MaxLen - 1 : All(Denotes(v, m, arg))[i] \in Cell
      BY <2>2, DenotesType
    <2>4. CASE GiveUp(v, m)
      BY <2>2, <2>4, GiveUpIInv
    <2>5. CASE /\ m.exc = "none"
               /\ \E w \in WriteResults(m.heap, m.cells, m.arr, 0, n,
                                        All(Denotes(v, m, arg))) :
                    Commit(v, m, w.cells, n, w.exc)
      <3>1. n <= m.capacity
        BY <1>0, <2>2, <2>5
      <3>. QED
        BY <1>0, <2>2, <2>3, <2>5, <3>1, LoopIInv
    <2>. QED
      BY <2>1, <2>4, <2>5
  <1>2. CASE /\ n >= capacity_[v]
             /\ \E w \in WriteResults(heap, cells, arr_[v], 0, n,
                                      All(Denotes(v, Same(v), arg))) :
                  Commit(v, Same(v), w.cells, size_[v], w.exc)
    <2>1. Sound(v, Same(v))
      BY HasStorage, SameSound
    <2>2. \A i \in 0 .. MaxLen - 1 : All(Denotes(v, Same(v), arg))[i] \in Cell
      BY <2>1, DenotesType
    <2>3. /\ Same(v).heap = heap /\ Same(v).cells = cells /\ Same(v).arr = arr_[v]
          /\ size_[v] \in Nat /\ size_[v] <= Same(v).capacity
      BY Types DEF Same
    <2>4. PICK w \in WriteResults(Same(v).heap, Same(v).cells, Same(v).arr, 0, n,
                                  All(Denotes(v, Same(v), arg))) :
            Commit(v, Same(v), w.cells, size_[v], w.exc)
      BY <1>2, <2>3
    <2>. QED
      BY <1>0, <2>1, <2>2, <2>3, <2>4, LoopIInv
  <1>. QED
    BY <1>1, <1>2 DEF Assign

(* Calls that only destroy elements or lower the size. *)
LEMMA ShrinkIInv ==
  ASSUME IInv, NEW v \in Vec, NEW cs \in Cells, NEW n \in Nat, n <= size_[v],
         NEW exc \in {"none"} \cup Thrown \cup Fatal,
         Commit(v, Same(v), cs, n, exc)
  PROVE  IInv'
  <1>1. Sound(v, Same(v))
    BY HasStorage, SameSound
  <1>2. n <= Same(v).capacity
    BY Types DEF Same
  <1>. QED
    BY <1>1, <1>2, CommitIInv

LEMMA ClearIInv ==
  ASSUME IInv, NEW v \in Vec, Clear(v)
  PROVE  IInv'
  <1>1. 0 \in Int /\ 0 \in Nat /\ size_[v] \in Int /\ 0 <= size_[v]
    BY Types
  <1>2. Killed(cells, arr_[v], 0, size_[v]) \in Cells
    BY <1>1, KilledType, Types
  <1>3. "none" \in {"none"} \cup Thrown \cup Fatal
    OBVIOUS
  <1>. QED
    BY <1>1, <1>2, <1>3, ShrinkIInv DEF Clear

LEMMA PopBackIInv ==
  ASSUME IInv, NEW v \in Vec, PopBack(v)
  PROVE  IInv'
  <1>. DEFINE n == IF Empty(v) THEN 0 ELSE size_[v] - 1
  <1>1. n \in Nat /\ n <= size_[v]
    BY Types DEF Empty
  <1>2. cells \in Cells /\ "none" \in {"none"} \cup Thrown \cup Fatal
    BY Types
  <1>3. Commit(v, Same(v), cells, n, "none")
    BY DEF PopBack
  <1>. HIDE DEF n
  <1>. QED
    BY <1>1, <1>2, <1>3, ShrinkIInv

LEMMA ResizeIInv ==
  ASSUME NoWrap, IInv, NEW v \in Vec, NEW n \in Count, NEW x \in Value, Resize(v, n, x)
  PROVE  IInv'
  <1>0. /\ n \in Nat /\ n \in Int /\ size_[v] \in Nat /\ size_[v] \in Int
        /\ cells \in Cells
        /\ "none" \in {"none"} \cup Thrown \cup Fatal
    BY VectorAssumption, Types
  <1>1. CASE n = size_[v] /\ Commit(v, Same(v), cells, size_[v], "none")
    BY <1>0, <1>1, ShrinkIInv
  <1>2. CASE n < size_[v] /\ Commit(v, Same(v), Killed(cells, arr_[v], n, size_[v]), n, "none")
    <2>1. Killed(cells, arr_[v], n, size_[v]) \in Cells
      BY <1>0, KilledType
    <2>2. n <= size_[v]
      BY <1>0, <1>2
    <2>. QED
      BY <1>0, <1>2, <2>1, <2>2, ShrinkIInv
  <1>3. CASE /\ n > size_[v]
             /\ \E m \in ReserveResults(v, n) :
                  \/ GiveUp(v, m)
                  \/ /\ m.exc = "none"
                     /\ \E w \in WriteResults(m.heap, m.cells, m.arr, size_[v],
                                              m.capacity, All(x)) :
                          Commit(v, m, w.cells, w.done, w.exc)
    <2>1. PICK m \in ReserveResults(v, n) :
            \/ GiveUp(v, m)
            \/ /\ m.exc = "none"
               /\ \E w \in WriteResults(m.heap, m.cells, m.arr, size_[v],
                                        m.capacity, All(x)) :
                    Commit(v, m, w.cells, w.done, w.exc)
      BY <1>3
    <2>2. Sound(v, m) /\ (m.exc = "none" => n <= m.capacity)
      BY HasStorage, ReserveSound
    <2>3. CASE GiveUp(v, m)
      BY <2>2, <2>3, GiveUpIInv
    <2>4. CASE /\ m.exc = "none"
               /\ \E w \in WriteResults(m.heap, m.cells, m.arr, size_[v],
                                        m.capacity, All(x)) :
                    Commit(v, m, w.cells, w.done, w.exc)
      <3>1. PICK w \in WriteResults(m.heap, m.cells, m.arr, size_[v],
                                    m.capacity, All(x)) :
              Commit(v, m, w.cells, w.done, w.exc)
        BY <2>4
      <3>2. /\ m.heap \in Heaps /\ m.cells \in Cells
            /\ m.arr \in Block \cup {NULL} /\ m.capacity \in Nat
        BY <2>2 DEF Sound
      <3>3. \A i \in 0 .. MaxLen - 1 : All(x)[i] \in Cell
        BY DEF All, Cell
      <3>4. w.done \in Nat /\ (w.done <= m.capacity \/ w.done = size_[v])
        BY <1>0, <2>2, <3>1, <3>2, <3>3, LoopSound
      <3>5. w.done <= m.capacity
        BY <1>0, <1>3, <2>2, <2>4, <3>2, <3>4
      <3>. QED
        BY <1>0, <2>2, <3>1, <3>2, <3>3, <3>4, <3>5, LoopIInv
    <2>. QED
      BY <2>1, <2>3, <2>4
  <1>. QED
    BY <1>1, <1>2, <1>3 DEF Resize

LEMMA PushBackIInv ==
  ASSUME NoWrap, IInv, NEW v \in Vec, NEW arg \in Argument(v), PushBack(v, arg)
  PROVE  IInv'
  <1>0. size_[v] \in Nat /\ size_[v] + 1 \in Nat
    BY Types
  <1>1. PICK m \in AppendResults(v) :
          \/ GiveUp(v, m)
          \/ /\ m.exc = "none"
             /\ \E w \in WriteResults(m.heap, m.cells, m.arr, size_[v], size_[v] + 1,
                                      All(Denotes(v, m, arg))) :
                  Commit(v, m, w.cells, size_[v] + 1, w.exc)
    BY DEF PushBack
  <1>2. Sound(v, m) /\ (m.exc = "none" => size_[v] + 1 <= m.capacity)
    BY HasStorage, AppendSound
  <1>3. \A i \in 0 .. MaxLen - 1 : All(Denotes(v, m, arg))[i] \in Cell
    BY <1>2, DenotesType
  <1>4. CASE GiveUp(v, m)
    BY <1>2, <1>4, GiveUpIInv
  <1>5. CASE /\ m.exc = "none"
             /\ \E w \in WriteResults(m.heap, m.cells, m.arr, size_[v], size_[v] + 1,
                                      All(Denotes(v, m, arg))) :
                  Commit(v, m, w.cells, size_[v] + 1, w.exc)
    BY <1>0, <1>2, <1>3, <1>5, LoopIInv
  <1>. QED
    BY <1>1, <1>4, <1>5

(* The reads: a write through the reference, or an exception. *)
LEMMA ThroughIInv ==
  ASSUME IInv, NEW v \in Vec, NEW test, NEW i, test => i \in Nat,
         NEW x \in Value, NEW otherwise \in {"none"} \cup Thrown \cup Fatal,
         Through(v, test, i, x, otherwise)
  PROVE  IInv'
  <1>0. /\ Sound(v, Same(v)) /\ size_[v] \in Nat /\ size_[v] <= Same(v).capacity
        /\ cells \in Cells
        /\ Same(v).heap = heap /\ Same(v).cells = cells /\ Same(v).arr = arr_[v]
    BY HasStorage, SameSound, Types DEF Same
  <1>1. CASE /\ test
             /\ \E w \in WriteResults(heap, cells, arr_[v], i, i + 1, All(x)) :
                  Commit(v, Same(v), w.cells, size_[v], w.exc)
    <2>1. \A k \in 0 .. MaxLen - 1 : All(x)[k] \in Cell
      BY DEF All, Cell
    <2>2. i \in Nat /\ i + 1 \in Nat
      BY <1>1
    <2>3. PICK w \in WriteResults(Same(v).heap, Same(v).cells, Same(v).arr,
                                  i, i + 1, All(x)) :
            Commit(v, Same(v), w.cells, size_[v], w.exc)
      BY <1>0, <1>1
    <2>. QED
      BY <1>0, <2>1, <2>2, <2>3, LoopIInv
  <1>2. CASE Commit(v, Same(v), cells, size_[v], otherwise)
    <2>1. size_[v] <= size_[v]
      BY <1>0
    <2>. QED
      BY <1>0, <1>2, <2>1, ShrinkIInv
  <1>. QED
    BY <1>1, <1>2 DEF Through

LEMMA AccessIInv ==
  ASSUME IInv, NEW v \in Vec, NEW x \in Value,
         \/ \E i \in Count : At(v, i, x) \/ Index(v, i, x)
         \/ FrontElement(v, x) \/ BackElement(v, x)
  PROVE  IInv'
  <1>0. /\ "out_of_range" \in {"none"} \cup Thrown \cup Fatal
        /\ "abort" \in {"none"} \cup Thrown \cup Fatal
    BY DEF Thrown, Fatal
  <1>1. CASE \E i \in Count : At(v, i, x) \/ Index(v, i, x)
    <2>1. PICK i \in Nat : At(v, i, x) \/ Index(v, i, x)
      BY <1>1, VectorAssumption
    <2>2. CASE At(v, i, x)
      BY <1>0, <2>2, ThroughIInv DEF At
    <2>3. CASE Index(v, i, x)
      BY <1>0, <2>3, ThroughIInv DEF Index
    <2>. QED
      BY <2>1, <2>2, <2>3
  <1>2. CASE FrontElement(v, x)
    <2>1. 0 \in Nat
      OBVIOUS
    <2>. QED
      BY <1>0, <1>2, <2>1, ThroughIInv DEF FrontElement
  <1>3. CASE BackElement(v, x)
    <2>1. ~Empty(v) => size_[v] - 1 \in Nat
      BY Types DEF Empty
    <2>. QED
      BY <1>0, <1>3, <2>1, ThroughIInv DEF BackElement
  <1>. QED
    BY <1>1, <1>2, <1>3

-----------------------------------------------------------------------------
(* A vector that is built takes a block that was free. *)
LEMMA BuildStorage ==
  ASSUME Storage, NEW v \in Vec, NEW n \in Nat, n > 0, n * SizeOf < SizeMod, NEW val,
         \A i \in 0 .. MaxLen - 1 : i < n => val[i] \in Cell,
         BuildWith(v, n, val)
  PROVE  /\ Storage'
         /\ \/ size_' = size_ /\ capacity_' = capacity_
            \/ /\ size_'[v] = n /\ capacity_'[v] = n
               /\ \A w \in Vec : w # v => size_'[w] = size_[w] /\ capacity_'[w] = capacity_[w]
  <1>f. Footprint(n) = n * SizeOf /\ n * SizeOf # 0 /\ n * SizeOf \in Nat
    <2>1. n * SizeOf \in Nat /\ n * SizeOf # 0
      BY Product, SizeAssumption
    <2>2. n * SizeOf \in 0 .. SizeMod - 1
      BY <2>1, SizeAssumption
    <2>. QED
      BY <2>1, <2>2, ModSmall, SizeAssumption DEF Footprint
  <1>e. \A r \in AllocateResults(0, heap, NULL, n) : Ends(0, heap, NULL, n, r)
    <2>1. 0 \in 0 .. Capacity /\ heap \in Heaps /\ NULL \in Block \cup {NULL}
      BY SizeAssumption, StorageTypes
    <2>. QED
      BY <2>1, AllocateFacts
  <1>p. PICK r \in AllocateResults(0, heap, NULL, n) :
          /\ heap' = r.heap
          /\ \/ /\ r.exc # "none"
                /\ outcome' = r.exc
                /\ UNCHANGED <<cells, alive, arr_, size_, capacity_, allocated_>>
             \/ /\ r.exc = "none"
                /\ \E w \in WriteResults(r.heap, cells, r.mem, 0, n, val) :
                     /\ cells' = w.cells
                     /\ outcome' = w.exc
                     /\ IF w.exc # "copy"
                          THEN /\ alive' = alive \cup {v}
                               /\ arr_' = [arr_ EXCEPT ![v] = r.mem]
                               /\ size_' = [size_ EXCEPT ![v] = n]
                               /\ capacity_' = [capacity_ EXCEPT ![v] = n]
                               /\ allocated_' = [allocated_ EXCEPT ![v] = r.allocated]
                          ELSE UNCHANGED <<alive, arr_, size_, capacity_, allocated_>>
    BY DEF BuildWith
  <1>r. Ends(0, heap, NULL, n, r)
    BY <1>e
  <1>1. CASE r.exc # "none"
    <2>1. /\ heap' = heap /\ cells' = cells /\ alive' = alive /\ arr_' = arr_
          /\ size_' = size_ /\ capacity_' = capacity_ /\ allocated_' = allocated_
          /\ outcome' \in {"runtime_error", "bad_alloc"}
      BY <1>1, <1>p, <1>r DEF Ends
    <2>. QED
      BY <2>1 DEF Storage, TypeOK, AccountInRange, Owned, BuffersDisjoint, Thrown
  <1>2. CASE r.exc = "none"
    <2>1. /\ r.heap \in Heaps
          /\ r.allocated \in 0 .. Capacity
          /\ r.mem \in Block
          /\ heap[r.mem] = Free
          /\ r.heap = Grant(heap, NULL, r.mem, n * SizeOf)
      BY <1>2, <1>r, <1>f, HeapAssumption DEF Ends
    <2>2. PICK w \in WriteResults(r.heap, cells, r.mem, 0, n, val) :
            /\ cells' = w.cells
            /\ outcome' = w.exc
            /\ \/ /\ alive' = alive \cup {v}
                  /\ arr_' = [arr_ EXCEPT ![v] = r.mem]
                  /\ size_' = [size_ EXCEPT ![v] = n]
                  /\ capacity_' = [capacity_ EXCEPT ![v] = n]
                  /\ allocated_' = [allocated_ EXCEPT ![v] = r.allocated]
               \/ UNCHANGED <<alive, arr_, size_, capacity_, allocated_>>
      BY <1>2, <1>p
    <2>3. w.cells \in Cells /\ w.exc \in {"none", "copy", "overrun"}
      <3>1. \A i \in 0 .. MaxLen - 1 : 0 <= i /\ i < n => val[i] \in Cell
        OBVIOUS
      <3>2. cells \in Cells /\ r.mem \in Block \cup {NULL} /\ 0 \in Nat
        BY StorageTypes, <2>1
      <3>. QED
        BY <2>1, <3>1, <3>2, WriteFacts
    <2>4. /\ r.heap[r.mem] = n * SizeOf /\ r.mem # NULL
          /\ \A u \in Vec : arr_[u] # NULL =>
               r.mem # arr_[u] /\ r.heap[arr_[u]] = heap[arr_[u]]
      BY <2>1, StorageTypes, OwnedIsLive, HeapAssumption DEF Grant
    <2>5. heap' = r.heap
      BY <1>p
    <2>6. 0 .. Capacity \subseteq 0 .. SizeMod - 1
      BY SizeAssumption, HeapAssumption
    <2>7. CASE /\ alive' = alive \cup {v}
               /\ arr_' = [arr_ EXCEPT ![v] = r.mem]
               /\ size_' = [size_ EXCEPT ![v] = n]
               /\ capacity_' = [capacity_ EXCEPT ![v] = n]
               /\ allocated_' = [allocated_ EXCEPT ![v] = r.allocated]
      <3>1. /\ arr_'[v] = r.mem /\ size_'[v] = n
            /\ capacity_'[v] = n /\ allocated_'[v] = r.allocated
            /\ \A u \in Vec : u # v =>
                 /\ arr_'[u] = arr_[u] /\ size_'[u] = size_[u]
                 /\ capacity_'[u] = capacity_[u] /\ allocated_'[u] = allocated_[u]
        BY <2>7 DEF Storage, TypeOK
      <3>2. TypeOK'
        BY <2>1, <2>2, <2>3, <2>5, <2>6, <2>7 DEF Storage, TypeOK, Cells, Thrown, Fatal
      <3>3. AccountInRange'
        BY <3>1, <2>1, StorageTypes, SizeAssumption DEF AccountInRange
      <3>4. Owned'
        <4>. SUFFICES ASSUME NEW u \in Vec
                      PROVE  /\ arr_'[u] = NULL => capacity_'[u] = 0
                             /\ arr_'[u] # NULL => heap'[arr_'[u]] = capacity_'[u] * SizeOf
          BY DEF Owned
        <4>1. CASE u = v
          BY <3>1, <4>1, <2>4, <2>5
        <4>2. CASE u # v
          BY <3>1, <4>2, <2>4, <2>5, StorageTypes
        <4>. QED
          BY <4>1, <4>2
      <3>5. BuffersDisjoint'
        BY <3>1, <2>4, StorageTypes DEF BuffersDisjoint
      <3>. QED
        BY <3>1, <3>2, <3>3, <3>4, <3>5 DEF Storage
    <2>8. CASE UNCHANGED <<alive, arr_, size_, capacity_, allocated_>>
      <3>1. TypeOK'
        BY <2>1, <2>2, <2>3, <2>5, <2>8 DEF Storage, TypeOK, Cells, Thrown, Fatal
      <3>2. AccountInRange' /\ BuffersDisjoint'
        BY <2>8 DEF Storage, AccountInRange, BuffersDisjoint
      <3>3. Owned'
        BY <2>4, <2>5, <2>8 DEF Storage, Owned
      <3>. QED
        BY <2>8, <3>1, <3>2, <3>3 DEF Storage
    <2>. QED
      BY <2>2, <2>7, <2>8
  <1>. QED
    BY <1>1, <1>2

LEMMA BuildIInv ==
  ASSUME IInv, NEW v \in Vec, NEW n \in Nat, n > 0, n * SizeOf < SizeMod, NEW val,
         \A i \in 0 .. MaxLen - 1 : i < n => val[i] \in Cell,
         BuildWith(v, n, val)
  PROVE  IInv'
  <1>1. Storage
    BY HasStorage
  <1>2. /\ Storage'
        /\ \/ size_' = size_ /\ capacity_' = capacity_
           \/ /\ size_'[v] = n /\ capacity_'[v] = n
              /\ \A w \in Vec : w # v => size_'[w] = size_[w] /\ capacity_'[w] = capacity_[w]
    BY <1>1, BuildStorage
  <1>3. ASSUME NEW w \in Vec
        PROVE  size_'[w] <= capacity_'[w]
    BY <1>2, Types
  <1>. QED
    BY <1>2, <1>3, StorageIInv

(* The element count of a range is one the client passes. *)
LEMMA CtorIInv ==
  ASSUME NoWrap, IInv, NEW v \in Vec, NEW n \in Count,
         \/ \E x \in Value : FillCtor(v, n, x)
         \/ \E s \in [1 .. n -> Value] : RangeCtor(v, s)
  PROVE  IInv'
  <1>0. n \in Nat /\ n * SizeOf < SizeMod
    BY VectorAssumption DEF NoWrap
  <1>1. CASE \E x \in Value : FillCtor(v, n, x)
    <2>1. PICK x \in Value : n > 0 /\ BuildWith(v, n, All(x))
      BY <1>1 DEF FillCtor
    <2>2. \A i \in 0 .. MaxLen - 1 : i < n => All(x)[i] \in Cell
      BY DEF All, Cell
    <2>. QED
      BY <1>0, <2>1, <2>2, BuildIInv
  <1>2. CASE \E s \in [1 .. n -> Value] : RangeCtor(v, s)
    <2>1. PICK s \in [1 .. n -> Value] : RangeCtor(v, s)
      BY <1>2
    <2>2. Len(s) = n
      BY <1>0
    <2>. DEFINE val == [i \in 0 .. n - 1 |-> s[i + 1]]
    <2>3. n > 0 /\ BuildWith(v, n, val)
      BY <2>1, <2>2 DEF RangeCtor
    <2>4. \A i \in 0 .. MaxLen - 1 : i < n => val[i] \in Cell
      <3>1. MaxLen \in Nat
        BY QuotientBound, HeapAssumption, SizeAssumption DEF MaxLen
      <3>. QED
        BY <1>0, <3>1 DEF Cell
    <2>. HIDE DEF val
    <2>. QED
      BY <1>0, <2>3, <2>4, BuildIInv
  <1>. QED
    BY <1>1, <1>2

LEMMA DefaultCtorIInv ==
  ASSUME IInv, NEW v \in Vec, DefaultCtor(v)
  PROVE  IInv'
  <1>1. TypeOK'
    BY DEF DefaultCtor, IInv, TypeOK
  <1>2. AccountInRange' /\ BufferFits' /\ BuffersDisjoint'
    BY DEF DefaultCtor, IInv, AccountInRange, BufferFits, BuffersDisjoint
  <1>. QED
    BY <1>1, <1>2 DEF IInv

LEMMA DestroyIInv ==
  ASSUME IInv, NEW v \in Vec, Destroy(v)
  PROVE  IInv'
  <1>1. Killed(cells, arr_[v], 0, size_[v]) \in Cells
    <2>1. 0 \in Int /\ size_[v] \in Int /\ cells \in Cells
      BY Types
    <2>. QED
      BY <2>1, KilledType
  <1>2. TypeOK'
    <2>1. 0 \in 0 .. SizeMod - 1
      BY SizeAssumption
    <2>. QED
      BY <1>1, <2>1 DEF Destroy, IInv, TypeOK, Cells
  <1>3. /\ heap' = heap
        /\ arr_'[v] = NULL /\ size_'[v] = 0 /\ capacity_'[v] = 0 /\ allocated_'[v] = 0
        /\ \A w \in Vec : w # v =>
             /\ arr_'[w] = arr_[w] /\ size_'[w] = size_[w]
             /\ capacity_'[w] = capacity_[w] /\ allocated_'[w] = allocated_[w]
    BY DEF Destroy, IInv, TypeOK
  <1>4. AccountInRange'
    BY <1>3, Types, SizeAssumption DEF AccountInRange
  <1>5. BufferFits'
    BY <1>3, Types DEF BufferFits
  <1>6. BuffersDisjoint'
    BY <1>3, Types DEF BuffersDisjoint
  <1>. QED
    BY <1>2, <1>4, <1>5, <1>6 DEF IInv

LEMMA SwapIInv ==
  ASSUME IInv, NEW v \in Vec, NEW w \in Vec, v # w, Swap(v, w)
  PROVE  IInv'
  <1>1. TypeOK'
    BY DEF Swap, IInv, TypeOK
  <1>2. /\ heap' = heap /\ allocated_' = allocated_
        /\ arr_'[v] = arr_[w] /\ size_'[v] = size_[w] /\ capacity_'[v] = capacity_[w]
        /\ arr_'[w] = arr_[v] /\ size_'[w] = size_[v] /\ capacity_'[w] = capacity_[v]
        /\ \A u \in Vec : u # v /\ u # w =>
             arr_'[u] = arr_[u] /\ size_'[u] = size_[u] /\ capacity_'[u] = capacity_[u]
    BY DEF Swap, IInv, TypeOK
  <1>3. AccountInRange'
    BY <1>2 DEF IInv, AccountInRange
  <1>4. BufferFits'
    <2>. SUFFICES ASSUME NEW u \in Vec
                  PROVE  /\ size_'[u] <= capacity_'[u]
                         /\ arr_'[u] = NULL => capacity_'[u] = 0
                         /\ arr_'[u] # NULL => heap'[arr_'[u]] = capacity_'[u] * SizeOf
      BY DEF BufferFits
    <2>. QED
      BY <1>2, Types
  <1>5. BuffersDisjoint'
    BY <1>2, Types DEF BuffersDisjoint
  <1>. QED
    BY <1>1, <1>3, <1>4, <1>5 DEF IInv

-----------------------------------------------------------------------------
LEMMA InitIInv == Init => IInv
  <1>. SUFFICES ASSUME Init PROVE IInv
    OBVIOUS
  <1>1. TypeOK
    <2>1. 0 \in 0 .. SizeMod - 1
      BY SizeAssumption
    <2>2. heap \in Heaps
      BY HeapAssumption DEF Init, Heaps, Free
    <2>3. cells \in [Block -> [0 .. MaxLen - 1 -> Cell]]
      BY BlankType DEF Init
    <2>. QED
      BY <2>1, <2>2, <2>3 DEF Init, TypeOK
  <1>2. AccountInRange /\ BufferFits /\ BuffersDisjoint
    BY SizeAssumption DEF Init, AccountInRange, BufferFits, BuffersDisjoint
  <1>. QED
    BY <1>1, <1>2 DEF IInv

LEMMA NextIInv ==
  ASSUME NoWrap, IInv, [Next]_vars
  PROVE  IInv'
  <1>1. CASE Next
    <2>. PICK v \in Vec : Step(v)
      BY <1>1 DEF Next
    <2>1. CASE DefaultCtor(v)
      BY <2>1, DefaultCtorIInv
    <2>2. CASE \E n \in Count, x \in Value : FillCtor(v, n, x)
      BY <2>2, CtorIInv
    <2>3. CASE \E n \in Count : \E s \in [1 .. n -> Value] : RangeCtor(v, s)
      BY <2>3, CtorIInv
    <2>4. CASE Destroy(v)
      BY <2>4, DestroyIInv
    <2>5. CASE \E n \in Count : Reserve(v, n)
      BY <2>5, ReserveIInv
    <2>6. CASE \E n \in Count, arg \in Argument(v) : Assign(v, n, arg)
      BY <2>6, AssignIInv
    <2>7. CASE Clear(v)
      BY <2>7, ClearIInv
    <2>8. CASE \E n \in Count, x \in Value : Resize(v, n, x)
      BY <2>8, ResizeIInv
    <2>9. CASE \E w \in Vec \ {v} : Swap(v, w)
      BY <2>9, SwapIInv
    <2>10. CASE \E arg \in Argument(v) : PushBack(v, arg)
      BY <2>10, PushBackIInv
    <2>11. CASE PopBack(v)
      BY <2>11, PopBackIInv
    <2>12. CASE \E i \in Count, x \in Value : At(v, i, x) \/ Index(v, i, x)
      BY <2>12, AccessIInv
    <2>13. CASE \E x \in Value : FrontElement(v, x) \/ BackElement(v, x)
      BY <2>13, AccessIInv
    <2>. QED
      BY <2>1, <2>2, <2>3, <2>4, <2>5, <2>6, <2>7, <2>8, <2>9, <2>10,
         <2>11, <2>12, <2>13 DEF Step
  <1>2. CASE UNCHANGED vars
    <2>1. /\ heap' = heap /\ cells' = cells /\ alive' = alive /\ arr_' = arr_
          /\ size_' = size_ /\ capacity_' = capacity_
          /\ allocated_' = allocated_ /\ outcome' = outcome
      BY <1>2 DEF vars
    <2>. QED
      BY <2>1 DEF IInv, TypeOK, AccountInRange, BufferFits, BuffersDisjoint
  <1>. QED
    BY <1>1, <1>2

LEMMA Inductive == NoWrap => (Spec => []IInv)
  <1>. SUFFICES ASSUME NoWrap PROVE Spec => []IInv
    OBVIOUS
  <1>1. Init => IInv
    BY InitIInv
  <1>2. IInv /\ [Next]_vars => IInv'
    BY NextIInv
  <1>. QED
    BY <1>1, <1>2, PTL DEF Spec

(***************************************************************************)
(* The heap, the cells and the members of every vector (vector.hpp:309-    *)
(* 311) keep their types; size_ and capacity_ are never negative.          *)
(***************************************************************************)
THEOREM TypeCorrect == NoWrap => (Spec => []TypeOK)
  <1>. SUFFICES ASSUME NoWrap PROVE Spec => []TypeOK
    OBVIOUS
  <1>1. Spec => []IInv
    BY Inductive
  <1>2. IInv => TypeOK
    BY DEF IInv
  <1>. QED
    BY <1>1, <1>2, PTL

(***************************************************************************)
(* Every vector's buffer is live and has exactly capacity_ elements, and   *)
(* size_ is at most capacity_, whatever calls were made, whatever threw    *)
(* and wherever realloc put the buffer (vector.hpp:27-342).                *)
(***************************************************************************)
THEOREM BufferSafe == NoWrap => (Spec => []BufferFits)
  <1>. SUFFICES ASSUME NoWrap PROVE Spec => []BufferFits
    OBVIOUS
  <1>1. Spec => []IInv
    BY Inductive
  <1>2. IInv => BufferFits
    BY DEF IInv
  <1>. QED
    BY <1>1, <1>2, PTL

(***************************************************************************)
(* No two vectors ever share a buffer, through any number of               *)
(* reallocations and swaps (vector.hpp:234-238, 313-317).                  *)
(***************************************************************************)
THEOREM NoSharing == NoWrap => (Spec => []BuffersDisjoint)
  <1>. SUFFICES ASSUME NoWrap PROVE Spec => []BuffersDisjoint
    OBVIOUS
  <1>1. Spec => []IInv
    BY Inductive
  <1>2. IInv => BuffersDisjoint
    BY DEF IInv
  <1>. QED
    BY <1>1, <1>2, PTL
=============================================================================
