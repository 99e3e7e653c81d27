-------------------------- MODULE VectorStepProofs --------------------------
(***************************************************************************)
(* What a single call on a vector may never do, for every number of        *)
(* vectors, every element size and wherever assignments throw: write       *)
(* outside a buffer, unless it is assign with a count above the capacity,  *)
(* and leave anything behind when memory was refused.                      *)
(*                                                                         *)
(* Both follow from BufferFits and from what scale_capacity_ does (Sound): *)
(* a buffer has room for capacity_ elements, and every loop but that of    *)
(* assign ends there.                                                      *)
(***************************************************************************)
EXTENDS VectorProofs

Members == <<heap, cells, alive, arr_, size_, capacity_, allocated_>>

Refused == {"runtime_error", "bad_alloc"}

LEMMA QuotientExact ==
  ASSUME NEW n \in Nat, NEW z \in Nat \ {0}
  PROVE  (n * z) \div z = n
  BY SMT

(* A buffer has room for as many elements as the capacity says. *)
LEMMA SoundRoom ==
  ASSUME NEW v \in Vec, NEW m, Sound(v, m)
  PROVE  Room(m.heap, m.arr) = m.capacity
  <1>1. CASE m.arr = NULL
    BY <1>1, HeapAssumption DEF Sound, Room, IsLive
  <1>2. CASE m.arr # NULL
    <2>1. m.capacity \in Nat /\ m.heap[m.arr] = m.capacity * SizeOf /\ m.arr \in Block
      BY <1>2 DEF Sound
    <2>2. m.heap[m.arr] # Free
      BY <2>1, Product, SizeAssumption DEF Free
    <2>3. (m.capacity * SizeOf) \div SizeOf = m.capacity
      BY <2>1, QuotientExact, SizeAssumption
    <2>. QED
      BY <2>1, <2>2, <2>3 DEF Room, IsLive
  <1>. QED
    BY <1>1, <1>2

(* A loop that ends within the room there is stays there. *)
LEMMA LoopStays ==
  ASSUME NEW h, NEW cs, NEW p, NEW from \in Nat, NEW to \in Nat, NEW val,
         to <= Room(h, p), NEW w \in WriteResults(h, cs, p, from, to, val)
  PROVE  w.exc \in {"none", "copy"}
  BY DEF WriteResults

-----------------------------------------------------------------------------
(* A call that was refused memory left everything as it was. *)
Clean ==
  /\ outcome' \in Refused => UNCHANGED Members
  /\ outcome' # "overrun"

LEMMA ThrownClean ==
  ASSUME Storage, NEW v \in Vec, NEW m, Sound(v, m), m.exc # "none",
         Commit(v, m, m.cells, size_[v], m.exc)
  PROVE  Clean
  <1>1. /\ m.heap = heap /\ m.cells = cells /\ m.arr = arr_[v]
        /\ m.capacity = capacity_[v] /\ m.allocated = allocated_[v]
        /\ m.exc # "overrun"
    BY DEF Sound
  <1>2. /\ [arr_ EXCEPT ![v] = arr_[v]] = arr_
        /\ [size_ EXCEPT ![v] = size_[v]] = size_
        /\ [capacity_ EXCEPT ![v] = capacity_[v]] = capacity_
        /\ [allocated_ EXCEPT ![v] = allocated_[v]] = allocated_
    BY DEF Storage, TypeOK
  <1>. QED
    BY <1>1, <1>2 DEF Clean, Commit, Members

LEMMA LoopClean ==
  ASSUME NEW v \in Vec, NEW m, Sound(v, m),
         NEW from \in Nat, NEW to \in Nat, NEW val, to <= m.capacity,
         NEW w \in WriteResults(m.heap, m.cells, m.arr, from, to, val),
         NEW n, Commit(v, m, w.cells, n, w.exc)
  PROVE  Clean
  <1>1. Room(m.heap, m.arr) = m.capacity
    BY SoundRoom
  <1>2. w.exc \in {"none", "copy"}
    BY <1>1, LoopStays
  <1>. QED
    BY <1>2 DEF Clean, Commit, Refused

LEMMA OtherClean ==
  ASSUME outcome' \in {"none", "abort", "out_of_range"}
  PROVE  Clean
  BY DEF Clean, Refused

LEMMA BuildClean ==
  ASSUME Storage, NEW v \in Vec, NEW n \in Nat, n > 0, n * SizeOf < SizeMod, NEW val,
         BuildWith(v, n, val)
  PROVE  Clean
  <1>f. Footprint(n) = n * SizeOf /\ n * SizeOf # 0 /\ n * SizeOf \in Nat
    <2>1. n * SizeOf \in Nat /\ n * SizeOf # 0
      BY Product, SizeAssumption
    <2>2. n * SizeOf \in 0 .. SizeMod - 1
      BY <2>1, SizeAssumption
    <2>. QED
      BY <2>1, <2>2, ModSmall, SizeAssumption DEF Footprint
  <1>e. \A r \in AllocateResults(0, heap, NULL, n) : Ends(0, heap, NULL, n, r)
    <2>1. 0 \in 0 .. Capacity /\ heap \in Heaps /\ NULL \in Block \cup {NULL}
      BY SizeAssumption, StorageTypes
    <2>. QED
      BY <2>1, AllocateFacts
  <1>p. PICK r \in AllocateResults(0, heap, NULL, n) :
          /\ heap' = r.heap
          /\ \/ /\ r.exc # "none"
                /\ outcome' = r.exc
                /\ UNCHANGED <<cells, alive, arr_, size_, capacity_, allocated_>>
             \/ /\ r.exc = "none"
                /\ \E w \in WriteResults(r.heap, cells, r.mem, 0, n, val) :
                     outcome' = w.exc
    BY DEF BuildWith
  <1>r. Ends(0, heap, NULL, n, r)
    BY <1>e
  <1>1. CASE r.exc # "none"
    <2>1. r.heap = heap /\ r.exc # "overrun"
      BY <1>1, <1>r, <1>f DEF Ends
    <2>. QED
      BY <1>1, <1>p, <2>1 DEF Clean, Members
  <1>2. CASE r.exc = "none"
    <2>1. r.mem \in Block /\ r.heap[r.mem] = n * SizeOf
      BY <1>2, <1>r, <1>f DEF Ends, Grant
    <2>2. Room(r.heap, r.mem) = n
      <3>1. r.heap[r.mem] # Free
        BY <2>1, <1>f DEF Free
      <3>2. (n * SizeOf) \div SizeOf = n
        BY QuotientExact, SizeAssumption
      <3>. QED
        BY <2>1, <3>1, <3>2 DEF Room, IsLive
    <2>3. PICK w \in WriteResults(r.heap, cells, r.mem, 0, n, val) : outcome' = w.exc
      BY <1>2, <1>p
    <2>4. w.exc \in {"none", "copy"}
      <3>1. 0 \in Nat /\ n <= Room(r.heap, r.mem)
        BY <2>2
      <3>. QED
        BY <3>1, LoopStays
    <2>. QED
      BY <2>3, <2>4 DEF Clean, Refused
  <1>. QED
    BY <1>1, <1>2

LEMMA CtorClean ==
  ASSUME NoWrap, Storage, NEW v \in Vec, NEW n \in Count,
         \/ \E x \in Value : FillCtor(v, n, x)
         \/ \E s \in [1 .. n -> Value] : RangeCtor(v, s)
  PROVE  Clean
  <1>0. n \in Nat /\ n * SizeOf < SizeMod
    BY VectorAssumption DEF NoWrap
  <1>1. PICK val : n > 0 /\ BuildWith(v, n, val)
    <2>1. CASE \E x \in Value : FillCtor(v, n, x)
      BY <2>1 DEF FillCtor
    <2>2. CASE \E s \in [1 .. n -> Value] : RangeCtor(v, s)
      <3>1. PICK s \in [1 .. n -> Value] : RangeCtor(v, s)
        BY <2>2
      <3>2. Len(s) = n
        BY <1>0
      <3>. QED
        BY <3>1, <3>2 DEF RangeCtor
    <2>. QED
      BY <2>1, <2>2
  <1>. QED
    BY <1>0, <1>1, BuildClean

-----------------------------------------------------------------------------
LEMMA ReserveClean ==
  ASSUME NoWrap, Storage, NEW v \in Vec, NEW n \in Count, Reserve(v, n)
  PROVE  Clean
  <1>1. PICK m \in ReserveResults(v, n) : Commit(v, m, m.cells, size_[v], m.exc)
    BY DEF Reserve
  <1>2. Sound(v, m)
    BY ReserveSound
  <1>3. CASE m.exc # "none"
    BY <1>1, <1>2, <1>3, ThrownClean
  <1>4. CASE m.exc = "none"
    <2>1. outcome' = "none"
      BY <1>1, <1>4 DEF Commit
    <2>. QED
      BY <2>1, OtherClean
  <1>. QED
    BY <1>3, <1>4

LEMMA ResizeClean ==
  ASSUME NoWrap, IInv, NEW v \in Vec, NEW n \in Count, NEW x, Resize(v, n, x)
  PROVE  Clean
  <1>1. CASE n > size_[v]
    <2>1. PICK m \in ReserveResults(v, n) :
            \/ GiveUp(v, m)
            \/ \E w \in WriteResults(m.heap, m.cells, m.arr, size_[v],
                                     m.capacity, All(x)) :
                 Commit(v, m, w.cells, w.done, w.exc)
      BY <1>1, Types, VectorAssumption DEF Resize
    <2>2. Sound(v, m)
      BY HasStorage, ReserveSound
    <2>3. CASE GiveUp(v, m)
      BY <2>2, <2>3, HasStorage, ThrownClean DEF GiveUp
    <2>4. CASE \E w \in WriteResults(m.heap, m.cells, m.arr, size_[v],
                                     m.capacity, All(x)) :
                 Commit(v, m, w.cells, w.done, w.exc)
      <3>1. size_[v] \in Nat /\ m.capacity \in Nat /\ m.capacity <= m.capacity
        BY <2>2, Types DEF Sound
      <3>. QED
        BY <2>2, <2>4, <3>1, LoopClean
    <2>. QED
      BY <2>1, <2>3, <2>4
  <1>2. CASE ~(n > size_[v])
    <2>1. outcome' = "none"
      BY <1>2 DEF Resize, Commit
    <2>. QED
      BY <2>1, OtherClean
  <1>. QED
    BY <1>1, <1>2

(* push_back is clean as long as the size is within the capacity. *)
LEMMA PushBackClean ==
  ASSUME NoWrap, Storage, NEW v \in Vec, NEW arg, PushBack(v, arg)
  PROVE  Clean \/ (size_[v] > capacity_[v] /\ outcome' \notin Refused)
  <1>0. size_[v] \in Nat /\ size_[v] + 1 \in Nat /\ capacity_[v] \in Nat
    BY StorageTypes
  <1>1. PICK m \in AppendResults(v) :
          \/ GiveUp(v, m)
          \/ /\ m.exc = "none"
             /\ \E w \in WriteResults(m.heap, m.cells, m.arr, size_[v], size_[v] + 1,
                                      All(Denotes(v, m, arg))) :
                  Commit(v, m, w.cells, size_[v] + 1, w.exc)
    BY DEF PushBack
  <1>2. /\ Sound(v, m)
        /\ m.exc = "none" /\ size_[v] <= capacity_[v] => size_[v] + 1 <= m.capacity
    BY AppendSound
  <1>3. CASE GiveUp(v, m)
    BY <1>2, <1>3, ThrownClean DEF GiveUp
  <1>4. CASE /\ m.exc = "none"
             /\ \E w \in WriteResults(m.heap, m.cells, m.arr, size_[v], size_[v] + 1,
                                      All(Denotes(v, m, arg))) :
                  Commit(v, m, w.cells, size_[v] + 1, w.exc)
    <2>1. PICK w \in WriteResults(m.heap, m.cells, m.arr, size_[v], size_[v] + 1,
                                  All(Denotes(v, m, arg))) :
            Commit(v, m, w.cells, size_[v] + 1, w.exc)
      BY <1>4
    <2>2. CASE size_[v] <= capacity_[v]
      BY <1>0, <1>2, <1>4, <2>1, <2>2, LoopClean
    <2>3. CASE ~(size_[v] <= capacity_[v])
      <3>1. w.exc \in {"none", "copy", "overrun"} /\ outcome' = w.exc
        BY <2>1 DEF WriteResults, Commit
      <3>. QED
        BY <1>0, <2>3, <3>1 DEF Refused
    <2>. QED
      BY <2>2, <2>3
  <1>. QED
    BY <1>1, <1>3, <1>4

LEMMA ThroughClean ==
  ASSUME IInv, NEW v \in Vec, NEW test, NEW i, test => i \in Nat /\ i + 1 <= size_[v],
         NEW x, NEW otherwise \in {"abort", "out_of_range"},
         Through(v, test, i, x, otherwise)
  PROVE  Clean
  <1>1. CASE test
    <2>1. PICK w \in WriteResults(heap, cells, arr_[v], i, i + 1, All(x)) :
            Commit(v, Same(v), w.cells, size_[v], w.exc)
      BY <1>1 DEF Through
    <2>2. /\ Same(v).heap = heap /\ Same(v).cells = cells
          /\ Same(v).arr = arr_[v] /\ Same(v).capacity = capacity_[v]
      BY DEF Same
    <2>3. i \in Nat /\ i + 1 \in Nat /\ i + 1 <= Same(v).capacity
      BY <1>1, <2>2, Types
    <2>4. w \in WriteResults(Same(v).heap, Same(v).cells, Same(v).arr, i, i + 1, All(x))
      BY <2>1, <2>2
    <2>. QED
      BY <2>1, <2>3, <2>4, HasStorage, SameSound, LoopClean
  <1>2. CASE ~test
    <2>1. outcome' = otherwise
      BY <1>2 DEF Through, Commit
    <2>. QED
      BY <2>1, OtherClean
  <1>. QED
    BY <1>1, <1>2

LEMMA AccessClean ==
  ASSUME IInv, NEW v \in Vec, NEW x,
         \/ \E i \in Count : At(v, i, x) \/ Index(v, i, x)
         \/ FrontElement(v, x) \/ BackElement(v, x)
  PROVE  Clean
  <1>0. size_[v] \in Nat
    BY Types
  <1>1. CASE \E i \in Count : At(v, i, x) \/ Index(v, i, x)
    <2>1. PICK i \in Nat : At(v, i, x) \/ Index(v, i, x)
      BY <1>1, VectorAssumption
    <2>2. size_[v] > i => i \in Nat /\ i + 1 <= size_[v]
      BY <1>0
    <2>3. CASE At(v, i, x)
      BY <2>2, <2>3, ThroughClean DEF At
    <2>4. CASE Index(v, i, x)
      BY <2>2, <2>4, ThroughClean DEF Index
    <2>. QED
      BY <2>1, <2>3, <2>4
  <1>2. CASE FrontElement(v, x)
    <2>1. ~Empty(v) => 0 \in Nat /\ 0 + 1 <= size_[v]
      BY <1>0 DEF Empty
    <2>. QED
      BY <1>2, <2>1, ThroughClean DEF FrontElement
  <1>3. CASE BackElement(v, x)
    <2>1. ~Empty(v) => size_[v] - 1 \in Nat /\ size_[v] - 1 + 1 <= size_[v]
      BY <1>0 DEF Empty
    <2>. QED
      BY <1>3, <2>1, ThroughClean DEF BackElement
  <1>. QED
    BY <1>1, <1>2, <1>3

(***************************************************************************)
(* assign is clean up to the capacity.  Above it the buffer is not scaled, *)
(* so memory cannot be refused, but the loop leaves the buffer.            *)
(***************************************************************************)
LEMMA AssignClean ==
  ASSUME NoWrap, Storage, NEW v \in Vec, NEW n \in Count, NEW arg, Assign(v, n, arg)
  PROVE  Clean \/ (n > capacity_[v] /\ outcome' \notin Refused)
  <1>0. n \in Nat /\ n * SizeOf < SizeMod /\ 0 \in Nat /\ capacity_[v] \in Nat
    BY StorageTypes, VectorAssumption DEF NoWrap
  <1>1. CASE n < capacity_[v]
    <2>1. PICK m \in ScaleResults(v, n) :
            \/ GiveUp(v, m)
            \/ /\ m.exc = "none"
               /\ \E w \in WriteResults(m.heap, m.cells, m.arr, 0, n,
                                        All(Denotes(v, m, arg))) :
                    Commit(v, m, w.cells, n, w.exc)
      BY <1>0, <1>1 DEF Assign
    <2>2. Sound(v, m) /\ (m.exc = "none" => m.capacity = n)
      BY <1>0, ScaleSound
    <2>3. CASE GiveUp(v, m)
      BY <2>2, <2>3, ThrownClean DEF GiveUp
    <2>4. CASE /\ m.exc = "none"
               /\ \E w \in WriteResults(m.heap, m.cells, m.arr, 0, n,
                                        All(Denotes(v, m, arg))) :
                    Commit(v, m, w.cells, n, w.exc)
      <3>1. n <= m.capacity
        BY <1>0, <2>2, <2>4
      <3>. QED
        BY <1>0, <2>2, <2>4, <3>1, LoopClean
    <2>. QED
      BY <2>1, <2>3, <2>4
  <1>2. CASE n >= capacity_[v]
    <2>1. PICK w \in WriteResults(heap, cells, arr_[v], 0, n,
                                  All(Denotes(v, Same(v), arg))) :
            Commit(v, Same(v), w.cells, size_[v], w.exc)
      BY <1>0, <1>2 DEF Assign
    <2>2. /\ Same(v).heap = heap /\ Same(v).cells = cells
          /\ Same(v).arr = arr_[v] /\ Same(v).capacity = capacity_[v]
      BY DEF Same
    <2>3. CASE n > capacity_[v]
      <3>1. w.exc \in {"none", "copy", "overrun"}
        BY <2>1 DEF WriteResults
      <3>2. outcome' = w.exc
        BY <2>1 DEF Commit
      <3>. QED
        BY <2>3, <3>1, <3>2 DEF Refused
    <2>4. CASE n = capacity_[v]
      <3>1. w \in WriteResults(Same(v).heap, Same(v).cells, Same(v).arr, 0, n,
                               All(Denotes(v, Same(v), arg)))
        BY <2>1, <2>2
      <3>2. n <= Same(v).capacity
        BY <1>0, <2>2, <2>4
      <3>. QED
        BY <1>0, <2>1, <3>1, <3>2, SameSound, LoopClean
    <2>. QED
      BY <1>0, <1>2, <2>3, <2>4
  <1>. QED
    BY <1>0, <1>1, <1>2

-----------------------------------------------------------------------------
LEMMA NextClean ==
  ASSUME NoWrap, IInv, Next
  PROVE  Clean \/ (AssignAbove /\ outcome' \notin Refused)
  <1>. PICK v \in Vec : Step(v)
    BY DEF Next
  <1>1. CASE DefaultCtor(v) \/ Destroy(v) \/ \E w \in Vec \ {v} : Swap(v, w)
    <2>1. outcome' = "none"
      BY <1>1 DEF DefaultCtor, Destroy, Swap
    <2>. QED
      BY <2>1, OtherClean
  <1>2. CASE Clear(v) \/ PopBack(v)
    <2>1. outcome' = "none"
      BY <1>2 DEF Clear, PopBack, Commit
    <2>. QED
      BY <2>1, OtherClean
  <1>3. CASE \E n \in Count, x \in Value : FillCtor(v, n, x)
    BY <1>3, HasStorage, CtorClean
  <1>4. CASE \E n \in Count : \E s \in [1 .. n -> Value] : RangeCtor(v, s)
    BY <1>4, HasStorage, CtorClean
  <1>5. CASE \E n \in Count : Reserve(v, n)
    BY <1>5, HasStorage, ReserveClean
  <1>6. CASE \E n \in Count, arg \in Argument(v) : Assign(v, n, arg)
    <2>1. PICK n \in Count, arg \in Argument(v) : Assign(v, n, arg)
      BY <1>6
    <2>2. Clean \/ (n > capacity_[v] /\ outcome' \notin Refused)
      BY <2>1, HasStorage, AssignClean
    <2>. QED
      BY <2>1, <2>2 DEF AssignAbove
  <1>7. CASE \E n \in Count, x \in Value : Resize(v, n, x)
    BY <1>7, ResizeClean
  <1>8. CASE \E arg \in Argument(v) : PushBack(v, arg)
    BY <1>8, HasStorage, Types, PushBackClean
  <1>9. CASE \E i \in Count, x \in Value : At(v, i, x) \/ Index(v, i, x)
    BY <1>9, AccessClean
  <1>10. CASE \E x \in Value : FrontElement(v, x) \/ BackElement(v, x)
    BY <1>10, AccessClean
  <1>. QED
    BY <1>1, <1>2, <1>3, <1>4, <1>5, <1>6, <1>7, <1>8, <1>9, <1>10 DEF Step

(***************************************************************************)
(* A call that is refused memory, by the contract of allocate or by        *)
(* realloc (vector.hpp:313-317), leaves the heap and every member of every *)
(* vector as they were.                                                    *)
(***************************************************************************)
THEOREM RefusalSafe == NoWrap => (Spec => RefusalChangesNothing)
  <1>. SUFFICES ASSUME NoWrap PROVE Spec => RefusalChangesNothing
    OBVIOUS
  <1>1. IInv /\ [Next]_vars =>
          [ outcome' \in {"runtime_error", "bad_alloc"} =>
              UNCHANGED <<heap, cells, alive, arr_, size_, capacity_, allocated_>> ]_vars
    BY NextClean DEF Clean, Refused, Members
  <1>. QED
    BY <1>1, Inductive, PTL DEF Spec, RefusalChangesNothing

(***************************************************************************)
(* No call writes outside a buffer but assign with a count above the       *)
(* capacity (vector.hpp:111-113): push_back, resize, the constructors and  *)
(* the element accesses end within it, whatever was reallocated before.    *)
(***************************************************************************)
THEOREM OverrunSafe == NoWrap => (Spec => OverrunOnlyByAssign)
  <1>. SUFFICES ASSUME NoWrap PROVE Spec => OverrunOnlyByAssign
    OBVIOUS
  <1>1. IInv /\ [Next]_vars =>
          [ outcome' = "overrun" => AssignAbove ]_vars
    BY NextClean DEF Clean
  <1>. QED
    BY <1>1, Inductive, PTL DEF Spec, OverrunOnlyByAssign
=============================================================================
