------------------------------- MODULE Vector -------------------------------
(***************************************************************************)
(* ft::vector<T, ft::allocator<T>> (include/vector.hpp:12-342 without      *)
(* insert and erase): objects that keep a buffer of the C heap, a size and *)
(* a capacity, and grow the buffer through their own allocator.            *)
(*                                                                         *)
(* An assignment to an element may throw (CopyMayThrow).  A call may be    *)
(* given, by reference, an element of the very vector it is made on        *)
(* (OwnIndex).  Assertions are compiled in.  When one fails, or an element *)
(* is written outside its buffer, the program is over: nothing can be said *)
(* of what it does next.                                                   *)
(***************************************************************************)
EXTENDS AllocatorOps, Sequences

CONSTANTS
  Vec,           \* the vectors
  Value,         \* the values an element can have
  Count,         \* the element counts and indices a client passes
  OwnIndex,      \* the elements a client passes by reference to their vector
  CopyMayThrow   \* TRUE: an assignment of elements may throw

ASSUME VectorAssumption ==
  /\ Count \subseteq Nat
  /\ OwnIndex \subseteq Nat

ASSUME VectorSwitches == CopyMayThrow \in BOOLEAN

Raw == "raw"    \* memory no value was assigned to
Dead == "dead"  \* an element that was destroyed

ASSUME CellAssumption == {Raw, Dead} \cap Value = {}

Cell == Value \cup {Raw, Dead}

VARIABLES
  heap,        \* the C heap
  cells,       \* what every block holds, element by element
  alive,       \* the vectors within their lifetime
  arr_,        \* the buffer of a vector
  size_,
  capacity_,
  allocated_,  \* the counter of the vector's own allocator, mem_
  outcome      \* how the last call ended

vars == <<heap, cells, alive, arr_, size_, capacity_, allocated_, outcome>>

Thrown == {"runtime_error", "bad_alloc", "copy", "out_of_range"}
Fatal == {"abort", "overrun"}

(* The elements the largest block, and a given block, have room for *)
MaxLen == HeapMax \div SizeOf
Room(h, p) == IF IsLive(h, p) THEN h[p] \div SizeOf ELSE 0

Blank == [i \in 0 .. MaxLen - 1 |-> Raw]

(* The loops of the class: assignments from .. to - 1, destructors alike *)
Written(cs, p, from, to, val) ==
  [b \in Block |-> IF b = p
     THEN [i \in 0 .. MaxLen - 1 |-> IF from <= i /\ i < to THEN val[i] ELSE cs[b][i]]
     ELSE cs[b]]

Killed(cs, p, from, to) ==
  Written(cs, p, from, to, [i \in 0 .. MaxLen - 1 |-> Dead])

(* Block p of heap h has become block q of heap hq, with what both can hold *)
Carried(cs, h, p, hq, q) ==
  [b \in Block |->
     IF b = q THEN [i \in 0 .. MaxLen - 1 |->
                      IF i < Room(h, p) /\ i < Room(hq, q) THEN cs[p][i] ELSE Raw]
     ELSE IF b = p THEN Blank
     ELSE cs[b]]

(***************************************************************************)
(* for (i = from; i < to; ++i) arr_[i] = val[i]: the ways the loop ends.   *)
(* done is the index it stopped at.  The element whose assignment throws   *)
(* keeps what it held.                                                     *)
(***************************************************************************)
WriteResults(h, cs, p, from, to, val) ==
  LET room == Room(h, p)
      Upto(k, exc) ==
        [exc |-> exc, done |-> k, cells |-> Written(cs, p, from, k, val)]
  IN  { IF to <= from THEN Upto(from, "none")
        ELSE IF to <= room THEN Upto(to, "none")
        ELSE Upto(room, "overrun") }
      \cup { Upto(k, "copy") : k \in { i \in from .. to - 1 :
                                         CopyMayThrow /\ i < room } }

(* A call's effect on the storage of v, before it touches an element *)
Same(v) ==
  [exc |-> "none", heap |-> heap, cells |-> cells, arr |-> arr_[v],
   capacity |-> capacity_[v], allocated |-> allocated_[v]]

(* Mutant: capacity_ is set before the allocation that may throw. *)
ScaleResultsEager(v, n) ==
  { [exc |-> r.exc, heap |-> r.heap, arr |-> r.mem, capacity |-> n,
     allocated |-> r.allocated,
     cells |-> IF r.exc = "none"
                 THEN Carried(cells, heap, arr_[v], r.heap, r.mem) ELSE cells] :
    r \in AllocateResults(allocated_[v], heap, arr_[v], n) }

(* Mutant: a new buffer is taken, the old one is not given back. *)
ScaleResultsFresh(v, n) ==
  { IF r.exc = "none"
      THEN [exc |-> "none", heap |-> r.heap, arr |-> r.mem,
            capacity |-> n, allocated |-> r.allocated, cells |-> cells]
      ELSE [Same(v) EXCEPT !.exc = r.exc] :
    r \in AllocateResults(allocated_[v], heap, NULL, n) }

(***************************************************************************)
(* scale_capacity_(n), vector.hpp:313-317: the assertion, the call of      *)
(* allocate with arr_ as the hint, and capacity_ only after it returned.   *)
(* A block that realloc moved or freed takes its elements along.           *)
(***************************************************************************)
ScaleResults(v, n) ==
  IF n = 0
    THEN { [Same(v) EXCEPT !.exc = "abort"] }
    ELSE { IF r.exc = "none"
             THEN [exc |-> "none", heap |-> r.heap, arr |-> r.mem,
                   capacity |-> n, allocated |-> r.allocated,
                   cells |-> Carried(cells, heap, arr_[v], r.heap, r.mem)]
             ELSE [Same(v) EXCEPT
                     !.exc = r.exc, !.heap = r.heap,
                     !.cells = [b \in Block |-> IF r.heap[b] = heap[b]
                                                  THEN cells[b] ELSE Blank]] :
           r \in AllocateResults(allocated_[v], heap, arr_[v], n) }

(* grow_capacity_(), vector.hpp:319-322 *)
GrowResults(v) == ScaleResults(v, (2 * size_[v] + 1) % SizeMod)

(* Mutant: the buffer grows on every call. *)
AppendResultsAlways(v) == GrowResults(v)

(* Mutant: the buffer grows one element too late. *)
AppendResultsLate(v) == IF size_[v] > capacity_[v] THEN GrowResults(v) ELSE { Same(v) }

(* The storage for one more element, vector.hpp:243-245 *)
AppendResults(v) == IF size_[v] = capacity_[v] THEN GrowResults(v) ELSE { Same(v) }

(* if (n > capacity_) scale_capacity_(n), as in reserve and resize *)
ReserveResults(v, n) == IF n > capacity_[v] THEN ScaleResults(v, n) ELSE { Same(v) }

(* The call ends with effect m on the storage, these cells and this size. *)
Commit(v, m, cs, size, exc) ==
  /\ heap' = m.heap
  /\ cells' = cs
  /\ arr_' = [arr_ EXCEPT ![v] = m.arr]
  /\ size_' = [size_ EXCEPT ![v] = size]
  /\ capacity_' = [capacity_ EXCEPT ![v] = m.capacity]
  /\ allocated_' = [allocated_ EXCEPT ![v] = m.allocated]
  /\ outcome' = exc
  /\ UNCHANGED alive

(* The storage could not be had: the exception leaves the call. *)
GiveUp(v, m) == m.exc # "none" /\ Commit(v, m, m.cells, size_[v], m.exc)

-----------------------------------------------------------------------------
(***************************************************************************)
(* The value a reference argument denotes once arr_[v] is m.arr.  A value  *)
(* of the client's own is not affected.  A reference to element i of v is  *)
(* a pointer into the old buffer: it still finds the element if the buffer *)
(* stayed where it was and still has room for it, and freed memory if not. *)
(***************************************************************************)
Own == { <<i>> : i \in OwnIndex }
Argument(v) == Value \cup { a \in Own : a[1] < size_[v] }

Denotes(v, m, arg) ==
  IF arg \in Value THEN arg
  ELSE IF m.arr = arr_[v] /\ arg[1] < Room(m.heap, m.arr) THEN m.cells[m.arr][arg[1]]
  ELSE Raw

All(x) == [i \in 0 .. MaxLen - 1 |-> x]

-----------------------------------------------------------------------------
Init ==
  /\ heap = [b \in Block |-> Free]
  /\ cells = [b \in Block |-> Blank]
  /\ alive = {}
  /\ arr_ = [v \in Vec |-> NULL]
  /\ size_ = [v \in Vec |-> 0]
  /\ capacity_ = [v \in Vec |-> 0]
  /\ allocated_ = [v \in Vec |-> 0]
  /\ outcome = "none"

(* What can be called, unless the program is over *)
Unmade(v) == v \notin alive /\ outcome \notin Fatal
Callable(v) == v \in alive /\ outcome \notin Fatal

(* vector(), vector.hpp:27, and the constructors below given 0 elements *)
DefaultCtor(v) ==
  /\ Unmade(v)
  /\ alive' = alive \cup {v}
  /\ outcome' = "none"
  /\ UNCHANGED <<heap, cells, arr_, size_, capacity_, allocated_>>

(***************************************************************************)
(* The constructors that fill n elements with val, from a fresh mem_.  An  *)
(* exception of allocate or of an element leaves no vector; since mem_ has *)
(* no list of its blocks, the buffer of the latter is lost.                *)
(***************************************************************************)
BuildWith(v, n, val) ==
  /\ Unmade(v)
  /\ \E r \in AllocateResults(0, heap, NULL, n) :
       /\ heap' = r.heap
       /\ \/ /\ r.exc # "none"
             /\ outcome' = r.exc
             /\ UNCHANGED <<cells, alive, arr_, size_, capacity_, allocated_>>
          \/ /\ r.exc = "none"
             /\ \E w \in WriteResults(r.heap, cells, r.mem, 0, n, val) :
                  /\ cells' = w.cells
                  /\ outcome' = w.exc
                  /\ IF w.exc # "copy"
                       THEN /\ alive' = alive \cup {v}
                            /\ arr_' = [arr_ EXCEPT ![v] = r.mem]
                            /\ size_' = [size_ EXCEPT ![v] = n]
                            /\ capacity_' = [capacity_ EXCEPT ![v] = n]
                            /\ allocated_' = [allocated_ EXCEPT ![v] = r.allocated]
                       ELSE UNCHANGED <<alive, arr_, size_, capacity_, allocated_>>

(* vector(count, value), vector.hpp:56-63 *)
FillCtor(v, n, x) == n > 0 /\ BuildWith(v, n, All(x))

(* vector(begin, end), vector.hpp:71-82, from a range that can be read twice *)
RangeCtor(v, s) ==
  Len(s) > 0 /\ BuildWith(v, Len(s), [i \in 0 .. Len(s) - 1 |-> s[i + 1]])

(***************************************************************************)
(* ~vector(), vector.hpp:43: clear(), and no call of deallocate.  The      *)
(* members end with the object.                                            *)
(***************************************************************************)
Destroy(v) ==
  /\ Callable(v)
  /\ cells' = Killed(cells, arr_[v], 0, size_[v])
  /\ alive' = alive \ {v}
  /\ arr_' = [arr_ EXCEPT ![v] = NULL]
  /\ size_' = [size_ EXCEPT ![v] = 0]
  /\ capacity_' = [capacity_ EXCEPT ![v] = 0]
  /\ allocated_' = [allocated_ EXCEPT ![v] = 0]
  /\ outcome' = "none"
  /\ UNCHANGED heap

(* Mutant: no comparison with the capacity there is. *)
ReserveAlways(v, n) ==
  /\ Callable(v)
  /\ \E m \in ScaleResults(v, n) : Commit(v, m, m.cells, size_[v], m.exc)

(* reserve(n), vector.hpp:99-103 *)
Reserve(v, n) ==
  /\ Callable(v)
  /\ \E m \in ReserveResults(v, n) : Commit(v, m, m.cells, size_[v], m.exc)

(***************************************************************************)
(* assign(n, value), vector.hpp:106-114.  Below the capacity the buffer is *)
(* cut down to n first and size_ is set; from the capacity on neither      *)
(* changes and the loop runs on past the end of the buffer.                *)
(***************************************************************************)
Assign(v, n, arg) ==
  /\ Callable(v)
  /\ \/ /\ n < capacity_[v]
        /\ \E m \in ScaleResults(v, n) :
             \/ GiveUp(v, m)
             \/ /\ m.exc = "none"
                /\ \E w \in WriteResults(m.heap, m.cells, m.arr, 0, n,
                                         All(Denotes(v, m, arg))) :
                     Commit(v, m, w.cells, n, w.exc)
     \/ /\ n >= capacity_[v]
        /\ \E w \in WriteResults(heap, cells, arr_[v], 0, n,
                                 All(Denotes(v, Same(v), arg))) :
             Commit(v, Same(v), w.cells, size_[v], w.exc)

(* Mutant: the elements are destroyed, the size is not reset. *)
ClearKeepingSize(v) ==
  /\ Callable(v)
  /\ Commit(v, Same(v), Killed(cells, arr_[v], 0, size_[v]), size_[v], "none")

(* Mutant: the size is reset, the elements are not destroyed. *)
ClearForgetting(v) ==
  /\ Callable(v)
  /\ Commit(v, Same(v), cells, 0, "none")

(* clear(), vector.hpp:116-121 *)
Clear(v) ==
  /\ Callable(v)
  /\ Commit(v, Same(v), Killed(cells, arr_[v], 0, size_[v]), 0, "none")

(* Mutant: size_ is raised before the loop, not by it. *)
ResizeEager(v, n, x) ==
  /\ Callable(v)
  /\ n > size_[v]
  /\ \E m \in ReserveResults(v, n) :
       \/ m.exc # "none" /\ Commit(v, m, m.cells, n, m.exc)
       \/ /\ m.exc = "none"
          /\ \E w \in WriteResults(m.heap, m.cells, m.arr, size_[v], n, All(x)) :
               Commit(v, m, w.cells, n, w.exc)

(***************************************************************************)
(* resize(n, value), vector.hpp:217-232.  value is a copy.  The loop that  *)
(* adds elements counts with size_ itself, a reference to it, and runs up  *)
(* to the capacity, not to n; the loop that removes them destroys them.    *)
(***************************************************************************)
Resize(v, n, x) ==
  /\ Callable(v)
  /\ \/ n = size_[v] /\ Commit(v, Same(v), cells, size_[v], "none")
     \/ /\ n > size_[v]
        /\ \E m \in ReserveResults(v, n) :
             \/ GiveUp(v, m)
             \/ /\ m.exc = "none"
                /\ \E w \in WriteResults(m.heap, m.cells, m.arr, size_[v],
                                         m.capacity, All(x)) :
                     Commit(v, m, w.cells, w.done, w.exc)
     \/ /\ n < size_[v]
        /\ Commit(v, Same(v), Killed(cells, arr_[v], n, size_[v]), n, "none")

(* Mutant: one of the two buffers is taken twice. *)
SwapOneWay(v, w) ==
  /\ Callable(v) /\ Callable(w)
  /\ arr_' = [arr_ EXCEPT ![v] = arr_[w]]
  /\ capacity_' = [capacity_ EXCEPT ![v] = capacity_[w]]
  /\ size_' = [size_ EXCEPT ![v] = size_[w]]
  /\ outcome' = "none"
  /\ UNCHANGED <<heap, cells, alive, allocated_>>

(* Mutant: size_ is forgotten. *)
SwapWithoutSize(v, w) ==
  /\ Callable(v) /\ Callable(w)
  /\ arr_' = [arr_ EXCEPT ![v] = arr_[w], ![w] = arr_[v]]
  /\ capacity_' = [capacity_ EXCEPT ![v] = capacity_[w], ![w] = capacity_[v]]
  /\ outcome' = "none"
  /\ UNCHANGED <<heap, cells, alive, allocated_, size_>>

(* swap(other), vector.hpp:234-238: everything but mem_ *)
Swap(v, w) ==
  /\ Callable(v) /\ Callable(w)
  /\ arr_' = [arr_ EXCEPT ![v] = arr_[w], ![w] = arr_[v]]
  /\ capacity_' = [capacity_ EXCEPT ![v] = capacity_[w], ![w] = capacity_[v]]
  /\ size_' = [size_ EXCEPT ![v] = size_[w], ![w] = size_[v]]
  /\ outcome' = "none"
  /\ UNCHANGED <<heap, cells, alive, allocated_>>

(***************************************************************************)
(* push_back(value), vector.hpp:242-247.  size_ has been incremented when  *)
(* the assignment runs, so an element that throws counts all the same.     *)
(***************************************************************************)
PushBack(v, arg) ==
  /\ Callable(v)
  /\ \E m \in AppendResults(v) :
       \/ GiveUp(v, m)
       \/ /\ m.exc = "none"
          /\ \E w \in WriteResults(m.heap, m.cells, m.arr, size_[v], size_[v] + 1,
                                   All(Denotes(v, m, arg))) :
               Commit(v, m, w.cells, size_[v] + 1, w.exc)

(* empty(), vector.hpp:89 *)
Empty(v) == arr_[v] = NULL \/ size_[v] = 0

(* Mutant: the test for an empty vector is missing. *)
PopBackUnguarded(v) ==
  /\ Callable(v)
  /\ Commit(v, Same(v), cells, size_[v] - 1, "none")

(* pop_back(), vector.hpp:249-253: the element is not destroyed *)
PopBack(v) ==
  /\ Callable(v)
  /\ Commit(v, Same(v), cells, IF Empty(v) THEN 0 ELSE size_[v] - 1, "none")

-----------------------------------------------------------------------------
(* x is written through the reference to element i, if the test lets it *)
Through(v, test, i, x, otherwise) ==
  /\ Callable(v)
  /\ \/ /\ test
        /\ \E w \in WriteResults(heap, cells, arr_[v], i, i + 1, All(x)) :
             Commit(v, Same(v), w.cells, size_[v], w.exc)
     \/ /\ ~test
        /\ Commit(v, Same(v), cells, size_[v], otherwise)

(* at(i), vector.hpp:258-272 *)
At(v, i, x) == Through(v, size_[v] > i, i, x, "out_of_range")

(* front(), vector.hpp:275-289 *)
FrontElement(v, x) == Through(v, ~Empty(v), 0, x, "out_of_range")

(* back(), vector.hpp:292-306 *)
BackElement(v, x) == Through(v, ~Empty(v), size_[v] - 1, x, "out_of_range")

(* operator[](i), vector.hpp:335-338 *)
Index(v, i, x) == Through(v, size_[v] > i, i, x, "abort")

-----------------------------------------------------------------------------
Step(v) ==
  \/ DefaultCtor(v)
  \/ \E n \in Count, x \in Value : FillCtor(v, n, x)
  \/ \E n \in Count : \E s \in [1 .. n -> Value] : RangeCtor(v, s)
  \/ Destroy(v)
  \/ \E n \in Count : Reserve(v, n)
  \/ \E n \in Count, arg \in Argument(v) : Assign(v, n, arg)
  \/ Clear(v)
  \/ \E n \in Count, x \in Value : Resize(v, n, x)
  \/ \E w \in Vec \ {v} : Swap(v, w)
  \/ \E arg \in Argument(v) : PushBack(v, arg)
  \/ PopBack(v)
  \/ \E i \in Count, x \in Value : At(v, i, x) \/ Index(v, i, x)
  \/ \E x \in Value : FrontElement(v, x) \/ BackElement(v, x)

Next == \E v \in Vec : Step(v)

Spec == Init /\ [][Next]_vars

-----------------------------------------------------------------------------
TypeOK ==
  /\ heap \in Heaps
  /\ cells \in [Block -> [0 .. MaxLen - 1 -> Cell]]
  /\ alive \subseteq Vec
  /\ arr_ \in [Vec -> Block \cup {NULL}]
  /\ size_ \in [Vec -> Nat]
  /\ capacity_ \in [Vec -> Nat]
  /\ allocated_ \in [Vec -> 0 .. SizeMod - 1]
  /\ outcome \in {"none"} \cup Thrown \cup Fatal

(***************************************************************************)
(* size_, capacity_ and arr_ never disagree, whatever threw in between and *)
(* whatever was swapped: the buffer is live and has exactly capacity_      *)
(* elements, the size is at most that, and a vector without a buffer has   *)
(* no capacity (vector.hpp:89 relies on it).                               *)
(***************************************************************************)
BufferFits ==
  \A v \in Vec :
    /\ size_[v] <= capacity_[v]
    /\ IF arr_[v] = NULL THEN capacity_[v] = 0
                         ELSE heap[arr_[v]] = capacity_[v] * SizeOf

(* No two vectors share a buffer, so no call on one can disturb another. *)
BuffersDisjoint ==
  \A v, w \in Vec : v # w /\ arr_[v] # NULL => arr_[v] # arr_[w]

(***************************************************************************)
(* Every element below size_ holds a value: no call leaves a vector with   *)
(* an element that was never assigned, or was destroyed, or was read from  *)
(* freed memory.  True if assignments do not throw and no call is given an *)
(* element of its own vector by reference.                                 *)
(***************************************************************************)
Element(v, i) == IF i < Room(heap, arr_[v]) THEN cells[arr_[v]][i] ELSE Raw

Initialised(v) == \A i \in 0 .. size_[v] - 1 : Element(v, i) \in Value

AllInitialised == \A v \in Vec : Initialised(v)

(***************************************************************************)
(* A call refused memory (vector.hpp:315 throws) has no effect: same       *)
(* buffer, same elements, same size, same capacity, same account.          *)
(***************************************************************************)
RefusalChangesNothing ==
  [][ outcome' \in {"runtime_error", "bad_alloc"} =>
        UNCHANGED <<heap, cells, alive, arr_, size_, capacity_, allocated_>> ]_vars

(***************************************************************************)
(* The capacity of a vector never shrinks but by assign or swap: not by    *)
(* reserve with less (tests/vector/vector_ctor.cpp:94-96), by pop_back     *)
(* (:172-176), by clear or by resize (:101-103).                           *)
(***************************************************************************)
CapacityKept ==
  [][ \A v \in alive \cap alive' :
        capacity_'[v] < capacity_[v] =>
          \/ \E n \in Count, arg \in Argument(v) : Assign(v, n, arg)
          \/ \E w \in Vec \ {v} : Swap(v, w) \/ Swap(w, v) ]_vars

(***************************************************************************)
(* No call but the destructor (vector.hpp:43) loses a buffer: what a       *)
(* vector owned is owned by a vector afterwards, or was given back.        *)
(***************************************************************************)
BufferNeverLost ==
  [][ \A v \in alive :
        /\ IsLive(heap, arr_[v])
        /\ IsLive(heap', arr_[v])
        /\ ~ \E w \in alive' : arr_'[w] = arr_[v]
        => Destroy(v) ]_vars

(* Assign with a count above the capacity of its vector *)
AssignAbove ==
  \E v \in Vec, n \in Count :
    n > capacity_[v] /\ \E arg \in Argument(v) : Assign(v, n, arg)

(***************************************************************************)
(* The only call that can write outside a buffer is assign with a count    *)
(* above the capacity (vector.hpp:111-113).                                *)
(***************************************************************************)
OverrunOnlyByAssign ==
  [][ outcome' = "overrun" => AssignAbove ]_vars

(***************************************************************************)
(* Wherever the assignment of an element throws, resize (vector.hpp:224,   *)
(* whose loop counts with size_) and the assignments through at, front,    *)
(* back and operator[] leave no element without a value.  push_back, whose *)
(* size_ is ahead of the assignment, and assign, which sets size_ before   *)
(* its loop, are not among them.                                           *)
(***************************************************************************)
ThrowLeavesNoGap ==
  [][ outcome' = "copy" =>
        \A v \in alive \cap alive' :
          /\ Initialised(v)
          /\ \E x \in Value :
               \/ FrontElement(v, x) \/ BackElement(v, x)
               \/ \E n \in Count : Resize(v, n, x) \/ At(v, n, x) \/ Index(v, n, x)
          => Initialised(v)' ]_vars

(***************************************************************************)
(* A call given an element of its own vector by reference makes copies of  *)
(* that element, if it does not scale the buffer: push_back with capacity  *)
(* to spare, and assign of as many elements as the capacity.  (Where the   *)
(* buffer is scaled the reference may be stale when line 246 or 111 reads  *)
(* it.)  What push_back added is the last element afterwards.              *)
(***************************************************************************)
OwnElementCopied ==
  [][ \A v \in alive, own \in Own :
        /\ own[1] < size_[v]
        /\ outcome' = "none"
        => /\ PushBack(v, own) /\ size_[v] < capacity_[v] =>
                Element(v, size_[v] - 1)' = Element(v, own[1])
           /\ Assign(v, capacity_[v], own) =>
                \A i \in 0 .. capacity_[v] - 1 : Element(v, i)' = Element(v, own[1]) ]_vars

(***************************************************************************)
(* clear, resize and the destructor destroy the elements below size_ and   *)
(* no others, so an element that lives at or above it is never destroyed.  *)
(* Only pop_back (vector.hpp:251) leaves such elements, and assign from    *)
(* the capacity on (vector.hpp:107), which fills a buffer without counting *)
(* its elements: no other call, a throwing one included.                   *)
(***************************************************************************)
NoneBeyondSize ==
  \A v \in alive : \A i \in size_[v] .. Room(heap, arr_[v]) - 1 :
    cells[arr_[v]][i] \notin Value

ForgottenOnlyByPopBack ==
  [][ NoneBeyondSize /\ ~NoneBeyondSize' =>
        \E v \in Vec :
          \/ PopBack(v)
          \/ \E n \in Count, arg \in Argument(v) : n >= capacity_[v] /\ Assign(v, n, arg) ]_vars

(***************************************************************************)
(* tests/vector/vector_ctor.cpp:104-105 and 126-127: after resize(n) the   *)
(* size is n.  The tests only ask for n = capacity().                      *)
(***************************************************************************)
ResizeExact ==
  [][ \A v \in Vec, n \in Count, x \in Value :
        Resize(v, n, x) /\ outcome' = "none" => size_'[v] = n ]_vars

(***************************************************************************)
(* The comment of vector.hpp:105: assign is equivalent to the constructor  *)
(* vector(count, value), so the vector then has count elements.            *)
(***************************************************************************)
AssignLikeCtor ==
  [][ \A v \in Vec, n \in Count, x \in Value :
        Assign(v, n, x) /\ outcome' = "none" => size_'[v] = n ]_vars

(***************************************************************************)
(* The assertion of vector.hpp:314, new_cap != 0, holds in every call that *)
(* scales the buffer.                                                      *)
(***************************************************************************)
NewCapNotZero ==
  [][ \A v \in Vec, n \in Count, x \in Value :
        Reserve(v, n) \/ Assign(v, n, x) \/ Resize(v, n, x) \/ PushBack(v, x) =>
          outcome' # "abort" ]_vars
=============================================================================
