-------------------------- MODULE VectorSeqProofs --------------------------
(***************************************************************************)
(* What a client sees of a vector, for every number of vectors and every   *)
(* element size: a sequence of values, which every call changes the way    *)
(* SeqContainer says.  No call but assign and swap costs capacity, no call *)
(* but the destructor loses a buffer, no element that throws half way      *)
(* leaves a gap, and only pop_back and assign forget an element.           *)
(*                                                                         *)
(* The invariant is the one of VectorProofs.  What is added here is what   *)
(* scale_capacity_ does to the contents (Keeps): the buffer it leaves      *)
(* holds what the old one held, as far as both reach, the buffers of all   *)
(* other vectors hold what they did, and an old buffer was given back.     *)
(***************************************************************************)
EXTENDS VectorStepProofs, VectorAsSeq

Keeps(v, m) ==
  /\ \A i \in 0 .. MaxLen - 1 :
       i < capacity_[v] /\ i < m.capacity => m.cells[m.arr][i] = cells[arr_[v]][i]
  /\ \A w \in Vec : w # v /\ arr_[w] # NULL => m.cells[arr_[w]] = cells[arr_[w]]
  /\ m.arr # arr_[v] /\ arr_[v] # NULL => m.heap[arr_[v]] = Free

(* The buffer a vector has is as large as its capacity. *)
LEMMA OwnRoom ==
  ASSUME Storage, NEW v \in Vec
  PROVE  Room(heap, arr_[v]) = capacity_[v]
  <1>1. Room(Same(v).heap, Same(v).arr) = Same(v).capacity
    BY SameSound, SoundRoom
  <1>. QED
    BY <1>1 DEF Same

LEMMA SameKeeps ==
  ASSUME NEW v \in Vec
  PROVE  Keeps(v, Same(v))
  BY DEF Keeps, Same

LEMMA ScaleKeeps ==
  ASSUME Storage, NEW v \in Vec, NEW n \in Nat, n * SizeOf < SizeMod,
         NEW m \in ScaleResults(v, n)
  PROVE  Keeps(v, m)
  <1>s. Sound(v, m)
    BY ScaleSound
  <1>1. CASE m.exc # "none"
    BY <1>1, <1>s DEF Sound, Keeps
  <1>2. CASE m.exc = "none"
    <2>0. n # 0
      BY <1>2 DEF ScaleResults, Same
    <2>1. PICK r \in AllocateResults(allocated_[v], heap, arr_[v], n) :
            m = IF r.exc = "none"
                  THEN [exc |-> "none", heap |-> r.heap, arr |-> r.mem,
                        capacity |-> n, allocated |-> r.allocated,
                        cells |-> Carried(cells, heap, arr_[v], r.heap, r.mem)]
                  ELSE [Same(v) EXCEPT
                          !.exc = r.exc, !.heap = r.heap,
                          !.cells = [b \in Block |-> IF r.heap[b] = heap[b]
                                                       THEN cells[b] ELSE Blank]]
      BY <2>0 DEF ScaleResults
    <2>2. r.exc = "none"
      BY <1>2, <2>1 DEF Same
    <2>3. /\ m.heap = r.heap /\ m.arr = r.mem
          /\ m.cells = Carried(cells, heap, arr_[v], r.heap, r.mem)
      BY <2>1, <2>2
    <2>4. r.mem \in Block /\ r.heap = Grant(heap, arr_[v], r.mem, Footprint(n))
      <3>1. \A q \in AllocateResults(allocated_[v], heap, arr_[v], n) :
              Ends(allocated_[v], heap, arr_[v], n, q)
        BY StorageTypes, AllocateFacts
      <3>. QED
        BY <2>2, <3>1 DEF Ends
    <2>5. Room(heap, arr_[v]) = capacity_[v] /\ Room(r.heap, r.mem) = m.capacity
      BY <1>s, <2>3, OwnRoom, SoundRoom
    <2>6. ASSUME NEW i \in 0 .. MaxLen - 1, i < capacity_[v], i < m.capacity
          PROVE  m.cells[m.arr][i] = cells[arr_[v]][i]
      BY <2>3, <2>4, <2>5, <2>6 DEF Carried
    <2>7. ASSUME NEW w \in Vec, w # v, arr_[w] # NULL
          PROVE  m.cells[arr_[w]] = cells[arr_[w]]
      <3>1. arr_[w] \in Block /\ arr_[w] # arr_[v] /\ arr_[w] # r.mem
        BY <1>s, <2>3, <2>7, StorageTypes DEF Sound
      <3>. QED
        BY <2>3, <3>1 DEF Carried
    <2>8. ASSUME m.arr # arr_[v], arr_[v] # NULL
          PROVE  m.heap[arr_[v]] = Free
      BY <2>3, <2>4, <2>8, StorageTypes DEF Grant
    <2>. QED
      BY <2>6, <2>7, <2>8 DEF Keeps
  <1>. QED
    BY <1>1, <1>2

LEMMA AppendKeeps ==
  ASSUME NoWrap, IInv, NEW v \in Vec, NEW m \in AppendResults(v)
  PROVE  /\ Sound(v, m) /\ Keeps(v, m)
         /\ m.exc = "none" => size_[v] + 1 <= m.capacity /\ capacity_[v] <= m.capacity
  <1>1. Sound(v, m) /\ (m.exc = "none" => size_[v] + 1 <= m.capacity)
    BY HasStorage, AppendSound
  <1>2. CASE size_[v] = capacity_[v]
    <2>1. size_[v] * SizeOf <= HeapMax
      <3>1. CASE arr_[v] = NULL
        BY <1>2, <3>1, Types, SizeAssumption, HeapAssumption
      <3>2. CASE arr_[v] # NULL
        BY <1>2, <3>2, Types DEF Heaps
      <3>. QED
        BY <3>1, <3>2
    <2>2. size_[v] \in Nat /\ 2 * size_[v] + 1 \in Nat
      BY Types
    <2>3. m \in ScaleResults(v, 2 * size_[v] + 1) /\ (2 * size_[v] + 1) * SizeOf < SizeMod
      BY <1>2, <2>1, <2>2, GrowthFits DEF AppendResults, GrowResults
    <2>4. Keeps(v, m)
      BY <2>2, <2>3, HasStorage, ScaleKeeps
    <2>. QED
      BY <1>1, <1>2, <2>2, <2>4, Types DEF Sound
  <1>3. CASE size_[v] # capacity_[v]
    <2>1. m = Same(v)
      BY <1>3 DEF AppendResults
    <2>2. Same(v).capacity = capacity_[v]
      BY DEF Same
    <2>. QED
      BY <1>1, <2>1, <2>2, SameKeeps, Types
  <1>. QED
    BY <1>2, <1>3

LEMMA RoomKeeps ==
  ASSUME Storage, NEW v \in Vec, NEW n \in Nat, n * SizeOf < SizeMod,
         NEW m \in ReserveResults(v, n)
  PROVE  /\ Sound(v, m) /\ Keeps(v, m)
         /\ m.exc = "none" => n <= m.capacity
         /\ capacity_[v] <= m.capacity
  <1>1. Keeps(v, m)
    BY ScaleKeeps, SameKeeps DEF ReserveResults
  <1>. QED
    BY <1>1, RoomSound

LEMMA ReserveKeeps ==
  ASSUME NoWrap, IInv, NEW v \in Vec, NEW n \in Count, NEW m \in ReserveResults(v, n)
  PROVE  /\ Sound(v, m) /\ Keeps(v, m)
         /\ m.exc = "none" => n <= m.capacity /\ capacity_[v] <= m.capacity
  <1>1. n \in Nat /\ n * SizeOf < SizeMod
    BY VectorAssumption DEF NoWrap
  <1>. QED
    BY <1>1, HasStorage, RoomKeeps
-----------------------------------------------------------------------------
(* What a loop of assignments that do not throw leaves behind *)
LEMMA LoopEnds ==
  ASSUME ~CopyMayThrow, NEW h, NEW cs, NEW p, NEW from \in Nat, NEW to \in Nat,
         NEW val, NEW w \in WriteResults(h, cs, p, from, to, val)
  PROVE  /\ w.cells = Written(cs, p, from, w.done, val)
         /\ to <= from => w.done = from
         /\ ~(to <= from) /\ to <= Room(h, p) => w.done = to
         /\ ~(to <= from) /\ ~(to <= Room(h, p)) => w.done = Room(h, p)
         /\ w.exc \in {"none", "overrun"}
  BY DEF WriteResults

LEMMA LoopRuns ==
  ASSUME ~CopyMayThrow, NEW h, NEW cs, NEW p, NEW from \in Nat, NEW to \in Nat,
         NEW val, NEW w \in WriteResults(h, cs, p, from, to, val),
         from <= to, to <= Room(h, p)
  PROVE  w.cells = Written(cs, p, from, to, val) /\ w.done = to
  <1>1. /\ w.cells = Written(cs, p, from, w.done, val)
        /\ to <= from => w.done = from
        /\ ~(to <= from) => w.done = to
    BY LoopEnds
  <1>2. w.done = to
    BY <1>1
  <1>. QED
    BY <1>1, <1>2

LEMMA WrittenNothing ==
  ASSUME NEW cs \in Cells, NEW p, NEW from \in Int, NEW val
  PROVE  Written(cs, p, from, from, val) = cs
  <1>1. ASSUME NEW b \in Block
        PROVE  [i \in 0 .. MaxLen - 1 |-> IF from <= i /\ i < from THEN val[i] ELSE cs[b][i]]
                 = cs[b]
    <2>1. cs[b] \in [0 .. MaxLen - 1 -> Cell]
      BY DEF Cells
    <2>2. \A i \in 0 .. MaxLen - 1 : ~(from <= i /\ i < from)
      OBVIOUS
    <2>. QED
      BY <2>1, <2>2
  <1>2. cs = [b \in Block |-> cs[b]]
    BY DEF Cells
  <1>. QED
    BY <1>1, <1>2 DEF Written

(* The elements of a vector are what its buffer holds. *)
LEMMA ElementsNow ==
  ASSUME IInv, NEW v \in Vec
  PROVE  /\ Elements(v) = [i \in 1 .. size_[v] |-> cells[arr_[v]][i - 1]]
         /\ Elements(v) \in Seq(Cell)
         /\ Len(Elements(v)) = size_[v]
  <1>1. ASSUME NEW i \in 1 .. size_[v]
        PROVE  Element(v, i - 1) = cells[arr_[v]][i - 1] /\ cells[arr_[v]][i - 1] \in Cell
    <2>1. i - 1 < capacity_[v] /\ i - 1 \in Nat /\ arr_[v] \in Block
      BY Types
    <2>2. Room(heap, arr_[v]) = capacity_[v] /\ capacity_[v] \in Nat
      BY HasStorage, OwnRoom, Types
    <2>3. capacity_[v] <= MaxLen /\ MaxLen \in Nat
      BY <2>2, RoomBound, Types, QuotientBound, HeapAssumption, SizeAssumption DEF MaxLen
    <2>4. cells[arr_[v]] \in [0 .. MaxLen - 1 -> Cell]
      BY <2>1, Types DEF Cells
    <2>. QED
      BY <2>1, <2>2, <2>3, <2>4 DEF Element
  <1>2. Elements(v) = [i \in 1 .. size_[v] |-> cells[arr_[v]][i - 1]]
    BY <1>1 DEF Elements
  <1>3. size_[v] \in Nat
    BY Types
  <1>. QED
    BY <1>1, <1>2, <1>3

(***************************************************************************)
(* The effect of a call on v whose loop assigned the elements from .. k-1  *)
(* of the storage m: it gives v the elements s, and no other vector        *)
(* notices.                                                                *)
(***************************************************************************)
Result(m, from, k, val, n) ==
  [i \in 1 .. n |-> IF from <= i - 1 /\ i - 1 < k THEN val[i - 1]
                                                  ELSE m.cells[m.arr][i - 1]]

Turns(v, s) == alive' = alive /\ Contents' = [Contents EXCEPT ![v] = s]

LEMMA CommitElements ==
  ASSUME Storage, NEW v \in Vec, NEW m, Sound(v, m),
         NEW from \in Nat, NEW k \in Nat, NEW val,
         NEW n \in Nat, n <= m.capacity, NEW exc,
         Commit(v, m, Written(m.cells, m.arr, from, k, val), n, exc)
  PROVE  Elements(v)' = Result(m, from, k, val, n)
  <1>1. /\ heap' = m.heap /\ cells' = Written(m.cells, m.arr, from, k, val)
        /\ arr_'[v] = m.arr /\ size_'[v] = n
    BY DEF Commit, Storage, TypeOK
  <1>2. Room(m.heap, m.arr) = m.capacity /\ m.capacity \in Nat
    BY SoundRoom DEF Sound
  <1>3. ASSUME NEW i \in 1 .. n
        PROVE  Element(v, i - 1)' = IF from <= i - 1 /\ i - 1 < k THEN val[i - 1]
                                                     ELSE m.cells[m.arr][i - 1]
    <2>1. i - 1 \in Nat /\ i - 1 < m.capacity
      BY <1>2
    <2>2. m.arr \in Block
      BY <1>2, <2>1 DEF Sound
    <2>3. i - 1 \in 0 .. MaxLen - 1
      <3>1. m.capacity <= MaxLen /\ MaxLen \in Nat
        BY <1>2, RoomBound, QuotientBound, HeapAssumption, SizeAssumption DEF MaxLen, Sound
      <3>. QED
        BY <1>2, <2>1, <3>1
    <2>4. cells'[m.arr][i - 1] = IF from <= i - 1 /\ i - 1 < k THEN val[i - 1]
                                                     ELSE m.cells[m.arr][i - 1]
      BY <1>1, <2>2, <2>3 DEF Written
    <2>. QED
      BY <1>1, <1>2, <2>1, <2>4 DEF Element
  <1>. QED
    BY <1>1, <1>3 DEF Elements, Result

LEMMA CommitEffect ==
  ASSUME IInv, NEW v \in Vec, NEW m, Sound(v, m), Keeps(v, m),
         NEW from \in Nat, NEW k \in Nat, NEW val,
         NEW n \in Nat, n <= m.capacity, NEW exc,
         Commit(v, m, Written(m.cells, m.arr, from, k, val), n, exc)
  PROVE  Turns(v, Result(m, from, k, val, n))
  <1>1. /\ heap' = m.heap /\ cells' = Written(m.cells, m.arr, from, k, val)
        /\ alive' = alive /\ arr_'[v] = m.arr /\ size_'[v] = n
        /\ \A w \in Vec : w # v => arr_'[w] = arr_[w] /\ size_'[w] = size_[w]
    BY DEF Commit, IInv, TypeOK
  <1>2. Room(m.heap, m.arr) = m.capacity /\ m.capacity \in Nat
    BY SoundRoom DEF Sound
  <1>3. Elements(v)' = Result(m, from, k, val, n)
    BY HasStorage, CommitElements
  <1>4. ASSUME NEW w \in Vec, w # v
        PROVE  Elements(w)' = Elements(w)
    <2>1. CASE arr_[w] = NULL
      <3>1. size_[w] = 0
        BY <2>1, Types
      <3>. QED
        BY <1>1, <1>4, <3>1 DEF Elements
    <2>2. CASE arr_[w] # NULL
      <3>1. arr_[w] \in Block /\ arr_[w] # m.arr /\ m.heap[arr_[w]] = heap[arr_[w]]
        BY <1>4, <2>2, Types DEF Sound
      <3>2. m.cells[arr_[w]] = cells[arr_[w]]
        BY <1>4, <2>2 DEF Keeps
      <3>3. cells'[arr_[w]] = cells[arr_[w]]
        BY <1>1, <3>1, <3>2 DEF Written
      <3>4. Room(heap', arr_'[w]) = Room(heap, arr_[w])
        BY <1>1, <1>4, <3>1 DEF Room, IsLive
      <3>. QED
        BY <1>1, <1>4, <3>3, <3>4 DEF Elements, Element
    <2>. QED
      BY <2>1, <2>2
  <1>. QED
    BY <1>1, <1>3, <1>4 DEF Contents, Turns
-----------------------------------------------------------------------------
(* The sequences a vector is turned into, from its elements one by one *)
LEMMA SequenceFacts ==
  ASSUME NEW S, NEW s \in Seq(S), NEW n \in Nat, NEW t, t \in [1 .. n -> S]
  PROVE  /\ t \in Seq(S) /\ Len(t) = n
         /\ n = Len(s) /\ (\A i \in 1 .. n : t[i] = s[i]) => t = s
         /\ n <= Len(s) /\ (\A i \in 1 .. n : t[i] = s[i]) => t = SubSeq(s, 1, n)
  OBVIOUS

LEMMA AppendFacts ==
  ASSUME NEW S, NEW s \in Seq(S), NEW x \in S, NEW t \in [1 .. Len(s) + 1 -> S],
         \A i \in 1 .. Len(s) : t[i] = s[i], t[Len(s) + 1] = x
  PROVE  t = Append(s, x)
  OBVIOUS

LEMMA ConcatFacts ==
  ASSUME NEW S, NEW s \in Seq(S), NEW more \in Nat, NEW x \in S,
         NEW t \in [1 .. Len(s) + more -> S],
         \A i \in 1 .. Len(s) : t[i] = s[i],
         \A i \in Len(s) + 1 .. Len(s) + more : t[i] = x
  PROVE  t = s \o [i \in 1 .. more |-> x]
  OBVIOUS

(* A call that leaves a vector with the elements it had is invisible. *)
Stutter == UNCHANGED <<alive, Contents>>

LEMMA CommitStutter ==
  ASSUME IInv, NEW v \in Vec, NEW m, Sound(v, m), Keeps(v, m),
         size_[v] <= m.capacity, NEW exc,
         Commit(v, m, m.cells, size_[v], exc)
  PROVE  Stutter
  <1>1. size_[v] \in Nat /\ m.cells \in Cells /\ 0 \in Nat /\ 0 \in Int
    BY Types DEF Sound
  <1>2. m.cells = Written(m.cells, m.arr, 0, 0, Blank)
    BY <1>1, WrittenNothing
  <1>3. Commit(v, m, Written(m.cells, m.arr, 0, 0, Blank), size_[v], exc)
    BY <1>2
  <1>4. Turns(v, Result(m, 0, 0, Blank, size_[v]))
    BY <1>1, <1>3, CommitEffect
  <1>5. Result(m, 0, 0, Blank, size_[v]) = Elements(v)
    <2>1. ASSUME NEW i \in 1 .. size_[v]
          PROVE  /\ ~(0 <= i - 1 /\ i - 1 < 0)
                 /\ m.cells[m.arr][i - 1] = cells[arr_[v]][i - 1]
      <3>1. i - 1 \in 0 .. MaxLen - 1 /\ i - 1 < capacity_[v] /\ i - 1 < m.capacity
        <4>1. capacity_[v] \in Nat /\ capacity_[v] <= MaxLen /\ MaxLen \in Nat
              /\ size_[v] <= capacity_[v] /\ m.capacity \in Nat
          BY HasStorage, OwnRoom, RoomBound, Types, QuotientBound, HeapAssumption, SizeAssumption
          DEF MaxLen, Sound
        <4>. QED
          BY <1>1, <4>1
      <3>. QED
        BY <3>1 DEF Keeps
    <2>. QED
      BY <2>1, ElementsNow DEF Result
  <1>. QED
    BY <1>4, <1>5 DEF Contents, Stutter, Turns

LEMMA GiveUpStutter ==
  ASSUME IInv, NEW v \in Vec, NEW m, Sound(v, m), Keeps(v, m), GiveUp(v, m)
  PROVE  Stutter
  <1>1. size_[v] <= m.capacity
    BY Types DEF Sound, GiveUp
  <1>. QED
    BY <1>1, CommitStutter DEF GiveUp

LEMMA SameStutter ==
  ASSUME IInv, NEW v \in Vec, NEW exc, Commit(v, Same(v), cells, size_[v], exc)
  PROVE  Stutter
  <1>1. size_[v] <= Same(v).capacity /\ Same(v).cells = cells
    BY Types DEF Same
  <1>2. Commit(v, Same(v), Same(v).cells, size_[v], exc)
    BY <1>1
  <1>. QED
    BY <1>1, <1>2, HasStorage, SameSound, SameKeeps, CommitStutter

(***************************************************************************)
(* The calls, one by one.  Assignments do not throw, and what is passed is *)
(* a value of the client's own.                                            *)
(***************************************************************************)
Plain == ~CopyMayThrow /\ OwnIndex = {}

LEMMA PlainArgument ==
  ASSUME Plain, NEW v, NEW arg \in Argument(v)
  PROVE  arg \in Value /\ \A m : Denotes(v, m, arg) = arg
  BY DEF Plain, Argument, Own, Denotes

(* What every element of a storage can be read as *)
LEMMA Carries ==
  ASSUME IInv, NEW v \in Vec, NEW m, Sound(v, m), Keeps(v, m)
  PROVE  /\ m.capacity \in Nat /\ m.capacity <= MaxLen /\ MaxLen \in Nat
         /\ Room(m.heap, m.arr) = m.capacity
         /\ \A i \in 1 .. size_[v] : i - 1 < m.capacity =>
              m.cells[m.arr][i - 1] = Elements(v)[i]
  <1>1. Room(m.heap, m.arr) = m.capacity /\ m.capacity \in Nat
    BY SoundRoom DEF Sound
  <1>2. m.capacity <= MaxLen /\ MaxLen \in Nat
    BY <1>1, RoomBound, QuotientBound, HeapAssumption, SizeAssumption DEF MaxLen, Sound
  <1>3. ASSUME NEW i \in 1 .. size_[v], i - 1 < m.capacity
        PROVE  m.cells[m.arr][i - 1] = Elements(v)[i]
    <2>1. i - 1 \in 0 .. MaxLen - 1 /\ i - 1 < capacity_[v]
      BY <1>1, <1>2, <1>3, Types
    <2>. QED
      BY <1>3, <2>1, ElementsNow DEF Keeps
  <1>. QED
    BY <1>1, <1>2, <1>3

(* push_back adds its argument at the end. *)
LEMMA PushBackSeq ==
  ASSUME Plain, NoWrap, IInv, NEW v \in Vec, NEW arg \in Argument(v), PushBack(v, arg)
  PROVE  arg \in Value /\ (Stutter \/ Turns(v, Append(Elements(v), arg)))
  <1>0. /\ arg \in Value /\ arg \in Cell /\ (\A m : Denotes(v, m, arg) = arg)
        /\ size_[v] \in Nat /\ size_[v] + 1 \in Nat
    BY PlainArgument, Types DEF Cell
  <1>1. PICK m \in AppendResults(v) :
          \/ GiveUp(v, m)
          \/ /\ m.exc = "none"
             /\ \E w \in WriteResults(m.heap, m.cells, m.arr, size_[v], size_[v] + 1,
                                      All(Denotes(v, m, arg))) :
                  Commit(v, m, w.cells, size_[v] + 1, w.exc)
    BY DEF PushBack
  <1>2. Sound(v, m) /\ Keeps(v, m)
    BY AppendKeeps
  <1>3. CASE GiveUp(v, m)
    BY <1>0, <1>2, <1>3, GiveUpStutter
  <1>4. CASE /\ m.exc = "none"
             /\ \E w \in WriteResults(m.heap, m.cells, m.arr, size_[v], size_[v] + 1,
                                      All(Denotes(v, m, arg))) :
                  Commit(v, m, w.cells, size_[v] + 1, w.exc)
    <2>1. PICK w \in WriteResults(m.heap, m.cells, m.arr, size_[v], size_[v] + 1, All(arg)) :
            Commit(v, m, w.cells, size_[v] + 1, w.exc)
      BY <1>0, <1>4
    <2>2. /\ size_[v] + 1 <= m.capacity /\ m.capacity \in Nat
          /\ m.capacity <= MaxLen /\ MaxLen \in Nat
          /\ Room(m.heap, m.arr) = m.capacity
      BY <1>2, <1>4, AppendKeeps, Carries
    <2>3. w.cells = Written(m.cells, m.arr, size_[v], size_[v] + 1, All(arg))
      <3>1. size_[v] <= size_[v] + 1 /\ size_[v] + 1 <= Room(m.heap, m.arr)
        BY <1>0, <2>2
      <3>. QED
        BY <1>0, <3>1, LoopRuns DEF Plain
    <2>. DEFINE t == Result(m, size_[v], size_[v] + 1, All(arg), size_[v] + 1)
    <2>4. Turns(v, t)
      <3>1. Commit(v, m, Written(m.cells, m.arr, size_[v], size_[v] + 1, All(arg)),
                   size_[v] + 1, w.exc)
        BY <2>1, <2>3
      <3>. QED
        BY <1>0, <1>2, <2>2, <3>1, CommitEffect
    <2>5. Elements(v) \in Seq(Cell) /\ Len(Elements(v)) = size_[v]
      BY ElementsNow
    <2>6. \A i \in 1 .. size_[v] : t[i] = Elements(v)[i]
      BY <1>0, <1>2, <2>2, Carries DEF Result
    <2>7. t[size_[v] + 1] = arg
      BY <1>0, <2>2 DEF Result, All
    <2>8. t \in [1 .. size_[v] + 1 -> Cell]
      <3>1. \A i \in 1 .. size_[v] + 1 : t[i] \in Cell
        <4>1. \A i \in 1 .. size_[v] : Elements(v)[i] \in Cell
          BY <2>5
        <4>. HIDE DEF t
        <4>. QED
          BY <1>0, <2>6, <2>7, <4>1
      <3>2. t = [i \in 1 .. size_[v] + 1 |-> t[i]]
        BY DEF Result
      <3>. HIDE DEF t
      <3>. QED
        BY <3>1, <3>2
    <2>9. t = Append(Elements(v), arg)
      <3>. HIDE DEF t
      <3>. QED
        BY <1>0, <2>5, <2>6, <2>7, <2>8, AppendFacts
    <2>. QED
      BY <1>0, <2>4, <2>9
  <1>. QED
    BY <1>1, <1>3, <1>4

-----------------------------------------------------------------------------
(* The elements a call leaves, when its loop assigned x to some of them *)
LEMMA LoopEffect ==
  ASSUME Plain, IInv, NEW v \in Vec, NEW m, Sound(v, m), Keeps(v, m),
         NEW from \in Nat, NEW to \in Nat, from <= to, to <= m.capacity, NEW x,
         NEW w \in WriteResults(m.heap, m.cells, m.arr, from, to, All(x)),
         NEW n \in Nat, n <= m.capacity, NEW exc, Commit(v, m, w.cells, n, exc)
  PROVE  Turns(v, Result(m, from, to, All(x), n))
  <1>1. to <= Room(m.heap, m.arr)
    BY Carries
  <1>2. w.cells = Written(m.cells, m.arr, from, to, All(x))
    BY <1>1, LoopRuns DEF Plain
  <1>3. Commit(v, m, Written(m.cells, m.arr, from, to, All(x)), n, exc)
    BY <1>2
  <1>. QED
    BY <1>3, CommitEffect

Assigned(v, t, from, k, x, n) ==
  /\ t \in [1 .. n -> Cell]
  /\ \A i \in 1 .. n : from < i /\ i <= k => t[i] = x
  /\ \A i \in 1 .. n : i <= size_[v] /\ (i <= from \/ k < i) => t[i] = Elements(v)[i]

LEMMA ResultAt ==
  ASSUME IInv, NEW v \in Vec, NEW m, Sound(v, m), Keeps(v, m),
         NEW from \in Nat, NEW k \in Nat, NEW x \in Cell, NEW n \in Nat, n <= m.capacity,
         n <= size_[v] \/ (from <= size_[v] /\ n <= k),
         NEW t, t = Result(m, from, k, All(x), n)
  PROVE  Assigned(v, t, from, k, x, n)
  <1>0. /\ size_[v] \in Nat /\ m.capacity \in Nat /\ MaxLen \in Nat /\ m.capacity <= MaxLen
        /\ \A i \in 1 .. size_[v] : i - 1 < m.capacity =>
             m.cells[m.arr][i - 1] = Elements(v)[i]
    BY Types, Carries
  <1>1. ASSUME NEW i \in 1 .. n, from < i, i <= k
        PROVE  t[i] = x
    BY <1>0, <1>1 DEF Result, All
  <1>2. ASSUME NEW i \in 1 .. n, i <= size_[v], i <= from \/ k < i
        PROVE  t[i] = Elements(v)[i]
    BY <1>0, <1>2 DEF Result
  <1>3. ASSUME NEW i \in 1 .. n
        PROVE  t[i] \in Cell
    <2>1. \A j \in 1 .. size_[v] : Elements(v)[j] \in Cell
      BY ElementsNow
    <2>2. CASE from < i /\ i <= k
      BY <1>1, <2>2
    <2>3. CASE ~(from < i /\ i <= k)
      <3>1. i <= size_[v] /\ (i <= from \/ k < i)
        BY <1>0, <2>3
      <3>2. i \in 1 .. size_[v]
        BY <1>0, <3>1
      <3>. QED
        BY <1>2, <2>1, <3>1, <3>2
    <2>. QED
      BY <2>2, <2>3
  <1>4. t = [i \in 1 .. n |-> t[i]]
    BY DEF Result
  <1>. QED
    BY <1>1, <1>2, <1>3, <1>4 DEF Assigned

(* A call that only counts fewer elements, whatever it does to the others *)
LEMMA CutEffect ==
  ASSUME IInv, NEW v \in Vec, NEW from \in Nat, NEW k \in Nat,
         NEW n \in Nat, n <= size_[v], n <= from \/ k <= from, NEW exc,
         Commit(v, Same(v), Written(cells, arr_[v], from, k, All(Dead)), n, exc)
  PROVE  Turns(v, SubSeq(Elements(v), 1, n))
  <1>. DEFINE m == Same(v)
              t == Result(m, from, k, All(Dead), n)
  <1>1. Sound(v, m) /\ Keeps(v, m)
    BY HasStorage, SameSound, SameKeeps
  <1>2. m.cells = cells /\ m.arr = arr_[v] /\ n <= m.capacity /\ size_[v] \in Nat
    BY Types DEF Same
  <1>3. Commit(v, m, Written(m.cells, m.arr, from, k, All(Dead)), n, exc)
    BY <1>2
  <1>4. Dead \in Cell
    BY DEF Cell
  <1>. HIDE DEF m
  <1>5. Turns(v, t)
    BY <1>1, <1>2, <1>3, CommitEffect
  <1>. HIDE DEF t
  <1>6. Assigned(v, t, from, k, Dead, n)
    BY <1>1, <1>2, <1>4, ResultAt DEF t
  <1>7. \A i \in 1 .. n : t[i] = Elements(v)[i]
    <2>1. \A i \in 1 .. n : i <= size_[v] /\ (i <= from \/ k < i)
      BY <1>2
    <2>. QED
      BY <1>6, <2>1 DEF Assigned
  <1>8. t = SubSeq(Elements(v), 1, n)
    BY <1>6, <1>7, ElementsNow, SequenceFacts DEF Assigned
  <1>. QED
    BY <1>5, <1>8

LEMMA ReserveSeq ==
  ASSUME NoWrap, IInv, NEW v \in Vec, NEW n \in Count, Reserve(v, n)
  PROVE  Stutter
  <1>1. PICK m \in ReserveResults(v, n) : Commit(v, m, m.cells, size_[v], m.exc)
    BY DEF Reserve
  <1>2. Sound(v, m) /\ Keeps(v, m) /\ (m.exc = "none" => capacity_[v] <= m.capacity)
    BY ReserveKeeps
  <1>3. size_[v] <= m.capacity
    BY <1>2, Types DEF Sound
  <1>. QED
    BY <1>1, <1>2, <1>3, CommitStutter

LEMMA ClearSeq ==
  ASSUME IInv, NEW v \in Vec, Clear(v)
  PROVE  Turns(v, SubSeq(Elements(v), 1, 0))
  <1>1. Commit(v, Same(v), Written(cells, arr_[v], 0, size_[v], All(Dead)), 0, "none")
    BY DEF Clear, Killed, All
  <1>2. 0 \in Nat /\ size_[v] \in Nat /\ 0 <= size_[v]
    BY Types
  <1>. QED
    BY <1>1, <1>2, CutEffect

(* pop_back removes the last element, if there is one. *)
LEMMA PopBackSeq ==
  ASSUME IInv, NEW v \in Vec, PopBack(v)
  PROVE  \/ Stutter
         \/ size_[v] # 0 /\ Turns(v, SubSeq(Elements(v), 1, size_[v] - 1))
  <1>0. size_[v] \in Nat /\ (arr_[v] = NULL => size_[v] = 0)
    BY Types
  <1>1. CASE Empty(v)
    <2>1. size_[v] = 0
      BY <1>0, <1>1 DEF Empty
    <2>2. Commit(v, Same(v), cells, size_[v], "none")
      BY <1>1, <2>1 DEF PopBack
    <2>. QED
      BY <2>2, SameStutter
  <1>2. CASE ~Empty(v)
    <2>1. size_[v] # 0
      BY <1>2 DEF Empty
    <2>2. size_[v] - 1 \in Nat /\ size_[v] - 1 <= size_[v] /\ 0 \in Nat /\ 0 \in Int
      BY <1>0, <2>1
    <2>3. cells = Written(cells, arr_[v], 0, 0, All(Dead))
      BY <2>2, Types, WrittenNothing
    <2>4. Commit(v, Same(v), cells, size_[v] - 1, "none")
      BY <1>2 DEF PopBack
    <2>5. Commit(v, Same(v), Written(cells, arr_[v], 0, 0, All(Dead)), size_[v] - 1, "none")
      BY <2>3, <2>4
    <2>. QED
      BY <2>1, <2>2, <2>5, CutEffect
  <1>. QED
    BY <1>1, <1>2

(***************************************************************************)
(* resize appends at least as many elements as were asked for, or removes  *)
(* the last ones.                                                          *)
(***************************************************************************)
LEMMA ResizeSeq ==
  ASSUME Plain, NoWrap, IInv, NEW v \in Vec, NEW n \in Count, NEW x \in Value,
         Resize(v, n, x)
  PROVE  \/ Stutter
         \/ n <= size_[v] /\ Turns(v, SubSeq(Elements(v), 1, n))
         \/ \E more \in 1 .. MaxLen :
              /\ size_[v] + more >= n
              /\ Turns(v, Elements(v) \o [i \in 1 .. more |-> x])
  <1>0. n \in Nat /\ size_[v] \in Nat /\ x \in Cell
    BY Types, VectorAssumption DEF Cell
  <1>1. CASE n = size_[v] /\ Commit(v, Same(v), cells, size_[v], "none")
    BY <1>1, SameStutter
  <1>2. CASE n < size_[v] /\ Commit(v, Same(v), Killed(cells, arr_[v], n, size_[v]), n, "none")
    <2>1. Commit(v, Same(v), Written(cells, arr_[v], n, size_[v], All(Dead)), n, "none")
      BY <1>2 DEF Killed, All
    <2>2. n <= size_[v] /\ n <= n
      BY <1>0, <1>2
    <2>3. Turns(v, SubSeq(Elements(v), 1, n))
      BY <1>0, <2>1, <2>2, CutEffect
    <2>. QED
      BY <2>2, <2>3
  <1>3. CASE /\ n > size_[v]
             /\ \E m \in ReserveResults(v, n) :
                  \/ GiveUp(v, m)
                  \/ /\ m.exc = "none"
                     /\ \E w \in WriteResults(m.heap, m.cells, m.arr, size_[v],
                                              m.capacity, All(x)) :
                          Commit(v, m, w.cells, w.done, w.exc)
    <2>1. PICK m \in ReserveResults(v, n) :
            \/ GiveUp(v, m)
            \/ /\ m.exc = "none"
               /\ \E w \in WriteResults(m.heap, m.cells, m.arr, size_[v],
                                        m.capacity, All(x)) :
                    Commit(v, m, w.cells, w.done, w.exc)
      BY <1>3
    <2>2. Sound(v, m) /\ Keeps(v, m) /\ (m.exc = "none" => n <= m.capacity)
      BY ReserveKeeps
    <2>3. CASE GiveUp(v, m)
      BY <2>2, <2>3, GiveUpStutter
    <2>4. CASE /\ m.exc = "none"
               /\ \E w \in WriteResults(m.heap, m.cells, m.arr, size_[v],
                                        m.capacity, All(x)) :
                    Commit(v, m, w.cells, w.done, w.exc)
      <3>1. PICK w \in WriteResults(m.heap, m.cells, m.arr, size_[v], m.capacity, All(x)) :
              Commit(v, m, w.cells, w.done, w.exc)
        BY <2>4
      <3>2. /\ m.capacity \in Nat /\ m.capacity <= MaxLen /\ MaxLen \in Nat
            /\ Room(m.heap, m.arr) = m.capacity /\ n <= m.capacity
        BY <2>2, <2>4, Carries
      <3>3. size_[v] < m.capacity
        BY <1>0, <1>3, <3>2
      <3>4. w.done = m.capacity
        <4>1. size_[v] <= m.capacity /\ m.capacity <= Room(m.heap, m.arr)
          BY <1>0, <3>2, <3>3
        <4>. QED
          BY <1>0, <3>2, <4>1, LoopRuns DEF Plain
      <3>5. Commit(v, m, w.cells, m.capacity, w.exc)
        BY <3>1, <3>4
      <3>. DEFINE t == Result(m, size_[v], m.capacity, All(x), m.capacity)
                  more == m.capacity - size_[v]
      <3>6. size_[v] <= m.capacity /\ m.capacity <= m.capacity /\ size_[v] <= size_[v]
        BY <1>0, <3>2, <3>3
      <3>7. Turns(v, t)
        BY <1>0, <2>2, <3>2, <3>5, <3>6, LoopEffect
      <3>8. Assigned(v, t, size_[v], m.capacity, x, m.capacity)
        BY <1>0, <2>2, <3>2, <3>6, ResultAt
      <3>9. more \in 1 .. MaxLen /\ size_[v] + more = m.capacity /\ more \in Nat
        BY <1>0, <3>2, <3>3
      <3>. HIDE DEF t, more
      <3>10. Elements(v) \in Seq(Cell) /\ Len(Elements(v)) = size_[v]
        BY ElementsNow
      <3>11. /\ \A i \in 1 .. Len(Elements(v)) : t[i] = Elements(v)[i]
             /\ \A i \in Len(Elements(v)) + 1 .. Len(Elements(v)) + more : t[i] = x
             /\ t \in [1 .. Len(Elements(v)) + more -> Cell]
        BY <1>0, <3>2, <3>3, <3>8, <3>9, <3>10 DEF Assigned
      <3>12. t = Elements(v) \o [i \in 1 .. more |-> x]
        BY <1>0, <3>9, <3>10, <3>11, ConcatFacts
      <3>. QED
        BY <3>2, <3>7, <3>9, <3>12
    <2>. QED
      BY <2>1, <2>3, <2>4
  <1>. QED
    BY <1>0, <1>1, <1>2, <1>3 DEF Resize

LEMMA CopiesFacts ==
  ASSUME NEW S, NEW n \in Nat, NEW t \in [1 .. n -> S], NEW x, \A i \in 1 .. n : t[i] = x
  PROVE  t = [i \in 1 .. n |-> x]
  OBVIOUS

LEMMA ReplaceFacts ==
  ASSUME NEW S, NEW s \in Seq(S), NEW t \in [1 .. Len(s) -> S], NEW j \in 1 .. Len(s),
         NEW x, t[j] = x, \A i \in 1 .. Len(s) : i # j => t[i] = s[i]
  PROVE  t = [s EXCEPT ![j] = x]
  OBVIOUS

(***************************************************************************)
(* assign below the capacity replaces the elements by n copies; from the   *)
(* capacity on it overwrites the elements there are.                       *)
(***************************************************************************)
LEMMA AssignSeq ==
  ASSUME Plain, NoWrap, IInv, NEW v \in Vec, NEW n \in Count, NEW arg \in Argument(v),
         Assign(v, n, arg)
  PROVE  /\ arg \in Value
         /\ \/ Stutter
            \/ Turns(v, [i \in 1 .. n |-> arg])
            \/ Turns(v, [i \in 1 .. size_[v] |-> arg])
  <1>0. /\ arg \in Value /\ arg \in Cell /\ (\A m : Denotes(v, m, arg) = arg)
        /\ size_[v] \in Nat /\ capacity_[v] \in Nat /\ size_[v] <= capacity_[v]
        /\ n \in Nat /\ n * SizeOf < SizeMod /\ 0 \in Nat
    BY PlainArgument, Types, VectorAssumption DEF Cell, NoWrap
  <1>1. CASE /\ n < capacity_[v]
             /\ \E m \in ScaleResults(v, n) :
                  \/ GiveUp(v, m)
                  \/ /\ m.exc = "none"
                     /\ \E w \in WriteResults(m.heap, m.cells, m.arr, 0, n,
                                              All(Denotes(v, m, arg))) :
                          Commit(v, m, w.cells, n, w.exc)
    <2>1. PICK m \in ScaleResults(v, n) :
            \/ GiveUp(v, m)
            \/ /\ m.exc = "none"
               /\ \E w \in WriteResults(m.heap, m.cells, m.arr, 0, n,
                                        All(Denotes(v, m, arg))) :
                    Commit(v, m, w.cells, n, w.exc)
      BY <1>1
    <2>2. Sound(v, m) /\ Keeps(v, m) /\ (m.exc = "none" => m.capacity = n)
      BY <1>0, HasStorage, ScaleSound, ScaleKeeps
    <2>3. CASE GiveUp(v, m)
      BY <1>0, <2>2, <2>3, GiveUpStutter
    <2>4. CASE /\ m.exc = "none"
               /\ \E w \in WriteResults(m.heap, m.cells, m.arr, 0, n,
                                        All(Denotes(v, m, arg))) :
                    Commit(v, m, w.cells, n, w.exc)
      <3>1. PICK w \in WriteResults(m.heap, m.cells, m.arr, 0, n, All(arg)) :
              Commit(v, m, w.cells, n, w.exc)
        BY <1>0, <2>4
      <3>2. n <= m.capacity /\ 0 <= n /\ 0 <= size_[v] /\ n <= n
        BY <1>0, <2>2, <2>4
      <3>. DEFINE t == Result(m, 0, n, All(arg), n)
      <3>3. Turns(v, t)
        BY <1>0, <2>2, <3>1, <3>2, LoopEffect
      <3>. HIDE DEF t
      <3>4. Assigned(v, t, 0, n, arg, n)
        BY <1>0, <2>2, <3>2, ResultAt DEF t
      <3>5. t = [i \in 1 .. n |-> arg]
        <4>1. t \in [1 .. n -> Cell] /\ \A i \in 1 .. n : t[i] = arg
          BY <1>0, <3>4 DEF Assigned
        <4>. QED
          BY <1>0, <4>1, CopiesFacts
      <3>. QED
        BY <1>0, <3>3, <3>5
    <2>. QED
      BY <2>1, <2>3, <2>4
  <1>2. CASE /\ n >= capacity_[v]
             /\ \E w \in WriteResults(heap, cells, arr_[v], 0, n,
                                      All(Denotes(v, Same(v), arg))) :
                  Commit(v, Same(v), w.cells, size_[v], w.exc)
    <2>. DEFINE m == Same(v)
                c == capacity_[v]
                t == Result(m, 0, c, All(arg), size_[v])
    <2>1. PICK w \in WriteResults(heap, cells, arr_[v], 0, n, All(arg)) :
            Commit(v, Same(v), w.cells, size_[v], w.exc)
      BY <1>0, <1>2
    <2>2. w.cells = Written(cells, arr_[v], 0, c, All(arg))
      <3>1. /\ w.cells = Written(cells, arr_[v], 0, w.done, All(arg))
            /\ n <= 0 => w.done = 0
            /\ ~(n <= 0) /\ n <= Room(heap, arr_[v]) => w.done = n
            /\ ~(n <= 0) /\ ~(n <= Room(heap, arr_[v])) => w.done = Room(heap, arr_[v])
        BY <1>0, LoopEnds DEF Plain
      <3>2. Room(heap, arr_[v]) = c
        BY HasStorage, OwnRoom
      <3>3. w.done = c
        BY <1>0, <1>2, <3>1, <3>2
      <3>. QED
        BY <3>1, <3>3
    <2>3. Sound(v, m) /\ Keeps(v, m)
      BY HasStorage, SameSound, SameKeeps
    <2>4. m.cells = cells /\ m.arr = arr_[v] /\ size_[v] <= m.capacity
      BY <1>0 DEF Same
    <2>5. Commit(v, m, Written(m.cells, m.arr, 0, c, All(arg)), size_[v], w.exc)
      BY <2>1, <2>2, <2>4
    <2>6. c \in Nat /\ size_[v] <= c /\ size_[v] <= size_[v]
      BY <1>0
    <2>. HIDE DEF m, c
    <2>7. Turns(v, t)
      BY <1>0, <2>3, <2>4, <2>5, <2>6, CommitEffect
    <2>. HIDE DEF t
    <2>8. Assigned(v, t, 0, c, arg, size_[v])
      BY <1>0, <2>3, <2>4, <2>6, ResultAt DEF t
    <2>9. t = [i \in 1 .. size_[v] |-> arg]
      <3>1. t \in [1 .. size_[v] -> Cell] /\ \A i \in 1 .. size_[v] : t[i] = arg
        BY <1>0, <2>6, <2>8 DEF Assigned
      <3>. QED
        BY <1>0, <3>1, CopiesFacts
    <2>. QED
      BY <1>0, <2>7, <2>9
  <1>. QED
    BY <1>1, <1>2 DEF Assign

(* An access replaces the element, or does nothing but throw or abort. *)
LEMMA ThroughSeq ==
  ASSUME Plain, IInv, NEW v \in Vec, NEW test, NEW i,
         test => i \in Nat /\ i + 1 <= size_[v],
         NEW x \in Value, NEW otherwise, Through(v, test, i, x, otherwise)
  PROVE  \/ Stutter
         \/ \E j \in 1 .. size_[v] : Turns(v, [Elements(v) EXCEPT ![j] = x])
  <1>0. x \in Cell /\ size_[v] \in Nat
    BY Types DEF Cell
  <1>1. CASE ~test
    <2>1. Commit(v, Same(v), cells, size_[v], otherwise)
      BY <1>1 DEF Through
    <2>. QED
      BY <2>1, SameStutter
  <1>2. CASE test
    <2>. DEFINE m == Same(v)
                t == Result(m, i, i + 1, All(x), size_[v])
                j == i + 1
    <2>1. PICK w \in WriteResults(heap, cells, arr_[v], i, i + 1, All(x)) :
            Commit(v, Same(v), w.cells, size_[v], w.exc)
      BY <1>2 DEF Through
    <2>2. /\ i \in Nat /\ j \in Nat /\ i <= j /\ j <= m.capacity
          /\ size_[v] <= m.capacity /\ size_[v] <= size_[v] /\ j \in 1 .. size_[v]
      BY <1>0, <1>2, Types DEF Same
    <2>3. Sound(v, m) /\ Keeps(v, m)
      BY HasStorage, SameSound, SameKeeps
    <2>4. w \in WriteResults(m.heap, m.cells, m.arr, i, j, All(x))
      BY <2>1 DEF Same
    <2>5. Commit(v, m, w.cells, size_[v], w.exc)
      BY <2>1
    <2>. HIDE DEF m
    <2>6. Turns(v, t)
      BY <1>0, <2>2, <2>3, <2>4, <2>5, LoopEffect
    <2>. HIDE DEF t
    <2>7. Assigned(v, t, i, j, x, size_[v])
      BY <1>0, <2>2, <2>3, ResultAt DEF t
    <2>8. Elements(v) \in Seq(Cell) /\ Len(Elements(v)) = size_[v]
      BY ElementsNow
    <2>9. /\ t \in [1 .. size_[v] -> Cell] /\ t[j] = x
          /\ \A k \in 1 .. size_[v] : k # j => t[k] = Elements(v)[k]
      BY <1>0, <2>2, <2>7 DEF Assigned
    <2>. HIDE DEF j
    <2>10. t = [Elements(v) EXCEPT ![j] = x]
      BY <1>0, <2>2, <2>8, <2>9, ReplaceFacts
    <2>. QED
      BY <2>2, <2>6, <2>10
  <1>. QED
    BY <1>1, <1>2

LEMMA AccessSeq ==
  ASSUME Plain, IInv, NEW v \in Vec, NEW x \in Value,
         \/ \E i \in Count : At(v, i, x) \/ Index(v, i, x)
         \/ FrontElement(v, x) \/ BackElement(v, x)
  PROVE  \/ Stutter
         \/ \E j \in 1 .. size_[v] : Turns(v, [Elements(v) EXCEPT ![j] = x])
  <1>0. size_[v] \in Nat
    BY Types
  <1>1. CASE \E i \in Count : At(v, i, x) \/ Index(v, i, x)
    <2>1. PICK i \in Nat : At(v, i, x) \/ Index(v, i, x)
      BY <1>1, VectorAssumption
    <2>2. size_[v] > i => i \in Nat /\ i + 1 <= size_[v]
      BY <1>0
    <2>3. CASE At(v, i, x)
      BY <2>2, <2>3, ThroughSeq DEF At
    <2>4. CASE Index(v, i, x)
      BY <2>2, <2>4, ThroughSeq DEF Index
    <2>. QED
      BY <2>1, <2>3, <2>4
  <1>2. CASE FrontElement(v, x)
    <2>1. ~Empty(v) => 0 \in Nat /\ 0 + 1 <= size_[v]
      BY <1>0 DEF Empty
    <2>. QED
      BY <1>2, <2>1, ThroughSeq DEF FrontElement
  <1>3. CASE BackElement(v, x)
    <2>1. ~Empty(v) => size_[v] - 1 \in Nat /\ size_[v] - 1 + 1 <= size_[v]
      BY <1>0 DEF Empty
    <2>. QED
      BY <1>3, <2>1, ThroughSeq DEF BackElement
  <1>. QED
    BY <1>1, <1>2, <1>3

-----------------------------------------------------------------------------
(* The elements of a vector whose buffer and size a call does not touch *)
LEMMA Untouched ==
  ASSUME IInv, NEW w \in Vec, arr_'[w] = arr_[w], size_'[w] = size_[w],
         arr_[w] # NULL => /\ heap'[arr_[w]] = heap[arr_[w]]
                           /\ cells'[arr_[w]] = cells[arr_[w]]
  PROVE  Elements(w)' = Elements(w)
  <1>1. CASE arr_[w] = NULL
    <2>1. size_[w] = 0
      BY <1>1, Types
    <2>. QED
      BY <2>1 DEF Elements
  <1>2. CASE arr_[w] # NULL
    <2>1. Room(heap', arr_'[w]) = Room(heap, arr_[w])
      BY <1>2 DEF Room, IsLive
    <2>. QED
      BY <1>2, <2>1 DEF Elements, Element
  <1>. QED
    BY <1>1, <1>2

Exchanges(v, w) ==
  /\ alive' = alive
  /\ Contents' = [Contents EXCEPT ![v] = Elements(w), ![w] = Elements(v)]

LEMMA SwapSeq ==
  ASSUME IInv, NEW v \in Vec, NEW w \in Vec \ {v}, Swap(v, w)
  PROVE  Exchanges(v, w)
  <1>1. /\ heap' = heap /\ cells' = cells /\ alive' = alive
        /\ arr_'[v] = arr_[w] /\ size_'[v] = size_[w]
        /\ arr_'[w] = arr_[v] /\ size_'[w] = size_[v]
        /\ \A u \in Vec : u # v /\ u # w => arr_'[u] = arr_[u] /\ size_'[u] = size_[u]
    BY DEF Swap, IInv, TypeOK
  <1>2. Elements(v)' = Elements(w) /\ Elements(w)' = Elements(v)
    BY <1>1 DEF Elements, Element
  <1>3. ASSUME NEW u \in Vec, u # v, u # w
        PROVE  Elements(u)' = Elements(u)
    BY <1>1, <1>3, Untouched
  <1>. QED
    BY <1>1, <1>2, <1>3 DEF Contents, Exchanges

Vanishes(v) ==
  /\ alive' = alive \ {v}
  /\ Contents' = [Contents EXCEPT ![v] = <<>>]

LEMMA DestroySeq ==
  ASSUME IInv, NEW v \in Vec, Destroy(v)
  PROVE  Vanishes(v)
  <1>1. /\ heap' = heap /\ alive' = alive \ {v} /\ size_'[v] = 0
        /\ cells' = Killed(cells, arr_[v], 0, size_[v])
        /\ \A w \in Vec : w # v => arr_'[w] = arr_[w] /\ size_'[w] = size_[w]
    BY DEF Destroy, IInv, TypeOK
  <1>2. Elements(v)' = <<>>
    BY <1>1 DEF Elements
  <1>3. ASSUME NEW w \in Vec, w # v
        PROVE  Elements(w)' = Elements(w)
    <2>1. ASSUME arr_[w] # NULL PROVE cells'[arr_[w]] = cells[arr_[w]]
      <3>1. arr_[w] \in Block /\ arr_[w] # arr_[v]
        BY <1>3, <2>1, Types
      <3>. QED
        BY <1>1, <3>1 DEF Killed, Written
    <2>. QED
      BY <1>1, <1>3, <2>1, Untouched
  <1>. QED
    BY <1>1, <1>2, <1>3 DEF Contents, Vanishes

Appears(v, s) ==
  /\ alive' = alive \cup {v}
  /\ Contents' = [Contents EXCEPT ![v] = s]

(* Outside its lifetime a vector has no elements. *)
Resting == \A v \in Vec : v \notin alive => size_[v] = 0

LEMMA DefaultCtorSeq ==
  ASSUME IInv, Resting, NEW v \in Vec, DefaultCtor(v)
  PROVE  Appears(v, <<>>)
  <1>1. /\ heap' = heap /\ cells' = cells /\ arr_' = arr_ /\ size_' = size_
        /\ alive' = alive \cup {v} /\ v \notin alive
    BY DEF DefaultCtor, Unmade
  <1>2. Elements(v) = <<>>
    BY <1>1 DEF Resting, Elements
  <1>3. \A w \in Vec : Elements(w)' = Elements(w)
    BY <1>1, Untouched
  <1>. QED
    BY <1>1, <1>2, <1>3 DEF Contents, Appears

LEMMA BuildSeq ==
  ASSUME Plain, IInv, NEW v \in Vec, NEW n \in Nat, n > 0, n * SizeOf < SizeMod, NEW val,
         BuildWith(v, n, val)
  PROVE  Stutter \/ (n <= MaxLen /\ Appears(v, [i \in 1 .. n |-> val[i - 1]]))
  <1>f. Footprint(n) = n * SizeOf /\ n * SizeOf # 0 /\ n * SizeOf \in Nat
    <2>1. n * SizeOf \in Nat /\ n * SizeOf # 0
      BY Product, SizeAssumption
    <2>2. n * SizeOf \in 0 .. SizeMod - 1
      BY <2>1, SizeAssumption
    <2>. QED
      BY <2>1, <2>2, ModSmall, SizeAssumption DEF Footprint
  <1>e. \A r \in AllocateResults(0, heap, NULL, n) : Ends(0, heap, NULL, n, r)
    <2>1. 0 \in 0 .. Capacity /\ heap \in Heaps /\ NULL \in Block \cup {NULL}
      BY SizeAssumption, Types
    <2>. QED
      BY <2>1, AllocateFacts
  <1>p. PICK r \in AllocateResults(0, heap, NULL, n) :
          /\ heap' = r.heap
          /\ \/ /\ r.exc # "none"
                /\ UNCHANGED <<cells, alive, arr_, size_>>
             \/ /\ r.exc = "none"
                /\ \E w \in WriteResults(r.heap, cells, r.mem, 0, n, val) :
                     /\ cells' = w.cells
                     /\ w.exc # "copy" => /\ alive' = alive \cup {v}
                                          /\ arr_' = [arr_ EXCEPT ![v] = r.mem]
                                          /\ size_' = [size_ EXCEPT ![v] = n]
    BY DEF BuildWith
  <1>r. Ends(0, heap, NULL, n, r)
    BY <1>e
  <1>1. CASE r.exc # "none"
    <2>1. heap' = heap /\ cells' = cells /\ alive' = alive /\ arr_' = arr_ /\ size_' = size_
      BY <1>1, <1>p, <1>r DEF Ends
    <2>2. \A w \in Vec : Elements(w)' = Elements(w)
      BY <2>1, Untouched
    <2>. QED
      BY <2>1, <2>2 DEF Contents, Stutter
  <1>2. CASE r.exc = "none"
    <2>1. /\ r.heap \in Heaps
          /\ r.mem \in Block
          /\ heap[r.mem] = Free
          /\ r.heap = Grant(heap, NULL, r.mem, n * SizeOf)
      BY <1>2, <1>r, <1>f, HeapAssumption DEF Ends
    <2>2. PICK w \in WriteResults(r.heap, cells, r.mem, 0, n, val) :
            /\ cells' = w.cells
            /\ w.exc # "copy" => /\ alive' = alive \cup {v}
                                 /\ arr_' = [arr_ EXCEPT ![v] = r.mem]
                                 /\ size_' = [size_ EXCEPT ![v] = n]
      BY <1>2, <1>p
    <2>3. Room(r.heap, r.mem) = n
      <3>1. r.heap[r.mem] = n * SizeOf
        BY <2>1 DEF Grant
      <3>2. r.heap[r.mem] # Free
        BY <3>1, <1>f DEF Free
      <3>3. (n * SizeOf) \div SizeOf = n
        BY QuotientExact, SizeAssumption
      <3>. QED
        BY <2>1, <3>1, <3>2, <3>3 DEF Room, IsLive
    <2>4. w.cells = Written(cells, r.mem, 0, n, val) /\ w.exc # "copy"
      <3>1. 0 \in Nat /\ 0 <= n /\ n <= Room(r.heap, r.mem)
        BY <2>3
      <3>2. w.exc \in {"none", "overrun"}
        BY <3>1, LoopEnds DEF Plain
      <3>. QED
        BY <3>1, <3>2, LoopRuns DEF Plain
    <2>5. /\ heap' = r.heap /\ cells' = Written(cells, r.mem, 0, n, val)
          /\ alive' = alive \cup {v} /\ arr_'[v] = r.mem /\ size_'[v] = n
          /\ \A u \in Vec : u # v => arr_'[u] = arr_[u] /\ size_'[u] = size_[u]
      BY <1>p, <2>2, <2>4 DEF IInv, TypeOK
    <2>l. n <= MaxLen /\ MaxLen \in Nat
      BY <2>1, <2>3, RoomBound, QuotientBound, HeapAssumption, SizeAssumption DEF MaxLen
    <2>6. Elements(v)' = [i \in 1 .. n |-> val[i - 1]]
      <3>2. ASSUME NEW i \in 1 .. n
            PROVE  Element(v, i - 1)' = val[i - 1]
        <4>1. i - 1 \in 0 .. MaxLen - 1 /\ 0 <= i - 1 /\ i - 1 < n
          BY <2>l
        <4>2. cells'[r.mem][i - 1] = val[i - 1]
          BY <2>1, <2>5, <4>1 DEF Written
        <4>. QED
          BY <2>3, <2>5, <4>1, <4>2 DEF Element
      <3>. QED
        BY <2>5, <3>2 DEF Elements
    <2>7. ASSUME NEW u \in Vec, u # v
          PROVE  Elements(u)' = Elements(u)
      <3>1. ASSUME arr_[u] # NULL
            PROVE  heap'[arr_[u]] = heap[arr_[u]] /\ cells'[arr_[u]] = cells[arr_[u]]
        <4>1. arr_[u] \in Block /\ arr_[u] # r.mem /\ arr_[u] # NULL
          BY <2>1, <3>1, Types, HasStorage, OwnedIsLive
        <4>. QED
          BY <2>1, <2>5, <4>1 DEF Grant, Written
      <3>. QED
        BY <2>5, <2>7, <3>1, Untouched
    <2>. QED
      BY <2>l, <2>5, <2>6, <2>7 DEF Contents, Appears
  <1>. QED
    BY <1>1, <1>2

LEMMA CtorSeq ==
  ASSUME Plain, NoWrap, IInv, NEW v \in Vec, NEW n \in Count,
         \/ \E x \in Value : FillCtor(v, n, x)
         \/ \E s \in [1 .. n -> Value] : RangeCtor(v, s)
  PROVE  Stutter \/ \E s \in [1 .. n -> Value] : Appears(v, s)
  <1>0. n \in Nat /\ n * SizeOf < SizeMod
    BY VectorAssumption DEF NoWrap
  <1>1. CASE \E x \in Value : FillCtor(v, n, x)
    <2>1. PICK x \in Value : n > 0 /\ BuildWith(v, n, All(x))
      BY <1>1 DEF FillCtor
    <2>2. CASE Stutter
      BY <2>2
    <2>3. CASE n <= MaxLen /\ Appears(v, [i \in 1 .. n |-> All(x)[i - 1]])
      <3>1. \A i \in 1 .. n : All(x)[i - 1] = x
        <4>1. MaxLen \in Nat
          BY QuotientBound, HeapAssumption, SizeAssumption DEF MaxLen
        <4>. QED
          BY <1>0, <2>3, <4>1 DEF All
      <3>2. [i \in 1 .. n |-> All(x)[i - 1]] \in [1 .. n -> Value]
        BY <3>1
      <3>. QED
        BY <2>3, <3>2
    <2>. QED
      BY <1>0, <2>1, <2>2, <2>3, BuildSeq
  <1>2. CASE \E s \in [1 .. n -> Value] : RangeCtor(v, s)
    <2>1. PICK s \in [1 .. n -> Value] : RangeCtor(v, s)
      BY <1>2
    <2>2. Len(s) = n
      BY <1>0
    <2>. DEFINE val == [i \in 0 .. n - 1 |-> s[i + 1]]
    <2>3. n > 0 /\ BuildWith(v, n, val)
      BY <2>1, <2>2 DEF RangeCtor
    <2>4. [i \in 1 .. n |-> val[i - 1]] = s
      <3>1. \A i \in 1 .. n : val[i - 1] = s[i]
        BY <1>0
      <3>. HIDE DEF val
      <3>2. s = [i \in 1 .. n |-> s[i]]
        OBVIOUS
      <3>. QED
        BY <3>1, <3>2
    <2>. HIDE DEF val
    <2>. QED
      BY <1>0, <2>3, <2>4, BuildSeq
  <1>. QED
    BY <1>1, <1>2

-----------------------------------------------------------------------------
(* What is seen of the vectors, step by step *)
LEMMA Seen ==
  ASSUME IInv, NEW v \in Vec
  PROVE  /\ Contents[v] = Elements(v)
         /\ Len(Contents[v]) = size_[v]
         /\ DOMAIN Contents[v] = 1 .. size_[v]
  BY ElementsNow DEF Contents, Elements

LEMMA TurnsBecomes ==
  ASSUME NEW v \in alive, NEW s, Turns(v, s)
  PROVE  Abstract!Becomes(v, s)
  BY DEF Turns, Abstract!Becomes

LEMMA NextSeq ==
  ASSUME Plain, NoWrap, IInv, Resting, Next
  PROVE  Abstract!Next \/ Stutter
  <1>. PICK v \in Vec : Step(v)
    BY DEF Next
  <1>0. /\ Contents[v] = Elements(v) /\ Len(Contents[v]) = size_[v]
        /\ DOMAIN Contents[v] = 1 .. size_[v] /\ size_[v] \in Nat
    BY Seen, Types
  <1>1. CASE DefaultCtor(v)
    <2>1. Appears(v, <<>>) /\ v \notin alive
      BY <1>1, DefaultCtorSeq DEF DefaultCtor, Unmade
    <2>2. Abstract!Build(v, <<>>)
      BY <2>1 DEF Appears, Abstract!Build
    <2>3. <<>> \in [1 .. 0 -> Value]
      OBVIOUS
    <2>. QED
      BY <2>2, <2>3 DEF Abstract!Next
  <1>2. CASE \E n \in Count :
               \/ \E x \in Value : FillCtor(v, n, x)
               \/ \E s \in [1 .. n -> Value] : RangeCtor(v, s)
    <2>1. PICK n \in Count :
            \/ \E x \in Value : FillCtor(v, n, x)
            \/ \E s \in [1 .. n -> Value] : RangeCtor(v, s)
      BY <1>2
    <2>2. v \notin alive
      BY <2>1 DEF FillCtor, RangeCtor, BuildWith, Unmade
    <2>3. ASSUME NEW s \in [1 .. n -> Value], Appears(v, s)
          PROVE  Abstract!Next
      <3>1. Abstract!Build(v, s)
        BY <2>2, <2>3 DEF Appears, Abstract!Build
      <3>. QED
        BY <3>1 DEF Abstract!Next
    <2>. QED
      BY <2>1, <2>3, CtorSeq
  <1>3. CASE Destroy(v)
    <2>1. Vanishes(v) /\ v \in alive
      BY <1>3, DestroySeq DEF Destroy, Callable
    <2>2. Abstract!Unbuild(v)
      BY <2>1 DEF Vanishes, Abstract!Unbuild
    <2>. QED
      BY <2>2 DEF Abstract!Next
  <1>4. CASE \E n \in Count : Reserve(v, n)
    BY <1>4, ReserveSeq
  <1>5. CASE \E n \in Count, arg \in Argument(v) : Assign(v, n, arg)
    <2>1. PICK n \in Count, arg \in Argument(v) : Assign(v, n, arg)
      BY <1>5
    <2>2. v \in alive
      BY <2>1 DEF Assign, Callable
    <2>3. /\ arg \in Value
          /\ \/ Stutter
             \/ Turns(v, [i \in 1 .. n |-> arg])
             \/ Turns(v, [i \in 1 .. size_[v] |-> arg])
      BY <2>1, AssignSeq
    <2>4. CASE Turns(v, [i \in 1 .. n |-> arg])
      <3>1. Abstract!Refill(v, n, arg)
        BY <2>2, <2>4, TurnsBecomes DEF Abstract!Refill, Abstract!Copies
      <3>. QED
        BY <2>3, <3>1 DEF Abstract!Next
    <2>5. CASE Turns(v, [i \in 1 .. size_[v] |-> arg])
      <3>1. Abstract!Overwrite(v, arg)
        BY <1>0, <2>2, <2>5, TurnsBecomes DEF Abstract!Overwrite, Abstract!Copies
      <3>. QED
        BY <2>3, <3>1 DEF Abstract!Next
    <2>. QED
      BY <2>3, <2>4, <2>5
  <1>6. CASE Clear(v)
    <2>1. Turns(v, SubSeq(Elements(v), 1, 0)) /\ v \in alive
      BY <1>6, ClearSeq DEF Clear, Callable
    <2>2. Abstract!Truncate(v, 0)
      BY <1>0, <2>1, TurnsBecomes DEF Abstract!Truncate
    <2>. QED
      BY <2>2 DEF Abstract!Next
  <1>7. CASE \E n \in Count, x \in Value : Resize(v, n, x)
    <2>1. PICK n \in Count, x \in Value : Resize(v, n, x)
      BY <1>7
    <2>2. v \in alive
      BY <2>1 DEF Resize, Callable
    <2>3. \/ Stutter
          \/ n <= size_[v] /\ Turns(v, SubSeq(Elements(v), 1, n))
          \/ \E more \in 1 .. MaxLen :
               /\ size_[v] + more >= n
               /\ Turns(v, Elements(v) \o [i \in 1 .. more |-> x])
      BY <2>1, ResizeSeq
    <2>4. CASE n <= size_[v] /\ Turns(v, SubSeq(Elements(v), 1, n))
      <3>1. Abstract!Truncate(v, n)
        BY <1>0, <2>2, <2>4, TurnsBecomes DEF Abstract!Truncate
      <3>. QED
        BY <3>1 DEF Abstract!Next
    <2>5. CASE \E more \in 1 .. MaxLen :
                 /\ size_[v] + more >= n
                 /\ Turns(v, Elements(v) \o [i \in 1 .. more |-> x])
      <3>1. Abstract!Extend(v, n, x)
        BY <1>0, <2>2, <2>5, TurnsBecomes DEF Abstract!Extend, Abstract!Copies
      <3>. QED
        BY <3>1 DEF Abstract!Next
    <2>. QED
      BY <2>3, <2>4, <2>5
  <1>8. CASE \E w \in Vec \ {v} : Swap(v, w)
    <2>1. PICK w \in Vec \ {v} : Swap(v, w)
      BY <1>8
    <2>2. Exchanges(v, w) /\ {v, w} \subseteq alive /\ Contents[w] = Elements(w)
      BY <2>1, SwapSeq, Seen DEF Swap, Callable
    <2>3. Abstract!Exchange(v, w)
      BY <1>0, <2>2 DEF Exchanges, Abstract!Exchange
    <2>. QED
      BY <2>3 DEF Abstract!Next
  <1>9. CASE \E arg \in Argument(v) : PushBack(v, arg)
    <2>1. PICK arg \in Argument(v) : PushBack(v, arg)
      BY <1>9
    <2>2. arg \in Value /\ (Stutter \/ Turns(v, Append(Elements(v), arg))) /\ v \in alive
      BY <2>1, PushBackSeq DEF PushBack, Callable
    <2>3. CASE Turns(v, Append(Elements(v), arg))
      <3>1. Abstract!Append1(v, arg)
        BY <1>0, <2>2, <2>3, TurnsBecomes DEF Abstract!Append1
      <3>. QED
        BY <2>2, <3>1 DEF Abstract!Next
    <2>. QED
      BY <2>2, <2>3
  <1>10. CASE PopBack(v)
    <2>1. /\ v \in alive
          /\ \/ Stutter
             \/ size_[v] # 0 /\ Turns(v, SubSeq(Elements(v), 1, size_[v] - 1))
      BY <1>10, PopBackSeq DEF PopBack, Callable
    <2>2. CASE size_[v] # 0 /\ Turns(v, SubSeq(Elements(v), 1, size_[v] - 1))
      <3>1. Contents[v] # <<>>
        BY <1>0, <2>2
      <3>2. Abstract!DropLast(v)
        BY <1>0, <2>1, <2>2, <3>1, TurnsBecomes DEF Abstract!DropLast, Abstract!Front
      <3>. QED
        BY <3>2 DEF Abstract!Next
    <2>. QED
      BY <2>1, <2>2
  <1>11. CASE \E x \in Value :
                \/ \E i \in Count : At(v, i, x) \/ Index(v, i, x)
                \/ FrontElement(v, x) \/ BackElement(v, x)
    <2>1. PICK x \in Value :
            \/ \E i \in Count : At(v, i, x) \/ Index(v, i, x)
            \/ FrontElement(v, x) \/ BackElement(v, x)
      BY <1>11
    <2>2. v \in alive
      BY <2>1 DEF At, Index, FrontElement, BackElement, Through, Callable
    <2>3. \/ Stutter
          \/ \E j \in 1 .. size_[v] : Turns(v, [Elements(v) EXCEPT ![j] = x])
      BY <2>1, AccessSeq
    <2>4. ASSUME NEW j \in 1 .. size_[v], Turns(v, [Elements(v) EXCEPT ![j] = x])
          PROVE  Abstract!Next
      <3>1. Abstract!Update(v, j, x) /\ j \in DOMAIN Contents[v]
        BY <1>0, <2>2, <2>4, TurnsBecomes DEF Abstract!Update, Abstract!ReplaceAt
      <3>. QED
        BY <3>1 DEF Abstract!Next
    <2>. QED
      BY <2>3, <2>4
  <1>. QED
    BY <1>1, <1>2, <1>3, <1>4, <1>5, <1>6, <1>7, <1>8, <1>9, <1>10, <1>11 DEF Step

LEMMA RestingKept ==
  ASSUME IInv, Resting, Next
  PROVE  Resting'
  <1>. PICK v \in Vec : Step(v)
    BY DEF Next
  <1>1. ASSUME NEW m, NEW cs, NEW n, NEW exc, v \in alive, Commit(v, m, cs, n, exc)
        PROVE  Resting'
    BY <1>1 DEF Commit, Resting, IInv, TypeOK
  <1>2. CASE DefaultCtor(v)
    BY <1>2 DEF DefaultCtor, Resting
  <1>3. CASE \E n, val : BuildWith(v, n, val)
    <2>1. \/ alive' = alive \cup {v} /\ \A w \in Vec : w # v => size_'[w] = size_[w]
          \/ UNCHANGED <<alive, size_>>
      BY <1>3 DEF BuildWith, IInv, TypeOK
    <2>. QED
      BY <2>1 DEF Resting
  <1>4. CASE Destroy(v)
    BY <1>4 DEF Destroy, Resting, IInv, TypeOK
  <1>5. CASE \E w \in Vec \ {v} : Swap(v, w)
    BY <1>5 DEF Swap, Callable, Resting, IInv, TypeOK
  <1>6. CASE v \in alive /\ \E m, cs, n, exc : Commit(v, m, cs, n, exc)
    BY <1>1, <1>6
  <1>7. \/ DefaultCtor(v) \/ Destroy(v) \/ \E w \in Vec \ {v} : Swap(v, w)
        \/ \E n, val : BuildWith(v, n, val)
        \/ v \in alive /\ \E m, cs, n, exc : Commit(v, m, cs, n, exc)
    BY DEF Step, FillCtor, RangeCtor, Reserve, Assign, Clear, Resize, PushBack, PopBack,
           At, Index, FrontElement, BackElement, Through, GiveUp, Callable
  <1>. QED
    BY <1>2, <1>3, <1>4, <1>5, <1>6, <1>7

LEMMA InitSeq == Init => Abstract!Init /\ Resting
  BY DEF Init, Abstract!Init, Contents, Elements, Resting

(***************************************************************************)
(* A vector is a sequence, for every number of vectors, every element size *)
(* and wherever realloc puts a buffer: each call does to what can be read  *)
(* through size() and operator[] what SeqContainer says, or nothing        *)
(* (vector.hpp:27-338).                                                    *)
(***************************************************************************)
THEOREM SequenceSafe == NoWrap /\ Plain => (Spec => IsSequence)
  <1>. SUFFICES ASSUME NoWrap, Plain PROVE Spec => IsSequence
    OBVIOUS
  <1>1. Init => Abstract!Init /\ Resting
    BY InitSeq
  <1>2. IInv /\ Resting /\ [Next]_vars => Resting'
    BY RestingKept DEF Resting, vars
  <1>3. IInv /\ Resting /\ [Next]_vars => [Abstract!Next]_(Abstract!seqVars)
    <2>. SUFFICES ASSUME IInv, Resting, [Next]_vars
                  PROVE  [Abstract!Next]_(Abstract!seqVars)
      OBVIOUS
    <2>1. CASE Next
      BY <2>1, NextSeq DEF Stutter, Abstract!seqVars
    <2>2. CASE UNCHANGED vars
      BY <2>2 DEF vars, Contents, Elements, Element, Abstract!seqVars
    <2>. QED
      BY <2>1, <2>2
  <1>. QED
    BY <1>1, <1>2, <1>3, Inductive, PTL DEF Spec, IsSequence, Abstract!Spec

-----------------------------------------------------------------------------
(* All that can be seen of a vector is values, because its abstraction only *)
(* ever takes values.                                                       *)
OnlyValues == Contents \in [Vec -> Seq(Value)]

LEMMA BecomesTyped ==
  ASSUME OnlyValues, NEW v \in Vec, NEW s \in Seq(Value), Abstract!Becomes(v, s)
  PROVE  OnlyValues'
  BY DEF OnlyValues, Abstract!Becomes

LEMMA AbstractTyped ==
  ASSUME OnlyValues, Abstract!Next
  PROVE  OnlyValues'
  <1>0. Count \cup {0} \subseteq Nat
    BY VectorAssumption
  <1>1. PICK v \in Vec :
          \/ \E n \in Count \cup {0} : \E s \in [1 .. n -> Value] : Abstract!Build(v, s)
          \/ Abstract!Unbuild(v)
          \/ \E x \in Value : Abstract!Append1(v, x)
          \/ Abstract!DropLast(v)
          \/ \E n \in Count \cup {0} : Abstract!Truncate(v, n)
          \/ \E n \in Count, x \in Value : Abstract!Extend(v, n, x) \/ Abstract!Refill(v, n, x)
          \/ \E x \in Value : Abstract!Overwrite(v, x)
          \/ \E x \in Value : \E i \in DOMAIN Contents[v] : Abstract!Update(v, i, x)
          \/ \E w \in Vec : Abstract!Exchange(v, w)
    BY DEF Abstract!Next
  <1>. DEFINE c == Contents[v]
  <1>c. c \in Seq(Value) /\ Len(c) \in Nat
    BY DEF OnlyValues
  <1>2. CASE \E n \in Count \cup {0} : \E s \in [1 .. n -> Value] : Abstract!Build(v, s)
    <2>0. PICK n \in Nat : \E s \in [1 .. n -> Value] : Abstract!Build(v, s)
      BY <1>0, <1>2
    <2>1. PICK s \in [1 .. n -> Value] : Abstract!Build(v, s)
      BY <2>0
    <2>2. s \in Seq(Value)
      OBVIOUS
    <2>. QED
      BY <2>1, <2>2 DEF Abstract!Build, OnlyValues
  <1>3. CASE Abstract!Unbuild(v)
    BY <1>3 DEF Abstract!Unbuild, OnlyValues
  <1>4. CASE \E x \in Value : Abstract!Append1(v, x)
    <2>1. PICK x \in Value : Abstract!Becomes(v, Append(c, x))
      BY <1>4 DEF Abstract!Append1
    <2>2. Append(c, x) \in Seq(Value)
      BY <1>c
    <2>. QED
      BY <2>1, <2>2, BecomesTyped
  <1>5. CASE Abstract!DropLast(v) \/ \E n \in Count \cup {0} : Abstract!Truncate(v, n)
    <2>1. PICK n \in Nat : n <= Len(c) /\ Abstract!Becomes(v, SubSeq(c, 1, n))
      <3>1. CASE Abstract!DropLast(v)
        <4>1. c # <<>> /\ Abstract!Becomes(v, SubSeq(c, 1, Len(c) - 1))
          BY <3>1 DEF Abstract!DropLast, Abstract!Front
        <4>. HIDE DEF c
        <4>2. Len(c) # 0
          BY <1>c, <4>1
        <4>3. Len(c) - 1 \in Nat /\ Len(c) - 1 <= Len(c)
          BY <1>c, <4>2
        <4>. QED
          BY <4>1, <4>3
      <3>2. CASE \E n \in Count \cup {0} : Abstract!Truncate(v, n)
        BY <1>0, <3>2 DEF Abstract!Truncate
      <3>. QED
        BY <1>5, <3>1, <3>2
    <2>. HIDE DEF c
    <2>2. SubSeq(c, 1, n) \in Seq(Value)
      BY <1>c, <2>1
    <2>. QED
      BY <2>1, <2>2, BecomesTyped
  <1>6. CASE \E n \in Count, x \in Value : Abstract!Extend(v, n, x) \/ Abstract!Refill(v, n, x)
    <2>1. PICK n \in Nat, x \in Value : Abstract!Extend(v, n, x) \/ Abstract!Refill(v, n, x)
      BY <1>0, <1>6
    <2>2. CASE Abstract!Refill(v, n, x)
      <3>1. Abstract!Becomes(v, [i \in 1 .. n |-> x])
        BY <2>2 DEF Abstract!Refill, Abstract!Copies
      <3>2. [i \in 1 .. n |-> x] \in Seq(Value)
        OBVIOUS
      <3>. QED
        BY <3>1, <3>2, BecomesTyped
    <2>3. CASE Abstract!Extend(v, n, x)
      <3>1. PICK more \in 1 .. MaxLen : Abstract!Becomes(v, c \o [i \in 1 .. more |-> x])
        BY <2>3 DEF Abstract!Extend, Abstract!Copies
      <3>. HIDE DEF c
      <3>2. more \in Nat
        BY QuotientBound, HeapAssumption, SizeAssumption DEF MaxLen
      <3>3. [i \in 1 .. more |-> x] \in Seq(Value)
        BY <3>2
      <3>4. c \o [i \in 1 .. more |-> x] \in Seq(Value)
        BY <1>c, <3>3
      <3>. QED
        BY <3>1, <3>4, BecomesTyped
    <2>. QED
      BY <2>1, <2>2, <2>3
  <1>7. CASE \E x \in Value : Abstract!Overwrite(v, x)
    <2>1. PICK x \in Value : Abstract!Becomes(v, [i \in 1 .. Len(c) |-> x])
      BY <1>7 DEF Abstract!Overwrite, Abstract!Copies
    <2>. HIDE DEF c
    <2>2. [i \in 1 .. Len(c) |-> x] \in Seq(Value)
      BY <1>c
    <2>. QED
      BY <2>1, <2>2, BecomesTyped
  <1>8. CASE \E x \in Value : \E i \in DOMAIN Contents[v] : Abstract!Update(v, i, x)
    <2>1. PICK x \in Value, i \in DOMAIN c : Abstract!Becomes(v, [c EXCEPT ![i] = x])
      BY <1>8 DEF Abstract!Update, Abstract!ReplaceAt
    <2>. HIDE DEF c
    <2>2. [c EXCEPT ![i] = x] \in Seq(Value)
      BY <1>c
    <2>. QED
      BY <2>1, <2>2, BecomesTyped
  <1>9. CASE \E w \in Vec : Abstract!Exchange(v, w)
    BY <1>9 DEF Abstract!Exchange, OnlyValues
  <1>. QED
    BY <1>1, <1>2, <1>3, <1>4, <1>5, <1>6, <1>7, <1>8, <1>9

(***************************************************************************)
(* No element below size_ is raw or destroyed memory, in any vector and    *)
(* after any sequence of calls (vector.hpp:27-342).                        *)
(***************************************************************************)
THEOREM InitialisedSafe == NoWrap /\ Plain => (Spec => []AllInitialised)
  <1>. SUFFICES ASSUME NoWrap, Plain PROVE Spec => []AllInitialised
    OBVIOUS
  <1>1. Init => Resting /\ OnlyValues
    BY InitSeq DEF Init, OnlyValues, Contents, Elements
  <1>2. IInv /\ Resting /\ OnlyValues /\ [Next]_vars => Resting' /\ OnlyValues'
    <2>. SUFFICES ASSUME IInv, Resting, OnlyValues, [Next]_vars
                  PROVE  Resting' /\ OnlyValues'
      OBVIOUS
    <2>1. CASE Next
      BY <2>1, RestingKept, NextSeq, AbstractTyped DEF Stutter, OnlyValues
    <2>2. CASE UNCHANGED vars
      BY <2>2 DEF vars, Resting, OnlyValues, Contents, Elements, Element
    <2>. QED
      BY <2>1, <2>2
  <1>3. IInv /\ OnlyValues => AllInitialised
    <2>. SUFFICES ASSUME IInv, OnlyValues, NEW v \in Vec, NEW i \in 0 .. size_[v] - 1
                  PROVE  Element(v, i) \in Value
      BY DEF AllInitialised, Initialised
    <2>1. i + 1 \in 1 .. size_[v] /\ (i + 1) - 1 = i
      BY Types
    <2>2. Contents[v][i + 1] = Element(v, i)
      BY <2>1 DEF Contents, Elements
    <2>3. Contents[v] \in Seq(Value) /\ i + 1 \in 1 .. Len(Contents[v])
      BY <2>1, Seen DEF OnlyValues
    <2>4. Contents[v][i + 1] \in Value
      BY <2>3
    <2>. QED
      BY <2>2, <2>4
  <1>. QED
    BY <1>1, <1>2, <1>3, Inductive, PTL DEF Spec

-----------------------------------------------------------------------------
(* A call that scales the buffer of v, if any, and moves no other's *)
Scales(v, m, cs, n, exc) == v \in alive /\ Keeps(v, m) /\ Commit(v, m, cs, n, exc)

LEMMA CallScales ==
  ASSUME NoWrap, IInv, NEW v \in Vec, Step(v),
         ~DefaultCtor(v), ~ \E n, val : BuildWith(v, n, val),
         ~Destroy(v), ~ \E w \in Vec \ {v} : Swap(v, w)
  PROVE  \E m, cs, n, exc :
           /\ Scales(v, m, cs, n, exc)
           /\ \/ capacity_[v] <= m.capacity
              \/ \E k \in Count, arg \in Argument(v) : Assign(v, k, arg)
  <1>0. capacity_[v] <= Same(v).capacity /\ capacity_[v] <= capacity_[v]
    BY Types DEF Same
  <1>g. ASSUME NEW m, m.capacity \in Nat, Keeps(v, m), GiveUp(v, m), v \in alive, Sound(v, m)
        PROVE  capacity_[v] <= m.capacity /\ Scales(v, m, m.cells, size_[v], m.exc)
    BY <1>0, <1>g DEF GiveUp, Sound, Scales
  <1>1. CASE \E n \in Count : Reserve(v, n)
    <2>1. PICK n \in Count : Reserve(v, n)
      BY <1>1
    <2>2. PICK m \in ReserveResults(v, n) : Commit(v, m, m.cells, size_[v], m.exc)
      BY <2>1 DEF Reserve
    <2>3. Sound(v, m) /\ Keeps(v, m) /\ (m.exc = "none" => capacity_[v] <= m.capacity)
      BY ReserveKeeps
    <2>4. capacity_[v] <= m.capacity
      BY <1>0, <2>3 DEF Sound
    <2>5. Scales(v, m, m.cells, size_[v], m.exc)
      BY <2>1, <2>2, <2>3 DEF Scales, Reserve, Callable
    <2>. QED
      BY <2>4, <2>5
  <1>2. CASE \E n \in Count, arg \in Argument(v) : Assign(v, n, arg)
    <2>1. PICK n \in Count, arg \in Argument(v) : Assign(v, n, arg)
      BY <1>2
    <2>0. n \in Nat /\ n * SizeOf < SizeMod /\ v \in alive
      BY <2>1, VectorAssumption DEF NoWrap, Assign, Callable
    <2>2. CASE \E m \in ScaleResults(v, n) : \E cs, k, exc : Commit(v, m, cs, k, exc)
      <3>1. PICK m \in ScaleResults(v, n) : \E cs, k, exc : Commit(v, m, cs, k, exc)
        BY <2>2
      <3>2. Keeps(v, m)
        BY <2>0, HasStorage, ScaleKeeps
      <3>. QED
        BY <2>0, <2>1, <3>1, <3>2 DEF Scales
    <2>3. CASE \E cs, k, exc : Commit(v, Same(v), cs, k, exc)
      BY <2>0, <2>1, <2>3, SameKeeps DEF Scales
    <2>. QED
      BY <2>1, <2>2, <2>3 DEF Assign, GiveUp
  <1>3. CASE \E n \in Count, x \in Value : Resize(v, n, x)
    <2>1. PICK n \in Count, x \in Value : Resize(v, n, x)
      BY <1>3
    <2>0. v \in alive
      BY <2>1 DEF Resize, Callable
    <2>2. CASE \E m \in ReserveResults(v, n) :
                 \/ GiveUp(v, m)
                 \/ m.exc = "none" /\ \E cs, k, exc : Commit(v, m, cs, k, exc)
      <3>1. PICK m \in ReserveResults(v, n) :
              \/ GiveUp(v, m)
              \/ m.exc = "none" /\ \E cs, k, exc : Commit(v, m, cs, k, exc)
        BY <2>2
      <3>2. /\ Sound(v, m) /\ Keeps(v, m) /\ (m.exc = "none" => capacity_[v] <= m.capacity)
            /\ m.capacity \in Nat
        BY ReserveKeeps DEF Sound
      <3>. QED
        BY <1>g, <2>0, <3>1, <3>2 DEF Scales
    <2>3. CASE \E cs, k, exc : Commit(v, Same(v), cs, k, exc)
      BY <1>0, <2>0, <2>3, SameKeeps DEF Scales
    <2>. QED
      BY <2>1, <2>2, <2>3 DEF Resize
  <1>4. CASE \E arg \in Argument(v) : PushBack(v, arg)
    <2>1. PICK arg \in Argument(v) : PushBack(v, arg)
      BY <1>4
    <2>2. PICK m \in AppendResults(v) :
            \/ GiveUp(v, m)
            \/ m.exc = "none" /\ \E cs, k, exc : Commit(v, m, cs, k, exc)
      BY <2>1 DEF PushBack
    <2>3. /\ Sound(v, m) /\ Keeps(v, m) /\ (m.exc = "none" => capacity_[v] <= m.capacity)
          /\ m.capacity \in Nat /\ v \in alive
      BY <2>1, AppendKeeps DEF Sound, PushBack, Callable
    <2>. QED
      BY <1>g, <2>2, <2>3 DEF Scales
  <1>5. CASE v \in alive /\ \E cs, k, exc : Commit(v, Same(v), cs, k, exc)
    BY <1>0, <1>5, SameKeeps DEF Scales
  <1>6. CASE \/ Clear(v) \/ PopBack(v)
             \/ \E i \in Count, x \in Value : At(v, i, x) \/ Index(v, i, x)
             \/ \E x \in Value : FrontElement(v, x) \/ BackElement(v, x)
    <2>1. v \in alive /\ \E cs, k, exc : Commit(v, Same(v), cs, k, exc)
      BY <1>6 DEF Clear, PopBack, At, Index, FrontElement, BackElement, Through, Callable
    <2>. QED
      BY <1>5, <2>1
  <1>. QED
    BY <1>1, <1>2, <1>3, <1>4, <1>6 DEF Step, FillCtor, RangeCtor

(***************************************************************************)
(* Only assign (vector.hpp:107-110) and swap make a capacity smaller; a    *)
(* call that throws does not either.                                       *)
(***************************************************************************)
THEOREM CapacitySafe == NoWrap => (Spec => CapacityKept)
  <1>. SUFFICES ASSUME NoWrap PROVE Spec => CapacityKept
    OBVIOUS
  <1>. DEFINE Excused(u) ==
                \/ \E n \in Count, arg \in Argument(u) : Assign(u, n, arg)
                \/ \E w \in Vec \ {u} : Swap(u, w) \/ Swap(w, u)
  <1>1. ASSUME IInv, Next, NEW u \in alive \cap alive', capacity_'[u] < capacity_[u]
        PROVE  Excused(u)
    <2>. PICK v \in Vec : Step(v)
      BY <1>1 DEF Next
    <2>0. u \in Vec /\ capacity_[u] \in Nat
      BY <1>1, Types DEF IInv, TypeOK
    <2>s. capacity_'[u] # capacity_[u]
      BY <1>1, <2>0
    <2>1. CASE DefaultCtor(v) \/ Destroy(v) \/ \E n, val : BuildWith(v, n, val)
      BY <1>1, <2>0, <2>1, <2>s DEF DefaultCtor, Destroy, BuildWith, Unmade, IInv, TypeOK
    <2>2. CASE \E w \in Vec \ {v} : Swap(v, w)
      BY <1>1, <2>0, <2>2, <2>s DEF Swap, IInv, TypeOK
    <2>3. CASE \E m, cs, n, exc :
                 /\ Scales(v, m, cs, n, exc)
                 /\ \/ capacity_[v] <= m.capacity
                    \/ \E k \in Count, arg \in Argument(v) : Assign(v, k, arg)
      <3>1. PICK m, cs, n, exc :
              /\ Scales(v, m, cs, n, exc)
              /\ \/ capacity_[v] <= m.capacity
                 \/ \E k \in Count, arg \in Argument(v) : Assign(v, k, arg)
        BY <2>3
      <3>2. /\ capacity_'[v] = m.capacity
            /\ \A w \in Vec : w # v => capacity_'[w] = capacity_[w]
        BY <1>1, <3>1 DEF Scales, Commit, IInv, TypeOK
      <3>3. u = v
        BY <2>0, <2>s, <3>2
      <3>4. ~(capacity_[v] <= m.capacity)
        <4>1. IInv'
          BY <1>1, NextIInv
        <4>2. capacity_'[u] \in Nat
          BY <2>0, <4>1 DEF IInv, TypeOK
        <4>. QED
          BY <1>1, <2>0, <3>2, <3>3, <4>2
      <3>. QED
        BY <3>1, <3>3, <3>4
    <2>. QED
      BY <1>1, <2>1, <2>2, <2>3, CallScales
  <1>2. IInv /\ [Next]_vars =>
          [ \A v \in alive \cap alive' :
              capacity_'[v] < capacity_[v] =>
                \/ \E n \in Count, arg \in Argument(v) : Assign(v, n, arg)
                \/ \E w \in Vec \ {v} : Swap(v, w) \/ Swap(w, v) ]_vars
    BY <1>1
  <1>. QED
    BY <1>2, Inductive, PTL DEF Spec, CapacityKept

(***************************************************************************)
(* What a vector owned is owned afterwards, or was given back: no call but *)
(* the destructor (vector.hpp:43) loses a buffer, one that throws included.*)
(***************************************************************************)
THEOREM BufferKept == NoWrap => (Spec => BufferNeverLost)
  <1>. SUFFICES ASSUME NoWrap PROVE Spec => BufferNeverLost
    OBVIOUS
  <1>1. ASSUME IInv, Next, NEW u \in alive,
               IsLive(heap, arr_[u]), IsLive(heap', arr_[u]),
               ~ \E w \in alive' : arr_'[w] = arr_[u]
        PROVE  Destroy(u)
    <2>. PICK v \in Vec : Step(v)
      BY <1>1 DEF Next
    <2>0. u \in Vec /\ alive \subseteq Vec /\ arr_[u] # NULL
      BY <1>1, HeapAssumption DEF IInv, TypeOK, IsLive
    <2>1. CASE DefaultCtor(v) \/ Destroy(v) \/ \E n, val : BuildWith(v, n, val)
      <3>1. CASE DefaultCtor(v)
        BY <1>1, <3>1 DEF DefaultCtor
      <3>2. CASE Destroy(v)
        <4>1. u # v => u \in alive' /\ arr_'[u] = arr_[u]
          BY <1>1, <2>0, <3>2 DEF Destroy, IInv, TypeOK
        <4>. QED
          BY <1>1, <3>2, <4>1
      <3>3. CASE \E n, val : BuildWith(v, n, val)
        <4>1. /\ v \notin alive
              /\ \/ UNCHANGED <<alive, arr_>>
                 \/ alive' = alive \cup {v} /\ \E p : arr_' = [arr_ EXCEPT ![v] = p]
          BY <3>3 DEF BuildWith, Unmade
        <4>2. u \in alive' /\ arr_'[u] = arr_[u]
          BY <1>1, <2>0, <4>1 DEF IInv, TypeOK
        <4>. QED
          BY <1>1, <4>2
      <3>. QED
        BY <2>1, <3>1, <3>2, <3>3
    <2>2. CASE \E w \in Vec \ {v} : Swap(v, w)
      <3>1. PICK w \in Vec \ {v} : Swap(v, w)
        BY <2>2
      <3>2. /\ arr_'[v] = arr_[w] /\ arr_'[w] = arr_[v] /\ v \in alive' /\ w \in alive'
            /\ alive' = alive /\ \A t \in Vec : t # v /\ t # w => arr_'[t] = arr_[t]
        BY <1>1, <3>1 DEF Swap, Callable, IInv, TypeOK
      <3>. QED
        BY <1>1, <2>0, <3>2
    <2>3. CASE \E m, cs, n, exc : Scales(v, m, cs, n, exc)
      <3>1. PICK m, cs, n, exc : Scales(v, m, cs, n, exc)
        BY <2>3
      <3>2. /\ heap' = m.heap /\ arr_'[v] = m.arr /\ alive' = alive /\ v \in alive
            /\ \A w \in Vec : w # v => arr_'[w] = arr_[w]
        BY <1>1, <3>1 DEF Scales, Commit, IInv, TypeOK
      <3>3. u = v /\ m.arr # arr_[v]
        BY <1>1, <2>0, <3>2
      <3>4. m.heap[arr_[v]] = Free
        BY <2>0, <3>1, <3>3 DEF Scales, Keeps
      <3>. QED
        BY <1>1, <3>2, <3>3, <3>4 DEF IsLive
    <2>. QED
      BY <1>1, <2>1, <2>2, <2>3, CallScales
  <1>2. IInv /\ [Next]_vars =>
          [ \A v \in alive :
              /\ IsLive(heap, arr_[v])
              /\ IsLive(heap', arr_[v])
              /\ ~ \E w \in alive' : arr_'[w] = arr_[v]
              => Destroy(v) ]_vars
    BY <1>1
  <1>. QED
    BY <1>2, Inductive, PTL DEF Spec, BufferNeverLost

-----------------------------------------------------------------------------
(***************************************************************************)
(* A loop of assignments that starts at or below size_ leaves no gap in    *)
(* what is counted, if it counts no element it has not assigned.           *)
(***************************************************************************)
LEMMA StaysInitialised ==
  ASSUME IInv, NEW v \in Vec, Initialised(v), NEW m, Sound(v, m), Keeps(v, m),
         NEW from \in Nat, NEW k \in Nat, NEW x \in Value, NEW n \in Nat, n <= m.capacity,
         n <= size_[v] \/ (from <= size_[v] /\ n <= k), NEW exc,
         Commit(v, m, Written(m.cells, m.arr, from, k, All(x)), n, exc)
  PROVE  Initialised(v)'
  <1>. DEFINE t == Result(m, from, k, All(x), n)
  <1>0. x \in Cell /\ size_[v] \in Nat
    BY Types DEF Cell
  <1>1. Turns(v, t)
    BY CommitEffect
  <1>2. size_'[v] = n
    BY DEF Commit, IInv, TypeOK
  <1>3. Assigned(v, t, from, k, x, n)
    BY <1>0, ResultAt
  <1>. HIDE DEF t
  <1>4. Elements(v)' = t
    BY <1>1 DEF Turns, Contents
  <1>5. ASSUME NEW i \in 1 .. n
        PROVE  t[i] \in Value
    <2>1. CASE from < i /\ i <= k
      BY <1>3, <2>1 DEF Assigned
    <2>2. CASE ~(from < i /\ i <= k)
      <3>1. i \in 1 .. size_[v] /\ (i <= from \/ k < i)
        BY <1>0, <2>2
      <3>2. t[i] = Elements(v)[i]
        BY <1>3, <3>1 DEF Assigned
      <3>3. Elements(v)[i] = Element(v, i - 1) /\ i - 1 \in 0 .. size_[v] - 1
        BY <1>0, <3>1 DEF Elements
      <3>. QED
        BY <3>2, <3>3 DEF Initialised
    <2>. QED
      BY <2>1, <2>2
  <1>6. ASSUME NEW i \in 0 .. n - 1
        PROVE  Element(v, i)' \in Value
    <2>1. i + 1 \in 1 .. n /\ (i + 1) - 1 = i
      OBVIOUS
    <2>2. Elements(v)'[i + 1] = Element(v, (i + 1) - 1)'
      BY <1>2, <2>1 DEF Elements
    <2>. QED
      BY <1>4, <1>5, <2>1, <2>2
  <1>. QED
    BY <1>2, <1>6 DEF Initialised

(* How far a loop came that ended within its bounds, and what it assigned *)
LEMMA LoopThrows ==
  ASSUME NEW h, NEW cs, NEW p, NEW from \in Nat, NEW to \in Nat, from <= to,
         to <= Room(h, p), NEW val, NEW w \in WriteResults(h, cs, p, from, to, val)
  PROVE  /\ w.cells = Written(cs, p, from, w.done, val)
         /\ w.done \in from .. to
         /\ w.exc = "none" => w.done = to
  BY DEF WriteResults

LEMMA GiveUpInitialised ==
  ASSUME IInv, NEW v \in Vec, Initialised(v), NEW m, Sound(v, m), Keeps(v, m),
         NEW x \in Value, GiveUp(v, m)
  PROVE  Initialised(v)'
  <1>1. /\ size_[v] \in Nat /\ size_[v] <= m.capacity /\ size_[v] <= size_[v]
        /\ m.cells \in Cells /\ 0 \in Nat /\ 0 \in Int
    BY Types DEF Sound, GiveUp
  <1>2. m.cells = Written(m.cells, m.arr, 0, 0, All(x))
    BY <1>1, WrittenNothing
  <1>3. Commit(v, m, Written(m.cells, m.arr, 0, 0, All(x)), size_[v], m.exc)
    BY <1>2 DEF GiveUp
  <1>. QED
    BY <1>1, <1>3, StaysInitialised

LEMMA ThroughInitialised ==
  ASSUME IInv, NEW v \in Vec, Initialised(v), NEW test, NEW i,
         test => i \in Nat /\ i + 1 <= size_[v],
         NEW x \in Value, NEW otherwise, otherwise # "copy",
         Through(v, test, i, x, otherwise), outcome' = "copy"
  PROVE  Initialised(v)'
  <1>. DEFINE m == Same(v)
  <1>1. test
    BY DEF Through, Commit
  <1>2. PICK w \in WriteResults(m.heap, m.cells, m.arr, i, i + 1, All(x)) :
          Commit(v, m, w.cells, size_[v], w.exc)
    BY <1>1 DEF Through, Same
  <1>3. Sound(v, m) /\ Keeps(v, m)
    BY HasStorage, SameSound, SameKeeps
  <1>4. /\ size_[v] \in Nat /\ size_[v] <= m.capacity /\ size_[v] <= size_[v]
        /\ i \in Nat /\ i + 1 \in Nat /\ i <= i + 1 /\ i + 1 <= m.capacity
    BY <1>1, Types DEF Same
  <1>. HIDE DEF m
  <1>5. i + 1 <= Room(m.heap, m.arr)
    BY <1>3, <1>4, Carries
  <1>6. w.cells = Written(m.cells, m.arr, i, w.done, All(x)) /\ w.done \in Nat
    BY <1>4, <1>5, LoopThrows
  <1>7. Commit(v, m, Written(m.cells, m.arr, i, w.done, All(x)), size_[v], w.exc)
    BY <1>2, <1>6
  <1>. QED
    BY <1>3, <1>4, <1>6, <1>7, StaysInitialised

LEMMA ResizeInitialised ==
  ASSUME NoWrap, IInv, NEW v \in Vec, Initialised(v), NEW n \in Count, NEW x \in Value,
         Resize(v, n, x), outcome' = "copy"
  PROVE  Initialised(v)'
  <1>0. n \in Nat /\ size_[v] \in Nat
    BY Types, VectorAssumption
  <1>1. PICK m \in ReserveResults(v, n) :
          \/ GiveUp(v, m)
          \/ /\ m.exc = "none" /\ n > size_[v]
             /\ \E w \in WriteResults(m.heap, m.cells, m.arr, size_[v],
                                      m.capacity, All(x)) :
                  Commit(v, m, w.cells, w.done, w.exc)
    BY DEF Resize, Commit
  <1>2. Sound(v, m) /\ Keeps(v, m) /\ (m.exc = "none" => n <= m.capacity)
    BY ReserveKeeps
  <1>3. CASE GiveUp(v, m)
    BY <1>2, <1>3, GiveUpInitialised
  <1>4. CASE /\ m.exc = "none" /\ n > size_[v]
             /\ \E w \in WriteResults(m.heap, m.cells, m.arr, size_[v],
                                      m.capacity, All(x)) :
                  Commit(v, m, w.cells, w.done, w.exc)
    <2>1. PICK w \in WriteResults(m.heap, m.cells, m.arr, size_[v], m.capacity, All(x)) :
            Commit(v, m, w.cells, w.done, w.exc)
      BY <1>4
    <2>2. /\ m.capacity \in Nat /\ size_[v] <= m.capacity /\ size_[v] <= size_[v]
          /\ m.capacity <= Room(m.heap, m.arr)
      BY <1>0, <1>2, <1>4, Carries
    <2>3. /\ w.cells = Written(m.cells, m.arr, size_[v], w.done, All(x))
          /\ w.done \in size_[v] .. m.capacity
      BY <1>0, <2>2, LoopThrows
    <2>4. w.done \in Nat /\ w.done <= m.capacity /\ w.done <= w.done
      BY <1>0, <2>2, <2>3
    <2>5. Commit(v, m, Written(m.cells, m.arr, size_[v], w.done, All(x)), w.done, w.exc)
      BY <2>1, <2>3
    <2>. QED
      BY <1>0, <1>2, <2>2, <2>4, <2>5, StaysInitialised
  <1>. QED
    BY <1>1, <1>3, <1>4

(***************************************************************************)
(* An element whose assignment throws in resize (vector.hpp:224-227), or   *)
(* through a reference of at, front, back or operator[], leaves no element *)
(* without a value where there was none, wherever in the loop it happens.  *)
(***************************************************************************)
THEOREM GapSafe == NoWrap => (Spec => ThrowLeavesNoGap)
  <1>. SUFFICES ASSUME NoWrap PROVE Spec => ThrowLeavesNoGap
    OBVIOUS
  <1>1. ASSUME IInv, outcome' = "copy", NEW v \in alive \cap alive', Initialised(v),
               NEW x \in Value,
               \/ FrontElement(v, x) \/ BackElement(v, x)
               \/ \E n \in Count : Resize(v, n, x) \/ At(v, n, x) \/ Index(v, n, x)
        PROVE  Initialised(v)'
    <2>0. v \in Vec /\ size_[v] \in Nat /\ Count \subseteq Nat
      BY <1>1, Types, VectorAssumption DEF IInv, TypeOK
    <2>1. CASE FrontElement(v, x)
      <3>1. ~Empty(v) => 0 \in Nat /\ 0 + 1 <= size_[v]
        BY <2>0 DEF Empty
      <3>. QED
        BY <1>1, <2>0, <2>1, <3>1, ThroughInitialised DEF FrontElement
    <2>2. CASE BackElement(v, x)
      <3>1. ~Empty(v) => size_[v] - 1 \in Nat /\ size_[v] - 1 + 1 <= size_[v]
        BY <2>0 DEF Empty
      <3>. QED
        BY <1>1, <2>0, <2>2, <3>1, ThroughInitialised DEF BackElement
    <2>3. CASE \E n \in Count : Resize(v, n, x)
      BY <1>1, <2>0, <2>3, ResizeInitialised
    <2>4. CASE \E n \in Count : At(v, n, x) \/ Index(v, n, x)
      <3>1. PICK n \in Nat : At(v, n, x) \/ Index(v, n, x)
        BY <2>0, <2>4
      <3>2. size_[v] > n => n \in Nat /\ n + 1 <= size_[v]
        BY <2>0
      <3>3. CASE At(v, n, x)
        BY <1>1, <2>0, <3>2, <3>3, ThroughInitialised DEF At
      <3>4. CASE Index(v, n, x)
        BY <1>1, <2>0, <3>2, <3>4, ThroughInitialised DEF Index
      <3>. QED
        BY <3>1, <3>3, <3>4
    <2>. QED
      BY <1>1, <2>1, <2>2, <2>3, <2>4
  <1>2. IInv =>
          ( outcome' = "copy" =>
              \A v \in alive \cap alive' :
                /\ Initialised(v)
                /\ \E x \in Value :
                     \/ FrontElement(v, x) \/ BackElement(v, x)
                     \/ \E n \in Count : Resize(v, n, x) \/ At(v, n, x) \/ Index(v, n, x)
                => Initialised(v)' )
    BY <1>1
  <1>. QED
    BY <1>2, Inductive, PTL DEF Spec, ThrowLeavesNoGap

-----------------------------------------------------------------------------
(* A value of the client's own is never mistaken for a reference. *)
Distinguished == Own \cap Value = {}

LEMMA LoopReads ==
  ASSUME IInv, NEW v \in Vec, NEW own \in Own, own[1] < size_[v], Distinguished,
         NEW from \in Nat, NEW to \in Nat, from <= to, to <= capacity_[v],
         NEW w \in WriteResults(heap, cells, arr_[v], from, to,
                                All(Denotes(v, Same(v), own))),
         w.exc = "none", NEW n, Commit(v, Same(v), w.cells, n, w.exc),
         NEW i \in from .. to - 1
  PROVE  Element(v, i)' = Element(v, own[1])
  <1>. DEFINE x == Denotes(v, Same(v), own)
  <1>0. /\ Room(heap, arr_[v]) = capacity_[v] /\ capacity_[v] \in Nat
        /\ capacity_[v] <= MaxLen /\ MaxLen \in Nat
        /\ size_[v] \in Nat /\ size_[v] <= capacity_[v]
    BY HasStorage, OwnRoom, Types, RoomBound, QuotientBound, HeapAssumption, SizeAssumption
    DEF MaxLen
  <1>1. own[1] \in Nat
    BY VectorAssumption DEF Own
  <1>2. x = Element(v, own[1])
    <2>1. own \notin Value
      BY DEF Distinguished
    <2>2. own[1] < Room(heap, arr_[v])
      BY <1>0, <1>1
    <2>. QED
      BY <2>1, <2>2 DEF Denotes, Same, Element
  <1>. HIDE DEF x
  <1>3. w.cells = Written(cells, arr_[v], from, to, All(x))
    <2>1. w \in WriteResults(heap, cells, arr_[v], from, to, All(x))
      BY DEF x
    <2>. QED
      BY <1>0, <2>1, LoopThrows
  <1>4. heap' = heap /\ arr_'[v] = arr_[v] /\ cells' = w.cells
    BY DEF Commit, Same, IInv, TypeOK
  <1>5. arr_[v] \in Block /\ i \in 0 .. MaxLen - 1 /\ i < capacity_[v]
    <2>1. i \in 0 .. MaxLen - 1 /\ i < capacity_[v]
      BY <1>0
    <2>. QED
      BY <1>0, <2>1, Types
  <1>6. cells'[arr_[v]][i] = x
    BY <1>3, <1>4, <1>5 DEF Written, All
  <1>7. Element(v, i)' = x
    BY <1>0, <1>4, <1>5, <1>6 DEF Element, Room, IsLive
  <1>. QED
    BY <1>2, <1>7

(***************************************************************************)
(* push_back with capacity to spare (vector.hpp:242-247) and assign of as  *)
(* many elements as the capacity (vector.hpp:111-113) copy an element of   *)
(* their own vector they are given by reference, whatever they overwrite.  *)
(***************************************************************************)
THEOREM OwnSafe == NoWrap /\ Distinguished => (Spec => OwnElementCopied)
  <1>. SUFFICES ASSUME NoWrap, Distinguished PROVE Spec => OwnElementCopied
    OBVIOUS
  <1>1. ASSUME IInv, NEW v \in alive, NEW own \in Own, own[1] < size_[v], outcome' = "none",
               PushBack(v, own), size_[v] < capacity_[v]
        PROVE  Element(v, size_[v] - 1)' = Element(v, own[1])
    <2>0. v \in Vec /\ size_[v] \in Nat /\ size_[v] + 1 <= capacity_[v]
      BY <1>1, Types DEF IInv, TypeOK
    <2>1. AppendResults(v) = { Same(v) } /\ Same(v).exc = "none"
      BY <1>1, <2>0 DEF AppendResults, Same
    <2>2. PICK w \in WriteResults(heap, cells, arr_[v], size_[v], size_[v] + 1,
                                  All(Denotes(v, Same(v), own))) :
            Commit(v, Same(v), w.cells, size_[v] + 1, w.exc)
      BY <1>1, <2>1 DEF PushBack, GiveUp, Same
    <2>3. w.exc = "none" /\ size_'[v] = size_[v] + 1
      BY <1>1, <2>0, <2>2 DEF Commit, IInv, TypeOK
    <2>4. \A i \in size_[v] .. size_[v] : Element(v, i)' = Element(v, own[1])
      <3>1. size_[v] <= size_[v] + 1 /\ size_[v] + 1 \in Nat /\ (size_[v] + 1) - 1 = size_[v]
        BY <2>0
      <3>. QED
        BY <1>1, <2>0, <2>2, <2>3, <3>1, LoopReads
    <2>5. \A i : i = size_[v] => Element(v, i)' = Element(v, own[1])
      BY <2>0, <2>4
    <2>6. (size_[v] - 1)' = size_[v]
      BY <2>0, <2>3
    <2>. QED
      BY <2>5, <2>6 DEF Element
  <1>2. ASSUME IInv, NEW v \in alive, NEW own \in Own, own[1] < size_[v], outcome' = "none",
               Assign(v, capacity_[v], own),
               NEW i \in 0 .. capacity_[v] - 1
        PROVE  Element(v, i)' = Element(v, own[1])
    <2>0. v \in Vec /\ capacity_[v] \in Nat
      BY <1>2, Types DEF IInv, TypeOK
    <2>1. PICK w \in WriteResults(heap, cells, arr_[v], 0, capacity_[v],
                                  All(Denotes(v, Same(v), own))) :
            Commit(v, Same(v), w.cells, size_[v], w.exc)
      BY <1>2, <2>0 DEF Assign
    <2>2. w.exc = "none" /\ 0 \in Nat /\ 0 <= capacity_[v] /\ capacity_[v] <= capacity_[v]
      BY <1>2, <2>0, <2>1 DEF Commit
    <2>. QED
      BY <1>2, <2>0, <2>1, <2>2, LoopReads
  <1>3. IInv =>
          \A v \in alive, own \in Own :
            /\ own[1] < size_[v]
            /\ outcome' = "none"
            => /\ PushBack(v, own) /\ size_[v] < capacity_[v] =>
                    Element(v, size_[v] - 1)' = Element(v, own[1])
               /\ Assign(v, capacity_[v], own) =>
                    \A i \in 0 .. (capacity_[v] - 1) : Element(v, i)' = Element(v, own[1])
    BY <1>1, <1>2
  <1>. QED
    BY <1>3, Inductive, PTL DEF Spec, OwnElementCopied

-----------------------------------------------------------------------------
(* No element of a storage has a value from index n on. *)
Vacant(m, n) == \A i \in n .. m.capacity - 1 : m.cells[m.arr][i] \notin Value

(* A vector outside its lifetime has no buffer. *)
Unbuilt == \A v \in Vec \ alive : arr_[v] = NULL

LEMMA UnbuiltKept ==
  ASSUME IInv, Unbuilt, Next
  PROVE  Unbuilt'
  <1>. PICK v \in Vec : Step(v)
    BY DEF Next
  <1>1. ASSUME NEW m, NEW cs, NEW n, NEW exc, v \in alive, Commit(v, m, cs, n, exc)
        PROVE  Unbuilt'
    BY <1>1 DEF Commit, Unbuilt, IInv, TypeOK
  <1>2. CASE DefaultCtor(v)
    BY <1>2 DEF DefaultCtor, Unbuilt
  <1>3. CASE \E n, val : BuildWith(v, n, val)
    <2>1. \/ alive' = alive \cup {v} /\ \A w \in Vec : w # v => arr_'[w] = arr_[w]
          \/ UNCHANGED <<alive, arr_>>
      BY <1>3 DEF BuildWith, IInv, TypeOK
    <2>. QED
      BY <2>1 DEF Unbuilt
  <1>4. CASE Destroy(v)
    BY <1>4 DEF Destroy, Unbuilt, IInv, TypeOK
  <1>5. CASE \E w \in Vec \ {v} : Swap(v, w)
    BY <1>5 DEF Swap, Callable, Unbuilt, IInv, TypeOK
  <1>6. CASE v \in alive /\ \E m, cs, n, exc : Commit(v, m, cs, n, exc)
    BY <1>1, <1>6
  <1>7. \/ DefaultCtor(v) \/ Destroy(v) \/ \E w \in Vec \ {v} : Swap(v, w)
        \/ \E n, val : BuildWith(v, n, val)
        \/ v \in alive /\ \E m, cs, n, exc : Commit(v, m, cs, n, exc)
    BY DEF Step, FillCtor, RangeCtor, Reserve, Assign, Clear, Resize, PushBack, PopBack,
           At, Index, FrontElement, BackElement, Through, GiveUp, Callable
  <1>. QED
    BY <1>2, <1>3, <1>4, <1>5, <1>6, <1>7

(* NoneBeyondSize of the vectors but v, which a call on v leaves as it is *)
LEMMA OthersVacant ==
  ASSUME IInv, NoneBeyondSize, NEW w \in alive,
         arr_'[w] = arr_[w], size_'[w] = size_[w],
         arr_[w] # NULL => /\ heap'[arr_[w]] = heap[arr_[w]]
                           /\ cells'[arr_[w]] = cells[arr_[w]]
  PROVE  \A i \in size_'[w] .. Room(heap', arr_'[w]) - 1 : cells'[arr_'[w]][i] \notin Value
  <1>1. CASE arr_[w] = NULL
    <2>1. Room(heap', arr_'[w]) = 0 /\ size_'[w] \in Nat
      BY <1>1, HeapAssumption, Types DEF Room, IsLive, IInv, TypeOK
    <2>. QED
      BY <2>1
  <1>2. CASE arr_[w] # NULL
    <2>1. Room(heap', arr_'[w]) = Room(heap, arr_[w])
      BY <1>2 DEF Room, IsLive
    <2>. QED
      BY <1>2, <2>1 DEF NoneBeyondSize
  <1>. QED
    BY <1>1, <1>2

LEMMA CommitVacant ==
  ASSUME IInv, NoneBeyondSize, NEW v \in alive, NEW m, Sound(v, m), Keeps(v, m),
         NEW from \in Nat, NEW k \in Nat, NEW val, NEW n \in Nat, NEW exc,
         \A i \in n .. m.capacity - 1 :
           IF from <= i /\ i < k THEN val[i] \notin Value ELSE m.cells[m.arr][i] \notin Value,
         Commit(v, m, Written(m.cells, m.arr, from, k, val), n, exc)
  PROVE  NoneBeyondSize'
  <1>v. v \in Vec /\ alive \subseteq Vec
    BY DEF IInv, TypeOK
  <1>1. /\ heap' = m.heap /\ cells' = Written(m.cells, m.arr, from, k, val)
        /\ alive' = alive /\ arr_'[v] = m.arr /\ size_'[v] = n
        /\ \A w \in Vec : w # v => arr_'[w] = arr_[w] /\ size_'[w] = size_[w]
    BY <1>v DEF Commit, IInv, TypeOK
  <1>2. /\ Room(m.heap, m.arr) = m.capacity /\ m.capacity \in Nat
        /\ m.capacity <= MaxLen /\ MaxLen \in Nat
    BY <1>v, Carries
  <1>3. \A i \in size_'[v] .. Room(heap', arr_'[v]) - 1 : cells'[arr_'[v]][i] \notin Value
    <2>. SUFFICES ASSUME NEW i \in n .. m.capacity - 1
                  PROVE  cells'[m.arr][i] \notin Value
      BY <1>1, <1>2
    <2>1. i \in 0 .. MaxLen - 1 /\ m.capacity # 0
      BY <1>2
    <2>2. m.arr \in Block
      BY <2>1 DEF Sound
    <2>3. cells'[m.arr][i] = IF from <= i /\ i < k THEN val[i] ELSE m.cells[m.arr][i]
      BY <1>1, <2>1, <2>2 DEF Written
    <2>. QED
      BY <2>3
  <1>4. ASSUME NEW w \in alive, w # v
        PROVE  \A i \in size_'[w] .. Room(heap', arr_'[w]) - 1 : cells'[arr_'[w]][i] \notin Value
    <2>1. arr_'[w] = arr_[w] /\ size_'[w] = size_[w]
      BY <1>v, <1>1, <1>4
    <2>2. ASSUME arr_[w] # NULL
          PROVE  heap'[arr_[w]] = heap[arr_[w]] /\ cells'[arr_[w]] = cells[arr_[w]]
      <3>1. arr_[w] \in Block /\ arr_[w] # m.arr /\ m.heap[arr_[w]] = heap[arr_[w]]
        BY <1>v, <1>4, <2>2, Types DEF Sound
      <3>2. m.cells[arr_[w]] = cells[arr_[w]]
        BY <1>v, <1>4, <2>2 DEF Keeps
      <3>. QED
        BY <1>1, <3>1, <3>2 DEF Written
    <2>. QED
      BY <1>4, <2>1, <2>2, OthersVacant
  <1>. QED
    BY <1>1, <1>3, <1>4 DEF NoneBeyondSize

(* scale_capacity_ brings no value beyond size_: what it adds is raw. *)
LEMMA SameVacant ==
  ASSUME IInv, NoneBeyondSize, NEW v \in alive
  PROVE  Vacant(Same(v), size_[v])
  <1>1. Room(heap, arr_[v]) = capacity_[v]
    BY HasStorage, OwnRoom DEF IInv, TypeOK
  <1>. QED
    BY <1>1 DEF Vacant, Same, NoneBeyondSize

LEMMA ScaleVacant ==
  ASSUME IInv, NoneBeyondSize, NEW v \in alive, NEW n \in Nat, n * SizeOf < SizeMod,
         NEW m \in ScaleResults(v, n)
  PROVE  Vacant(m, size_[v])
  <1>v. v \in Vec
    BY DEF IInv, TypeOK
  <1>s. Sound(v, m)
    BY <1>v, HasStorage, ScaleSound
  <1>1. CASE m.exc # "none"
    <2>1. m.cells = cells /\ m.arr = arr_[v] /\ m.capacity = capacity_[v]
      BY <1>1, <1>s DEF Sound
    <2>. QED
      BY <2>1, SameVacant DEF Vacant, Same
  <1>2. CASE m.exc = "none"
    <2>0. n # 0
      BY <1>2 DEF ScaleResults, Same
    <2>1. PICK r \in AllocateResults(allocated_[v], heap, arr_[v], n) :
            m = IF r.exc = "none"
                  THEN [exc |-> "none", heap |-> r.heap, arr |-> r.mem,
                        capacity |-> n, allocated |-> r.allocated,
                        cells |-> Carried(cells, heap, arr_[v], r.heap, r.mem)]
                  ELSE [Same(v) EXCEPT
                          !.exc = r.exc, !.heap = r.heap,
                          !.cells = [b \in Block |-> IF r.heap[b] = heap[b]
                                                       THEN cells[b] ELSE Blank]]
      BY <2>0 DEF ScaleResults
    <2>2. r.exc = "none"
      BY <1>2, <2>1 DEF Same
    <2>3. /\ m.heap = r.heap /\ m.arr = r.mem
          /\ m.cells = Carried(cells, heap, arr_[v], r.heap, r.mem)
      BY <2>1, <2>2
    <2>4. /\ m.capacity \in Nat /\ Room(m.heap, m.arr) = m.capacity
          /\ m.capacity <= MaxLen /\ MaxLen \in Nat /\ size_[v] \in Nat
          /\ Room(heap, arr_[v]) = capacity_[v] /\ capacity_[v] \in Nat
      <3>1. Keeps(v, m)
        BY <1>v, HasStorage, ScaleKeeps
      <3>. QED
        BY <1>v, <1>s, <3>1, Carries, HasStorage, OwnRoom, Types
    <2>5. ASSUME NEW i \in size_[v] .. m.capacity - 1
          PROVE  m.cells[m.arr][i] \notin Value
      <3>1. i \in 0 .. MaxLen - 1 /\ m.capacity # 0 /\ i < Room(r.heap, r.mem)
        BY <2>3, <2>4
      <3>2. m.arr \in Block
        BY <1>s, <3>1 DEF Sound
      <3>3. m.cells[m.arr][i] = IF i < Room(heap, arr_[v]) THEN cells[arr_[v]][i] ELSE Raw
        BY <2>3, <3>1, <3>2 DEF Carried
      <3>4. i < Room(heap, arr_[v]) => cells[arr_[v]][i] \notin Value
        BY <2>4 DEF NoneBeyondSize
      <3>. QED
        BY <3>3, <3>4, CellAssumption
    <2>. QED
      BY <2>5 DEF Vacant
  <1>. QED
    BY <1>1, <1>2

(* What a call leaves that assigns elements, or kills them, from index n on *)
LEMMA WriteVacant ==
  ASSUME IInv, NoneBeyondSize, NEW v \in alive, NEW m, Sound(v, m), Keeps(v, m),
         Vacant(m, size_[v]), NEW from \in Nat, NEW k \in Nat, NEW val,
         NEW n \in Nat, NEW exc, k <= n, size_[v] <= n,
         Commit(v, m, Written(m.cells, m.arr, from, k, val), n, exc)
  PROVE  NoneBeyondSize'
  <1>1. size_[v] \in Nat /\ m.capacity \in Nat
    BY Types DEF Sound, IInv, TypeOK
  <1>2. \A i \in n .. m.capacity - 1 : ~(from <= i /\ i < k) /\ m.cells[m.arr][i] \notin Value
    BY <1>1 DEF Vacant
  <1>. QED
    BY <1>2, CommitVacant

LEMMA SilentVacant ==
  ASSUME IInv, NoneBeyondSize, NEW v \in alive, NEW m, Sound(v, m), Keeps(v, m),
         Vacant(m, size_[v]), NEW exc, Commit(v, m, m.cells, size_[v], exc)
  PROVE  NoneBeyondSize'
  <1>1. size_[v] \in Nat /\ m.cells \in Cells /\ 0 \in Nat /\ 0 \in Int
    BY Types DEF Sound, IInv, TypeOK
  <1>2. m.cells = Written(m.cells, m.arr, 0, 0, Blank)
    BY <1>1, WrittenNothing
  <1>3. Commit(v, m, Written(m.cells, m.arr, 0, 0, Blank), size_[v], exc)
    BY <1>2
  <1>4. 0 <= size_[v] /\ size_[v] <= size_[v]
    BY <1>1
  <1>. QED
    BY <1>1, <1>3, <1>4, WriteVacant

LEMMA KilledVacant ==
  ASSUME IInv, NoneBeyondSize, NEW v \in alive, NEW n \in Nat, n <= size_[v], NEW exc,
         Commit(v, Same(v), Killed(cells, arr_[v], n, size_[v]), n, exc)
  PROVE  NoneBeyondSize'
  <1>. DEFINE m == Same(v)
              dead == [i \in 0 .. MaxLen - 1 |-> Dead]
  <1>1. /\ Sound(v, m) /\ Keeps(v, m) /\ Vacant(m, size_[v]) /\ size_[v] \in Nat
        /\ v \in Vec
    BY HasStorage, SameSound, SameKeeps, SameVacant, Types DEF IInv, TypeOK
  <1>2. Commit(v, m, Written(m.cells, m.arr, n, size_[v], dead), n, exc)
    BY DEF Killed, Same
  <1>3. m.capacity \in Nat /\ m.capacity <= MaxLen /\ MaxLen \in Nat
    BY <1>1, Carries
  <1>4. ASSUME NEW i \in n .. m.capacity - 1
        PROVE  IF n <= i /\ i < size_[v] THEN dead[i] \notin Value
                                         ELSE m.cells[m.arr][i] \notin Value
    <2>1. dead[i] = Dead
      BY <1>3
    <2>2. i >= size_[v] => m.cells[m.arr][i] \notin Value
      BY <1>1, <1>3 DEF Vacant
    <2>. HIDE DEF dead, m
    <2>. QED
      BY <1>1, <1>3, <2>1, <2>2, CellAssumption
  <1>. HIDE DEF dead, m
  <1>. QED
    BY <1>1, <1>2, <1>4, CommitVacant

LEMMA ReserveVacant ==
  ASSUME NoWrap, IInv, NoneBeyondSize, NEW v \in alive, NEW n \in Count,
         NEW m \in ReserveResults(v, n)
  PROVE  v \in Vec /\ Sound(v, m) /\ Keeps(v, m) /\ Vacant(m, size_[v])
  <1>1. v \in Vec /\ n \in Nat /\ n * SizeOf < SizeMod
    BY VectorAssumption DEF NoWrap, IInv, TypeOK
  <1>2. Sound(v, m) /\ Keeps(v, m)
    BY <1>1, ReserveKeeps
  <1>3. Vacant(m, size_[v])
    BY <1>1, ScaleVacant, SameVacant DEF ReserveResults
  <1>. QED
    BY <1>1, <1>2, <1>3

LEMMA ResizeVacant ==
  ASSUME NoWrap, IInv, NoneBeyondSize, NEW v \in alive, NEW n \in Count, NEW x \in Value,
         Resize(v, n, x)
  PROVE  NoneBeyondSize'
  <1>0. n \in Nat /\ size_[v] \in Nat /\ v \in Vec
    BY Types, VectorAssumption DEF IInv, TypeOK
  <1>1. CASE n = size_[v] /\ Commit(v, Same(v), cells, size_[v], "none")
    <2>1. Commit(v, Same(v), Same(v).cells, size_[v], "none")
      BY <1>1 DEF Same
    <2>. QED
      BY <1>0, <2>1, HasStorage, SameSound, SameKeeps, SameVacant, SilentVacant
  <1>2. CASE n < size_[v] /\ Commit(v, Same(v), Killed(cells, arr_[v], n, size_[v]), n, "none")
    BY <1>0, <1>2, KilledVacant
  <1>3. CASE /\ n > size_[v]
             /\ \E m \in ReserveResults(v, n) :
                  \/ GiveUp(v, m)
                  \/ /\ m.exc = "none"
                     /\ \E w \in WriteResults(m.heap, m.cells, m.arr, size_[v],
                                              m.capacity, All(x)) :
                          Commit(v, m, w.cells, w.done, w.exc)
    <2>1. PICK m \in ReserveResults(v, n) :
            \/ GiveUp(v, m)
            \/ /\ m.exc = "none"
               /\ \E w \in WriteResults(m.heap, m.cells, m.arr, size_[v],
                                        m.capacity, All(x)) :
                    Commit(v, m, w.cells, w.done, w.exc)
      BY <1>3
    <2>2. Sound(v, m) /\ Keeps(v, m) /\ Vacant(m, size_[v])
      BY ReserveVacant
    <2>3. CASE GiveUp(v, m)
      BY <2>2, <2>3, SilentVacant DEF GiveUp
    <2>4. CASE /\ m.exc = "none"
               /\ \E w \in WriteResults(m.heap, m.cells, m.arr, size_[v],
                                        m.capacity, All(x)) :
                    Commit(v, m, w.cells, w.done, w.exc)
      <3>1. PICK w \in WriteResults(m.heap, m.cells, m.arr, size_[v], m.capacity, All(x)) :
              Commit(v, m, w.cells, w.done, w.exc)
        BY <2>4
      <3>2. /\ m.capacity \in Nat /\ m.capacity <= Room(m.heap, m.arr)
            /\ size_[v] <= m.capacity
        <4>1. m.exc = "none" => n <= m.capacity
          BY <1>0, ReserveKeeps
        <4>. QED
          BY <1>0, <1>3, <2>2, <2>4, <4>1, Carries
      <3>3. /\ w.cells = Written(m.cells, m.arr, size_[v], w.done, All(x))
            /\ w.done \in size_[v] .. m.capacity
        BY <1>0, <3>2, LoopThrows
      <3>4. Commit(v, m, Written(m.cells, m.arr, size_[v], w.done, All(x)), w.done, w.exc)
        BY <3>1, <3>3
      <3>5. w.done \in Nat /\ w.done <= w.done /\ size_[v] <= w.done
        BY <1>0, <3>2, <3>3
      <3>. QED
        BY <1>0, <2>2, <3>4, <3>5, WriteVacant
    <2>. QED
      BY <2>1, <2>3, <2>4
  <1>. QED
    BY <1>1, <1>2, <1>3 DEF Resize

LEMMA PushBackVacant ==
  ASSUME NoWrap, IInv, NoneBeyondSize, NEW v \in alive, NEW arg \in Argument(v),
         PushBack(v, arg)
  PROVE  NoneBeyondSize'
  <1>0. size_[v] \in Nat /\ v \in Vec /\ capacity_[v] \in Nat /\ size_[v] <= capacity_[v]
    BY Types DEF IInv, TypeOK
  <1>1. PICK m \in AppendResults(v) :
          \/ GiveUp(v, m)
          \/ /\ m.exc = "none"
             /\ \E w \in WriteResults(m.heap, m.cells, m.arr, size_[v], size_[v] + 1,
                                      All(Denotes(v, m, arg))) :
                  Commit(v, m, w.cells, size_[v] + 1, w.exc)
    BY DEF PushBack
  <1>2. Sound(v, m) /\ Keeps(v, m) /\ (m.exc = "none" => size_[v] + 1 <= m.capacity)
    BY <1>0, AppendKeeps
  <1>3. Vacant(m, size_[v])
    <2>1. CASE size_[v] = capacity_[v]
      <3>1. size_[v] * SizeOf <= HeapMax
        <4>1. CASE arr_[v] = NULL
          BY <1>0, <2>1, <4>1, Types, SizeAssumption, HeapAssumption
        <4>2. CASE arr_[v] # NULL
          BY <1>0, <2>1, <4>2, Types DEF Heaps
        <4>. QED
          BY <4>1, <4>2
      <3>2. 2 * size_[v] + 1 \in Nat
        BY <1>0
      <3>3. m \in ScaleResults(v, 2 * size_[v] + 1) /\ (2 * size_[v] + 1) * SizeOf < SizeMod
        BY <1>0, <2>1, <3>1, GrowthFits DEF AppendResults, GrowResults
      <3>. QED
        BY <3>2, <3>3, ScaleVacant
    <2>2. CASE size_[v] # capacity_[v]
      BY <2>2, SameVacant DEF AppendResults
    <2>. QED
      BY <2>1, <2>2
  <1>4. CASE GiveUp(v, m)
    BY <1>2, <1>3, <1>4, SilentVacant DEF GiveUp
  <1>5. CASE /\ m.exc = "none"
             /\ \E w \in WriteResults(m.heap, m.cells, m.arr, size_[v], size_[v] + 1,
                                      All(Denotes(v, m, arg))) :
                  Commit(v, m, w.cells, size_[v] + 1, w.exc)
    <2>. DEFINE val == All(Denotes(v, m, arg))
    <2>1. PICK w \in WriteResults(m.heap, m.cells, m.arr, size_[v], size_[v] + 1, val) :
            Commit(v, m, w.cells, size_[v] + 1, w.exc)
      BY <1>5
    <2>. HIDE DEF val
    <2>2. /\ m.capacity \in Nat /\ size_[v] + 1 <= Room(m.heap, m.arr)
          /\ size_[v] <= size_[v] + 1 /\ size_[v] + 1 \in Nat
      BY <1>0, <1>2, <1>5, Carries
    <2>3. /\ w.cells = Written(m.cells, m.arr, size_[v], w.done, val)
          /\ w.done \in size_[v] .. size_[v] + 1
      BY <1>0, <2>2, LoopThrows
    <2>4. Commit(v, m, Written(m.cells, m.arr, size_[v], w.done, val), size_[v] + 1, w.exc)
      BY <2>1, <2>3
    <2>5. w.done \in Nat /\ w.done <= size_[v] + 1
      BY <1>0, <2>3
    <2>. QED
      BY <1>0, <1>2, <1>3, <2>2, <2>4, <2>5, WriteVacant
  <1>. QED
    BY <1>1, <1>4, <1>5

(* Below the capacity, assign leaves a buffer of exactly n elements. *)
LEMMA AssignVacant ==
  ASSUME NoWrap, IInv, NoneBeyondSize, NEW v \in alive, NEW n \in Count,
         NEW arg \in Argument(v), Assign(v, n, arg), n < capacity_[v]
  PROVE  NoneBeyondSize'
  <1>0. /\ n \in Nat /\ n * SizeOf < SizeMod /\ v \in Vec /\ size_[v] \in Nat
        /\ capacity_[v] \in Nat
    BY Types, VectorAssumption DEF NoWrap, IInv, TypeOK
  <1>1. PICK m \in ScaleResults(v, n) :
          \/ GiveUp(v, m)
          \/ /\ m.exc = "none"
             /\ \E w \in WriteResults(m.heap, m.cells, m.arr, 0, n,
                                      All(Denotes(v, m, arg))) :
                  Commit(v, m, w.cells, n, w.exc)
    BY <1>0 DEF Assign
  <1>2. /\ Sound(v, m) /\ (m.exc = "none" => m.capacity = n) /\ Keeps(v, m)
        /\ Vacant(m, size_[v])
    BY <1>0, HasStorage, ScaleSound, ScaleKeeps, ScaleVacant
  <1>3. CASE GiveUp(v, m)
    BY <1>2, <1>3, SilentVacant DEF GiveUp
  <1>4. CASE /\ m.exc = "none"
             /\ \E w \in WriteResults(m.heap, m.cells, m.arr, 0, n,
                                      All(Denotes(v, m, arg))) :
                  Commit(v, m, w.cells, n, w.exc)
    <2>. DEFINE val == All(Denotes(v, m, arg))
    <2>1. PICK w \in WriteResults(m.heap, m.cells, m.arr, 0, n, val) :
            Commit(v, m, w.cells, n, w.exc)
      BY <1>4
    <2>. HIDE DEF val
    <2>2. /\ m.capacity = n /\ n <= Room(m.heap, m.arr) /\ 0 \in Nat /\ 0 <= n
      BY <1>0, <1>2, <1>4, Carries
    <2>3. w.cells = Written(m.cells, m.arr, 0, w.done, val) /\ w.done \in 0 .. n
      BY <1>0, <2>2, LoopThrows
    <2>4. Commit(v, m, Written(m.cells, m.arr, 0, w.done, val), n, w.exc)
      BY <2>1, <2>3
    <2>5. w.done \in Nat
      BY <2>3
    <2>6. \A i \in n .. m.capacity - 1 :
            IF 0 <= i /\ i < w.done THEN val[i] \notin Value ELSE m.cells[m.arr][i] \notin Value
      BY <1>0, <2>2
    <2>. QED
      BY <1>0, <1>2, <2>2, <2>4, <2>5, <2>6, CommitVacant
  <1>. QED
    BY <1>1, <1>3, <1>4

LEMMA ThroughVacant ==
  ASSUME IInv, NoneBeyondSize, NEW v \in alive, NEW test, NEW i,
         test => i \in Nat /\ i + 1 <= size_[v],
         NEW x, NEW otherwise, Through(v, test, i, x, otherwise)
  PROVE  NoneBeyondSize'
  <1>. DEFINE m == Same(v)
  <1>0. /\ size_[v] \in Nat /\ size_[v] <= m.capacity /\ v \in Vec
        /\ m.cells = cells
    BY Types DEF IInv, TypeOK, Same
  <1>1. Sound(v, m) /\ Keeps(v, m) /\ Vacant(m, size_[v])
    BY <1>0, HasStorage, SameSound, SameKeeps, SameVacant
  <1>2. CASE ~test
    <2>1. Commit(v, m, m.cells, size_[v], otherwise)
      BY <1>0, <1>2 DEF Through
    <2>. HIDE DEF m
    <2>. QED
      BY <1>1, <2>1, SilentVacant
  <1>3. CASE test
    <2>1. PICK w \in WriteResults(m.heap, m.cells, m.arr, i, i + 1, All(x)) :
            Commit(v, m, w.cells, size_[v], w.exc)
      BY <1>3 DEF Through, Same
    <2>. HIDE DEF m
    <2>2. /\ i \in Nat /\ i + 1 \in Nat /\ i <= i + 1 /\ i + 1 <= Room(m.heap, m.arr)
          /\ size_[v] <= size_[v]
      BY <1>0, <1>1, <1>3, Carries
    <2>3. w.cells = Written(m.cells, m.arr, i, w.done, All(x)) /\ w.done \in i .. i + 1
      BY <2>2, LoopThrows
    <2>4. Commit(v, m, Written(m.cells, m.arr, i, w.done, All(x)), size_[v], w.exc)
      BY <2>1, <2>3
    <2>5. w.done \in Nat /\ w.done <= size_[v]
      BY <1>0, <1>3, <2>2, <2>3
    <2>. QED
      BY <1>0, <1>1, <2>2, <2>4, <2>5, WriteVacant
  <1>. QED
    BY <1>2, <1>3

(* A constructor that comes to its end fills its buffer, which was nobody's. *)
LEMMA BuildVacant ==
  ASSUME IInv, NoneBeyondSize, NEW v \in Vec, NEW n \in Nat, n > 0, n * SizeOf < SizeMod,
         NEW val, BuildWith(v, n, val)
  PROVE  NoneBeyondSize'
  <1>v. alive \subseteq Vec
    BY DEF IInv, TypeOK
  <1>f. Footprint(n) = n * SizeOf /\ n * SizeOf # 0 /\ n * SizeOf \in Nat
    <2>1. n * SizeOf \in Nat /\ n * SizeOf # 0
      BY Product, SizeAssumption
    <2>2. n * SizeOf \in 0 .. SizeMod - 1
      BY <2>1, SizeAssumption
    <2>. QED
      BY <2>1, <2>2, ModSmall, SizeAssumption DEF Footprint
  <1>e. \A r \in AllocateResults(0, heap, NULL, n) : Ends(0, heap, NULL, n, r)
    <2>1. 0 \in 0 .. Capacity /\ heap \in Heaps /\ NULL \in Block \cup {NULL}
      BY SizeAssumption, Types
    <2>. QED
      BY <2>1, AllocateFacts
  <1>p. PICK r \in AllocateResults(0, heap, NULL, n) :
          /\ heap' = r.heap
          /\ \/ /\ r.exc # "none"
                /\ UNCHANGED <<cells, alive, arr_, size_>>
             \/ /\ r.exc = "none"
                /\ \E w \in WriteResults(r.heap, cells, r.mem, 0, n, val) :
                     /\ cells' = w.cells
                     /\ \/ /\ alive' = alive \cup {v}
                           /\ arr_' = [arr_ EXCEPT ![v] = r.mem]
                           /\ size_' = [size_ EXCEPT ![v] = n]
                        \/ UNCHANGED <<alive, arr_, size_>>
    BY DEF BuildWith
  <1>r. Ends(0, heap, NULL, n, r)
    BY <1>e
  <1>1. CASE r.exc # "none"
    <2>1. heap' = heap /\ cells' = cells /\ alive' = alive /\ arr_' = arr_ /\ size_' = size_
      BY <1>1, <1>p, <1>r DEF Ends
    <2>. QED
      BY <2>1 DEF NoneBeyondSize
  <1>2. CASE r.exc = "none"
    <2>1. /\ r.mem \in Block /\ heap[r.mem] = Free
          /\ heap' = Grant(heap, NULL, r.mem, n * SizeOf)
      BY <1>2, <1>p, <1>r, <1>f, HeapAssumption DEF Ends
    <2>2. PICK w \in WriteResults(r.heap, cells, r.mem, 0, n, val) : cells' = w.cells
      BY <1>2, <1>p
    <2>3. \E k : cells' = Written(cells, r.mem, 0, k, val)
      BY <2>2 DEF WriteResults
    <2>4. ASSUME NEW u \in alive, arr_'[u] = arr_[u], size_'[u] = size_[u]
          PROVE  \A i \in size_'[u] .. Room(heap', arr_'[u]) - 1 :
                   cells'[arr_'[u]][i] \notin Value
      <3>1. ASSUME arr_[u] # NULL
            PROVE  heap'[arr_[u]] = heap[arr_[u]] /\ cells'[arr_[u]] = cells[arr_[u]]
        <4>1. arr_[u] \in Block /\ arr_[u] # r.mem
          BY <1>v, <2>1, <3>1, Types, HasStorage, OwnedIsLive
        <4>. QED
          BY <2>1, <2>3, <4>1, HeapAssumption DEF Grant, Written
      <3>. QED
        BY <2>4, <3>1, OthersVacant
    <2>5. CASE UNCHANGED <<alive, arr_, size_>>
      <3>1. alive' = alive /\ \A u \in alive : arr_'[u] = arr_[u] /\ size_'[u] = size_[u]
        BY <2>5
      <3>. QED
        BY <2>4, <3>1 DEF NoneBeyondSize
    <2>6. CASE /\ alive' = alive \cup {v}
               /\ arr_' = [arr_ EXCEPT ![v] = r.mem]
               /\ size_' = [size_ EXCEPT ![v] = n]
      <3>1. /\ arr_'[v] = r.mem /\ size_'[v] = n
            /\ \A u \in Vec : u # v => arr_'[u] = arr_[u] /\ size_'[u] = size_[u]
        BY <2>6 DEF IInv, TypeOK
      <3>2. Room(heap', r.mem) = n
        <4>1. heap'[r.mem] = n * SizeOf /\ heap'[r.mem] # Free
          BY <1>f, <2>1 DEF Grant, Free
        <4>2. (n * SizeOf) \div SizeOf = n
          BY QuotientExact, SizeAssumption
        <4>. QED
          BY <2>1, <4>1, <4>2 DEF Room, IsLive
      <3>3. \A i \in size_'[v] .. Room(heap', arr_'[v]) - 1 : cells'[arr_'[v]][i] \notin Value
        BY <3>1, <3>2
      <3>4. \A u \in alive' : u = v \/ (u \in alive /\ u \in Vec)
        BY <1>v, <2>6
      <3>. QED
        BY <2>4, <3>1, <3>3, <3>4 DEF NoneBeyondSize
    <2>. QED
      BY <1>2, <1>p, <2>5, <2>6
  <1>. QED
    BY <1>1, <1>2

LEMMA OtherVacant ==
  ASSUME IInv, Unbuilt, NoneBeyondSize, NEW v \in Vec,
         DefaultCtor(v) \/ Destroy(v) \/ \E w \in Vec \ {v} : Swap(v, w)
  PROVE  NoneBeyondSize'
  <1>v. alive \subseteq Vec
    BY DEF IInv, TypeOK
  <1>1. CASE DefaultCtor(v)
    <2>1. /\ heap' = heap /\ cells' = cells /\ arr_' = arr_ /\ size_' = size_
          /\ alive' = alive \cup {v} /\ arr_[v] = NULL
      BY <1>1 DEF DefaultCtor, Unmade, Unbuilt
    <2>2. Room(heap, arr_[v]) = 0 /\ size_[v] \in Nat
      BY <2>1, HeapAssumption, Types DEF Room, IsLive
    <2>3. \A i \in size_[v] .. Room(heap, arr_[v]) - 1 : cells[arr_[v]][i] \notin Value
      BY <2>2
    <2>. QED
      BY <2>1, <2>3 DEF NoneBeyondSize
  <1>2. CASE Destroy(v)
    <2>1. /\ alive' = alive \ {v} /\ cells' = Killed(cells, arr_[v], 0, size_[v])
          /\ heap' = heap
          /\ \A u \in Vec : u # v => arr_'[u] = arr_[u] /\ size_'[u] = size_[u]
      BY <1>2 DEF Destroy, IInv, TypeOK
    <2>2. ASSUME NEW u \in alive, u # v
          PROVE  \A i \in size_'[u] .. Room(heap', arr_'[u]) - 1 : cells'[arr_'[u]][i] \notin Value
      <3>1. arr_'[u] = arr_[u] /\ size_'[u] = size_[u] /\ u \in Vec
        BY <1>v, <2>1, <2>2
      <3>2. ASSUME arr_[u] # NULL
            PROVE  heap'[arr_[u]] = heap[arr_[u]] /\ cells'[arr_[u]] = cells[arr_[u]]
        <4>1. arr_[u] \in Block /\ arr_[u] # arr_[v]
          BY <2>2, <3>1, <3>2, Types
        <4>. QED
          BY <2>1, <4>1 DEF Killed, Written
      <3>. QED
        BY <2>2, <3>1, <3>2, OthersVacant
    <2>. QED
      BY <2>1, <2>2 DEF NoneBeyondSize
  <1>3. CASE \E w \in Vec \ {v} : Swap(v, w)
    <2>1. PICK w \in Vec \ {v} : Swap(v, w)
      BY <1>3
    <2>2. /\ v \in alive /\ w \in alive /\ heap' = heap /\ cells' = cells /\ alive' = alive
          /\ arr_'[v] = arr_[w] /\ size_'[v] = size_[w]
          /\ arr_'[w] = arr_[v] /\ size_'[w] = size_[v]
          /\ \A u \in Vec : u # v /\ u # w => arr_'[u] = arr_[u] /\ size_'[u] = size_[u]
      BY <2>1 DEF Swap, Callable, IInv, TypeOK
    <2>. QED
      BY <1>v, <2>2 DEF NoneBeyondSize
  <1>. QED
    BY <1>1, <1>2, <1>3

(***************************************************************************)
(* Elements that live at or above size_, and so are never destroyed, come  *)
(* only of pop_back (vector.hpp:251) and of an assign from the capacity on *)
(* (vector.hpp:107): of no other call, and of none of their exceptions.    *)
(***************************************************************************)
THEOREM ForgottenSafe == NoWrap => (Spec => ForgottenOnlyByPopBack)
  <1>. SUFFICES ASSUME NoWrap PROVE Spec => ForgottenOnlyByPopBack
    OBVIOUS
  <1>. DEFINE Excused ==
                \E v \in Vec :
                  \/ PopBack(v)
                  \/ \E n \in Count, arg \in Argument(v) : n >= capacity_[v] /\ Assign(v, n, arg)
  <1>1. ASSUME IInv, Unbuilt, Next, NoneBeyondSize
        PROVE  NoneBeyondSize' \/ Excused
    <2>. PICK v \in Vec : Step(v)
      BY <1>1 DEF Next
    <2>0. size_[v] \in Nat /\ capacity_[v] \in Nat /\ Count \subseteq Nat
      BY <1>1, Types, VectorAssumption
    <2>1. CASE DefaultCtor(v) \/ Destroy(v) \/ \E w \in Vec \ {v} : Swap(v, w)
      BY <1>1, <2>1, OtherVacant
    <2>2. CASE \/ \E n \in Count, x \in Value : FillCtor(v, n, x)
               \/ \E n \in Count : \E s \in [1 .. n -> Value] : RangeCtor(v, s)
      <3>1. \E n \in Count : \E val : n > 0 /\ BuildWith(v, n, val)
        <4>1. \A n \in Count : \A s \in [1 .. n -> Value] : Len(s) = n
          BY <2>0
        <4>2. CASE \E n \in Count, x \in Value : FillCtor(v, n, x)
          BY <4>2 DEF FillCtor
        <4>3. CASE \E n \in Count : \E s \in [1 .. n -> Value] : RangeCtor(v, s)
          BY <4>1, <4>3 DEF RangeCtor
        <4>. QED
          BY <2>2, <4>2, <4>3
      <3>2. \A n \in Count : n * SizeOf < SizeMod
        BY DEF NoWrap
      <3>. QED
        BY <1>1, <2>0, <3>1, <3>2, BuildVacant
    <2>3. CASE \E n \in Count : Reserve(v, n)
      <3>1. PICK n \in Count : Reserve(v, n)
        BY <2>3
      <3>2. v \in alive
        BY <3>1 DEF Reserve, Callable
      <3>3. PICK m \in ReserveResults(v, n) : Commit(v, m, m.cells, size_[v], m.exc)
        BY <3>1 DEF Reserve
      <3>. QED
        BY <1>1, <3>2, <3>3, ReserveVacant, SilentVacant
    <2>4. CASE \E n \in Count, arg \in Argument(v) : Assign(v, n, arg)
      <3>1. PICK n \in Count, arg \in Argument(v) : Assign(v, n, arg)
        BY <2>4
      <3>2. v \in alive
        BY <3>1 DEF Assign, Callable
      <3>3. CASE n >= capacity_[v]
        BY <3>1, <3>3
      <3>4. CASE n < capacity_[v]
        BY <1>1, <3>1, <3>2, <3>4, AssignVacant
      <3>. QED
        BY <2>0, <3>3, <3>4
    <2>5. CASE Clear(v)
      <3>1. v \in alive /\ Commit(v, Same(v), Killed(cells, arr_[v], 0, size_[v]), 0, "none")
        BY <2>5 DEF Clear, Callable
      <3>2. 0 \in Nat /\ 0 <= size_[v]
        BY <2>0
      <3>. QED
        BY <1>1, <3>1, <3>2, KilledVacant
    <2>6. CASE \E n \in Count, x \in Value : Resize(v, n, x)
      <3>1. v \in alive
        BY <2>6 DEF Resize, Callable
      <3>. QED
        BY <1>1, <2>6, <3>1, ResizeVacant
    <2>7. CASE \E arg \in Argument(v) : PushBack(v, arg)
      <3>1. v \in alive
        BY <2>7 DEF PushBack, Callable
      <3>. QED
        BY <1>1, <2>7, <3>1, PushBackVacant
    <2>8. CASE PopBack(v)
      BY <2>8
    <2>9. CASE \/ \E i \in Count, x \in Value : At(v, i, x) \/ Index(v, i, x)
               \/ \E x \in Value : FrontElement(v, x) \/ BackElement(v, x)
      <3>1. v \in alive
        BY <2>9 DEF At, Index, FrontElement, BackElement, Through, Callable
      <3>2. \E test, i, x, otherwise :
              /\ test => i \in Nat /\ i + 1 <= size_[v]
              /\ Through(v, test, i, x, otherwise)
        <4>1. \A i \in Count : size_[v] > i => i \in Nat /\ i + 1 <= size_[v]
          BY <2>0
        <4>2. /\ ~Empty(v) => 0 \in Nat /\ 0 + 1 <= size_[v]
              /\ ~Empty(v) => size_[v] - 1 \in Nat /\ size_[v] - 1 + 1 <= size_[v]
          BY <2>0 DEF Empty
        <4>. QED
          BY <2>9, <4>1, <4>2 DEF At, Index, FrontElement, BackElement
      <3>. QED
        BY <1>1, <3>1, <3>2, ThroughVacant
    <2>. QED
      BY <2>1, <2>2, <2>3, <2>4, <2>5, <2>6, <2>7, <2>8, <2>9 DEF Step
  <1>2. Init => Unbuilt
    BY DEF Init, Unbuilt
  <1>3. IInv /\ Unbuilt /\ [Next]_vars => Unbuilt'
    <2>1. UNCHANGED vars /\ Unbuilt => Unbuilt'
      BY DEF vars, Unbuilt
    <2>. QED
      BY <2>1, UnbuiltKept
  <1>4. IInv /\ Unbuilt /\ [Next]_vars =>
          [ NoneBeyondSize /\ ~NoneBeyondSize' =>
              \E v \in Vec :
                \/ PopBack(v)
                \/ \E n \in Count, arg \in Argument(v) :
                     n >= capacity_[v] /\ Assign(v, n, arg) ]_vars
    BY <1>1
  <1>. QED
    BY <1>2, <1>3, <1>4, Inductive, PTL DEF Spec, ForgottenOnlyByPopBack
=============================================================================
