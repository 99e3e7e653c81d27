------------------------ MODULE VectorIteratorProofs ------------------------
(***************************************************************************)
(* Iterators, insert and erase (vector.hpp:126-213, 346-526): what they    *)
(* keep of the storage and of the iterator, and what each call makes of    *)
(* the sequence a vector holds.                                            *)
(*                                                                         *)
(* All rests on EditInvariant: the invariant of VectorProofs without       *)
(* BufferFits, which erase of a range breaks, and with a bound on the      *)
(* sizes that are followed afterwards.                                     *)
(***************************************************************************)
EXTENDS VectorIterator, VectorSeqProofs, FiniteSetTheorems

(***************************************************************************)
(* Every set of indices that is not empty has a first: of the intervals    *)
(* up to them, one contains no other.                                      *)
(***************************************************************************)
LEMMA FirstIndex ==
  ASSUME NEW I \in SUBSET Nat, I # {}
  PROVE  \E i \in I : \A j \in I : i <= j
  <1>. DEFINE T == { 0 .. i : i \in I }
              R == StrictSubsetOrdering(Nat)
              S == FiniteSubsetsOf(Nat)
  <1>1. ASSUME NEW i \in I
        PROVE  i \in Nat /\ IsFiniteSet(0 .. i) /\ 0 .. i \in SUBSET Nat
    <2>1. i \in Int /\ 0 \in Int
      OBVIOUS
    <2>. QED
      BY <2>1, FS_Interval
  <1>2. T \subseteq S /\ T # {}
    BY <1>1 DEF FiniteSubsetsOf
  <1>3. PICK u \in T : \A y \in T : <<y, u>> \notin R
    <2>1. IsWellFoundedOn(R, S)
      BY FS_StrictSubsetOrderingWellFounded, Zenon
    <2>. HIDE DEF R, S, T
    <2>. QED
      BY <1>2, <2>1, WFMin, Zenon
  <1>4. PICK i \in I : u = 0 .. i
    BY <1>3
  <1>5. ASSUME NEW j \in I, ~(i <= j)
        PROVE  FALSE
    <2>1. i \in Nat /\ j \in Nat /\ j < i
      BY <1>1, <1>5
    <2>2. 0 .. j \subseteq 0 .. i /\ 0 .. j # 0 .. i
      <3>1. i \in 0 .. i /\ i \notin 0 .. j
        BY <2>1
      <3>. QED
        BY <2>1, <3>1
    <2>3. <<0 .. j, 0 .. i>> \in R
      BY <1>1, <2>2, Zenon DEF StrictSubsetOrdering
    <2>. QED
      BY <1>3, <1>4, <2>3
  <1>. QED
    BY <1>5

-----------------------------------------------------------------------------
(* Remainders *)
LEMMA Remainder ==
  ASSUME NEW i \in Int
  PROVE  i % SizeMod \in Nat
  BY SizeAssumption, SMT

LEMMA RemainderRange ==
  ASSUME NEW m \in Nat \ {0}, NEW x \in Int
  PROVE  x % m \in 0 .. m - 1
  BY SMT

LEMMA Multiple ==
  ASSUME NEW m \in Nat \ {0}, NEW k \in Int, m * k < m, 0 - m < m * k
  PROVE  k = 0
  <1>1. CASE k >= 1
    BY <1>1, SMT
  <1>2. CASE k <= -1
    BY <1>2, SMT
  <1>. QED
    BY <1>1, <1>2

LEMMA RemainderBack ==
  ASSUME NEW m \in Nat \ {0}, NEW x \in Int
  PROVE  (x - m) % m = x % m
  <1>. DEFINE q == x \div m
              r == x % m
              t == (x - m) \div m
              u == (x - m) % m
  <1>1. /\ q \in Int /\ r \in 0 .. m - 1 /\ x = m * q + r
        /\ t \in Int /\ u \in 0 .. m - 1 /\ x - m = m * t + u
    BY SMT
  <1>. HIDE DEF q, r, t, u
  <1>2. m * (q - t - 1) = u - r
    BY <1>1, SMT
  <1>3. q - t - 1 \in Int /\ u - r < m /\ 0 - m < u - r
    BY <1>1
  <1>4. q - t - 1 = 0
    BY <1>2, <1>3, Multiple
  <1>5. u = r
    <2>1. m * (q - t - 1) = 0
      BY <1>4
    <2>. QED
      BY <1>1, <1>2, <2>1
  <1>. QED
    BY <1>5 DEF r, u

-----------------------------------------------------------------------------
(***************************************************************************)
(* The elements the loop of Shifted finds behind it, without the loop: one *)
(* that the loop has assigned is one of the last before the loop's range.  *)
(***************************************************************************)
Fetched(h, cs, p, from, to, back) ==
  [j \in Int |->
     LET b == IF back > 0 /\ from <= j /\ j < to
                THEN from - back + ((j - from) % back) ELSE j
     IN  IF j < 0 \/ j >= Room(h, p) \/ b < 0 THEN Raw ELSE cs[p][b]]

Recurs(f, h, cs, p, from, to, back) ==
  f = [j \in Int |-> IF j < 0 \/ j >= Room(h, p) THEN Raw
                     ELSE IF back > 0 /\ from <= j /\ j < to THEN f[j - back]
                     ELSE cs[p][j]]

LEMMA FetchedRecurs ==
  ASSUME NEW h, NEW cs, NEW p, NEW from \in Nat, NEW to \in Int, NEW back \in Int,
         Room(h, p) \in Nat
  PROVE  Recurs(Fetched(h, cs, p, from, to, back), h, cs, p, from, to, back)
  <1>. DEFINE f == Fetched(h, cs, p, from, to, back)
  <1>1. ASSUME NEW j \in Int
        PROVE  f[j] = IF j < 0 \/ j >= Room(h, p) THEN Raw
                      ELSE IF back > 0 /\ from <= j /\ j < to THEN f[j - back]
                      ELSE cs[p][j]
    <2>1. CASE ~(back > 0 /\ from <= j /\ j < to) \/ j < 0 \/ j >= Room(h, p)
      BY <2>1 DEF Fetched
    <2>2. CASE back > 0 /\ from <= j /\ j < to /\ ~(j < 0 \/ j >= Room(h, p))
      <3>. DEFINE b == from - back + ((j - from) % back)
      <3>0. back \in Nat \ {0} /\ j - from \in Int /\ j - back \in Int
            /\ j - back < to /\ j - back < Room(h, p)
        BY <2>2
      <3>1. f[j] = IF b < 0 THEN Raw ELSE cs[p][b]
        BY <2>2 DEF Fetched
      <3>2. CASE from <= j - back
        <4>1. ((j - back) - from) % back = (j - from) % back
          <5>1. (j - back) - from = (j - from) - back
            BY <3>0
          <5>. QED
            BY <3>0, <5>1, RemainderBack
        <4>2. f[j - back] = IF b < 0 THEN Raw ELSE cs[p][b]
          <5>1. f[j - back] = IF from - back + (((j - back) - from) % back) < 0 THEN Raw
                                ELSE cs[p][from - back + (((j - back) - from) % back)]
            BY <2>2, <3>0, <3>2 DEF Fetched
          <5>. QED
            BY <4>1, <5>1
        <4>. QED
          BY <2>2, <3>1, <4>2
      <3>3. CASE ~(from <= j - back)
        <4>1. (j - from) % back = j - from
          <5>1. j - from \in 0 .. back - 1
            BY <2>2, <3>0, <3>3
          <5>. QED
            BY <3>0, <5>1, ModSmall
        <4>2. b = j - back
          BY <3>0, <4>1
        <4>3. f[j - back] = IF j - back < 0 THEN Raw ELSE cs[p][j - back]
          BY <3>0, <3>3 DEF Fetched
        <4>. HIDE DEF b
        <4>. QED
          BY <2>2, <3>1, <4>2, <4>3
      <3>. QED
        BY <3>2, <3>3
    <2>. QED
      BY <2>1, <2>2
  <1>2. f = [j \in Int |-> f[j]]
    BY DEF Fetched
  <1>. HIDE DEF f
  <1>3. [j \in Int |-> f[j]] =
          [j \in Int |-> IF j < 0 \/ j >= Room(h, p) THEN Raw
                         ELSE IF back > 0 /\ from <= j /\ j < to THEN f[j - back]
                         ELSE cs[p][j]]
    BY <1>1
  <1>4. Recurs(f, h, cs, p, from, to, back)
    BY <1>2, <1>3 DEF Recurs
  <1>. QED
    BY <1>4 DEF f

(* The loop has one outcome. *)
LEMMA RecursOnce ==
  ASSUME NEW h, NEW cs, NEW p, NEW from \in Nat, NEW to \in Int, NEW back \in Int,
         NEW f, NEW g, Room(h, p) \in Nat,
         Recurs(f, h, cs, p, from, to, back), Recurs(g, h, cs, p, from, to, back)
  PROVE  f = g
  <1>0. ASSUME NEW e, Recurs(e, h, cs, p, from, to, back)
        PROVE  /\ e = [j \in Int |-> e[j]]
               /\ \A j \in Int :
                    e[j] = IF j < 0 \/ j >= Room(h, p) THEN Raw
                           ELSE IF back > 0 /\ from <= j /\ j < to THEN e[j - back]
                           ELSE cs[p][j]
    BY <1>0 DEF Recurs
  <1>. DEFINE I == { j \in Nat : f[j] # g[j] }
  <1>1. SUFFICES ASSUME NEW k \in Int, f[k] # g[k]
                 PROVE  FALSE
    BY <1>0
  <1>2. k \in I
    BY <1>0, <1>1
  <1>3. PICK j \in I : \A i \in I : j <= i
    <2>1. I \in SUBSET Nat /\ I # {}
      BY <1>2
    <2>. HIDE DEF I
    <2>. QED
      BY <2>1, FirstIndex
  <1>4. j \in Nat /\ f[j] # g[j]
    OBVIOUS
  <1>5. back > 0 /\ f[j - back] # g[j - back] /\ j - back \in Int
    BY <1>0, <1>4
  <1>6. j - back \in I
    BY <1>0, <1>5
  <1>. QED
    BY <1>3, <1>4, <1>5, <1>6

(* What Shifted says, without recursion *)
LEMMA ShiftedFetched ==
  ASSUME NEW h, NEW cs, NEW p, NEW from \in Nat, NEW to \in Int, NEW back \in Int,
         Room(h, p) \in Nat
  PROVE  Shifted(h, cs, p, from, to, back) =
           [j \in 0 .. MaxLen - 1 |-> Fetched(h, cs, p, from, to, back)[j - back]]
  <1>. DEFINE g == Fetched(h, cs, p, from, to, back)
              f == CHOOSE f : Recurs(f, h, cs, p, from, to, back)
  <1>1. Recurs(g, h, cs, p, from, to, back)
    BY FetchedRecurs
  <1>. HIDE DEF g
  <1>2. Recurs(f, h, cs, p, from, to, back)
    BY <1>1
  <1>. HIDE DEF f
  <1>3. f = g
    BY <1>1, <1>2, RecursOnce
  <1>4. Shifted(h, cs, p, from, to, back) = [j \in 0 .. MaxLen - 1 |-> f[j - back]]
    BY DEF Shifted, f, Recurs
  <1>. QED
    BY <1>3, <1>4 DEF g

(* A loop that looks ahead finds what was there. *)
LEMMA FetchedAhead ==
  ASSUME NEW h, NEW cs, NEW p, NEW from, NEW to,
         NEW j \in Nat, Room(h, p) \in Nat, j < Room(h, p)
  PROVE  Fetched(h, cs, p, from, to, -1)[j] = cs[p][j]
  BY DEF Fetched

LEMMA ShiftedAt ==
  ASSUME NEW h, NEW cs, NEW p, NEW from \in Nat, NEW to \in Int, NEW back \in Int,
         Room(h, p) \in Nat, NEW j \in 0 .. MaxLen - 1
  PROVE  Shifted(h, cs, p, from, to, back)[j] = Fetched(h, cs, p, from, to, back)[j - back]
  <1>. DEFINE f == Fetched(h, cs, p, from, to, back)
  <1>. HIDE DEF f
  <1>1. Shifted(h, cs, p, from, to, back) = [k \in 0 .. MaxLen - 1 |-> f[k - back]]
    BY ShiftedFetched DEF f
  <1>2. Shifted(h, cs, p, from, to, back)[j] = f[j - back]
    BY <1>1
  <1>. QED
    BY <1>2 DEF f

LEMMA ShiftedType ==
  ASSUME NEW h \in Heaps, NEW cs \in Cells, NEW p \in Block \cup {NULL},
         NEW from \in Nat, NEW to \in Int, NEW back \in Int
  PROVE  \A i \in 0 .. MaxLen - 1 : Shifted(h, cs, p, from, to, back)[i] \in Cell
  <1>. DEFINE f == Fetched(h, cs, p, from, to, back)
  <1>0. Room(h, p) \in Nat /\ Room(h, p) <= MaxLen /\ MaxLen \in Nat
    BY RoomBound, QuotientBound, HeapAssumption, SizeAssumption DEF MaxLen
  <1>1. ASSUME NEW j \in Int
        PROVE  f[j] \in Cell
    <2>. DEFINE b == IF back > 0 /\ from <= j /\ j < to
                       THEN from - back + ((j - from) % back) ELSE j
    <2>1. f[j] = IF j < 0 \/ j >= Room(h, p) \/ b < 0 THEN Raw ELSE cs[p][b]
      BY DEF Fetched
    <2>2. b \in Int /\ b <= j
      <3>1. CASE back > 0 /\ from <= j /\ j < to
        <4>1. back \in Nat \ {0} /\ j - from \in Int
          BY <3>1
        <4>2. (j - from) % back \in 0 .. back - 1
          BY <4>1, RemainderRange
        <4>3. b = from - back + ((j - from) % back)
          BY <3>1
        <4>. HIDE DEF b
        <4>. QED
          BY <3>1, <4>1, <4>2, <4>3
      <3>. QED
        BY <3>1
    <2>. HIDE DEF b
    <2>3. CASE j < 0 \/ j >= Room(h, p) \/ b < 0
      BY <2>1, <2>3 DEF Cell
    <2>4. CASE ~(j < 0 \/ j >= Room(h, p) \/ b < 0)
      <3>1. b \in 0 .. MaxLen - 1
        BY <1>0, <2>2, <2>4
      <3>2. p \in Block
        BY <1>0, <2>4 DEF Room, IsLive
      <3>. QED
        BY <2>1, <2>4, <3>1, <3>2 DEF Cells
    <2>. QED
      BY <2>3, <2>4
  <1>. HIDE DEF f
  <1>2. Shifted(h, cs, p, from, to, back) = [j \in 0 .. MaxLen - 1 |-> f[j - back]]
    BY <1>0, ShiftedFetched DEF f
  <1>. QED
    BY <1>1, <1>2

-----------------------------------------------------------------------------
(***************************************************************************)
(* No size that insert asks for has a footprint beyond size_type: none of  *)
(* a vector that fits the heap, or that erase of a range was followed to,  *)
(* with the elements of one call and the one that insert of a range adds   *)
(* (vector.hpp:136, 160).  The code does not check it.                     *)
(***************************************************************************)
NoWrapEdit ==
  /\ NoWrap
  /\ \A n \in Count \cup {0} : /\ (MaxLen + n + 1) * SizeOf < SizeMod
                               /\ (SizeBound + n + 1) * SizeOf < SizeMod

(***************************************************************************)
(* What of the invariant of VectorProofs outlives erase of a range, which  *)
(* makes a size larger than the capacity: the storage, and a bound on the  *)
(* sizes, which the iterators are made with.                               *)
(***************************************************************************)
SizesFit ==
  Running => \A v \in Vec : size_[v] <= capacity_[v] \/ size_[v] <= SizeBound

EditInvariant == Storage /\ SizesFit /\ IteratorOK

LEMMA ProductOrder ==
  ASSUME NEW x \in Nat, NEW y \in Nat, x <= y, NEW z \in Nat \ {0}
  PROVE  x * z <= y * z
  <1>1. PICK d \in Nat : y = x + d
    <2>1. y - x \in Nat /\ y = x + (y - x)
      OBVIOUS
    <2>. QED
      BY <2>1
  <1>2. y * z = x * z + d * z /\ x * z \in Int /\ d * z \in Nat
    BY <1>1, SMT
  <1>. QED
    BY <1>2

LEMMA CapacityBound ==
  ASSUME Storage, NEW v \in Vec
  PROVE  /\ capacity_[v] \in Nat /\ capacity_[v] <= MaxLen /\ MaxLen \in Nat
         /\ Room(heap, arr_[v]) = capacity_[v]
  BY OwnRoom, RoomBound, StorageTypes, QuotientBound, HeapAssumption, SizeAssumption
  DEF MaxLen

(* The sizes insert asks for are what they are in Nat. *)
LEMMA EditFits ==
  ASSUME NoWrapEdit, Storage, SizesFit, Running, NEW v \in Vec,
         NEW n \in Count \cup {0}, NEW d \in Nat, d <= n + 1
  PROVE  /\ size_[v] + d \in 0 .. SizeMod - 1
         /\ (size_[v] + d) % SizeMod = size_[v] + d
         /\ (size_[v] + d) * SizeOf < SizeMod
  <1>0. size_[v] \in Nat /\ n \in Nat /\ MaxLen \in Nat /\ SizeBound \in Nat
        /\ SizeOf \in Nat \ {0} /\ SizeMod \in Nat \ {0}
    BY StorageTypes, CapacityBound, VectorAssumption, IteratorAssumption, SizeAssumption
  <1>1. PICK b \in {MaxLen, SizeBound} : size_[v] <= b
    BY <1>0, CapacityBound DEF SizesFit
  <1>2. b \in Nat /\ b + n + 1 \in Nat /\ (b + n + 1) * SizeOf < SizeMod
    BY <1>0 DEF NoWrapEdit
  <1>3. size_[v] + d \in Nat /\ size_[v] + d <= b + n + 1
    BY <1>0, <1>1, <1>2
  <1>4. (size_[v] + d) * SizeOf <= (b + n + 1) * SizeOf
    BY <1>0, <1>2, <1>3, ProductOrder
  <1>5. size_[v] + d <= (size_[v] + d) * SizeOf /\ (size_[v] + d) * SizeOf \in Nat
    BY <1>0, <1>3, Product
  <1>6. (b + n + 1) * SizeOf \in Nat
    BY <1>0, <1>2, Product
  <1>7. (size_[v] + d) * SizeOf < SizeMod
    BY <1>0, <1>2, <1>4, <1>5, <1>6
  <1>8. size_[v] + d \in 0 .. SizeMod - 1
    BY <1>0, <1>3, <1>5, <1>7
  <1>. QED
    BY <1>0, <1>7, <1>8, ModSmall

LEMMA SizeFits ==
  ASSUME NoWrapEdit, Storage, SizesFit, Running, NEW v \in Vec
  PROVE  size_[v] \in 0 .. SizeMod - 1 /\ size_[v] % SizeMod = size_[v]
  <1>1. 0 \in Count \cup {0} /\ 0 \in Nat /\ 0 <= 0 + 1
    OBVIOUS
  <1>2. size_[v] + 0 \in 0 .. SizeMod - 1 /\ (size_[v] + 0) % SizeMod = size_[v] + 0
    BY <1>1, EditFits
  <1>3. size_[v] + 0 = size_[v]
    BY StorageTypes
  <1>. QED
    BY <1>2, <1>3

(* Iterators that are made *)
LEMMA Made ==
  ASSUME NEW data \in Block \cup {NULL}, NEW i \in 0 .. SizeMod - 1, NEW n \in Nat
  PROVE  /\ Pointing(data, i, n) \in Iterator
         /\ n < SizeMod => PastEnd(n) \in Iterator
  <1>1. Pointing(data, i, n) \in Iterator
    BY DEF Pointing, Iterator
  <1>2. n < SizeMod => n \in 0 .. SizeMod - 1
    BY SizeAssumption
  <1>. QED
    BY <1>1, <1>2 DEF PastEnd, Iterator

-----------------------------------------------------------------------------
Outcomes == {"none"} \cup Thrown \cup Fatal

(* A call on v ended with storage m and size n. *)
Ended(v, m, n) ==
  /\ Sound(v, m) /\ n \in Nat
  /\ \E cs \in Cells, exc \in Outcomes : Commit(v, m, cs, n, exc)

(* The size is one that the next call can work with. *)
Fits(v, m, n) ==
  \/ n <= m.capacity
  \/ n <= SizeBound
  \/ n <= size_[v] /\ capacity_[v] <= m.capacity
  \/ outcome' \in Fatal

LEMMA EndedFits ==
  ASSUME Storage, SizesFit, Running, NEW v \in Vec, NEW m, NEW n, Ended(v, m, n),
         Fits(v, m, n)
  PROVE  Storage' /\ SizesFit'
  <1>1. /\ Storage'
        /\ size_'[v] = n /\ capacity_'[v] = m.capacity
        /\ \A w \in Vec : w # v => size_'[w] = size_[w] /\ capacity_'[w] = capacity_[w]
    BY CommitStorage DEF Ended, Outcomes
  <1>2. m.capacity \in Nat /\ n \in Nat
    BY DEF Ended, Sound
  <1>3. SizesFit'
    BY <1>1, <1>2, StorageTypes, IteratorAssumption DEF SizesFit, Fits, Running
  <1>. QED
    BY <1>1, <1>3

LEMMA EndedWithin ==
  ASSUME IInv, NEW v \in Vec, NEW m, NEW n, Ended(v, m, n),
         n <= m.capacity \/ (n <= size_[v] /\ capacity_[v] <= m.capacity)
  PROVE  BufferFits'
  <1>1. /\ Storage'
        /\ size_'[v] = n /\ capacity_'[v] = m.capacity
        /\ \A w \in Vec : w # v => size_'[w] = size_[w] /\ capacity_'[w] = capacity_[w]
    BY HasStorage, CommitStorage DEF Ended, Outcomes
  <1>2. m.capacity \in Nat /\ n \in Nat
    BY DEF Ended, Sound
  <1>3. \A w \in Vec : size_'[w] <= capacity_'[w]
    BY <1>1, <1>2, Types
  <1>4. IInv'
    BY <1>1, <1>3, StorageIInv
  <1>. QED
    BY <1>4 DEF IInv

(* A loop on sound storage, and where it can leave the buffer *)
LEMMA LoopFacts ==
  ASSUME NEW v \in Vec, NEW m, Sound(v, m), NEW cs \in Cells,
         NEW from \in Nat, NEW to \in Nat, NEW val,
         \A i \in 0 .. MaxLen - 1 : val[i] \in Cell,
         NEW w \in WriteResults(m.heap, cs, m.arr, from, to, val)
  PROVE  /\ w.cells \in Cells
         /\ w.exc \in {"none", "copy", "overrun"}
         /\ w.exc = "overrun" => from < to /\ m.capacity < to
         /\ w.exc = "copy" => from < m.capacity
  <1>1. m.heap \in Heaps /\ m.arr \in Block \cup {NULL} /\ m.capacity \in Nat
    BY DEF Sound
  <1>2. Room(m.heap, m.arr) = m.capacity
    BY SoundRoom
  <1>3. \A i \in 0 .. MaxLen - 1 : from <= i /\ i < to => val[i] \in Cell
    OBVIOUS
  <1>4. ASSUME NEW h \in Heaps, NEW p \in Block \cup {NULL}, Room(h, p) = m.capacity,
               w \in WriteResults(h, cs, p, from, to, val)
        PROVE  /\ w.cells \in Cells
               /\ w.exc \in {"none", "copy", "overrun"}
               /\ w.exc = "overrun" => from < to /\ m.capacity < to
               /\ w.exc = "copy" => from < m.capacity
    <2>1. w.cells \in Cells /\ w.exc \in {"none", "copy", "overrun"}
      BY <1>3, <1>4, WriteFacts
    <2>2. w.exc = "overrun" => from < to /\ m.capacity < to
      BY <1>1, <1>4 DEF WriteResults
    <2>3. w.exc = "copy" => from < m.capacity
      BY <1>1, <1>4 DEF WriteResults
    <2>. QED
      BY <2>1, <2>2, <2>3
  <1>. QED
    BY <1>1, <1>2, <1>4

(***************************************************************************)
(* A loop that moves elements is the loop that assigns them, unless it     *)
(* comes to one it would fetch from outside the buffer.                    *)
(***************************************************************************)
LEMMA MoveCases ==
  ASSUME NEW h, NEW cs, NEW p, Room(h, p) \in Nat,
         NEW from \in Nat, NEW to \in Nat, NEW back \in Int,
         NEW w \in MoveResults(h, cs, p, from, to, back)
  PROVE  \/ w \in WriteResults(h, cs, p, from, to, Shifted(h, cs, p, from, to, back))
         \/ /\ from < to
            /\ from < back \/ Room(h, p) + back < to
            /\ w.exc # "none"
            /\ \E end \in Nat :
                 \E u \in WriteResults(h, cs, p, from, end, Shifted(h, cs, p, from, to, back)) :
                   w.cells = u.cells /\ w.exc \in {u.exc, "overrun"}
  <1>. DEFINE val == Shifted(h, cs, p, from, to, back)
              end == IF from < back THEN from ELSE Room(h, p) + back
  <1>1. CASE to <= from \/ to <= end
    <2>1. w \in WriteResults(h, cs, p, from, to, val)
      BY <1>1 DEF MoveResults
    <2>. QED
      BY <2>1
  <1>2. CASE ~(to <= from \/ to <= end)
    <2>1. w \in { [u EXCEPT !.exc = IF @ = "none" THEN "overrun" ELSE @] :
                    u \in WriteResults(h, cs, p, from, end, val) }
      BY <1>2 DEF MoveResults
    <2>2. end \in Int /\ from < to /\ (from < back \/ Room(h, p) + back < to)
      BY <1>2
    <2>. HIDE DEF val, end
    <2>3. PICK u \in WriteResults(h, cs, p, from, end, val) :
            w = [u EXCEPT !.exc = IF u.exc = "none" THEN "overrun" ELSE u.exc]
      BY <2>1
    <2>4. u = [exc |-> u.exc, done |-> u.done, cells |-> u.cells]
      BY DEF WriteResults
    <2>5. w.cells = u.cells /\ w.exc = IF u.exc = "none" THEN "overrun" ELSE u.exc
      BY <2>3, <2>4
    <2>6. \E e \in Nat : u \in WriteResults(h, cs, p, from, e, val)
      <3>1. CASE end < from
        <4>1. from .. end - 1 = {} /\ from .. from - 1 = {} /\ end <= from /\ from <= from
          BY <2>2, <3>1
        <4>2. u \in WriteResults(h, cs, p, from, from, val)
          BY <4>1 DEF WriteResults
        <4>. QED
          BY <4>2
      <3>2. CASE ~(end < from)
        BY <2>2, <3>2
      <3>. QED
        BY <3>1, <3>2
    <2>. QED
      BY <2>2, <2>5, <2>6 DEF val
  <1>. QED
    BY <1>1, <1>2

LEMMA MoveFacts ==
  ASSUME NEW v \in Vec, NEW m, Sound(v, m), NEW cs \in Cells,
         NEW from \in Nat, NEW to \in Nat, NEW back \in Int,
         NEW w \in MoveResults(m.heap, cs, m.arr, from, to, back)
  PROVE  /\ w.cells \in Cells
         /\ w.exc \in {"none", "copy", "overrun"}
         /\ w.exc = "overrun" =>
              from < to /\ (m.capacity < to \/ from < back \/ m.capacity + back < to)
  <1>. DEFINE val == Shifted(m.heap, cs, m.arr, from, to, back)
  <1>1. /\ m.heap \in Heaps /\ m.arr \in Block \cup {NULL} /\ m.capacity \in Nat
        /\ Room(m.heap, m.arr) = m.capacity
    BY SoundRoom DEF Sound
  <1>2. \A i \in 0 .. MaxLen - 1 : val[i] \in Cell
    <2>1. to \in Int
      OBVIOUS
    <2>. QED
      BY <1>1, <2>1, ShiftedType
  <1>3. \/ w \in WriteResults(m.heap, cs, m.arr, from, to, val)
        \/ /\ from < to
           /\ from < back \/ m.capacity + back < to
           /\ \E end \in Nat : \E u \in WriteResults(m.heap, cs, m.arr, from, end, val) :
                w.cells = u.cells /\ w.exc \in {u.exc, "overrun"}
    BY <1>1, MoveCases
  <1>. HIDE DEF val
  <1>4. ASSUME NEW end \in Nat, NEW u \in WriteResults(m.heap, cs, m.arr, from, end, val)
        PROVE  /\ u.cells \in Cells /\ u.exc \in {"none", "copy", "overrun"}
               /\ u.exc = "overrun" => from < end /\ m.capacity < end
    BY <1>2, LoopFacts
  <1>. QED
    BY <1>3, <1>4

-----------------------------------------------------------------------------
(* The storage a call works on is a record. *)
LEMMA RoomRecord ==
  ASSUME NEW v, NEW n, NEW m \in ReserveResults(v, n), NEW cs
  PROVE  /\ [m EXCEPT !.cells = cs].cells = cs
         /\ [m EXCEPT !.cells = cs].heap = m.heap
         /\ [m EXCEPT !.cells = cs].arr = m.arr
         /\ [m EXCEPT !.cells = cs].capacity = m.capacity
         /\ [m EXCEPT !.cells = cs].allocated = m.allocated
         /\ [m EXCEPT !.cells = cs].exc = m.exc
  <1>. DEFINE names == {"exc", "heap", "cells", "arr", "capacity", "allocated"}
  <1>1. DOMAIN Same(v) = names
    BY DEF Same
  <1>. DEFINE granted(r) == [exc |-> "none", heap |-> r.heap, arr |-> r.mem,
                             capacity |-> n, allocated |-> r.allocated,
                             cells |-> Carried(cells, heap, arr_[v], r.heap, r.mem)]
              refused(r) == [Same(v) EXCEPT
                               !.exc = r.exc, !.heap = r.heap,
                               !.cells = [b \in Block |-> IF r.heap[b] = heap[b]
                                                            THEN cells[b] ELSE Blank]]
  <1>2. DOMAIN m = names
    <2>1. CASE m = Same(v) \/ m = [Same(v) EXCEPT !.exc = "abort"]
      BY <1>1, <2>1
    <2>2. CASE \E r : m = granted(r) \/ m = refused(r)
      BY <1>1, <2>2
    <2>3. CASE n > capacity_[v] /\ n # 0
      <3>. HIDE DEF granted, refused
      <3>1. m \in { IF r.exc = "none" THEN granted(r) ELSE refused(r) :
                      r \in AllocateResults(allocated_[v], heap, arr_[v], n) }
        BY <2>3, Zenon DEF ReserveResults, ScaleResults, granted, refused
      <3>2. \E r : m = granted(r) \/ m = refused(r)
        BY <3>1
      <3>. QED
        BY <2>2, <3>2
    <2>4. CASE ~(n > capacity_[v] /\ n # 0)
      BY <2>1, <2>4, Zenon DEF ReserveResults, ScaleResults
    <2>. QED
      BY <2>3, <2>4
  <1>. QED
    BY <1>2

(* An argument denotes an element whatever the loop before wrote. *)
LEMMA DenotesAfter ==
  ASSUME NEW v \in Vec, NEW n, NEW m \in ReserveResults(v, n), Sound(v, m),
         NEW cs \in Cells, NEW arg \in Argument(v)
  PROVE  \A i \in 0 .. MaxLen - 1 :
           All(Denotes(v, [m EXCEPT !.cells = cs], arg))[i] \in Cell
  <1>. DEFINE k == [m EXCEPT !.cells = cs]
  <1>1. k.cells = cs /\ k.heap = m.heap /\ k.arr = m.arr
    BY RoomRecord
  <1>. HIDE DEF k
  <1>2. Denotes(v, k, arg) \in Cell
    <2>1. CASE arg \in Value
      BY <2>1 DEF Denotes, Cell
    <2>2. CASE arg \notin Value
      <3>1. PICK i \in Nat : arg = <<i>>
        BY <2>2, VectorAssumption DEF Argument, Own
      <3>2. CASE i < Room(m.heap, m.arr)
        <4>1. m.heap \in Heaps /\ m.arr \in Block \cup {NULL}
          BY DEF Sound
        <4>2. m.arr \in Block
          BY <3>1, <3>2, <4>1 DEF Room, IsLive
        <4>3. i \in 0 .. MaxLen - 1
          <5>1. Room(m.heap, m.arr) \in Nat /\ Room(m.heap, m.arr) <= MaxLen /\ MaxLen \in Nat
            BY <4>1, RoomBound, QuotientBound, HeapAssumption, SizeAssumption DEF MaxLen
          <5>. QED
            BY <3>1, <3>2, <5>1
        <4>4. cs[m.arr][i] \in Cell
          BY <4>2, <4>3 DEF Cells
        <4>. QED
          BY <1>1, <2>2, <3>1, <4>4 DEF Denotes, Cell
      <3>3. CASE ~(i < Room(m.heap, m.arr))
        BY <1>1, <2>2, <3>1, <3>3 DEF Denotes, Cell
      <3>. QED
        BY <3>2, <3>3
    <2>. QED
      BY <2>1, <2>2
  <1>. QED
    BY <1>2 DEF All, k

-----------------------------------------------------------------------------
Unmoved == UNCHANGED <<heap, cells, alive, arr_, size_, capacity_, allocated_, it>>

Refusals == {"runtime_error", "bad_alloc", "out_of_range"}

(* A call on v that left the size and the iterator *)
Fails(v) ==
  it' = it /\ \E m : Ended(v, m, size_[v]) /\ capacity_[v] <= m.capacity

LEMMA AssertionFails ==
  ASSUME Storage, NEW v \in Vec, FailedAssertion(v)
  PROVE  Fails(v) /\ outcome' = "abort"
  <1>1. Ended(v, Same(v), size_[v])
    BY HasStorage, SameSound, StorageTypes DEF FailedAssertion, Ended, Outcomes, Fatal
  <1>2. capacity_[v] <= Same(v).capacity
    BY StorageTypes DEF Same
  <1>. QED
    BY <1>1, <1>2 DEF FailedAssertion, Fails, Commit

LEMMA GiveUpFails ==
  ASSUME Storage, NEW v \in Vec, NEW m, Sound(v, m), capacity_[v] <= m.capacity,
         GiveUp(v, m), it' = it
  PROVE  /\ Fails(v) /\ outcome' # "overrun"
         /\ outcome' \in Refusals => Unmoved
  <1>1. m.cells \in Cells /\ m.exc \in Outcomes /\ m.exc # "overrun" /\ size_[v] \in Nat
        /\ m.exc # "out_of_range"
    BY StorageTypes DEF Sound, Outcomes, Thrown, Fatal
  <1>2. Ended(v, m, size_[v])
    BY <1>1 DEF GiveUp, Ended
  <1>3. outcome' = m.exc
    BY DEF GiveUp, Commit
  <1>4. outcome' \in Refusals => Unmoved
    <2>1. Clean
      BY ThrownClean DEF GiveUp
    <2>. QED
      BY <1>1, <1>3, <2>1 DEF Clean, Refused, Refusals, Members, Unmoved
  <1>. QED
    BY <1>1, <1>2, <1>3, <1>4 DEF Fails

LEMMA BrokenFails ==
  ASSUME Storage, NEW v \in Vec, NEW m, Sound(v, m), capacity_[v] <= m.capacity,
         NEW w, w.cells \in Cells, w.exc \in Outcomes, Broken(v, m, w)
  PROVE  Fails(v) /\ outcome' = w.exc
  <1>1. Ended(v, m, size_[v])
    BY StorageTypes DEF Broken, Ended
  <1>. QED
    BY <1>1 DEF Broken, Fails, Commit

-----------------------------------------------------------------------------
(***************************************************************************)
(* How insert ends (vector.hpp:126-177): it fails, or the iterator and the *)
(* vector have the new size.  It leaves the buffer only if the iterator is *)
(* already beyond the size it was made with, and what it throws before it  *)
(* has written an element leaves everything as it was.                     *)
(***************************************************************************)
Inserts(v) ==
  /\ outcome' = "none"
  /\ it.size = size_[v]
  /\ \E m, n : /\ Ended(v, m, n) /\ size_[v] <= n /\ n <= m.capacity
               /\ it' = Pointing(m.arr, it.index, n)

LEMMA InsertEnds ==
  ASSUME NoWrapEdit, EditInvariant, NEW v \in Vec, NEW n \in Count,
         NEW arg \in Argument(v), Insert(v, n, arg)
  PROVE  /\ Fails(v) \/ Inserts(v)
         /\ outcome' = "overrun" => it.size < it.index
         /\ outcome' \in Refusals => Unmoved
  <1>. DEFINE i == it.index
              size == (size_[v] + n) % SizeMod
  <1>0. /\ Storage /\ SizesFit /\ Running
        /\ i \in Nat /\ n \in Nat /\ size_[v] \in Nat
        /\ i + n \in Nat /\ size_[v] + n \in Nat
    <2>1. Storage /\ SizesFit /\ Running
      BY DEF EditInvariant, Insert, Callable, Running
    <2>2. i \in Nat
      BY SizeAssumption DEF EditInvariant, IteratorOK, Iterator
    <2>. QED
      BY <2>1, <2>2, StorageTypes, VectorAssumption
  <1>1. size = size_[v] + n /\ size * SizeOf < SizeMod /\ size \in Nat
    <2>1. n \in Count \cup {0} /\ n <= n + 1
      BY <1>0
    <2>. QED
      BY <1>0, <2>1, EditFits
  <1>. HIDE DEF i, size
  <1>2. CASE ~range_validator(v)
    <2>1. FailedAssertion(v)
      BY <1>2 DEF Insert
    <2>. QED
      BY <1>0, <2>1, AssertionFails DEF Refusals
  <1>3. CASE range_validator(v)
    <2>1. PICK m \in ReserveResults(v, size) :
            \/ GiveUp(v, m) /\ UNCHANGED it
            \/ /\ m.exc = "none"
               /\ \E s \in WriteResults(m.heap, m.cells, m.arr, i + n, size_[v] + n,
                             Shifted(m.heap, m.cells, m.arr, i + n, size_[v] + n, n)) :
                    \/ Broken(v, m, s)
                    \/ /\ s.exc = "none"
                       /\ \E w \in WriteResults(m.heap, s.cells, m.arr, i, i + n,
                            All(Denotes(v, [m EXCEPT !.cells = s.cells], arg))) :
                            \/ Broken(v, m, w)
                            \/ /\ w.exc = "none"
                               /\ Commit(v, m, w.cells, size, "none")
                               /\ it' = Pointing(m.arr, i, size)
      BY <1>3 DEF Insert, i, size
    <2>2. /\ Sound(v, m)
          /\ m.exc = "none" => size <= m.capacity
          /\ capacity_[v] <= m.capacity
      BY <1>0, <1>1, RoomSound
    <2>3. m.heap \in Heaps /\ m.cells \in Cells /\ m.arr \in Block \cup {NULL}
          /\ m.capacity \in Nat
      BY <2>2 DEF Sound
    <2>4. CASE GiveUp(v, m) /\ UNCHANGED it
      BY <1>0, <2>2, <2>4, GiveUpFails
    <2>5. CASE m.exc = "none" /\ ~(GiveUp(v, m) /\ UNCHANGED it)
      <3>1. PICK s \in WriteResults(m.heap, m.cells, m.arr, i + n, size_[v] + n,
                          Shifted(m.heap, m.cells, m.arr, i + n, size_[v] + n, n)) :
              \/ Broken(v, m, s)
              \/ /\ s.exc = "none"
                 /\ \E w \in WriteResults(m.heap, s.cells, m.arr, i, i + n,
                      All(Denotes(v, [m EXCEPT !.cells = s.cells], arg))) :
                      \/ Broken(v, m, w)
                      \/ /\ w.exc = "none"
                         /\ Commit(v, m, w.cells, size, "none")
                         /\ it' = Pointing(m.arr, i, size)
        BY <2>1, <2>5
      <3>2. \A k \in 0 .. MaxLen - 1 :
              Shifted(m.heap, m.cells, m.arr, i + n, size_[v] + n, n)[k] \in Cell
        <4>1. size_[v] + n \in Int /\ n \in Int
          BY <1>0
        <4>. QED
          BY <1>0, <2>3, <4>1, ShiftedType
      <3>3. s.cells \in Cells /\ s.exc \in {"none", "copy"}
        <4>1. /\ s.cells \in Cells
              /\ s.exc \in {"none", "copy", "overrun"}
              /\ s.exc = "overrun" => m.capacity < size_[v] + n
          BY <1>0, <2>2, <2>3, <3>2, LoopFacts
        <4>. QED
          BY <1>1, <2>2, <2>3, <2>5, <4>1
      <3>4. CASE Broken(v, m, s)
        <4>1. s.exc \in Outcomes
          BY <3>3 DEF Outcomes, Thrown
        <4>2. Fails(v) /\ outcome' = s.exc
          BY <1>0, <2>2, <3>3, <3>4, <4>1, BrokenFails
        <4>. QED
          BY <3>3, <4>2 DEF Refusals
      <3>5. CASE ~Broken(v, m, s)
        <4>1. PICK w \in WriteResults(m.heap, s.cells, m.arr, i, i + n,
                           All(Denotes(v, [m EXCEPT !.cells = s.cells], arg))) :
                \/ Broken(v, m, w)
                \/ /\ w.exc = "none"
                   /\ Commit(v, m, w.cells, size, "none")
                   /\ it' = Pointing(m.arr, i, size)
          BY <3>1, <3>5
        <4>2. \A k \in 0 .. MaxLen - 1 :
                All(Denotes(v, [m EXCEPT !.cells = s.cells], arg))[k] \in Cell
          BY <2>2, <3>3, DenotesAfter
        <4>3. /\ w.cells \in Cells
              /\ w.exc \in {"none", "copy", "overrun"}
              /\ w.exc = "overrun" => m.capacity < i + n
          BY <1>0, <2>2, <3>3, <4>1, <4>2, LoopFacts
        <4>4. CASE Broken(v, m, w)
          <5>1. w.exc \in Outcomes
            BY <4>3 DEF Outcomes, Thrown, Fatal
          <5>2. Fails(v) /\ outcome' = w.exc
            BY <1>0, <2>2, <4>3, <4>4, <5>1, BrokenFails
          <5>3. w.exc = "overrun" => it.size < it.index
            BY <1>0, <1>1, <1>3, <2>2, <2>3, <2>5, <4>3 DEF range_validator, i
          <5>. QED
            BY <4>3, <5>2, <5>3 DEF Refusals
        <4>5. CASE /\ w.exc = "none"
                   /\ Commit(v, m, w.cells, size, "none")
                   /\ it' = Pointing(m.arr, i, size)
          <5>1. Ended(v, m, size)
            BY <1>1, <2>2, <4>3, <4>5 DEF Ended, Outcomes
          <5>2. size_[v] <= size /\ size <= m.capacity
            BY <1>0, <1>1, <2>2, <2>5
          <5>3. outcome' = "none"
            BY <4>5 DEF Commit
          <5>4. Inserts(v)
            BY <1>3, <4>5, <5>1, <5>2, <5>3 DEF Inserts, range_validator, i
          <5>. QED
            BY <5>3, <5>4 DEF Refusals
        <4>. QED
          BY <4>1, <4>4, <4>5
      <3>. QED
        BY <3>4, <3>5
    <2>. QED
      BY <2>1, <2>4, <2>5
  <1>. QED
    BY <1>2, <1>3

LEMMA WriteRecord ==
  ASSUME NEW h, NEW cs, NEW p, NEW from, NEW to, NEW val,
         NEW w \in WriteResults(h, cs, p, from, to, val), NEW e
  PROVE  [w EXCEPT !.exc = e].cells = w.cells /\ [w EXCEPT !.exc = e].exc = e
  <1>1. \E k, exc : w = [exc |-> exc, done |-> k, cells |-> Written(cs, p, from, k, val)]
    BY DEF WriteResults
  <1>. QED
    BY <1>1

(* Insert of a range never gets to its end. *)
LEMMA InsertRangeEnds ==
  ASSUME NoWrapEdit, EditInvariant, NEW v \in Vec, NEW n \in Count,
         NEW s \in [1 .. n -> Value], NEW more \in BOOLEAN, InsertRange(v, s, more)
  PROVE  /\ Fails(v)
         /\ outcome' = "overrun" => it.size < it.index
         /\ outcome' \in Refusals => Unmoved \/ (~more /\ outcome' = "out_of_range")
  <1>. DEFINE i == it.index
              distance == IF more THEN Len(s) - 1 ELSE Len(s)
              size == (size_[v] + distance + 1) % SizeMod
              values == [j \in 0 .. MaxLen - 1 |->
                           IF j - i + 1 \in DOMAIN s THEN s[j - i + 1] ELSE Raw]
              end(w) == [w EXCEPT !.exc = IF w.exc # "none" THEN w.exc
                                          ELSE IF more THEN "abort" ELSE "out_of_range"]
  <1>0. /\ Storage /\ SizesFit /\ Running
        /\ i \in Nat /\ n \in Nat /\ size_[v] \in Nat /\ distance \in Nat
        /\ Len(s) <= distance + 1 /\ distance <= n /\ Len(s) \in Nat
        /\ i + distance \in Nat /\ size_[v] + distance \in Nat /\ i + Len(s) \in Nat
    <2>1. Storage /\ SizesFit /\ Running
      BY DEF EditInvariant, InsertRange, Callable, Running
    <2>2. i \in Nat
      BY SizeAssumption DEF EditInvariant, IteratorOK, Iterator
    <2>3. n \in Nat /\ size_[v] \in Nat
      BY <2>1, StorageTypes, VectorAssumption
    <2>4. Len(s) = n
      BY <2>3
    <2>5. distance >= 0
      BY DEF InsertRange
    <2>6. distance \in Nat /\ Len(s) <= distance + 1 /\ distance <= n
      BY <2>3, <2>4, <2>5
    <2>. HIDE DEF i, distance
    <2>. QED
      BY <2>1, <2>2, <2>3, <2>4, <2>6
  <1>1. size = size_[v] + distance + 1 /\ size * SizeOf < SizeMod /\ size \in Nat
    <2>1. ASSUME NEW d \in Nat, d <= n
          PROVE  /\ (size_[v] + d + 1) % SizeMod = size_[v] + d + 1
                 /\ (size_[v] + d + 1) * SizeOf < SizeMod
                 /\ size_[v] + d + 1 \in Nat
      <3>1. size_[v] \in Nat /\ n \in Nat
        BY <1>0
      <3>2. n \in Count \cup {0} /\ d + 1 \in Nat /\ d + 1 <= n + 1
        BY <2>1, <3>1
      <3>3. /\ (size_[v] + (d + 1)) % SizeMod = size_[v] + (d + 1)
            /\ (size_[v] + (d + 1)) * SizeOf < SizeMod
        BY <1>0, <3>2, EditFits
      <3>4. size_[v] + (d + 1) = size_[v] + d + 1
        BY <3>1
      <3>. QED
        BY <3>1, <3>3, <3>4
    <2>2. distance \in Nat /\ distance <= n
      BY <1>0
    <2>. HIDE DEF distance
    <2>. QED
      BY <2>1, <2>2
  <1>2. \A k \in 0 .. MaxLen - 1 : values[k] \in Cell
    <2>1. \A k \in DOMAIN s : s[k] \in Cell
      BY DEF Cell
    <2>. QED
      BY <2>1 DEF Cell
  <1>3. \/ FailedAssertion(v)
        \/ /\ range_validator(v)
           /\ \E m \in ReserveResults(v, size) :
                \/ GiveUp(v, m) /\ UNCHANGED it
                \/ /\ m.exc = "none"
                   /\ \E t \in WriteResults(m.heap, m.cells, m.arr,
                                 i + distance, size_[v] + distance,
                                 Shifted(m.heap, m.cells, m.arr,
                                   i + distance, size_[v] + distance, distance)) :
                        \/ Broken(v, m, t)
                        \/ /\ t.exc = "none"
                           /\ \E w \in WriteResults(m.heap, t.cells, m.arr, i,
                                                    i + Len(s), values) :
                                Broken(v, m, end(w))
    BY Zenon DEF InsertRange
  <1>. HIDE DEF i, size, distance, values
  <1>4. CASE FailedAssertion(v)
    BY <1>0, <1>4, AssertionFails DEF Refusals
  <1>5. CASE range_validator(v) /\ ~FailedAssertion(v)
    <2>1. PICK m \in ReserveResults(v, size) :
            \/ GiveUp(v, m) /\ UNCHANGED it
            \/ /\ m.exc = "none"
               /\ \E t \in WriteResults(m.heap, m.cells, m.arr,
                             i + distance, size_[v] + distance,
                             Shifted(m.heap, m.cells, m.arr,
                               i + distance, size_[v] + distance, distance)) :
                    \/ Broken(v, m, t)
                    \/ /\ t.exc = "none"
                       /\ \E w \in WriteResults(m.heap, t.cells, m.arr, i,
                                                i + Len(s), values) :
                            Broken(v, m, end(w))
      BY <1>3, <1>5
    <2>2. /\ Sound(v, m)
          /\ m.exc = "none" => size <= m.capacity
          /\ capacity_[v] <= m.capacity
      BY <1>0, <1>1, RoomSound
    <2>3. m.heap \in Heaps /\ m.cells \in Cells /\ m.arr \in Block \cup {NULL}
          /\ m.capacity \in Nat
      BY <2>2 DEF Sound
    <2>4. CASE GiveUp(v, m) /\ UNCHANGED it
      BY <1>0, <2>2, <2>4, GiveUpFails
    <2>5. CASE m.exc = "none" /\ ~(GiveUp(v, m) /\ UNCHANGED it)
      <3>1. PICK t \in WriteResults(m.heap, m.cells, m.arr,
                         i + distance, size_[v] + distance,
                         Shifted(m.heap, m.cells, m.arr,
                           i + distance, size_[v] + distance, distance)) :
              \/ Broken(v, m, t)
              \/ /\ t.exc = "none"
                 /\ \E w \in WriteResults(m.heap, t.cells, m.arr, i, i + Len(s), values) :
                      Broken(v, m, end(w))
        BY <2>1, <2>5
      <3>2. \A k \in 0 .. MaxLen - 1 :
              Shifted(m.heap, m.cells, m.arr, i + distance, size_[v] + distance,
                distance)[k] \in Cell
        <4>1. size_[v] + distance \in Int /\ distance \in Int
          BY <1>0
        <4>. QED
          BY <1>0, <2>3, <4>1, ShiftedType
      <3>3. t.cells \in Cells /\ t.exc \in {"none", "copy"}
        <4>1. /\ t.cells \in Cells
              /\ t.exc \in {"none", "copy", "overrun"}
              /\ t.exc = "overrun" => m.capacity < size_[v] + distance
          <5>1. i + distance \in Nat /\ size_[v] + distance \in Nat
            BY <1>0
          <5>. DEFINE made == Shifted(m.heap, m.cells, m.arr,
                                i + distance, size_[v] + distance, distance)
          <5>2. /\ t \in WriteResults(m.heap, m.cells, m.arr,
                          i + distance, size_[v] + distance, made)
                /\ \A k \in 0 .. MaxLen - 1 : made[k] \in Cell
            BY <3>2
          <5>. HIDE DEF made
          <5>. QED
            BY <2>2, <2>3, <5>1, <5>2, LoopFacts
        <4>2. /\ size_[v] \in Nat /\ distance \in Nat /\ m.capacity \in Nat
              /\ size = size_[v] + distance + 1 /\ size <= m.capacity
          BY <1>0, <1>1, <2>2, <2>3, <2>5
        <4>. HIDE DEF size, distance
        <4>. QED
          BY <4>1, <4>2
      <3>4. CASE Broken(v, m, t)
        <4>1. t.exc \in Outcomes
          BY <3>3 DEF Outcomes, Thrown
        <4>2. Fails(v) /\ outcome' = t.exc
          BY <1>0, <2>2, <3>3, <3>4, <4>1, BrokenFails
        <4>. QED
          BY <3>3, <4>2 DEF Refusals
      <3>5. CASE ~Broken(v, m, t)
        <4>1. PICK w \in WriteResults(m.heap, t.cells, m.arr, i, i + Len(s), values) :
                Broken(v, m, end(w))
          BY <3>1, <3>5
        <4>2. /\ w.cells \in Cells
              /\ w.exc \in {"none", "copy", "overrun"}
              /\ w.exc = "overrun" => m.capacity < i + Len(s)
          BY <1>0, <1>2, <2>2, <3>3, <4>1, LoopFacts
        <4>3. /\ end(w).cells = w.cells
              /\ end(w).exc = IF w.exc # "none" THEN w.exc
                              ELSE IF more THEN "abort" ELSE "out_of_range"
          BY <4>1, WriteRecord
        <4>. HIDE DEF end
        <4>4. end(w).exc \in Outcomes /\ end(w).cells \in Cells
          BY <4>2, <4>3 DEF Outcomes, Thrown, Fatal
        <4>5. Fails(v) /\ outcome' = end(w).exc
          BY <1>0, <2>2, <4>1, <4>4, BrokenFails
        <4>6. w.exc = "overrun" => it.size < it.index
          <5>1. /\ it.size = size_[v] /\ size_[v] \in Nat /\ i \in Nat
                /\ Len(s) \in Nat /\ distance \in Nat /\ Len(s) <= distance + 1
                /\ m.capacity \in Nat /\ size = size_[v] + distance + 1
                /\ size <= m.capacity
            BY <1>0, <1>1, <1>5, <2>2, <2>3, <2>5 DEF range_validator
          <5>. HIDE DEF size, distance, i
          <5>2. w.exc = "overrun" => size_[v] < i
            BY <4>2, <5>1
          <5>. QED
            BY <5>1, <5>2 DEF i
        <4>7. outcome' = "overrun" => w.exc = "overrun"
          BY <4>2, <4>3, <4>5
        <4>8. outcome' \in Refusals => ~more /\ outcome' = "out_of_range"
          BY <4>2, <4>3, <4>5 DEF Refusals
        <4>. QED
          BY <4>5, <4>6, <4>7, <4>8
      <3>. QED
        BY <3>4, <3>5
    <2>. QED
      BY <2>1, <2>4, <2>5
  <1>. QED
    BY <1>3, <1>4, <1>5

-----------------------------------------------------------------------------
(* Erase cannot leave a buffer that has room for the size. *)
Erases(v) ==
  /\ outcome' = "none"
  /\ it.size = size_[v]
  /\ \/ /\ Ended(v, Same(v), size_[v])
        /\ it' = PastEnd(size_[v])
     \/ /\ size_[v] # 0 /\ it.index # size_[v]
        /\ Ended(v, Same(v), size_[v] - 1)
        /\ it' = Pointing(arr_[v], it.index, size_[v] - 1)

LEMMA EraseEnds ==
  ASSUME EditInvariant, NEW v \in Vec, Erase(v)
  PROVE  /\ Fails(v) \/ Erases(v)
         /\ outcome' = "overrun" => capacity_[v] < size_[v]
         /\ outcome' \notin Refusals
  <1>. DEFINE i == it.index
  <1>0. /\ Storage /\ i \in Nat /\ size_[v] \in Nat /\ capacity_[v] \in Nat
        /\ Sound(v, Same(v))
        /\ heap \in Heaps /\ cells \in Cells /\ arr_[v] \in Block \cup {NULL}
    <2>1. Storage
      BY DEF EditInvariant
    <2>2. i \in Nat
      BY SizeAssumption DEF EditInvariant, IteratorOK, Iterator
    <2>. QED
      BY <2>1, <2>2, SameSound, StorageTypes
  <1>s. /\ Same(v).heap = heap /\ Same(v).cells = cells /\ Same(v).arr = arr_[v]
        /\ Same(v).capacity = capacity_[v]
    BY DEF Same
  <1>1. CASE FailedAssertion(v)
    BY <1>0, <1>1, AssertionFails DEF Refusals
  <1>2. CASE /\ range_validator(v)
             /\ Commit(v, Same(v), cells, size_[v], "none")
             /\ it' = PastEnd(size_[v])
    <2>1. Ended(v, Same(v), size_[v])
      BY <1>0, <1>2 DEF Ended, Outcomes
    <2>2. outcome' = "none"
      BY <1>2 DEF Commit
    <2>. QED
      BY <1>2, <2>1, <2>2 DEF Erases, Refusals, range_validator
  <1>3. CASE /\ range_validator(v)
             /\ ~Empty(v) /\ i # size_[v]
             /\ \E w \in MoveResults(heap, cells, arr_[v], i, size_[v] - 1, -1) :
                  \/ Broken(v, Same(v), w)
                  \/ /\ w.exc = "none"
                     /\ Commit(v, Same(v), w.cells, size_[v] - 1, "none")
                     /\ it' = Pointing(arr_[v], i, size_[v] - 1)
    <2>1. PICK w \in MoveResults(heap, cells, arr_[v], i, size_[v] - 1, -1) :
            \/ Broken(v, Same(v), w)
            \/ /\ w.exc = "none"
               /\ Commit(v, Same(v), w.cells, size_[v] - 1, "none")
               /\ it' = Pointing(arr_[v], i, size_[v] - 1)
      BY <1>3
    <2>2. size_[v] # 0 /\ size_[v] - 1 \in Nat
      BY <1>0, <1>3 DEF Empty
    <2>. HIDE DEF i
    <2>4. /\ w.cells \in Cells
          /\ w.exc \in {"none", "copy", "overrun"}
          /\ w.exc = "overrun" => capacity_[v] < size_[v]
      <3>1. w \in MoveResults(Same(v).heap, cells, Same(v).arr, i, size_[v] - 1, -1)
        BY <1>s
      <3>2. -1 \in Int
        OBVIOUS
      <3>3. /\ w.cells \in Cells
            /\ w.exc \in {"none", "copy", "overrun"}
            /\ w.exc = "overrun" =>
                 \/ capacity_[v] < size_[v] - 1
                 \/ i < -1 \/ capacity_[v] + (-1) < size_[v] - 1
        BY <1>0, <1>s, <2>2, <3>1, <3>2, MoveFacts
      <3>. QED
        BY <1>0, <3>3
    <2>5. CASE Broken(v, Same(v), w)
      <3>1. w.exc \in Outcomes
        BY <2>4 DEF Outcomes, Thrown, Fatal
      <3>2. capacity_[v] <= Same(v).capacity
        BY <1>0, <1>s
      <3>3. Fails(v) /\ outcome' = w.exc
        BY <1>0, <2>4, <2>5, <3>1, <3>2, BrokenFails
      <3>. QED
        BY <1>0, <2>4, <3>3 DEF Refusals
    <2>6. CASE /\ w.exc = "none"
               /\ Commit(v, Same(v), w.cells, size_[v] - 1, "none")
               /\ it' = Pointing(arr_[v], i, size_[v] - 1)
      <3>1. Ended(v, Same(v), size_[v] - 1)
        BY <1>0, <2>2, <2>4, <2>6 DEF Ended, Outcomes
      <3>2. outcome' = "none"
        BY <2>6 DEF Commit
      <3>. QED
        BY <1>3, <2>2, <2>6, <3>1, <3>2 DEF Erases, Refusals, range_validator, i
    <2>. QED
      BY <2>1, <2>5, <2>6
  <1>. QED
    BY <1>1, <1>2, <1>3 DEF Erase

(***************************************************************************)
(* Erase of a range cannot leave such a buffer either, unless the range    *)
(* starts at the first element: the loop then fetches from in front of the *)
(* buffer (vector.hpp:204), or, if the vector is empty, has size_ - 1      *)
(* taken in size_type as its bound (203).                                  *)
(***************************************************************************)
Regrows(v, l) ==
  LET size == size_[v] - (it.index - l)
  IN  /\ outcome' = "none"
      /\ it.size = size_[v]
      /\ size <= SizeBound
      /\ Ended(v, Same(v), size)
      /\ \/ it' = PastEnd(size)
         \/ it' = Pointing(arr_[v], (0 - it.index) % SizeMod, size)

FromFirst(v, l) == it.index = 0 /\ (size_[v] = 0 \/ (size_[v] > 1 /\ l > 0))

LEMMA EraseRangeEnds ==
  ASSUME NoWrapEdit, EditInvariant, NEW v \in Vec, NEW l, EraseRange(v, l)
  PROVE  /\ l \in it.index .. it.size /\ it.index \in Nat /\ it.size \in Nat
         /\ Fails(v) \/ Regrows(v, l)
         /\ outcome' = "overrun" => capacity_[v] < size_[v] \/ FromFirst(v, l)
         /\ outcome' \notin Refusals
  <1>. DEFINE index == (0 - it.index) % SizeMod
              range == it.index - l
              last == (size_[v] - 1) % SizeMod
              size == size_[v] - range
  <1>0. /\ Storage /\ SizesFit /\ Running
        /\ it.index \in Nat /\ it.size \in Nat /\ size_[v] \in Nat /\ capacity_[v] \in Nat
        /\ Sound(v, Same(v))
        /\ heap \in Heaps /\ cells \in Cells /\ arr_[v] \in Block \cup {NULL}
    <2>1. Storage /\ SizesFit /\ Running
      BY DEF EditInvariant, EraseRange, Callable, Running
    <2>2. it.index \in Nat /\ it.size \in Nat
      BY SizeAssumption DEF EditInvariant, IteratorOK, Iterator
    <2>. QED
      BY <2>1, <2>2, SameSound, StorageTypes
  <1>s. /\ Same(v).heap = heap /\ Same(v).cells = cells /\ Same(v).arr = arr_[v]
        /\ Same(v).capacity = capacity_[v]
    BY DEF Same
  <1>1. l \in it.index .. it.size /\ size <= SizeBound
    BY DEF EraseRange
  <1>2. l \in Int /\ it.index <= l /\ l <= it.size
    BY <1>0, <1>1
  <1>3. range \in Int /\ 0 - range \in Int /\ size \in Nat /\ size_[v] <= size
    BY <1>0, <1>2
  <1>4. index \in Nat /\ last \in Nat /\ (size_[v] # 0 => last = size_[v] - 1)
    <2>1. index \in Nat /\ last \in Nat
      BY <1>0, Remainder
    <2>2. size_[v] # 0 => last = size_[v] - 1
      <3>1. size_[v] \in 0 .. SizeMod - 1
        BY <1>0, SizeFits
      <3>2. size_[v] # 0 => size_[v] - 1 \in 0 .. SizeMod - 1
        BY <3>1, SizeAssumption
      <3>. QED
        BY <3>2, ModSmall, SizeAssumption
    <2>. QED
      BY <2>1, <2>2
  <1>5. it.size = size_[v] /\ size_[v] # 0 /\ index < last /\ index < 0 - range =>
          FromFirst(v, l)
    <2>. SUFFICES ASSUME it.size = size_[v], size_[v] # 0, index < last, index < 0 - range
                  PROVE  FromFirst(v, l)
      OBVIOUS
    <2>1. size_[v] < SizeMod /\ SizeMod \in Nat \ {0}
      <3>1. size_[v] \in 0 .. SizeMod - 1
        BY <1>0, SizeFits
      <3>. QED
        BY <3>1, SizeAssumption
    <2>2. CASE it.index = 0
      <3>1. last = size_[v] - 1 /\ 0 - range = l
        BY <1>2, <1>4, <2>2
      <3>. HIDE DEF index, last, range
      <3>. QED
        BY <1>0, <1>2, <1>4, <2>2, <3>1 DEF FromFirst
    <2>3. CASE it.index # 0
      <3>1. SizeMod - it.index \in 0 .. SizeMod - 1
        BY <1>0, <1>2, <2>1, <2>3
      <3>2. index = SizeMod - it.index
        <4>1. ((SizeMod - it.index) - SizeMod) % SizeMod = (SizeMod - it.index) % SizeMod
          BY <1>0, <2>1, RemainderBack
        <4>2. (SizeMod - it.index) - SizeMod = 0 - it.index
          BY <1>0, <2>1
        <4>3. (SizeMod - it.index) % SizeMod = SizeMod - it.index
          BY <2>1, <3>1, ModSmall
        <4>. QED
          BY <4>1, <4>2, <4>3
      <3>3. 0 - range = l - it.index
        BY <1>0, <1>2
      <3>. HIDE DEF index, last, range
      <3>. QED
        BY <1>0, <1>2, <2>1, <3>2, <3>3
    <2>. QED
      BY <2>2, <2>3
  <1>6. \/ FailedAssertion(v)
        \/ /\ range_validator(v)
           /\ \E w \in MoveResults(heap, cells, arr_[v], index, last, 0 - range) :
                \/ Broken(v, Same(v), w)
                \/ /\ w.exc = "none"
                   /\ Commit(v, Same(v), w.cells, size, "none")
                   /\ it' = PastEnd(size) \/ it' = Pointing(arr_[v], index, size)
    BY Zenon DEF EraseRange
  <1>. HIDE DEF index, range, last, size
  <1>7. CASE FailedAssertion(v)
    BY <1>0, <1>1, <1>7, AssertionFails DEF Refusals
  <1>8. CASE range_validator(v) /\ ~FailedAssertion(v)
    <2>1. PICK w \in MoveResults(heap, cells, arr_[v], index, last, 0 - range) :
            \/ Broken(v, Same(v), w)
            \/ /\ w.exc = "none"
               /\ Commit(v, Same(v), w.cells, size, "none")
               /\ it' = PastEnd(size) \/ it' = Pointing(arr_[v], index, size)
      BY <1>6, <1>8
    <2>2. /\ w.cells \in Cells
          /\ w.exc \in {"none", "copy", "overrun"}
          /\ w.exc = "overrun" =>
               /\ index < last
               /\ \/ capacity_[v] < last
                  \/ index < 0 - range
                  \/ capacity_[v] + (0 - range) < last
      <3>1. w \in MoveResults(Same(v).heap, cells, Same(v).arr, index, last, 0 - range)
        BY <1>s
      <3>. QED
        BY <1>0, <1>s, <1>3, <1>4, <3>1, MoveFacts
    <2>3. w.exc = "overrun" => capacity_[v] < size_[v] \/ FromFirst(v, l)
      <3>1. CASE size_[v] # 0
        <4>1. 0 - range \in Nat
          BY <1>0, <1>2 DEF range
        <4>2. w.exc = "overrun" => capacity_[v] < size_[v] \/ index < 0 - range
          BY <1>0, <1>4, <2>2, <3>1, <4>1
        <4>. QED
          BY <1>5, <1>8, <2>2, <3>1, <4>2 DEF range_validator
      <3>2. CASE size_[v] = 0
        BY <1>0, <1>2, <1>8, <3>2 DEF range_validator, FromFirst
      <3>. QED
        BY <3>1, <3>2
    <2>4. CASE Broken(v, Same(v), w)
      <3>1. w.exc \in Outcomes
        BY <2>2 DEF Outcomes, Thrown, Fatal
      <3>2. capacity_[v] <= Same(v).capacity
        BY <1>0, <1>s
      <3>3. Fails(v) /\ outcome' = w.exc
        BY <1>0, <2>2, <2>4, <3>1, <3>2, BrokenFails
      <3>. QED
        BY <1>0, <1>1, <2>2, <2>3, <3>3 DEF Refusals
    <2>5. CASE /\ w.exc = "none"
               /\ Commit(v, Same(v), w.cells, size, "none")
               /\ it' = PastEnd(size) \/ it' = Pointing(arr_[v], index, size)
      <3>1. Ended(v, Same(v), size)
        BY <1>0, <1>3, <2>2, <2>5 DEF Ended, Outcomes
      <3>2. outcome' = "none"
        BY <2>5 DEF Commit
      <3>3. Regrows(v, l)
        BY <1>1, <1>8, <2>5, <3>1, <3>2 DEF Regrows, range_validator, size, range, index
      <3>. QED
        BY <1>0, <1>1, <3>2, <3>3 DEF Refusals
    <2>. QED
      BY <2>1, <2>4, <2>5
  <1>. QED
    BY <1>6, <1>7, <1>8

-----------------------------------------------------------------------------
(* A call on an iterator leaves the vectors their storage and their sizes. *)
LEMMA SizesAlone ==
  ASSUME Storage, SizesFit, Running, cells' \in Cells, outcome' \in Outcomes,
         UNCHANGED <<heap, alive, arr_, size_, capacity_, allocated_>>
  PROVE  /\ Storage' /\ SizesFit'
         /\ BufferFits => BufferFits'
  <1>1. Storage'
    BY DEF Storage, TypeOK, Cells, Outcomes, AccountInRange, Owned, BuffersDisjoint
  <1>2. SizesFit'
    BY DEF SizesFit, Running
  <1>3. BufferFits => BufferFits'
    BY DEF BufferFits
  <1>. QED
    BY <1>1, <1>2, <1>3

LEMMA Unraised ==
  ASSUME NEW m \in Nat \ {0}, NEW x \in Nat
  PROVE  x % m <= x
  BY SMT

(* ++ and --: a step that is not refused leads to an index of the type. *)
LEMMA MovesEnds ==
  ASSUME EditInvariant, NEW test, NEW i,
         test => i \in 0 .. SizeMod - 1 /\ (it.index <= it.size => i <= it.size),
         Moves(test, i)
  PROVE  /\ EditInvariant'
         /\ InRange => InRange'
         /\ outcome' # "overrun"
         /\ outcome' \in Refusals => Unmoved
  <1>1. /\ Running /\ Storage /\ SizesFit /\ it \in Iterator
        /\ UNCHANGED <<heap, cells, alive, arr_, size_, capacity_, allocated_>>
    BY DEF EditInvariant, IteratorOK, Moves
  <1>2. /\ outcome' \in Outcomes /\ outcome' # "overrun"
        /\ outcome' \in Refusals => it' = it
    BY DEF Moves, Outcomes, Thrown, Refusals
  <1>3. /\ it' \in Iterator
        /\ it.index <= it.size => it'.index <= it'.size
    BY <1>1 DEF Moves, Iterator
  <1>4. Storage' /\ SizesFit' /\ (BufferFits => BufferFits')
    BY <1>1, <1>2, StorageTypes, SizesAlone
  <1>. QED
    BY <1>1, <1>2, <1>3, <1>4 DEF EditInvariant, IteratorOK, InRange, Unmoved

(***************************************************************************)
(* operator* leaves the buffer only through a stale iterator or one beyond *)
(* its own size: any other names an element of a buffer there is.          *)
(***************************************************************************)
LEMMA AccessEnds ==
  ASSUME EditInvariant, NEW x \in Value, Access(x)
  PROVE  /\ EditInvariant'
         /\ InRange => InRange'
         /\ outcome' = "overrun" => Stale \/ it.index > it.size
         /\ outcome' \in Refusals => Unmoved
  <1>0. /\ Running /\ Storage /\ SizesFit /\ it \in Iterator
        /\ heap \in Heaps /\ cells \in Cells /\ alive \subseteq Vec
        /\ it.index \in Nat /\ it.index + 1 \in Nat /\ it.size \in Nat
        /\ it.data \in Block \cup {NULL}
        /\ UNCHANGED <<heap, alive, arr_, size_, capacity_, allocated_, it>>
    <2>1. it \in Iterator /\ Storage /\ SizesFit /\ Running
      BY DEF EditInvariant, IteratorOK, Access
    <2>2. /\ it.index \in Nat /\ it.index + 1 \in Nat /\ it.size \in Nat
          /\ it.data \in Block \cup {NULL}
      BY <2>1, SizeAssumption DEF Iterator
    <2>. QED
      BY <2>1, <2>2, StorageTypes DEF Access, Storage, TypeOK
  <1>1. CASE AtEnd /\ outcome' = "out_of_range" /\ UNCHANGED cells
    <2>1. outcome' \in Outcomes /\ cells' \in Cells
      BY <1>0, <1>1 DEF Outcomes, Thrown
    <2>2. Storage' /\ SizesFit' /\ (BufferFits => BufferFits')
      BY <1>0, <2>1, SizesAlone
    <2>. QED
      BY <1>0, <1>1, <2>2 DEF EditInvariant, IteratorOK, InRange, Unmoved
  <1>2. CASE /\ ~AtEnd
             /\ \E w \in WriteResults(heap, cells, it.data, it.index, it.index + 1, All(x)) :
                  cells' = w.cells /\ outcome' = w.exc
    <2>1. PICK w \in WriteResults(heap, cells, it.data, it.index, it.index + 1, All(x)) :
            cells' = w.cells /\ outcome' = w.exc
      BY <1>2
    <2>2. w.cells \in Cells /\ w.exc \in {"none", "copy", "overrun"}
      <3>1. \A i \in 0 .. MaxLen - 1 :
              it.index <= i /\ i < it.index + 1 => All(x)[i] \in Cell
        BY DEF All, Cell
      <3>. QED
        BY <1>0, <2>1, <3>1, WriteFacts
    <2>3. w.exc = "overrun" => Stale \/ it.index > it.size
      <3>. SUFFICES ASSUME NEW v \in alive, it.data = arr_[v], it.size <= capacity_[v],
                           it.index <= it.size, w.exc = "overrun"
                    PROVE  FALSE
        BY <1>0 DEF Stale
      <3>1. /\ capacity_[v] \in Nat
            /\ Room(heap, it.data) = capacity_[v]
        BY <1>0, CapacityBound
      <3>2. it.index + 1 <= Room(heap, it.data)
        BY <1>0, <1>2, <3>1 DEF AtEnd
      <3>. QED
        BY <1>0, <2>1, <3>2, LoopStays
    <2>4. outcome' \in Outcomes /\ cells' \in Cells /\ outcome' \notin Refusals
      BY <2>1, <2>2 DEF Outcomes, Thrown, Fatal, Refusals
    <2>5. Storage' /\ SizesFit' /\ (BufferFits => BufferFits')
      BY <1>0, <2>4, SizesAlone
    <2>. QED
      BY <1>0, <2>1, <2>3, <2>4, <2>5 DEF EditInvariant, IteratorOK, InRange
  <1>. QED
    BY <1>1, <1>2 DEF Access

LEMMA IterateEnds ==
  ASSUME NoWrapEdit, EditInvariant, Iterate
  PROVE  /\ EditInvariant'
         /\ InRange => InRange'
         /\ outcome' = "overrun" => Dereferenced /\ (Stale \/ it.index > it.size)
         /\ outcome' \in Refusals => Unmoved
  <1>0. Storage /\ SizesFit /\ it.index \in 0 .. SizeMod - 1 /\ it.size \in Nat
    BY DEF EditInvariant, IteratorOK, Iterator
  <1>1. CASE \E v \in Vec : Begin(v) \/ End(v)
    <2>1. PICK v \in Vec : Begin(v) \/ End(v)
      BY <1>1
    <2>2. /\ Running /\ Sound(v, Same(v)) /\ cells \in Cells
          /\ arr_[v] \in Block \cup {NULL} /\ Same(v).capacity = capacity_[v]
          /\ size_[v] \in Nat /\ capacity_[v] \in Nat /\ size_[v] < SizeMod
          /\ 0 \in 0 .. SizeMod - 1
      <3>1. Running
        BY <2>1 DEF Begin, End, Callable, Running
      <3>2. size_[v] \in 0 .. SizeMod - 1
        BY <1>0, <3>1, SizeFits
      <3>3. Same(v).capacity = capacity_[v]
        BY DEF Same
      <3>. QED
        BY <1>0, <3>1, <3>2, <3>3, SameSound, StorageTypes, SizeAssumption
    <2>3. Commit(v, Same(v), cells, size_[v], "none")
      BY <2>1 DEF Begin, End
    <2>4. Ended(v, Same(v), size_[v]) /\ Fits(v, Same(v), size_[v]) /\ outcome' = "none"
      BY <2>2, <2>3 DEF Ended, Fits, Outcomes, Commit
    <2>5. it' = Pointing(arr_[v], 0, size_[v]) \/ it' = PastEnd(size_[v])
      BY <2>1 DEF Begin, End
    <2>6. it' \in Iterator /\ it'.index <= it'.size
      <3>1. it' \in Iterator
        BY <2>2, <2>5, Made
      <3>2. it'.index <= it'.size
        BY <2>2, <2>5 DEF Pointing, PastEnd
      <3>. QED
        BY <3>1, <3>2
    <2>7. Storage' /\ SizesFit'
      BY <1>0, <2>2, <2>4, EndedFits
    <2>8. BufferFits => BufferFits'
      <3>1. BufferFits => IInv
        BY <1>0, HasStorage DEF BufferFits
      <3>2. size_[v] <= size_[v] /\ capacity_[v] <= Same(v).capacity
        BY <2>2
      <3>. QED
        BY <2>4, <3>1, <3>2, EndedWithin
    <2>. QED
      BY <2>4, <2>6, <2>7, <2>8 DEF EditInvariant, IteratorOK, InRange, Refusals
  <1>2. CASE Increment
    <2>1. ~AtEnd => /\ (it.index + 1) % SizeMod \in 0 .. SizeMod - 1
                    /\ it.index <= it.size => (it.index + 1) % SizeMod <= it.size
      <3>1. it.index + 1 \in Nat /\ SizeMod \in Nat \ {0}
        BY <1>0, SizeAssumption
      <3>2. ~AtEnd => it.index # it.size
        BY DEF AtEnd
      <3>. DEFINE next == (it.index + 1) % SizeMod
      <3>3. next \in 0 .. SizeMod - 1 /\ next <= it.index + 1
        <4>1. ASSUME NEW j \in Nat
              PROVE  j % SizeMod \in 0 .. SizeMod - 1 /\ j % SizeMod <= j
          <5>1. j \in Int
            OBVIOUS
          <5>2. j % SizeMod \in 0 .. SizeMod - 1
            BY <3>1, <5>1, RemainderRange, Zenon
          <5>3. j % SizeMod <= j
            BY <3>1, Unraised, Zenon
          <5>. QED
            BY <5>2, <5>3
        <4>. QED
          BY <3>1, <4>1
      <3>. HIDE DEF next
      <3>4. ~AtEnd => (it.index <= it.size => next <= it.size)
        BY <1>0, <3>2, <3>3
      <3>. QED
        BY <3>3, <3>4 DEF next
    <2>. QED
      BY <1>2, <2>1, MovesEnds DEF Increment
  <1>3. CASE Decrement
    <2>1. it.flag /\ it.index # 0 =>
            /\ it.index - 1 \in 0 .. SizeMod - 1
            /\ it.index <= it.size => it.index - 1 <= it.size
      BY <1>0, SizeAssumption
    <2>. QED
      BY <1>3, <2>1, MovesEnds DEF Decrement
  <1>4. CASE \E x \in Value : Access(x)
    BY <1>4, AccessEnds DEF Dereferenced
  <1>. QED
    BY <1>1, <1>2, <1>3, <1>4 DEF Iterate

-----------------------------------------------------------------------------
(***************************************************************************)
(* The calls made in between, on vectors whose size may be larger than the *)
(* capacity: push_back then neither scales the buffer nor stays in it      *)
(* (vector.hpp:243 compares for equality).                                 *)
(***************************************************************************)
Scaled(v) ==
  /\ outcome' # "out_of_range"
  /\ \E m, n : Ended(v, m, n) /\ Fits(v, m, n)

(* A call that keeps the size, or takes one the storage has room for *)
LEMMA ScaledBy ==
  ASSUME NEW v \in Vec, NEW m, Sound(v, m), NEW n \in Nat, NEW cs \in Cells,
         NEW exc \in Outcomes, exc # "out_of_range", Commit(v, m, cs, n, exc),
         \/ n <= m.capacity
         \/ n <= size_[v] /\ capacity_[v] <= m.capacity
         \/ exc \in Fatal
  PROVE  Scaled(v)
  <1>1. Ended(v, m, n)
    BY DEF Ended
  <1>2. outcome' = exc
    BY DEF Commit
  <1>. QED
    BY <1>1, <1>2 DEF Scaled, Fits

LEMMA GiveUpScaled ==
  ASSUME Storage, NEW v \in Vec, NEW m, Sound(v, m), GiveUp(v, m)
  PROVE  Scaled(v)
  <1>1. /\ m.cells \in Cells /\ size_[v] \in Nat /\ capacity_[v] \in Nat
        /\ m.exc \in Outcomes /\ m.exc # "out_of_range" /\ m.capacity = capacity_[v]
    BY StorageTypes DEF Sound, GiveUp, Outcomes, Thrown, Fatal
  <1>2. size_[v] <= size_[v] /\ capacity_[v] <= m.capacity
    BY <1>1
  <1>. QED
    BY <1>1, <1>2, ScaledBy DEF GiveUp

LEMMA LoopScaled ==
  ASSUME NEW v \in Vec, NEW m, Sound(v, m), NEW from \in Nat, NEW to \in Nat, NEW val,
         \A i \in 0 .. MaxLen - 1 : val[i] \in Cell,
         NEW w \in WriteResults(m.heap, m.cells, m.arr, from, to, val),
         NEW n \in Nat, Commit(v, m, w.cells, n, w.exc),
         \/ n <= m.capacity
         \/ n <= size_[v] /\ capacity_[v] <= m.capacity
         \/ w.exc = "overrun"
  PROVE  Scaled(v)
  <1>1. w.cells \in Cells /\ w.exc \in {"none", "copy", "overrun"}
    BY LoopSound
  <1>2. w.exc \in Outcomes /\ w.exc # "out_of_range" /\ (w.exc = "overrun" => w.exc \in Fatal)
    BY <1>1 DEF Outcomes, Thrown, Fatal
  <1>. QED
    BY <1>1, <1>2, ScaledBy

LEMMA ReserveScaled ==
  ASSUME NoWrap, Storage, NEW v \in Vec, NEW n \in Count, Reserve(v, n)
  PROVE  Scaled(v)
  <1>1. PICK m \in ReserveResults(v, n) : Commit(v, m, m.cells, size_[v], m.exc)
    BY DEF Reserve
  <1>2. Sound(v, m) /\ capacity_[v] <= m.capacity
    BY ReserveSound
  <1>3. /\ m.cells \in Cells /\ size_[v] \in Nat /\ size_[v] <= size_[v]
        /\ m.exc \in Outcomes /\ m.exc # "out_of_range"
    BY <1>2, StorageTypes DEF Sound, Outcomes, Thrown, Fatal
  <1>. QED
    BY <1>1, <1>2, <1>3, ScaledBy

LEMMA AssignScaled ==
  ASSUME NoWrap, Storage, NEW v \in Vec, NEW n \in Count, NEW arg \in Argument(v),
         Assign(v, n, arg)
  PROVE  Scaled(v)
  <1>0. /\ n \in Nat /\ n * SizeOf < SizeMod /\ 0 \in Nat
        /\ size_[v] \in Nat /\ capacity_[v] \in Nat
    BY StorageTypes, VectorAssumption DEF NoWrap
  <1>1. CASE n < capacity_[v]
    <2>1. PICK m \in ScaleResults(v, n) :
            \/ GiveUp(v, m)
            \/ /\ m.exc = "none"
               /\ \E w \in WriteResults(m.heap, m.cells, m.arr, 0, n,
                                        All(Denotes(v, m, arg))) :
                    Commit(v, m, w.cells, n, w.exc)
      BY <1>0, <1>1 DEF Assign
    <2>2. Sound(v, m) /\ (m.exc = "none" => m.capacity = n)
      BY <1>0, ScaleSound
    <2>3. CASE GiveUp(v, m)
      BY <2>2, <2>3, GiveUpScaled
    <2>4. CASE /\ m.exc = "none"
               /\ \E w \in WriteResults(m.heap, m.cells, m.arr, 0, n,
                                        All(Denotes(v, m, arg))) :
                    Commit(v, m, w.cells, n, w.exc)
      <3>1. \A i \in 0 .. MaxLen - 1 : All(Denotes(v, m, arg))[i] \in Cell
        BY <2>2, DenotesType
      <3>2. n <= m.capacity
        BY <1>0, <2>2, <2>4
      <3>. QED
        BY <1>0, <2>2, <2>4, <3>1, <3>2, LoopScaled
    <2>. QED
      BY <2>1, <2>3, <2>4
  <1>2. CASE n >= capacity_[v]
    <2>1. PICK w \in WriteResults(heap, cells, arr_[v], 0, n,
                                  All(Denotes(v, Same(v), arg))) :
            Commit(v, Same(v), w.cells, size_[v], w.exc)
      BY <1>0, <1>2 DEF Assign
    <2>2. /\ Same(v).heap = heap /\ Same(v).cells = cells
          /\ Same(v).arr = arr_[v] /\ Same(v).capacity = capacity_[v]
      BY DEF Same
    <2>3. w \in WriteResults(Same(v).heap, Same(v).cells, Same(v).arr, 0, n,
                             All(Denotes(v, Same(v), arg)))
      BY <2>1, <2>2
    <2>4. Sound(v, Same(v)) /\ size_[v] <= size_[v] /\ capacity_[v] <= Same(v).capacity
      BY <1>0, <2>2, SameSound
    <2>5. \A i \in 0 .. MaxLen - 1 : All(Denotes(v, Same(v), arg))[i] \in Cell
      BY <2>4, DenotesType
    <2>. QED
      BY <1>0, <2>1, <2>3, <2>4, <2>5, LoopScaled
  <1>. QED
    BY <1>0, <1>1, <1>2

LEMMA PushBackScaled ==
  ASSUME NoWrap, Storage, NEW v \in Vec, NEW arg \in Argument(v), PushBack(v, arg)
  PROVE  Scaled(v)
  <1>0. size_[v] \in Nat /\ size_[v] + 1 \in Nat /\ capacity_[v] \in Nat
    BY StorageTypes
  <1>1. PICK m \in AppendResults(v) :
          \/ GiveUp(v, m)
          \/ /\ m.exc = "none"
             /\ \E w \in WriteResults(m.heap, m.cells, m.arr, size_[v], size_[v] + 1,
                                      All(Denotes(v, m, arg))) :
                  Commit(v, m, w.cells, size_[v] + 1, w.exc)
    BY DEF PushBack
  <1>2. /\ Sound(v, m)
        /\ m.exc = "none" /\ size_[v] <= capacity_[v] => size_[v] + 1 <= m.capacity
    BY AppendSound
  <1>3. CASE GiveUp(v, m)
    BY <1>2, <1>3, GiveUpScaled
  <1>4. CASE /\ m.exc = "none"
             /\ \E w \in WriteResults(m.heap, m.cells, m.arr, size_[v], size_[v] + 1,
                                      All(Denotes(v, m, arg))) :
                  Commit(v, m, w.cells, size_[v] + 1, w.exc)
    <2>1. PICK w \in WriteResults(m.heap, m.cells, m.arr, size_[v], size_[v] + 1,
                                  All(Denotes(v, m, arg))) :
            Commit(v, m, w.cells, size_[v] + 1, w.exc)
      BY <1>4
    <2>2. \A i \in 0 .. MaxLen - 1 : All(Denotes(v, m, arg))[i] \in Cell
      BY <1>2, DenotesType
    <2>3. size_[v] > capacity_[v] => w.exc = "overrun"
      <3>. SUFFICES ASSUME size_[v] > capacity_[v] PROVE w.exc = "overrun"
        OBVIOUS
      <3>1. m = Same(v)
        BY <1>0, <1>1 DEF AppendResults
      <3>2. m.capacity = capacity_[v]
        BY <3>1 DEF Same
      <3>3. Room(m.heap, m.arr) = capacity_[v]
        BY <1>2, <3>2, SoundRoom
      <3>4. Room(m.heap, m.arr) < size_[v] /\ Room(m.heap, m.arr) \in Nat
        BY <1>0, <3>3
      <3>. QED
        BY <1>0, <2>1, <3>4 DEF WriteResults
    <2>. QED
      BY <1>0, <1>2, <1>4, <2>1, <2>2, <2>3, LoopScaled
  <1>. QED
    BY <1>1, <1>3, <1>4

LEMMA PopBackScaled ==
  ASSUME Storage, NEW v \in Vec, PopBack(v)
  PROVE  Scaled(v)
  <1>. DEFINE n == IF Empty(v) THEN 0 ELSE size_[v] - 1
  <1>1. /\ size_[v] \in Nat /\ capacity_[v] \in Nat /\ cells \in Cells
        /\ Sound(v, Same(v)) /\ Same(v).capacity = capacity_[v]
    BY StorageTypes, SameSound DEF Same
  <1>2. n \in Nat /\ n <= size_[v] /\ capacity_[v] <= Same(v).capacity
    BY <1>1 DEF Empty
  <1>3. Commit(v, Same(v), cells, n, "none")
    BY DEF PopBack
  <1>. HIDE DEF n
  <1>4. "none" \in Outcomes
    BY DEF Outcomes
  <1>. QED
    BY <1>1, <1>2, <1>3, <1>4, ScaledBy

LEMMA CtorEnds ==
  ASSUME NoWrap, Storage, SizesFit, NEW v \in Vec, NEW n \in Count,
         NEW s \in [1 .. n -> Value], RangeCtor(v, s)
  PROVE  /\ Storage' /\ SizesFit'
         /\ outcome' # "out_of_range"
  <1>. DEFINE val == [i \in 0 .. Len(s) - 1 |-> s[i + 1]]
  <1>0. n \in Nat /\ n * SizeOf < SizeMod /\ Len(s) = n
    BY VectorAssumption DEF NoWrap
  <1>1. n > 0 /\ BuildWith(v, n, val)
    BY <1>0 DEF RangeCtor
  <1>2. \A i \in 0 .. MaxLen - 1 : i < n => val[i] \in Cell
    BY <1>0 DEF Cell
  <1>. HIDE DEF val
  <1>3. /\ Storage'
        /\ \/ size_' = size_ /\ capacity_' = capacity_
           \/ /\ size_'[v] = n /\ capacity_'[v] = n
              /\ \A w \in Vec : w # v => size_'[w] = size_[w] /\ capacity_'[w] = capacity_[w]
    BY <1>0, <1>1, <1>2, BuildStorage
  <1>4. Running
    BY <1>1 DEF BuildWith, Unmade, Running
  <1>5. SizesFit'
    BY <1>0, <1>3, <1>4 DEF SizesFit
  <1>6. outcome' # "out_of_range"
    <2>1. \A r \in AllocateResults(0, heap, NULL, n) : Ends(0, heap, NULL, n, r)
      <3>1. 0 \in 0 .. Capacity /\ heap \in Heaps /\ NULL \in Block \cup {NULL}
        BY SizeAssumption, StorageTypes
      <3>. QED
        BY <1>0, <3>1, AllocateFacts
    <2>2. PICK r \in AllocateResults(0, heap, NULL, n) :
            \/ outcome' = r.exc
            \/ \E w \in WriteResults(r.heap, cells, r.mem, 0, n, val) : outcome' = w.exc
      BY <1>1 DEF BuildWith
    <2>3. CASE outcome' = r.exc
      BY <2>1, <2>3 DEF Ends
    <2>4. CASE \E w \in WriteResults(r.heap, cells, r.mem, 0, n, val) : outcome' = w.exc
      BY <2>4 DEF WriteResults
    <2>. QED
      BY <2>2, <2>3, <2>4
  <1>. QED
    BY <1>3, <1>5, <1>6

LEMMA AroundEnds ==
  ASSUME NoWrapEdit, EditInvariant, NEW v \in Vec, Around(v), UNCHANGED it
  PROVE  /\ EditInvariant'
         /\ InRange => InRange'
         /\ outcome' = "overrun" => AssignAbove \/ capacity_[v] < size_[v]
         /\ outcome' \in Refusals => Unmoved
  <1>0. NoWrap /\ Storage /\ SizesFit /\ it' = it
    BY DEF NoWrapEdit, EditInvariant
  <1>1. CASE \E n \in Count : \E s \in [1 .. n -> Value] : RangeCtor(v, s)
    <2>1. PICK n \in Count : \E s \in [1 .. n -> Value] : RangeCtor(v, s)
      BY <1>1
    <2>2. PICK s \in [1 .. n -> Value] : RangeCtor(v, s)
      BY <2>1
    <2>3. Storage' /\ SizesFit' /\ outcome' # "out_of_range"
      BY <1>0, <2>2, CtorEnds
    <2>4. Clean
      BY <1>0, <2>2, CtorClean
    <2>5. BufferFits => BufferFits'
      <3>1. BufferFits => IInv
        BY <1>0, HasStorage DEF BufferFits
      <3>2. BufferFits => IInv'
        BY <1>0, <2>2, <3>1, CtorIInv
      <3>. QED
        BY <3>2 DEF IInv
    <2>. QED
      BY <1>0, <2>3, <2>4, <2>5
      DEF EditInvariant, IteratorOK, InRange, Clean, Refused, Refusals, Members, Unmoved
  <1>2. ASSUME Scaled(v), Running, BufferFits => BufferFits',
               \/ Clean
               \/ AssignAbove /\ outcome' \notin Refused
               \/ size_[v] > capacity_[v] /\ outcome' \notin Refused
        PROVE  /\ EditInvariant'
               /\ InRange => InRange'
               /\ outcome' = "overrun" => AssignAbove \/ capacity_[v] < size_[v]
               /\ outcome' \in Refusals => Unmoved
    <2>1. Storage' /\ SizesFit' /\ outcome' # "out_of_range"
      BY <1>0, <1>2, EndedFits DEF Scaled
    <2>2. size_[v] > capacity_[v] => capacity_[v] < size_[v]
      BY <1>0, StorageTypes
    <2>. QED
      BY <1>0, <1>2, <2>1, <2>2
      DEF EditInvariant, IteratorOK, InRange, Clean, Refused, Refusals, Members, Unmoved
  <1>i. BufferFits => IInv
    BY <1>0, HasStorage DEF BufferFits
  <1>3. CASE \E n \in Count : Reserve(v, n)
    <2>1. PICK n \in Count : Reserve(v, n)
      BY <1>3
    <2>2. Running
      BY <2>1 DEF Reserve, Callable, Running
    <2>3. BufferFits => BufferFits'
      BY <1>0, <1>i, <2>1, ReserveIInv DEF IInv
    <2>. QED
      BY <1>0, <1>2, <2>1, <2>2, <2>3, ReserveScaled, ReserveClean
  <1>4. CASE \E n \in Count, arg \in Argument(v) : Assign(v, n, arg)
    <2>1. PICK n \in Count, arg \in Argument(v) : Assign(v, n, arg)
      BY <1>4
    <2>2. Running
      BY <2>1 DEF Assign, Callable, Running
    <2>3. BufferFits => BufferFits'
      BY <1>0, <1>i, <2>1, AssignIInv DEF IInv
    <2>4. Clean \/ (AssignAbove /\ outcome' \notin Refused)
      BY <1>0, <2>1, AssignClean DEF AssignAbove
    <2>. QED
      BY <1>0, <1>2, <2>1, <2>2, <2>3, <2>4, AssignScaled
  <1>5. CASE \E arg \in Argument(v) : PushBack(v, arg)
    <2>1. PICK arg \in Argument(v) : PushBack(v, arg)
      BY <1>5
    <2>2. Running
      BY <2>1 DEF PushBack, Callable, Running
    <2>3. BufferFits => BufferFits'
      BY <1>0, <1>i, <2>1, PushBackIInv DEF IInv
    <2>. QED
      BY <1>0, <1>2, <2>1, <2>2, <2>3, PushBackScaled, PushBackClean
  <1>6. CASE PopBack(v)
    <2>1. Running
      BY <1>6 DEF PopBack, Callable, Running
    <2>2. BufferFits => BufferFits'
      BY <1>0, <1>i, <1>6, PopBackIInv DEF IInv
    <2>3. Clean
      <3>1. outcome' = "none"
        BY <1>6 DEF PopBack, Commit
      <3>. QED
        BY <3>1, OtherClean
    <2>. QED
      BY <1>0, <1>2, <1>6, <2>1, <2>2, <2>3, PopBackScaled
  <1>. QED
    BY <1>1, <1>3, <1>4, <1>5, <1>6 DEF Around

-----------------------------------------------------------------------------
(* The ends of insert and erase keep the invariant. *)
LEMMA EditTypes ==
  ASSUME EditInvariant, NEW v \in Vec
  PROVE  /\ Storage /\ SizesFit
         /\ it.index \in 0 .. SizeMod - 1 /\ it.index \in Nat /\ it.size \in Nat
         /\ it \in Iterator
         /\ size_[v] \in Nat /\ capacity_[v] \in Nat /\ arr_[v] \in Block \cup {NULL}
         /\ Sound(v, Same(v)) /\ Same(v).capacity = capacity_[v]
         /\ InRange => IInv
  <1>1. /\ Storage /\ SizesFit /\ it \in Iterator
        /\ it.index \in 0 .. SizeMod - 1 /\ it.size \in Nat
    BY DEF EditInvariant, IteratorOK, Iterator
  <1>2. it.index \in Nat
    BY <1>1, SizeAssumption
  <1>3. InRange => IInv
    BY <1>1, HasStorage DEF InRange, BufferFits
  <1>4. Sound(v, Same(v)) /\ Same(v).capacity = capacity_[v]
    BY <1>1, SameSound DEF Same
  <1>. QED
    BY <1>1, <1>2, <1>3, <1>4, StorageTypes

LEMMA FailsKeeps ==
  ASSUME EditInvariant, Running, NEW v \in Vec, Fails(v)
  PROVE  EditInvariant' /\ (InRange => InRange')
  <1>0. /\ Storage /\ SizesFit /\ it \in Iterator /\ it' = it
        /\ size_[v] \in Nat /\ (InRange => IInv)
    BY EditTypes DEF Fails
  <1>1. PICK m : Ended(v, m, size_[v]) /\ capacity_[v] <= m.capacity
    BY DEF Fails
  <1>2. size_[v] <= size_[v]
    BY <1>0
  <1>3. Storage' /\ SizesFit'
    BY <1>0, <1>1, <1>2, EndedFits DEF Fits
  <1>4. InRange => BufferFits'
    BY <1>0, <1>1, <1>2, EndedWithin
  <1>. QED
    BY <1>0, <1>3, <1>4 DEF EditInvariant, IteratorOK, InRange

LEMMA InsertsKeeps ==
  ASSUME EditInvariant, Running, NEW v \in Vec, Inserts(v)
  PROVE  EditInvariant' /\ (InRange => InRange')
  <1>0. /\ Storage /\ SizesFit /\ it.index \in 0 .. SizeMod - 1 /\ it.index \in Nat
        /\ it.size \in Nat /\ size_[v] \in Nat /\ (InRange => IInv)
    BY EditTypes
  <1>1. PICK m, n : /\ Ended(v, m, n) /\ size_[v] <= n /\ n <= m.capacity
                    /\ it' = Pointing(m.arr, it.index, n)
    BY DEF Inserts
  <1>2. n \in Nat /\ m.arr \in Block \cup {NULL}
    BY <1>1 DEF Ended, Sound
  <1>3. Storage' /\ SizesFit'
    BY <1>0, <1>1, EndedFits DEF Fits
  <1>4. it' \in Iterator
    BY <1>0, <1>1, <1>2, Made
  <1>5. InRange => BufferFits'
    BY <1>0, <1>1, EndedWithin
  <1>6. it.index <= it.size => it'.index <= it'.size
    <2>1. it'.index = it.index /\ it'.size = n /\ it.size = size_[v]
      BY <1>1 DEF Pointing, Inserts
    <2>. QED
      BY <1>0, <1>1, <1>2, <2>1
  <1>. QED
    BY <1>3, <1>4, <1>5, <1>6 DEF EditInvariant, IteratorOK, InRange

LEMMA ErasesKeeps ==
  ASSUME NoWrapEdit, EditInvariant, Running, NEW v \in Vec, Erases(v)
  PROVE  EditInvariant' /\ (InRange => InRange')
  <1>0. /\ Storage /\ SizesFit /\ it.index \in 0 .. SizeMod - 1 /\ it.index \in Nat
        /\ it.size \in Nat /\ size_[v] \in Nat /\ capacity_[v] \in Nat
        /\ arr_[v] \in Block \cup {NULL}
        /\ Same(v).capacity = capacity_[v]
        /\ (InRange => IInv) /\ it.size = size_[v]
    BY EditTypes DEF Erases
  <1>s. size_[v] < SizeMod
    <2>1. size_[v] \in 0 .. SizeMod - 1
      BY <1>0, SizeFits
    <2>. QED
      BY <2>1, SizeAssumption
  <1>1. PICK n \in {size_[v], size_[v] - 1} :
          /\ Ended(v, Same(v), n)
          /\ \/ n = size_[v] /\ it' = PastEnd(n)
             \/ /\ n = size_[v] - 1 /\ it.index # size_[v]
                /\ it' = Pointing(arr_[v], it.index, n)
    BY DEF Erases
  <1>2. n \in Nat /\ n <= size_[v] /\ capacity_[v] <= Same(v).capacity /\ n < SizeMod
    <2>1. n \in Nat
      BY <1>1 DEF Ended
    <2>. QED
      BY <1>0, <1>1, <1>s, <2>1, SizeAssumption
  <1>3. Storage' /\ SizesFit'
    BY <1>0, <1>1, <1>2, EndedFits DEF Fits
  <1>4. it' \in Iterator
    BY <1>0, <1>1, <1>2, Made
  <1>5. InRange => BufferFits'
    BY <1>0, <1>1, <1>2, EndedWithin
  <1>6. it.index <= it.size => it'.index <= it'.size
    <2>1. CASE it' = PastEnd(n)
      BY <1>2, <2>1 DEF PastEnd
    <2>2. CASE n = size_[v] - 1 /\ it.index # size_[v] /\ it' = Pointing(arr_[v], it.index, n)
      <3>1. it'.index = it.index /\ it'.size = size_[v] - 1
        BY <2>2 DEF Pointing
      <3>. QED
        BY <1>0, <2>2, <3>1
    <2>. QED
      BY <1>1, <2>1, <2>2
  <1>. QED
    BY <1>3, <1>4, <1>5, <1>6 DEF EditInvariant, IteratorOK, InRange

(* A range that ends at the first element is empty: erasing it is harmless. *)
LEMMA RegrowsKeeps ==
  ASSUME NoWrapEdit, EditInvariant, Running, NEW v \in Vec,
         NEW l \in it.index .. it.size, Regrows(v, l)
  PROVE  EditInvariant' /\ (InRange /\ l = 0 => InRange')
  <1>. DEFINE n == size_[v] - (it.index - l)
              index == (0 - it.index) % SizeMod
  <1>0. /\ Storage /\ SizesFit /\ it.index \in Nat
        /\ it.size \in Nat /\ size_[v] \in Nat /\ capacity_[v] \in Nat
        /\ arr_[v] \in Block \cup {NULL}
        /\ Same(v).capacity = capacity_[v]
        /\ (InRange => IInv)
    BY EditTypes
  <1>1. /\ n <= SizeBound /\ Ended(v, Same(v), n)
        /\ it' = PastEnd(n) \/ it' = Pointing(arr_[v], index, n)
    BY DEF Regrows
  <1>2. index \in 0 .. SizeMod - 1
    <2>1. 0 - it.index \in Int /\ SizeMod \in Nat \ {0}
      BY <1>0, SizeAssumption
    <2>. QED
      BY <2>1, RemainderRange
  <1>3. l = 0 => n <= size_[v] /\ index = 0
    <2>. SUFFICES ASSUME l = 0 PROVE n <= size_[v] /\ index = 0
      OBVIOUS
    <2>1. it.index = 0
      BY <1>0
    <2>2. n = size_[v]
      BY <1>0, <2>1
    <2>3. index = 0
      <3>1. 0 - it.index = 0 /\ 0 \in 0 .. SizeMod - 1
        BY <2>1, SizeAssumption
      <3>2. 0 % SizeMod = 0
        BY <3>1, ModSmall, SizeAssumption
      <3>. QED
        BY <3>1, <3>2
    <2>. QED
      BY <1>0, <2>2, <2>3
  <1>. HIDE DEF n, index
  <1>4. n \in Nat /\ capacity_[v] <= Same(v).capacity
    BY <1>0, <1>1 DEF Ended
  <1>5. n < SizeMod
    <2>1. 0 \in Count \cup {0} /\ SizeBound \in Nat /\ SizeOf \in Nat \ {0}
          /\ SizeMod \in Nat
      BY IteratorAssumption, SizeAssumption
    <2>2. (SizeBound + 0 + 1) * SizeOf < SizeMod
      BY <2>1 DEF NoWrapEdit
    <2>3. SizeBound + 0 + 1 \in Nat
      BY <2>1
    <2>4. /\ SizeBound + 0 + 1 <= (SizeBound + 0 + 1) * SizeOf
          /\ (SizeBound + 0 + 1) * SizeOf \in Nat
      BY <2>1, <2>3, Product
    <2>. QED
      BY <1>1, <1>4, <2>1, <2>2, <2>4
  <1>6. Storage' /\ SizesFit'
    BY <1>0, <1>1, EndedFits DEF Fits
  <1>7. it' \in Iterator
    BY <1>0, <1>1, <1>2, <1>4, <1>5, Made
  <1>8. InRange /\ l = 0 => BufferFits'
    BY <1>0, <1>1, <1>3, <1>4, EndedWithin
  <1>9. l = 0 => it'.index <= it'.size
    BY <1>1, <1>3, <1>4 DEF PastEnd, Pointing
  <1>. QED
    BY <1>6, <1>7, <1>8, <1>9 DEF EditInvariant, IteratorOK, InRange

(* Erase of a range that does not end at the first element *)
RangeErased == \E v \in Vec : \E l \in 1 .. it.size : EraseRange(v, l)

(* Insert of a range that comes to its end *)
RangeInserted ==
  \E v \in Vec, n \in Count : \E s \in [1 .. n -> Value] :
    outcome' = "out_of_range" /\ InsertRange(v, s, FALSE)

(***************************************************************************)
(* What a step may do: only erase of a range makes a size or an index too  *)
(* large; a step leaves a buffer only if a size is already beyond it, if   *)
(* it uses an iterator that is stale or beyond its own size, by an assign  *)
(* above the capacity, or by the erase of a range from the first element;  *)
(* and what is refused has no effect, unless it is the insert of a range.  *)
(***************************************************************************)
Behaves ==
  /\ EditInvariant'
  /\ InRange => InRange' \/ RangeErased
  /\ outcome' = "overrun" =>
       \/ ~BufferFits
       \/ Stale /\ Dereferenced
       \/ it.index > it.size /\ (Dereferenced \/ \E v \in Vec : Edit(v))
       \/ AssignAbove
       \/ ErasedFromFirst
  /\ outcome' \in Refusals => Unmoved \/ RangeInserted

LEMMA EditBehaves ==
  ASSUME NoWrapEdit, EditInvariant, NEW v \in Vec, Edit(v)
  PROVE  Behaves
  <1>0. /\ size_[v] \in Nat /\ capacity_[v] \in Nat
        /\ it.index \in Nat /\ it.size \in Nat
    BY EditTypes
  <1>n. it.size < it.index => it.index > it.size /\ \E w \in Vec : Edit(w)
    BY <1>0
  <1>c. capacity_[v] < size_[v] => ~BufferFits
    BY <1>0 DEF BufferFits
  <1>1. CASE \E n \in Count, arg \in Argument(v) : Insert(v, n, arg)
    <2>1. PICK n \in Count, arg \in Argument(v) : Insert(v, n, arg)
      BY <1>1
    <2>2. Running
      BY <2>1 DEF Insert, Callable, Running
    <2>3. /\ Fails(v) \/ Inserts(v)
          /\ outcome' = "overrun" => it.size < it.index
          /\ outcome' \in Refusals => Unmoved
      BY <2>1, InsertEnds
    <2>4. EditInvariant' /\ (InRange => InRange')
      BY <2>2, <2>3, FailsKeeps, InsertsKeeps
    <2>. QED
      BY <1>n, <2>3, <2>4 DEF Behaves
  <1>2. CASE \E n \in Count, more \in BOOLEAN :
               \E s \in [1 .. n -> Value] : InsertRange(v, s, more)
    <2>1. PICK n \in Count, more \in BOOLEAN :
                 \E s \in [1 .. n -> Value] : InsertRange(v, s, more)
      BY <1>2
    <2>2. PICK s \in [1 .. n -> Value] : InsertRange(v, s, more)
      BY <2>1
    <2>3. Running
      BY <2>2 DEF InsertRange, Callable, Running
    <2>4. /\ Fails(v)
          /\ outcome' = "overrun" => it.size < it.index
          /\ outcome' \in Refusals => Unmoved \/ (~more /\ outcome' = "out_of_range")
      BY <2>2, InsertRangeEnds
    <2>5. EditInvariant' /\ (InRange => InRange')
      BY <2>3, <2>4, FailsKeeps
    <2>6. outcome' \in Refusals => Unmoved \/ RangeInserted
      BY <2>2, <2>4 DEF RangeInserted
    <2>. QED
      BY <1>n, <2>4, <2>5, <2>6 DEF Behaves
  <1>3. CASE Erase(v)
    <2>1. Running
      BY <1>3 DEF Erase, Callable, Running
    <2>2. /\ Fails(v) \/ Erases(v)
          /\ outcome' = "overrun" => capacity_[v] < size_[v]
          /\ outcome' \notin Refusals
      BY <1>3, EraseEnds
    <2>3. EditInvariant' /\ (InRange => InRange')
      BY <2>1, <2>2, FailsKeeps, ErasesKeeps
    <2>. QED
      BY <1>c, <2>2, <2>3 DEF Behaves
  <1>4. CASE \E l \in 0 .. it.size : EraseRange(v, l)
    <2>1. PICK l \in 0 .. it.size : EraseRange(v, l)
      BY <1>4
    <2>2. Running
      BY <2>1 DEF EraseRange, Callable, Running
    <2>3. /\ l \in it.index .. it.size
          /\ Fails(v) \/ Regrows(v, l)
          /\ outcome' = "overrun" => capacity_[v] < size_[v] \/ FromFirst(v, l)
          /\ outcome' \notin Refusals
      BY <2>1, EraseRangeEnds
    <2>4. EditInvariant' /\ (InRange /\ l = 0 => InRange')
      BY <2>2, <2>3, FailsKeeps, RegrowsKeeps
    <2>5. l # 0 => RangeErased
      <3>1. l # 0 => l \in 1 .. it.size
        BY <1>0
      <3>. QED
        BY <2>1, <3>1 DEF RangeErased
    <2>6. FromFirst(v, l) => ErasedFromFirst
      BY <2>1 DEF FromFirst, ErasedFromFirst
    <2>. QED
      BY <1>c, <2>3, <2>4, <2>5, <2>6 DEF Behaves
  <1>. QED
    BY <1>1, <1>2, <1>3, <1>4 DEF Edit

LEMMA NextBehaves ==
  ASSUME NoWrapEdit, EditInvariant, IterNext
  PROVE  Behaves
  <1>1. CASE Iterate
    BY <1>1, IterateEnds DEF Behaves
  <1>2. CASE \E v \in Vec : Edit(v)
    BY <1>2, EditBehaves
  <1>3. CASE \E v \in Vec : Around(v) /\ UNCHANGED it
    <2>1. PICK v \in Vec : Around(v) /\ UNCHANGED it
      BY <1>3
    <2>2. size_[v] \in Nat /\ capacity_[v] \in Nat
      BY EditTypes
    <2>3. capacity_[v] < size_[v] => ~BufferFits
      BY <2>2 DEF BufferFits
    <2>. QED
      BY <2>1, <2>3, AroundEnds DEF Behaves
  <1>. QED
    BY <1>1, <1>2, <1>3 DEF IterNext

LEMMA EditInductive == NoWrapEdit => (IterSpec => []EditInvariant)
  <1>. SUFFICES ASSUME NoWrapEdit PROVE IterSpec => []EditInvariant
    OBVIOUS
  <1>1. IterInit => EditInvariant
    <2>. SUFFICES ASSUME IterInit PROVE EditInvariant
      OBVIOUS
    <2>1. Storage
      BY InitIInv, HasStorage DEF IterInit
    <2>2. SizesFit
      <3>1. \A v \in Vec : size_[v] = 0 /\ 0 <= SizeBound
        BY IteratorAssumption DEF IterInit, Init
      <3>. QED
        BY <3>1 DEF SizesFit
    <2>3. IteratorOK
      <3>1. 0 \in Nat /\ 0 \in 0 .. SizeMod - 1
        BY SizeAssumption
      <3>. QED
        BY <3>1 DEF IterInit, PastEnd, IteratorOK, Iterator
    <2>. QED
      BY <2>1, <2>2, <2>3 DEF EditInvariant
  <1>2. EditInvariant /\ [IterNext]_iterVars => EditInvariant'
    <2>. SUFFICES ASSUME EditInvariant, [IterNext]_iterVars PROVE EditInvariant'
      OBVIOUS
    <2>1. CASE IterNext
      BY <2>1, NextBehaves DEF Behaves
    <2>2. CASE UNCHANGED iterVars
      BY <2>2 DEF iterVars, vars, EditInvariant, Storage, TypeOK, AccountInRange, Owned,
                  BuffersDisjoint, SizesFit, Running, IteratorOK
    <2>. QED
      BY <2>1, <2>2
  <1>. QED
    BY <1>1, <1>2, PTL DEF IterSpec

-----------------------------------------------------------------------------
(***************************************************************************)
(* Whatever is called, refused or fails, an iterator keeps its type: no    *)
(* index is ever below the first element or beyond size_type               *)
(* (vector.hpp:359-387, 205).                                              *)
(***************************************************************************)
THEOREM IteratorSafe == NoWrapEdit => (IterSpec => []IteratorOK)
  <1>1. EditInvariant => IteratorOK
    BY DEF EditInvariant
  <1>. QED
    BY <1>1, EditInductive, PTL

(***************************************************************************)
(* The buffers stay apart whatever insert and erase do: not even a size    *)
(* that erase of a range made larger than the capacity (vector.hpp:203)    *)
(* lets two vectors share one.                                             *)
(***************************************************************************)
THEOREM EditsNeverShare == NoWrapEdit => (IterSpec => []BuffersDisjoint)
  <1>1. EditInvariant => BuffersDisjoint
    BY DEF EditInvariant, Storage
  <1>. QED
    BY <1>1, EditInductive, PTL

(***************************************************************************)
(* The sizes stay within the capacities, and the iterator within the size  *)
(* it was made with, until a range is erased that does not end at the      *)
(* first element (vector.hpp:201-206).                                     *)
(***************************************************************************)
THEOREM RangeSafe == NoWrapEdit => (IterSpec => OutOfRangeOnlyByRangeErase)
  <1>. SUFFICES ASSUME NoWrapEdit PROVE IterSpec => OutOfRangeOnlyByRangeErase
    OBVIOUS
  <1>1. EditInvariant /\ [IterNext]_iterVars =>
          [InRange => InRange' \/ RangeErased]_iterVars
    BY NextBehaves DEF Behaves
  <1>. QED
    BY <1>1, EditInductive, PTL DEF IterSpec, OutOfRangeOnlyByRangeErase, RangeErased

(***************************************************************************)
(* As long as every buffer has room for its size, a step reads or writes   *)
(* outside of it only by operator* of a stale iterator                     *)
(* (vector.hpp:412-416), by the use of one beyond its own size (205), by   *)
(* an assign above the capacity (111), or by the erase of a range from the *)
(* first element that has an element to fetch from in front, or no end     *)
(* (203-204).                                                              *)
(***************************************************************************)
THEOREM StaleSafe == NoWrapEdit => (IterSpec => OverrunOnlyWhenStale)
  <1>. SUFFICES ASSUME NoWrapEdit PROVE IterSpec => OverrunOnlyWhenStale
    OBVIOUS
  <1>1. EditInvariant /\ [IterNext]_iterVars =>
          [outcome' = "overrun" /\ BufferFits =>
             \/ Stale /\ Dereferenced
             \/ it.index > it.size /\ (Dereferenced \/ \E v \in Vec : Edit(v))
             \/ AssignAbove
             \/ ErasedFromFirst]_iterVars
    BY NextBehaves DEF Behaves
  <1>. QED
    BY <1>1, EditInductive, PTL DEF IterSpec, OverrunOnlyWhenStale

(***************************************************************************)
(* Refused memory, or an iterator refused, leaves vectors and iterators as *)
(* they are, except where insert of a range comes to its end               *)
(* (vector.hpp:171).                                                       *)
(***************************************************************************)
THEOREM ThrowSafe == NoWrapEdit => (IterSpec => ThrowsBeforeItWrites)
  <1>. SUFFICES ASSUME NoWrapEdit PROVE IterSpec => ThrowsBeforeItWrites
    OBVIOUS
  <1>1. EditInvariant /\ [IterNext]_iterVars =>
          [outcome' \in Refusals => Unmoved \/ RangeInserted]_iterVars
    BY NextBehaves DEF Behaves
  <1>. QED
    BY <1>1, EditInductive, PTL
    DEF IterSpec, ThrowsBeforeItWrites, Refusals, Unmoved, RangeInserted

-----------------------------------------------------------------------------
(* What the storage of a call holds of the elements there were *)
LEMMA Held ==
  ASSUME Storage, NEW v \in Vec, size_[v] <= capacity_[v],
         NEW m, Sound(v, m), Keeps(v, m), capacity_[v] <= m.capacity,
         NEW j \in 0 .. size_[v] - 1
  PROVE  /\ m.cells[m.arr][j] = Elements(v)[j + 1]
         /\ j \in 0 .. MaxLen - 1 /\ j < m.capacity
  <1>1. /\ size_[v] \in Nat /\ capacity_[v] \in Nat /\ capacity_[v] <= MaxLen
        /\ MaxLen \in Nat /\ Room(heap, arr_[v]) = capacity_[v] /\ m.capacity \in Nat
    BY StorageTypes, CapacityBound DEF Sound
  <1>2. j \in 0 .. MaxLen - 1 /\ j < capacity_[v] /\ j < m.capacity /\ j + 1 \in 1 .. size_[v]
    BY <1>1
  <1>3. m.cells[m.arr][j] = cells[arr_[v]][j]
    BY <1>2 DEF Keeps
  <1>4. Elements(v)[j + 1] = cells[arr_[v]][j]
    <2>1. (j + 1) - 1 = j
      BY <1>2
    <2>. QED
      BY <1>1, <1>2, <2>1 DEF Elements, Element
  <1>. QED
    BY <1>2, <1>3, <1>4

(* The elements of a sequence behind another *)
LEMMA Joined ==
  ASSUME NEW S, NEW a \in Seq(S), NEW b \in Seq(S)
  PROVE  /\ a \o b \in Seq(S) /\ Len(a \o b) = Len(a) + Len(b)
         /\ \A j \in 1 .. Len(a) : (a \o b)[j] = a[j]
         /\ \A j \in Len(a) + 1 .. Len(a) + Len(b) : (a \o b)[j] = b[j - Len(a)]
  OBVIOUS

LEMMA RemoveFacts ==
  ASSUME NEW S, NEW s \in Seq(S), NEW i \in 1 .. Len(s), NEW n, n = Len(s) - 1,
         NEW t, t = [j \in 1 .. n |-> IF j < i THEN s[j] ELSE s[j + 1]]
  PROVE  t = Abstract!RemoveAt(s, i)
  <1>1. n \in Nat /\ Len(s) = n + 1
    OBVIOUS
  <1>2. /\ SubSeq(s, 1, i - 1) \in Seq(S) /\ Len(SubSeq(s, 1, i - 1)) = i - 1
        /\ \A j \in 1 .. i - 1 : SubSeq(s, 1, i - 1)[j] = s[j]
    OBVIOUS
  <1>3. /\ SubSeq(s, i + 1, Len(s)) \in Seq(S) /\ Len(SubSeq(s, i + 1, Len(s))) = n + 1 - i
        /\ \A j \in 1 .. n + 1 - i : SubSeq(s, i + 1, Len(s))[j] = s[i + j]
    BY <1>1
  <1>. DEFINE a == SubSeq(s, 1, i - 1)
              b == SubSeq(s, i + 1, Len(s))
              r == a \o b
  <1>. HIDE DEF a, b
  <1>4. /\ r \in Seq(S) /\ Len(r) = n
        /\ \A j \in 1 .. n : r[j] = IF j < i THEN a[j] ELSE b[j - (i - 1)]
    <2>1. /\ a \in Seq(S) /\ Len(a) = i - 1
          /\ b \in Seq(S) /\ Len(b) = n + 1 - i
      BY <1>2, <1>3 DEF a, b
    <2>2. /\ r \in Seq(S) /\ Len(r) = Len(a) + Len(b)
          /\ \A j \in 1 .. Len(a) : r[j] = a[j]
          /\ \A j \in Len(a) + 1 .. Len(a) + Len(b) : r[j] = b[j - Len(a)]
      BY <2>1, Joined
    <2>. HIDE DEF r
    <2>. QED
      BY <1>1, <2>1, <2>2
  <1>5. ASSUME NEW j \in 1 .. n
        PROVE  r[j] = t[j]
    <2>1. CASE j < i
      <3>1. j \in 1 .. i - 1
        BY <2>1
      <3>. QED
        BY <1>2, <1>4, <2>1, <3>1 DEF a
    <2>2. CASE ~(j < i)
      <3>1. j - (i - 1) \in 1 .. n + 1 - i /\ i + (j - (i - 1)) = j + 1
        BY <1>1, <2>2
      <3>2. b[j - (i - 1)] = s[j + 1]
        BY <1>3, <3>1 DEF b
      <3>. QED
        BY <1>4, <2>2, <3>2
    <2>. QED
      BY <2>1, <2>2
  <1>6. r = [j \in 1 .. n |-> r[j]] /\ t = [j \in 1 .. n |-> t[j]]
    <2>. HIDE DEF r
    <2>1. r = [j \in 1 .. n |-> r[j]]
      BY <1>1, <1>4
    <2>2. t = [j \in 1 .. n |-> t[j]]
      OBVIOUS
    <2>. QED
      BY <2>1, <2>2
  <1>7. t = r
    <2>. HIDE DEF r
    <2>. QED
      BY <1>5, <1>6
  <1>. QED
    BY <1>7 DEF Abstract!RemoveAt, a, b

LEMMA EraseGives ==
  ASSUME EditInvariant, IInv, NEW v \in Vec, Erase(v), outcome' = "none",
         it.index <= it.size
  PROVE  /\ Elements(v)' = IF it.index = size_[v] THEN Elements(v)
                           ELSE Abstract!RemoveAt(Elements(v), it.index + 1)
         /\ it'.size = size_'[v] /\ it'.index = it.index
  <1>. DEFINE i == it.index
              n == size_[v] - 1
              val == Shifted(heap, cells, arr_[v], i, size_[v] - 1, -1)
  <1>0. /\ Storage /\ i \in Nat /\ it.size \in Nat
        /\ size_[v] \in Nat /\ capacity_[v] \in Nat /\ size_[v] <= capacity_[v]
        /\ arr_[v] \in Block \cup {NULL}
        /\ Sound(v, Same(v)) /\ Keeps(v, Same(v))
        /\ (arr_[v] = NULL => size_[v] = 0)
    BY EditTypes, Types, SameKeeps
  <1>s. /\ Same(v).heap = heap /\ Same(v).cells = cells /\ Same(v).arr = arr_[v]
        /\ Same(v).capacity = capacity_[v]
    BY DEF Same
  <1>1. CASE /\ range_validator(v)
             /\ Empty(v) \/ i = size_[v]
             /\ Commit(v, Same(v), cells, size_[v], "none")
             /\ it' = PastEnd(size_[v])
    <2>1. i = size_[v]
      BY <1>0, <1>1 DEF Empty, range_validator
    <2>2. Elements(v)' = Elements(v)
      <3>1. Contents' = Contents
        BY <1>1, SameStutter DEF Stutter
      <3>2. Contents[v] = Elements(v) /\ Contents'[v] = Elements(v)'
        BY DEF Contents
      <3>. QED
        BY <3>1, <3>2
    <2>3. size_'[v] = size_[v]
      BY <1>0, <1>1 DEF Commit, Storage, TypeOK
    <2>. QED
      BY <1>1, <2>1, <2>2, <2>3 DEF PastEnd
  <1>2. CASE /\ range_validator(v)
             /\ ~Empty(v) /\ i # size_[v]
             /\ \E w \in MoveResults(heap, cells, arr_[v], i, size_[v] - 1, -1) :
                  /\ w.exc = "none"
                  /\ Commit(v, Same(v), w.cells, size_[v] - 1, "none")
                  /\ it' = Pointing(arr_[v], i, size_[v] - 1)
    <2>m. PICK w \in MoveResults(heap, cells, arr_[v], i, n, -1) :
            /\ w.exc = "none"
            /\ Commit(v, Same(v), w.cells, n, "none")
            /\ it' = Pointing(arr_[v], i, n)
      BY <1>2
    <2>2. n \in Nat /\ i <= n /\ n <= capacity_[v] /\ n < size_[v]
          /\ Room(heap, arr_[v]) = capacity_[v] /\ i + 1 \in 1 .. size_[v]
      BY <1>0, <1>2, CapacityBound DEF range_validator
    <2>1. /\ w \in WriteResults(heap, cells, arr_[v], i, n, val) /\ w.exc = "none"
          /\ Commit(v, Same(v), w.cells, n, "none")
          /\ it' = Pointing(arr_[v], i, n)
      <3>1. Room(heap, arr_[v]) \in Nat /\ -1 \in Int
        BY <1>0, <2>2
      <3>. HIDE DEF i, n
      <3>2. w \in WriteResults(heap, cells, arr_[v], i, n,
                              Shifted(heap, cells, arr_[v], i, n, -1))
        BY <1>0, <2>m, <2>2, <3>1, MoveCases
      <3>. QED
        BY <2>m, <3>2 DEF n
    <2>3. ASSUME NEW j \in 0 .. MaxLen - 1
          PROVE  val[j] = Fetched(heap, cells, arr_[v], i, n, -1)[j - (-1)]
      <3>1. n \in Int /\ -1 \in Int /\ Room(heap, arr_[v]) \in Nat
        BY <1>0, <2>2
      <3>. HIDE DEF i
      <3>. QED
        BY <1>0, <3>1, ShiftedAt
    <2>. HIDE DEF val
    <2>4. w.cells = Written(cells, arr_[v], i, n, val)
      BY <1>0, <2>1, <2>2, LoopThrows
    <2>5. Elements(v)' = Result(Same(v), i, n, val, n)
      <3>1. Commit(v, Same(v), Written(Same(v).cells, Same(v).arr, i, n, val), n, "none")
        BY <1>s, <2>1, <2>4
      <3>. HIDE DEF n, i
      <3>. QED
        BY <1>0, <1>s, <2>2, <3>1, CommitElements
    <2>6. ASSUME NEW j \in 1 .. n
          PROVE  Result(Same(v), i, n, val, n)[j] =
                   IF j < i + 1 THEN Elements(v)[j] ELSE Elements(v)[j + 1]
      <3>0. /\ j - 1 \in 0 .. size_[v] - 1 /\ j \in 0 .. size_[v] - 1
            /\ (j - 1) + 1 = j /\ j - 1 - (-1) = j /\ j \in Int
        BY <1>0, <2>2
      <3>1. Result(Same(v), i, n, val, n)[j] =
              IF i <= j - 1 /\ j - 1 < n THEN val[j - 1] ELSE cells[arr_[v]][j - 1]
        BY <1>s DEF Result
      <3>2. /\ cells[arr_[v]][j - 1] = Elements(v)[j]
            /\ j - 1 \in 0 .. MaxLen - 1
            /\ cells[arr_[v]][j] = Elements(v)[j + 1]
            /\ j < Room(heap, arr_[v])
        <4>1. ASSUME NEW k \in 0 .. size_[v] - 1
              PROVE  /\ cells[arr_[v]][k] = Elements(v)[k + 1]
                     /\ k \in 0 .. MaxLen - 1 /\ k < capacity_[v]
          <5>1. capacity_[v] <= Same(v).capacity
            BY <1>0, <1>s
          <5>. QED
            BY <1>0, <1>s, <5>1, Held
        <4>. HIDE DEF n
        <4>. QED
          BY <2>2, <3>0, <4>1
      <3>3. Fetched(heap, cells, arr_[v], i, n, -1)[j] = cells[arr_[v]][j]
        <4>1. j \in Nat /\ Room(heap, arr_[v]) \in Nat
          BY <1>0, <2>2
        <4>. HIDE DEF n, i
        <4>. QED
          BY <3>2, <4>1, FetchedAhead
      <3>4. val[j - 1] = Elements(v)[j + 1]
        <4>1. val[j - 1] = Fetched(heap, cells, arr_[v], i, n, -1)[(j - 1) - (-1)]
          BY <2>3, <3>2
        <4>2. (j - 1) - (-1) = j
          BY <3>0
        <4>. QED
          BY <3>2, <3>3, <4>1, <4>2
      <3>. HIDE DEF n, i
      <3>. QED
        BY <1>0, <2>2, <3>0, <3>1, <3>2, <3>4
    <2>7. Elements(v)' = [j \in 1 .. n |-> IF j < i + 1 THEN Elements(v)[j]
                                                     ELSE Elements(v)[j + 1]]
      <3>1. Result(Same(v), i, n, val, n) =
              [j \in 1 .. n |-> Result(Same(v), i, n, val, n)[j]]
        BY DEF Result
      <3>. HIDE DEF n, i
      <3>. QED
        BY <2>5, <2>6, <3>1
    <2>8. Elements(v)' = Abstract!RemoveAt(Elements(v), i + 1)
      <3>1. Elements(v) \in Seq(Cell) /\ Len(Elements(v)) = size_[v]
        BY ElementsNow
      <3>2. i + 1 \in 1 .. Len(Elements(v)) /\ n = Len(Elements(v)) - 1
        BY <2>2, <3>1
      <3>. HIDE DEF n, i
      <3>. QED
        BY <2>7, <3>1, <3>2, RemoveFacts
    <2>9. size_'[v] = n
      BY <2>1, <1>0 DEF Commit, Storage, TypeOK
    <2>. QED
      BY <1>2, <2>1, <2>8, <2>9 DEF Pointing
  <1>. QED
    BY <1>1, <1>2 DEF Erase, FailedAssertion, Broken, Commit

(***************************************************************************)
(* The two loops of insert, the first of which makes room for the elements *)
(* t at index i and the second of which assigns them, in the storage m,    *)
(* and what a call that leaves the vector size elements makes of them.     *)
(***************************************************************************)
FirstOf(s, n) == [k \in 1 .. n |-> s[k]]

LEMMA Placed ==
  ASSUME Storage, NEW v \in Vec, size_[v] <= capacity_[v],
         NEW need, NEW m \in ReserveResults(v, need),
         m.exc = "none", Sound(v, m), Keeps(v, m), capacity_[v] <= m.capacity,
         NEW t \in Seq(Value), NEW n, n = Len(t), size_[v] + n <= m.capacity,
         NEW i \in Nat, i <= size_[v],
         NEW val, \A j \in 0 .. MaxLen - 1 : i <= j /\ j < i + n => val[j] = t[j - i + 1],
         NEW s \in WriteResults(m.heap, m.cells, m.arr, i + n, size_[v] + n,
                     Shifted(m.heap, m.cells, m.arr, i + n, size_[v] + n, n)),
         s.exc = "none",
         NEW w \in WriteResults(m.heap, s.cells, m.arr, i, i + n, val), w.exc = "none",
         NEW size \in Nat, size <= size_[v] + n, NEW exc,
         Commit(v, m, w.cells, size, exc)
  PROVE  Elements(v)' = FirstOf(Inserted(Elements(v), i, t), size)
  <1>0. /\ n \in Nat /\ size_[v] \in Nat /\ capacity_[v] \in Nat
    BY StorageTypes
  <1>5. /\ m.heap \in Heaps /\ m.cells \in Cells /\ m.arr \in Block \cup {NULL}
        /\ m.capacity \in Nat /\ Room(m.heap, m.arr) = m.capacity
    BY SoundRoom DEF Sound
  <1>6. i <= size_[v] /\ i + n \in Nat /\ size_[v] + n \in Nat /\ i + n <= size_[v] + n
        /\ size_[v] + n <= m.capacity /\ i <= i + n /\ i + n <= m.capacity
        /\ size <= m.capacity
    BY <1>0, <1>5, SMTT(30)
  <1>. DEFINE made == Shifted(m.heap, m.cells, m.arr, i + n, size_[v] + n, n)
  <1>7. ASSUME NEW j \in 0 .. MaxLen - 1
        PROVE  made[j] = Fetched(m.heap, m.cells, m.arr, i + n, size_[v] + n, n)[j - n]
    <2>. DEFINE from == i + n
                to == size_[v] + n
    <2>1. from \in Nat /\ to \in Int /\ n \in Int /\ Room(m.heap, m.arr) \in Nat
      BY <1>0, <1>5, <1>6
    <2>. HIDE DEF from, to
    <2>2. Shifted(m.heap, m.cells, m.arr, from, to, n)[j] =
            Fetched(m.heap, m.cells, m.arr, from, to, n)[j - n]
      BY <2>1, ShiftedAt, SMTT(30)
    <2>. QED
      BY <2>2 DEF from, to
  <1>8. \A k \in 0 .. MaxLen - 1 : made[k] \in Cell
    <2>1. size_[v] + n \in Int /\ n \in Int
      BY <1>0, <1>6
    <2>. QED
      BY <1>5, <1>6, <2>1, ShiftedType
  <1>. HIDE DEF made
  <1>9. s \in WriteResults(m.heap, m.cells, m.arr, i + n, size_[v] + n, made)
    BY DEF made
  <1>10. s.cells = Written(m.cells, m.arr, i + n, size_[v] + n, made) /\ s.cells \in Cells
    <2>1. s.cells = Written(m.cells, m.arr, i + n, size_[v] + n, made)
      BY <1>5, <1>6, <1>9, LoopThrows
    <2>2. s.cells \in Cells
      BY <1>5, <1>6, <1>8, <1>9, LoopFacts
    <2>. QED
      BY <2>1, <2>2
  <1>12. w.cells = Written(s.cells, m.arr, i, i + n, val)
    BY <1>0, <1>5, <1>6, LoopThrows
  <1>. DEFINE q == [m EXCEPT !.cells = s.cells]
  <1>13. /\ q.cells = s.cells /\ q.heap = m.heap /\ q.arr = m.arr
         /\ q.capacity = m.capacity /\ q.allocated = m.allocated /\ q.exc = m.exc
    BY RoomRecord
  <1>. HIDE DEF q
  <1>14. Sound(v, q)
    BY <1>5, <1>10, <1>13 DEF Sound
  <1>15. Elements(v)' = Result(q, i, i + n, val, size)
    <2>1. Commit(v, q, Written(q.cells, q.arr, i, i + n, val), size, exc)
      BY <1>12, <1>13 DEF Commit
    <2>. QED
      BY <1>0, <1>5, <1>6, <1>13, <1>14, <2>1, CommitElements
  <1>16. ASSUME NEW k \in 1 .. size
         PROVE  Result(q, i, i + n, val, size)[k] = Inserted(Elements(v), i, t)[k]
    <2>0. /\ k - 1 \in Nat /\ k - 1 < size_[v] + n /\ k - 1 \in 0 .. MaxLen - 1
          /\ m.arr \in Block
      <3>1. m.capacity <= MaxLen /\ MaxLen \in Nat
        BY <1>5, RoomBound, QuotientBound, HeapAssumption, SizeAssumption DEF MaxLen
      <3>2. k - 1 \in Nat /\ k - 1 < size_[v] + n
        BY <1>0
      <3>3. k - 1 < m.capacity
        BY <1>0, <1>5, <3>2
      <3>4. m.arr # NULL
        BY <1>5, <3>2, <3>3 DEF Sound
      <3>. QED
        BY <1>5, <3>1, <3>2, <3>3, <3>4
    <2>1. Result(q, i, i + n, val, size)[k] =
            IF i <= k - 1 /\ k - 1 < i + n THEN val[k - 1]
            ELSE IF i + n <= k - 1 THEN made[k - 1] ELSE m.cells[m.arr][k - 1]
      <3>1. Result(q, i, i + n, val, size)[k] =
              IF i <= k - 1 /\ k - 1 < i + n THEN val[k - 1] ELSE s.cells[m.arr][k - 1]
        BY <1>13, <2>0 DEF Result
      <3>2. s.cells[m.arr][k - 1] =
              IF i + n <= k - 1 THEN made[k - 1] ELSE m.cells[m.arr][k - 1]
        BY <1>10, <2>0 DEF Written
      <3>. QED
        BY <3>1, <3>2
    <2>2. Inserted(Elements(v), i, t)[k] =
            IF n = 0 \/ k <= i THEN Elements(v)[k]
            ELSE IF k <= i + n THEN t[k - i]
            ELSE Elements(v)[i + 1 + ((k - i - 1) % n)]
      <3>1. Len(Elements(v)) = size_[v]
        BY <1>0 DEF Elements
      <3>. QED
        BY <1>0, <2>0, <3>1 DEF Inserted
    <2>3. ASSUME NEW j \in 0 .. size_[v] - 1
          PROVE  /\ m.cells[m.arr][j] = Elements(v)[j + 1]
                 /\ j \in 0 .. MaxLen - 1 /\ j < m.capacity
      BY <1>0, <1>5, Held
    <2>4. CASE k <= i
      <3>1. k - 1 \in 0 .. size_[v] - 1 /\ (k - 1) + 1 = k
        BY <1>0, <1>6, <2>0, <2>4, SMTT(30)
      <3>. QED
        BY <1>0, <2>0, <2>1, <2>2, <2>3, <2>4, <3>1
    <2>5. CASE i < k /\ k <= i + n
      <3>1. i <= k - 1 /\ k - 1 < i + n /\ (k - 1) - i + 1 = k - i /\ ~(k <= i) /\ n # 0
        BY <1>0, <2>0, <2>5, SMTT(30)
      <3>2. val[k - 1] = t[k - i]
        BY <2>0, <3>1
      <3>. QED
        BY <2>1, <2>2, <2>5, <3>1, <3>2
    <2>6. CASE i + n < k
      <3>. DEFINE j == k - 1 - n
      <3>0. /\ j \in 0 .. size_[v] - 1 /\ j \in Int /\ i <= j /\ j < size_[v] + n
            /\ ~(k - 1 < i + n) /\ i + n <= k - 1 /\ ~(k <= i) /\ ~(k <= i + n)
        BY <1>0, <1>6, <2>0, <2>6, SMTT(30)
      <3>1. made[k - 1] = Fetched(m.heap, m.cells, m.arr, i + n, size_[v] + n, n)[j]
        BY <1>7, <2>0
      <3>2. Result(q, i, i + n, val, size)[k] = made[k - 1]
        BY <2>1, <3>0
      <3>3. CASE n = 0
        <4>1. j = k - 1 /\ j + 1 = k
          BY <1>0, <3>3
        <4>. HIDE DEF j
        <4>2. made[k - 1] = m.cells[m.arr][j]
          BY <1>5, <2>3, <3>0, <3>1, <3>3 DEF Fetched
        <4>. QED
          BY <2>2, <2>3, <3>0, <3>2, <3>3, <4>1, <4>2
      <3>4. CASE n # 0
        <4>. DEFINE r == (k - i - 1) % n
        <4>0. n \in Nat \ {0} /\ k - i - 1 \in Int
          BY <1>0, <3>4
        <4>1. r \in 0 .. n - 1
          BY <4>0, RemainderRange
        <4>2. (j - i) % n = r
          <5>1. j - i = (k - i - 1) - n
            BY <1>0
          <5>. QED
            BY <4>0, <5>1, RemainderBack
        <4>3. (j - (i + n)) % n = r
          <5>1. j - (i + n) = (j - i) - n /\ j - i \in Int
            BY <1>0, <3>0
          <5>. HIDE DEF j, r
          <5>. QED
            BY <4>0, <4>2, <5>1, RemainderBack
        <4>4. j < i + n => j = i + r
          <5>. SUFFICES ASSUME j < i + n PROVE j = i + r
            OBVIOUS
          <5>1. j - i \in 0 .. n - 1 /\ i + (j - i) = j
            BY <1>0, <3>0
          <5>. HIDE DEF j, r
          <5>2. (j - i) % n = j - i
            BY <4>0, <5>1, ModSmall
          <5>. QED
            BY <4>2, <5>1, <5>2
        <4>. HIDE DEF r
        <4>5. i + r \in 0 .. size_[v] - 1 /\ (i + n) - n + r = i + r
          BY <1>0, <3>0, <4>0, <4>1, <4>4, SMTT(30)
        <4>. HIDE DEF j
        <4>6. Fetched(m.heap, m.cells, m.arr, i + n, size_[v] + n, n)[j] =
                m.cells[m.arr][i + r]
          <5>1. CASE i + n <= j
            <6>1. Fetched(m.heap, m.cells, m.arr, i + n, size_[v] + n, n)[j] =
                    IF j < 0 \/ j >= m.capacity \/ (i + n) - n + ((j - (i + n)) % n) < 0
                      THEN Raw ELSE m.cells[m.arr][(i + n) - n + ((j - (i + n)) % n)]
              BY <1>5, <3>0, <4>0, <5>1 DEF Fetched
            <6>2. (j - (i + n)) % n = r
              BY <4>3, <5>1
            <6>3. (i + n) - n + ((j - (i + n)) % n) = i + r
              BY <4>5, <6>2
            <6>4. ~(j < 0) /\ ~(j >= m.capacity) /\ ~(i + r < 0)
              BY <1>5, <2>3, <3>0, <4>5
            <6>. QED
              BY <6>1, <6>3, <6>4
          <5>2. CASE ~(i + n <= j)
            <6>1. Fetched(m.heap, m.cells, m.arr, i + n, size_[v] + n, n)[j] =
                    IF j < 0 \/ j >= m.capacity THEN Raw ELSE m.cells[m.arr][j]
              BY <1>5, <3>0, <4>0, <5>2 DEF Fetched
            <6>2. j = i + r
              BY <1>0, <3>0, <4>0, <4>4, <5>2
            <6>. QED
              BY <1>5, <2>3, <3>0, <6>1, <6>2
          <5>. QED
            BY <5>1, <5>2
        <4>7. Inserted(Elements(v), i, t)[k] = Elements(v)[i + 1 + r]
          BY <2>2, <3>0, <3>4 DEF r
        <4>8. i + 1 + r = (i + r) + 1
          BY <1>0, <4>1, <4>0
        <4>. QED
          BY <2>3, <3>1, <3>2, <4>5, <4>6, <4>7, <4>8
      <3>. QED
        BY <3>3, <3>4
    <2>. QED
      BY <1>0, <2>0, <2>4, <2>5, <2>6
  <1>17. Result(q, i, i + n, val, size) =
           [k \in 1 .. size |-> Result(q, i, i + n, val, size)[k]]
    BY DEF Result
  <1>. QED
    BY <1>15, <1>16, <1>17 DEF FirstOf

(* An element at or above the capacity has no value. *)
LEMMA InitialisedFits ==
  ASSUME Storage, NEW v \in Vec, Initialised(v)
  PROVE  size_[v] <= capacity_[v]
  <1>0. size_[v] \in Nat /\ capacity_[v] \in Nat
    BY StorageTypes
  <1>. SUFFICES ASSUME ~(size_[v] <= capacity_[v]) PROVE FALSE
    OBVIOUS
  <1>1. capacity_[v] \in 0 .. size_[v] - 1
    BY <1>0
  <1>2. Element(v, capacity_[v]) = Raw
    BY <1>0, CapacityBound DEF Element
  <1>. QED
    BY <1>1, <1>2, CellAssumption DEF Initialised

LEMMA InsertGives ==
  ASSUME NoWrapEdit, EditInvariant, NEW v \in Vec, NEW n \in Count, NEW x \in Value,
         Insert(v, n, x), outcome' = "none", it.index <= it.size, Initialised(v)
  PROVE  Elements(v)' = Inserted(Elements(v), it.index, [k \in 1 .. n |-> x])
  <1>. DEFINE i == it.index
              size == (size_[v] + n) % SizeMod
  <1>0. /\ Storage /\ i \in Nat /\ it.size \in Nat /\ n \in Nat
        /\ size_[v] \in Nat /\ capacity_[v] \in Nat
        /\ size = size_[v] + n /\ size * SizeOf < SizeMod /\ size \in Nat
    <2>1. /\ Storage /\ SizesFit /\ i \in Nat /\ it.size \in Nat
          /\ size_[v] \in Nat /\ capacity_[v] \in Nat
      BY EditTypes
    <2>2. Running /\ n \in Nat /\ n <= n + 1 /\ n \in Count \cup {0}
      BY VectorAssumption DEF Insert, Callable, Running
    <2>3. size = size_[v] + n /\ (size_[v] + n) * SizeOf < SizeMod
      BY <2>1, <2>2, EditFits
    <2>4. size_[v] + n \in Nat
      BY <2>1, <2>2
    <2>. QED
      BY <2>1, <2>2, <2>3, <2>4
  <1>1. size_[v] <= capacity_[v]
    BY <1>0, InitialisedFits
  <1>2. \A m : Denotes(v, m, x) = x
    BY DEF Denotes
  <1>3. /\ range_validator(v)
        /\ \E m \in ReserveResults(v, size) :
             /\ m.exc = "none"
             /\ \E s \in WriteResults(m.heap, m.cells, m.arr, i + n, size_[v] + n,
                           Shifted(m.heap, m.cells, m.arr, i + n, size_[v] + n, n)) :
                  /\ s.exc = "none"
                  /\ \E w \in WriteResults(m.heap, s.cells, m.arr, i, i + n, All(x)) :
                       w.exc = "none" /\ Commit(v, m, w.cells, size, "none")
    <2>1. ~FailedAssertion(v) /\ (\A m : ~GiveUp(v, m)) /\ \A m, w : ~Broken(v, m, w)
      BY DEF FailedAssertion, GiveUp, Broken, Commit
    <2>. QED
      BY <1>2, <2>1 DEF Insert
  <1>. HIDE DEF size
  <1>4. PICK m \in ReserveResults(v, size) :
          /\ m.exc = "none"
          /\ \E s \in WriteResults(m.heap, m.cells, m.arr, i + n, size_[v] + n,
                        Shifted(m.heap, m.cells, m.arr, i + n, size_[v] + n, n)) :
               /\ s.exc = "none"
               /\ \E w \in WriteResults(m.heap, s.cells, m.arr, i, i + n, All(x)) :
                    w.exc = "none" /\ Commit(v, m, w.cells, size, "none")
    BY <1>3
  <1>5. /\ Sound(v, m) /\ Keeps(v, m) /\ size <= m.capacity /\ capacity_[v] <= m.capacity
        /\ m.heap \in Heaps /\ m.cells \in Cells /\ m.arr \in Block \cup {NULL}
        /\ m.capacity \in Nat /\ Room(m.heap, m.arr) = m.capacity
    <2>1. /\ Sound(v, m) /\ Keeps(v, m) /\ size <= m.capacity
          /\ capacity_[v] <= m.capacity
      BY <1>0, <1>4, RoomKeeps
    <2>. QED
      BY <2>1, SoundRoom DEF Sound
  <1>6. i <= size_[v] /\ i + n \in Nat /\ size_[v] + n \in Nat /\ i + n <= size_[v] + n
        /\ size_[v] + n <= m.capacity /\ i <= i + n /\ i + n <= m.capacity
    BY <1>0, <1>3, <1>5 DEF range_validator
  <1>. DEFINE t == [k \in 1 .. n |-> x]
  <1>7. t \in Seq(Value) /\ n = Len(t) /\ \A k \in 1 .. n : t[k] = x
    BY <1>0
  <1>8. \A j \in 0 .. MaxLen - 1 : i <= j /\ j < i + n => All(x)[j] = t[j - i + 1]
    BY <1>0, <1>7 DEF All
  <1>. HIDE DEF i, t
  <1>9. Elements(v)' = FirstOf(Inserted(Elements(v), i, t), size_[v] + n)
    <2>1. PICK s \in WriteResults(m.heap, m.cells, m.arr, i + n, size_[v] + n,
                       Shifted(m.heap, m.cells, m.arr, i + n, size_[v] + n, n)) :
            /\ s.exc = "none"
            /\ \E w \in WriteResults(m.heap, s.cells, m.arr, i, i + n, All(x)) :
                 w.exc = "none" /\ Commit(v, m, w.cells, size, "none")
      BY <1>4 DEF i
    <2>2. PICK w \in WriteResults(m.heap, s.cells, m.arr, i, i + n, All(x)) :
            w.exc = "none" /\ Commit(v, m, w.cells, size_[v] + n, "none")
      BY <1>0, <2>1
    <2>3. /\ size_[v] + n <= m.capacity /\ size_[v] + n <= size_[v] + n /\ i \in Nat
          /\ size_[v] + n \in Nat /\ i <= size_[v] /\ Storage /\ Sound(v, m) /\ Keeps(v, m)
          /\ capacity_[v] <= m.capacity /\ m.exc = "none"
      BY <1>0, <1>4, <1>5, <1>6 DEF i
    <2>. QED
      BY <1>1, <1>4, <1>7, <1>8, <2>1, <2>2, <2>3, Placed, ZenonT(30)
  <1>10. Inserted(Elements(v), i, t) = FirstOf(Inserted(Elements(v), i, t), size_[v] + n)
    <2>1. Len(Elements(v)) = size_[v]
      BY <1>0 DEF Elements
    <2>. QED
      BY <1>0, <1>7, <2>1 DEF Inserted, FirstOf
  <1>. QED
    BY <1>9, <1>10 DEF i, t

LEMMA RangeGives ==
  ASSUME NoWrapEdit, EditInvariant, NEW v \in Vec, NEW n \in Count, NEW s \in [1 .. n -> Value],
         NEW more, ~more, InsertRange(v, s, more), outcome' = "out_of_range", it.index <= it.size,
         Initialised(v)
  PROVE  Elements(v)' = FirstOf(Inserted(Elements(v), it.index, s), size_[v])
  <1>. DEFINE i == it.index
              d == IF more THEN Len(s) - 1 ELSE Len(s)
              size == (size_[v] + d + 1) % SizeMod
              values == [j \in 0 .. MaxLen - 1 |->
                           IF j - i + 1 \in DOMAIN s THEN s[j - i + 1] ELSE Raw]
              end(w) == [w EXCEPT !.exc = IF w.exc # "none" THEN w.exc
                                          ELSE IF more THEN "abort" ELSE "out_of_range"]
  <1>0. /\ Storage /\ i \in Nat /\ it.size \in Nat /\ n \in Nat /\ d = n /\ d = Len(s)
        /\ size_[v] \in Nat /\ capacity_[v] \in Nat /\ s \in Seq(Value) /\ DOMAIN s = 1 .. d
        /\ size = size_[v] + d + 1 /\ size * SizeOf < SizeMod /\ size \in Nat
    <2>1. /\ Storage /\ SizesFit /\ i \in Nat /\ it.size \in Nat
          /\ size_[v] \in Nat /\ capacity_[v] \in Nat
      BY EditTypes
    <2>2. Running /\ n \in Nat /\ n \in Count \cup {0}
      BY VectorAssumption DEF InsertRange, Callable, Running
    <2>3. d = n /\ d = Len(s) /\ s \in Seq(Value) /\ DOMAIN s = 1 .. d
      BY <2>2
    <2>. HIDE DEF d
    <2>4. n + 1 \in Nat /\ n + 1 <= n + 1
      BY <2>2
    <2>5. (size_[v] + (n + 1)) % SizeMod = size_[v] + (n + 1)
          /\ (size_[v] + (n + 1)) * SizeOf < SizeMod
      BY <2>1, <2>2, <2>4, EditFits
    <2>6. size_[v] + (n + 1) = size_[v] + d + 1 /\ size_[v] + d + 1 \in Nat
      BY <2>1, <2>2, <2>3
    <2>7. size = size_[v] + d + 1 /\ size * SizeOf < SizeMod /\ size \in Nat
      BY <2>5, <2>6
    <2>. QED
      BY <2>1, <2>2, <2>3, <2>7
  <1>1. size_[v] <= capacity_[v]
    BY <1>0, InitialisedFits
  <1>2. \A j \in 0 .. MaxLen - 1 : i <= j /\ j < i + d => values[j] = s[j - i + 1]
    <2>. SUFFICES ASSUME NEW j \in 0 .. MaxLen - 1, i <= j, j < i + d
                  PROVE  values[j] = s[j - i + 1]
      OBVIOUS
    <2>1. j - i + 1 \in 1 .. d
      BY <1>0
    <2>. QED
      BY <1>0, <2>1
  <1>3. \/ FailedAssertion(v)
        \/ /\ range_validator(v)
           /\ \E m \in ReserveResults(v, size) :
                \/ GiveUp(v, m) /\ UNCHANGED it
                \/ /\ m.exc = "none"
                   /\ \E t \in WriteResults(m.heap, m.cells, m.arr, i + d, size_[v] + d,
                                 Shifted(m.heap, m.cells, m.arr, i + d, size_[v] + d, d)) :
                        \/ Broken(v, m, t)
                        \/ /\ t.exc = "none"
                           /\ \E w \in WriteResults(m.heap, t.cells, m.arr, i, i + Len(s), values) :
                                Broken(v, m, end(w))
    BY Zenon DEF InsertRange
  <1>. HIDE DEF size, d, values
  <1>4. range_validator(v) /\ ~FailedAssertion(v)
    <2>1. ~FailedAssertion(v)
      BY DEF FailedAssertion, Commit
    <2>. QED
      BY <1>3, <2>1
  <1>5. PICK m \in ReserveResults(v, size) :
          \/ GiveUp(v, m) /\ UNCHANGED it
          \/ /\ m.exc = "none"
             /\ \E t \in WriteResults(m.heap, m.cells, m.arr, i + d, size_[v] + d,
                           Shifted(m.heap, m.cells, m.arr, i + d, size_[v] + d, d)) :
                  \/ Broken(v, m, t)
                  \/ /\ t.exc = "none"
                     /\ \E w \in WriteResults(m.heap, t.cells, m.arr, i, i + Len(s), values) :
                          Broken(v, m, end(w))
    BY <1>3, <1>4
  <1>6. Sound(v, m) /\ Keeps(v, m) /\ capacity_[v] <= m.capacity
        /\ (m.exc = "none" => size <= m.capacity)
    BY <1>0, RoomKeeps
  <1>7. ~GiveUp(v, m)
    BY <1>6 DEF Sound, GiveUp, Commit
  <1>8. PICK t \in WriteResults(m.heap, m.cells, m.arr, i + d, size_[v] + d,
                     Shifted(m.heap, m.cells, m.arr, i + d, size_[v] + d, d)) :
          \/ Broken(v, m, t)
          \/ /\ t.exc = "none"
             /\ \E w \in WriteResults(m.heap, t.cells, m.arr, i, i + Len(s), values) :
                  Broken(v, m, end(w))
    BY <1>5, <1>7
  <1>9. ~Broken(v, m, t)
    <2>1. t.exc \in {"none", "copy", "overrun"}
      BY DEF WriteResults
    <2>. QED
      BY <2>1 DEF Broken, Commit
  <1>10. PICK w \in WriteResults(m.heap, t.cells, m.arr, i, i + d, values) :
           Broken(v, m, end(w))
    BY <1>0, <1>8, <1>9
  <1>11. w.exc = "none" /\ Commit(v, m, w.cells, size_[v], "out_of_range")
    <2>1. w.exc \in {"none", "copy", "overrun"}
      BY DEF WriteResults
    <2>2. end(w).cells = w.cells
          /\ end(w).exc = IF w.exc # "none" THEN w.exc
                          ELSE IF more THEN "abort" ELSE "out_of_range"
      BY WriteRecord
    <2>. HIDE DEF end
    <2>3. Commit(v, m, w.cells, size_[v], end(w).exc) /\ outcome' = end(w).exc
      BY <1>10, <2>2 DEF Broken, Commit
    <2>. QED
      BY <2>1, <2>2, <2>3
  <1>12. /\ i <= size_[v] /\ size_[v] + d <= m.capacity /\ size_[v] <= size_[v] + d
         /\ m.exc = "none" /\ t.exc = "none"
    <2>1. m.capacity \in Nat
      BY <1>6 DEF Sound
    <2>2. m.exc = "none" /\ t.exc = "none"
      BY <1>5, <1>7, <1>8, <1>9
    <2>. QED
      BY <1>0, <1>4, <1>6, <2>1, <2>2 DEF range_validator
  <1>. HIDE DEF i, end
  <1>13. i \in Nat /\ Storage /\ s \in Seq(Value) /\ d = Len(s) /\ size_[v] \in Nat
    BY <1>0
  <1>14. Elements(v)' = FirstOf(Inserted(Elements(v), i, s), size_[v])
    BY <1>1, <1>2, <1>6, <1>11, <1>12, <1>13, Placed, ZenonT(30)
  <1>. QED
    BY <1>14 DEF i

(***************************************************************************)
(* No buffer is larger than difference_type can count, the signed type in  *)
(* which distances are taken (vector.hpp:18): half of what size_type can.  *)
(***************************************************************************)
SignedDistances == 2 * MaxLen <= SizeMod

(* What a call leaves at an index of a vector *)
LEMMA CommitSize ==
  ASSUME Storage, NEW v \in Vec, NEW m, NEW cs, NEW n \in Nat, NEW exc,
         Commit(v, m, cs, n, exc)
  PROVE  size_'[v] = n /\ Len(Elements(v)') = n
  BY DEF Commit, Storage, TypeOK, Elements

LEMMA CommitElement ==
  ASSUME Storage, NEW v \in Vec, NEW m, Sound(v, m), NEW cs, NEW n \in Nat, NEW exc,
         Commit(v, m, cs, n, exc), NEW k \in 1 .. n, k <= m.capacity
  PROVE  Elements(v)'[k] = cs[m.arr][k - 1]
  <1>1. heap' = m.heap /\ cells' = cs /\ arr_'[v] = m.arr /\ size_'[v] = n
    BY DEF Commit, Storage, TypeOK
  <1>2. Room(m.heap, m.arr) = m.capacity /\ m.capacity \in Nat
    BY SoundRoom DEF Sound
  <1>3. Elements(v)'[k] = Element(v, k - 1)'
    BY <1>1 DEF Elements
  <1>4. k - 1 < m.capacity
    BY <1>2
  <1>. QED
    BY <1>1, <1>2, <1>3, <1>4 DEF Element

LEMMA EraseRangeGives ==
  ASSUME SignedDistances, EditInvariant, IInv, NEW v \in Vec, NEW l \in it.index .. it.size,
         EraseRange(v, l), outcome' = "none"
  PROVE  /\ size_'[v] = size_[v] + (l - it.index)
         /\ BeginAlike(Elements(v)', Elements(v), size_[v])
  <1>. DEFINE f == it.index
              index == (0 - it.index) % SizeMod
              range == it.index - l
              last == (size_[v] - 1) % SizeMod
              size == size_[v] - range
              val == Shifted(heap, cells, arr_[v], index, last, 0 - range)
  <1>0. /\ Storage /\ f \in Nat /\ it.size \in Nat /\ l \in Nat /\ f <= l /\ l <= it.size
        /\ size_[v] \in Nat /\ capacity_[v] \in Nat /\ size_[v] <= capacity_[v]
        /\ Sound(v, Same(v)) /\ Room(heap, arr_[v]) = capacity_[v]
        /\ capacity_[v] <= MaxLen /\ MaxLen \in Nat /\ SizeMod \in Nat \ {0}
    BY EditTypes, Types, CapacityBound, SizeAssumption
  <1>s. /\ Same(v).heap = heap /\ Same(v).cells = cells /\ Same(v).arr = arr_[v]
        /\ Same(v).capacity = capacity_[v]
    BY DEF Same
  <1>1. \/ FailedAssertion(v)
        \/ /\ range_validator(v)
           /\ \E w \in MoveResults(heap, cells, arr_[v], index, last, 0 - range) :
                \/ Broken(v, Same(v), w)
                \/ /\ w.exc = "none"
                   /\ Commit(v, Same(v), w.cells, size, "none")
    BY Zenon DEF EraseRange
  <1>. HIDE DEF val
  <1>2. /\ it.size = size_[v]
        /\ \E w \in MoveResults(heap, cells, arr_[v], index, last, 0 - range) :
             w.exc = "none" /\ Commit(v, Same(v), w.cells, size, "none")
    <2>1. ~FailedAssertion(v) /\ \A w : ~Broken(v, Same(v), w)
      BY DEF FailedAssertion, Broken, Commit
    <2>. HIDE DEF index, last, size, range
    <2>. QED
      BY <1>1, <2>1 DEF range_validator
  <1>3. PICK w \in MoveResults(heap, cells, arr_[v], index, last, 0 - range) :
          w.exc = "none" /\ Commit(v, Same(v), w.cells, size, "none")
    BY <1>2
  <1>4. size \in Nat /\ size = size_[v] + (l - f) /\ size_[v] <= size
    BY <1>0
  <1>5. /\ size_'[v] = size /\ Len(Elements(v)') = size
        /\ \A k \in 1 .. size_[v] : Elements(v)'[k] = w.cells[arr_[v]][k - 1]
    <2>1. Storage /\ Sound(v, Same(v)) /\ size \in Nat
          /\ Commit(v, Same(v), w.cells, size, "none")
      BY <1>0, <1>3, <1>4
    <2>2. \A k \in 1 .. size_[v] : k \in 1 .. size /\ k <= Same(v).capacity
      BY <1>0, <1>s, <1>4
    <2>. HIDE DEF size, last, index, range
    <2>3. size_'[v] = size /\ Len(Elements(v)') = size
      BY <2>1, CommitSize
    <2>4. ASSUME NEW k \in 1 .. size_[v]
          PROVE  Elements(v)'[k] = w.cells[arr_[v]][k - 1]
      <3>0. k \in 1 .. size /\ k <= Same(v).capacity
        BY <2>2
      <3>. DEFINE sm == Same(v)
                  cs == w.cells
      <3>1. /\ Storage /\ Sound(v, sm) /\ size \in Nat /\ Commit(v, sm, cs, size, "none")
            /\ k \in 1 .. size /\ k <= sm.capacity
        BY <2>1, <3>0
      <3>. HIDE DEF sm, cs
      <3>2. Elements(v)'[k] = cs[sm.arr][k - 1]
        BY <3>1, CommitElement, ZenonT(30)
      <3>. USE DEF sm, cs
      <3>. QED
        BY <1>s, <3>2
    <2>. QED
      BY <2>3, <2>4
  <1>6. ASSUME NEW k \in 1 .. size_[v]
        PROVE  /\ Elements(v)[k] = cells[arr_[v]][k - 1]
               /\ k - 1 \in 0 .. MaxLen - 1 /\ k - 1 < capacity_[v] /\ arr_[v] \in Block
    <2>1. Elements(v)[k] = cells[arr_[v]][k - 1]
      BY ElementsNow
    <2>2. k - 1 \in 0 .. MaxLen - 1 /\ k - 1 < capacity_[v]
      BY <1>0
    <2>3. arr_[v] \in Block
      BY <1>0, Types
    <2>. QED
      BY <2>1, <2>2, <2>3
  <1>7. Len(Elements(v)) = size_[v]
    BY ElementsNow
  <1>. DEFINE kept == \A k \in 1 .. size_[v] : w.cells[arr_[v]][k - 1] = cells[arr_[v]][k - 1]
  <1>8. kept => BeginAlike(Elements(v)', Elements(v), size_[v])
    <2>1. size_[v] <= Len(Elements(v)') /\ size_[v] <= Len(Elements(v))
      <3>. HIDE DEF size
      <3>. QED
        BY <1>0, <1>4, <1>5, <1>7
    <2>2. \A k \in 1 .. size_[v] : Elements(v)'[k] = w.cells[arr_[v]][k - 1]
      BY <1>5
    <2>3. \A k \in 1 .. size_[v] : Elements(v)[k] = cells[arr_[v]][k - 1]
      BY <1>6
    <2>. DEFINE new == Elements(v)'
                old == Elements(v)
    <2>4. ASSUME kept PROVE \A k \in 1 .. size_[v] : new[k] = old[k]
      <3>. HIDE DEF new, old
      <3>. QED
        BY <2>2, <2>3, <2>4 DEF new, old
    <2>. HIDE DEF new, old, kept
    <2>5. kept => BeginAlike(new, old, size_[v])
      BY <2>1, <2>4 DEF BeginAlike, new, old
    <2>. QED
      BY <2>5 DEF new, old
  <1>9. CASE size_[v] = 0
    <2>1. kept /\ l = 0
      BY <1>0, <1>2, <1>9
    <2>. QED
      BY <1>4, <1>5, <1>8, <2>1
  <1>10. CASE size_[v] # 0
    <2>1. last = size_[v] - 1
      <3>1. size_[v] <= SizeMod
        BY <1>0 DEF SignedDistances
      <3>2. size_[v] - 1 \in 0 .. SizeMod - 1
        <4>1. /\ size_[v] \in Nat /\ size_[v] # 0 /\ size_[v] <= SizeMod
              /\ SizeMod \in Nat
          BY <1>0, <1>10, <3>1
        <4>2. ASSUME NEW a \in Nat, NEW b \in Nat, a # 0, a <= b
              PROVE  a - 1 \in 0 .. b - 1
          BY <4>2
        <4>. QED
          BY <4>1, <4>2
      <3>. QED
        BY <1>0, <3>2, ModSmall
    <2>2. CASE f > 0
      <3>1. index = SizeMod - f
        <4>1. SizeMod - f \in 0 .. SizeMod - 1
          BY <1>0, <1>2, <2>2 DEF SignedDistances
        <4>2. ((SizeMod - f) - SizeMod) % SizeMod = (SizeMod - f) % SizeMod
          BY <1>0, RemainderBack
        <4>3. (SizeMod - f) - SizeMod = 0 - f
          BY <1>0
        <4>. QED
          BY <1>0, <4>1, <4>2, <4>3, ModSmall
      <3>2. last <= index
        BY <1>0, <1>2, <2>1, <3>1 DEF SignedDistances
      <3>3. w.cells = Written(cells, arr_[v], index, index, val)
        <4>1. index \in Int /\ last \in Int
          BY <1>0, <1>10, <2>1, <3>1
        <4>. HIDE DEF index, last, range
        <4>2. w \in WriteResults(heap, cells, arr_[v], index, last, val)
          BY <3>2 DEF MoveResults, val
        <4>3. ~\E i \in index .. last - 1 : TRUE
          BY <3>2, <4>1
        <4>. QED
          BY <3>2, <4>2, <4>3 DEF WriteResults
      <3>4. kept
        <4>1. index \in Int
          BY <1>0, <3>1
        <4>. HIDE DEF index
        <4>. QED
          BY <1>6, <3>3, <4>1 DEF Written
      <3>. QED
        BY <1>4, <1>5, <1>8, <2>2, <3>4
    <2>3. CASE f = 0
      <3>1. index = 0
        BY <1>0, <2>3, ModSmall
      <3>2. 0 - range = l
        BY <1>0, <2>3
      <3>3. w \in MoveResults(heap, cells, arr_[v], 0, size_[v] - 1, l)
        BY <2>1, <3>1, <3>2
      <3>. HIDE DEF index, last, size, range, f
      <3>4. size_[v] - 1 \in Nat /\ Room(heap, arr_[v]) \in Nat /\ 0 \in Nat /\ l \in Int
            /\ 0 <= size_[v] - 1 /\ size_[v] - 1 <= Room(heap, arr_[v])
        BY <1>0, <1>10
      <3>v. val = Shifted(heap, cells, arr_[v], 0, size_[v] - 1, l)
        BY <2>1, <3>1, <3>2 DEF val
      <3>5. CASE l = 0
        <4>1. w \in WriteResults(heap, cells, arr_[v], 0, size_[v] - 1, val)
          BY <1>3, <3>3, <3>4, <3>v, MoveCases
        <4>2. w.cells = Written(cells, arr_[v], 0, size_[v] - 1, val)
          BY <1>3, <3>4, <4>1, LoopThrows
        <4>3. ASSUME NEW k \in 1 .. size_[v]
              PROVE  w.cells[arr_[v]][k - 1] = cells[arr_[v]][k - 1]
          <5>1. k - 1 \in Int /\ k - 1 >= 0 /\ (k - 1) - l = k - 1
            BY <3>5
          <5>2. Fetched(heap, cells, arr_[v], 0, size_[v] - 1, l)[k - 1] = cells[arr_[v]][k - 1]
            BY <1>0, <1>6, <3>5, <5>1 DEF Fetched
          <5>3. val[k - 1] = Fetched(heap, cells, arr_[v], 0, size_[v] - 1, l)[(k - 1) - l]
            <6>1. k - 1 \in 0 .. MaxLen - 1 /\ size_[v] - 1 \in Int
              BY <1>6, <3>4
            <6>. QED
              BY <3>4, <3>v, <6>1, ShiftedAt
          <5>4. val[k - 1] = cells[arr_[v]][k - 1]
            BY <5>1, <5>2, <5>3
          <5>. QED
            BY <1>6, <4>2, <5>4 DEF Written
        <4>. QED
          BY <1>4, <1>5, <1>8, <4>3 DEF f
      <3>6. CASE l # 0
        <4>1. size_[v] = 1
          <5>1. CASE 0 < size_[v] - 1
            <6>1. ~(size_[v] - 1 <= 0) /\ 0 < l
              BY <1>0, <3>4, <3>6, <5>1
            <6>2. w \in { [u EXCEPT !.exc = IF @ = "none" THEN "overrun" ELSE @] :
                            u \in WriteResults(heap, cells, arr_[v], 0, 0,
                                   Shifted(heap, cells, arr_[v], 0, size_[v] - 1, l)) }
              BY <3>3, <6>1 DEF MoveResults
            <6>3. PICK u \in WriteResults(heap, cells, arr_[v], 0, 0,
                                   Shifted(heap, cells, arr_[v], 0, size_[v] - 1, l)) :
                    w = [u EXCEPT !.exc = IF u.exc = "none" THEN "overrun" ELSE u.exc]
              BY <6>2
            <6>4. u = [exc |-> u.exc, done |-> u.done, cells |-> u.cells]
              BY DEF WriteResults
            <6>. QED
              BY <1>3, <6>3, <6>4
          <5>. QED
            BY <1>0, <1>10, <5>1
        <4>2. w \in WriteResults(heap, cells, arr_[v], 0, 0, val)
          BY <3>3, <3>v, <4>1 DEF MoveResults
        <4>3. w.cells = Written(cells, arr_[v], 0, 0, val)
          BY <4>2 DEF WriteResults
        <4>4. kept
          BY <1>6, <4>3 DEF Written
        <4>. QED
          BY <1>4, <1>5, <1>8, <4>4 DEF f
      <3>. QED
        BY <3>5, <3>6
    <2>. QED
      BY <1>0, <2>2, <2>3
  <1>. QED
    BY <1>0, <1>9, <1>10

-----------------------------------------------------------------------------
(* A loop leaves what is before its first element, as does one after it. *)
BeforeKept(p, i, cs, ds) == \A j \in 0 .. i - 1 : ds[p][j] = cs[p][j]

LEMMA LoopFront ==
  ASSUME NEW h, NEW cs, NEW p \in Block, NEW from \in Nat, NEW to, NEW val,
         NEW i \in Nat, i <= from, i <= MaxLen,
         NEW w \in WriteResults(h, cs, p, from, to, val)
  PROVE  BeforeKept(p, i, cs, w.cells) /\ w.exc \in {"none", "copy", "overrun"}
  <1>1. MaxLen \in Nat
    BY QuotientBound, HeapAssumption, SizeAssumption DEF MaxLen
  <1>2. PICK k, exc : /\ w = [exc |-> exc, done |-> k, cells |-> Written(cs, p, from, k, val)]
                      /\ exc \in {"none", "copy", "overrun"}
    BY DEF WriteResults
  <1>3. ASSUME NEW j \in 0 .. i - 1
        PROVE  w.cells[p][j] = cs[p][j]
    <2>1. j \in 0 .. MaxLen - 1 /\ ~(from <= j)
      BY <1>1
    <2>. QED
      BY <1>2, <2>1 DEF Written
  <1>. QED
    BY <1>2, <1>3 DEF BeforeKept

LEMMA MoveFront ==
  ASSUME NEW h, NEW cs, NEW p \in Block, Room(h, p) \in Nat,
         NEW from \in Nat, NEW to \in Nat, NEW back \in Int,
         NEW i \in Nat, i <= from, i <= MaxLen,
         NEW w \in MoveResults(h, cs, p, from, to, back)
  PROVE  BeforeKept(p, i, cs, w.cells)
  <1>. DEFINE val == Shifted(h, cs, p, from, to, back)
  <1>e. PICK end \in Nat : \E u \in WriteResults(h, cs, p, from, end, val) : w.cells = u.cells
    BY MoveCases
  <1>1. PICK u \in WriteResults(h, cs, p, from, end, val) : w.cells = u.cells
    BY <1>e
  <1>2. BeforeKept(p, i, cs, u.cells)
    BY LoopFront
  <1>. QED
    BY <1>1, <1>2

(* A call that writes nothing before the iterator, and keeps the size above it *)
LEMMA CommitFront ==
  ASSUME EditInvariant, IInv, NEW v \in Vec, it.size = size_[v], it.index <= it.size,
         NEW m, Sound(v, m), Keeps(v, m), capacity_[v] <= m.capacity,
         NEW cs, m.arr = NULL \/ BeforeKept(m.arr, it.index, m.cells, cs),
         NEW n \in Nat, it.index <= n, NEW exc, Commit(v, m, cs, n, exc)
  PROVE  BeginAlike(Elements(v)', Elements(v), it.index)
  <1>0. /\ Storage /\ it.index \in Nat /\ size_[v] \in Nat /\ capacity_[v] \in Nat
        /\ size_[v] <= capacity_[v] /\ m.capacity \in Nat
        /\ (m.arr = NULL => m.capacity = 0)
    BY EditTypes, Types DEF Sound
  <1>1. Len(Elements(v)) = size_[v] /\ Len(Elements(v)') = n
    BY <1>0, ElementsNow, CommitSize
  <1>2. ASSUME NEW k \in 1 .. it.index
        PROVE  Elements(v)'[k] = Elements(v)[k]
    <2>0. /\ k \in 1 .. n /\ k <= m.capacity /\ k - 1 \in 0 .. size_[v] - 1
          /\ k - 1 \in 0 .. it.index - 1 /\ (k - 1) + 1 = k /\ m.arr # NULL
      BY <1>0
    <2>1. Elements(v)'[k] = cs[m.arr][k - 1]
      <3>1. Storage /\ k \in 1 .. n /\ k <= m.capacity
        BY <1>0, <2>0
      <3>. QED
        BY <3>1, CommitElement, ZenonT(30)
    <2>2. m.cells[m.arr][k - 1] = Elements(v)[k]
      BY <1>0, <2>0, Held
    <2>3. cs[m.arr][k - 1] = m.cells[m.arr][k - 1]
      BY <2>0 DEF BeforeKept
    <2>. QED
      BY <2>1, <2>2, <2>3
  <1>. QED
    BY <1>0, <1>1, <1>2 DEF BeginAlike

LEMMA EraseFront ==
  ASSUME EditInvariant, IInv, NEW v \in Vec, it.index <= it.size, Erase(v),
         outcome' \notin Fatal
  PROVE  BeginAlike(Elements(v)', Elements(v), it.index)
  <1>. DEFINE i == it.index
  <1>0. /\ Storage /\ it.index \in Nat /\ size_[v] \in Nat /\ capacity_[v] \in Nat
        /\ size_[v] <= capacity_[v] /\ capacity_[v] <= MaxLen /\ MaxLen \in Nat
        /\ Room(heap, arr_[v]) = capacity_[v]
        /\ arr_[v] \in Block \cup {NULL} /\ it.size \in Nat
        /\ Sound(v, Same(v)) /\ Keeps(v, Same(v)) /\ capacity_[v] <= Same(v).capacity
    BY EditTypes, Types, CapacityBound, SameKeeps
  <1>s. Same(v).cells = cells /\ Same(v).arr = arr_[v]
    BY DEF Same
  <1>1. \/ FailedAssertion(v)
        \/ /\ range_validator(v)
           /\ Commit(v, Same(v), cells, size_[v], "none")
        \/ /\ range_validator(v)
           /\ ~Empty(v) /\ i # size_[v]
           /\ \E w \in MoveResults(heap, cells, arr_[v], i, size_[v] - 1, -1) :
                \/ Broken(v, Same(v), w)
                \/ Commit(v, Same(v), w.cells, size_[v] - 1, "none")
    BY Zenon DEF Erase
  <1>2. ~FailedAssertion(v)
    BY DEF FailedAssertion, Commit, Fatal
  <1>3. it.size = size_[v]
    BY <1>1, <1>2 DEF range_validator
  <1>4. CASE Commit(v, Same(v), cells, size_[v], "none")
    <2>1. BeforeKept(Same(v).arr, it.index, Same(v).cells, cells)
      BY <1>s DEF BeforeKept
    <2>. QED
      BY <1>0, <1>3, <1>4, <2>1, CommitFront
  <1>5. CASE /\ i # size_[v]
             /\ \E w \in MoveResults(heap, cells, arr_[v], i, size_[v] - 1, -1) :
                  \/ Broken(v, Same(v), w)
                  \/ Commit(v, Same(v), w.cells, size_[v] - 1, "none")
    <2>1. PICK w \in MoveResults(heap, cells, arr_[v], i, size_[v] - 1, -1) :
                 \/ Broken(v, Same(v), w)
                 \/ Commit(v, Same(v), w.cells, size_[v] - 1, "none")
      BY <1>5
    <2>2. size_[v] - 1 \in Nat /\ it.index <= size_[v] - 1 /\ i <= i /\ i <= MaxLen
      BY <1>0, <1>3, <1>5
    <2>3. Same(v).arr = NULL \/ BeforeKept(Same(v).arr, it.index, Same(v).cells, w.cells)
      <3>1. arr_[v] \in Block => BeforeKept(arr_[v], i, cells, w.cells)
        <4>1. -1 \in Int /\ Room(heap, arr_[v]) \in Nat
          BY <1>0
        <4>. QED
          BY <1>0, <2>2, <4>1, MoveFront
      <3>. QED
        BY <1>0, <1>s, <3>1
    <2>4. \/ Commit(v, Same(v), w.cells, size_[v], w.exc)
          \/ Commit(v, Same(v), w.cells, size_[v] - 1, "none")
      BY <2>1 DEF Broken
    <2>. QED
      BY <1>0, <1>3, <2>2, <2>3, <2>4, CommitFront
  <1>. QED
    BY <1>1, <1>2, <1>4, <1>5

LEMMA EraseRangeFront ==
  ASSUME SignedDistances, EditInvariant, IInv, NEW v \in Vec, it.index <= it.size,
         NEW l, EraseRange(v, l), outcome' \notin Fatal
  PROVE  BeginAlike(Elements(v)', Elements(v), it.index)
  <1>. DEFINE index == (0 - it.index) % SizeMod
              range == it.index - l
              last == (size_[v] - 1) % SizeMod
              size == size_[v] - range
  <1>0. /\ Storage /\ it.index \in Nat /\ size_[v] \in Nat /\ capacity_[v] \in Nat
        /\ size_[v] <= capacity_[v] /\ capacity_[v] <= MaxLen /\ MaxLen \in Nat
        /\ Room(heap, arr_[v]) = capacity_[v]
        /\ arr_[v] \in Block \cup {NULL} /\ it.size \in Nat
        /\ Sound(v, Same(v)) /\ Keeps(v, Same(v)) /\ capacity_[v] <= Same(v).capacity
        /\ SizeMod \in Nat \ {0}
    BY EditTypes, Types, CapacityBound, SameKeeps, SizeAssumption
  <1>s. Same(v).cells = cells /\ Same(v).arr = arr_[v]
    BY DEF Same
  <1>1. \/ FailedAssertion(v)
        \/ /\ range_validator(v)
           /\ \E w \in MoveResults(heap, cells, arr_[v], index, last, 0 - range) :
                \/ Broken(v, Same(v), w)
                \/ Commit(v, Same(v), w.cells, size, "none")
    BY Zenon DEF EraseRange
  <1>2. ~FailedAssertion(v)
    BY DEF FailedAssertion, Commit, Fatal
  <1>3. it.size = size_[v]
    BY <1>1, <1>2 DEF range_validator
  <1>4. l \in it.index .. it.size
    BY DEF EraseRange
  <1>5. size \in Nat /\ it.index <= size /\ 0 - range \in Int /\ last \in Nat
    <2>1. size \in Nat /\ it.index <= size /\ 0 - range \in Int
      BY <1>0, <1>3, <1>4
    <2>2. last \in Nat
      BY <1>0, Remainder
    <2>. QED
      BY <2>1, <2>2
  <1>6. index \in Nat /\ it.index <= index
    <2>1. CASE it.index = 0
      <3>1. index \in Nat
        BY <1>0, Remainder
      <3>. QED
        BY <2>1, <3>1
    <2>2. CASE it.index > 0
      <3>1. it.index <= MaxLen
        BY <1>0, <1>3
      <3>2. SizeMod - it.index \in 0 .. SizeMod - 1 /\ it.index <= SizeMod - it.index
        BY <1>0, <2>2, <3>1 DEF SignedDistances
      <3>3. ((SizeMod - it.index) - SizeMod) % SizeMod = (SizeMod - it.index) % SizeMod
        BY <1>0, RemainderBack
      <3>4. (SizeMod - it.index) - SizeMod = 0 - it.index
        BY <1>0
      <3>5. (SizeMod - it.index) % SizeMod = SizeMod - it.index
        BY <1>0, <3>2, ModSmall
      <3>. QED
        BY <1>0, <3>2, <3>3, <3>4, <3>5
    <2>. QED
      BY <1>0, <2>1, <2>2
  <1>. HIDE DEF index, last, size, range
  <1>7. PICK w \in MoveResults(heap, cells, arr_[v], index, last, 0 - range) :
               \/ Broken(v, Same(v), w)
               \/ Commit(v, Same(v), w.cells, size, "none")
    BY <1>1, <1>2
  <1>8. Same(v).arr = NULL \/ BeforeKept(Same(v).arr, it.index, Same(v).cells, w.cells)
    <2>1. it.index <= MaxLen
      BY <1>0, <1>3
    <2>2. arr_[v] \in Block => BeforeKept(arr_[v], it.index, cells, w.cells)
      <3>1. Room(heap, arr_[v]) \in Nat
        BY <1>0
      <3>. QED
        BY <1>0, <1>5, <1>6, <1>7, <2>1, <3>1, MoveFront
    <2>. QED
      BY <1>0, <1>s, <2>2
  <1>9. \/ Commit(v, Same(v), w.cells, size_[v], w.exc)
        \/ Commit(v, Same(v), w.cells, size, "none")
    BY <1>7 DEF Broken
  <1>. QED
    BY <1>0, <1>3, <1>5, <1>8, <1>9, CommitFront

(***************************************************************************)
(* The two loops of insert, in the storage m of a call that scaled: the    *)
(* first starts d elements behind the iterator, the second at it.          *)
(***************************************************************************)
LEMMA OneLoopFront ==
  ASSUME EditInvariant, IInv, NEW v \in Vec, it.size = size_[v], it.index <= it.size,
         NEW m, Sound(v, m), NEW cs, NEW d \in Nat, NEW to, NEW val,
         NEW s \in WriteResults(m.heap, cs, m.arr, it.index + d, to, val)
  PROVE  m.arr = NULL \/ BeforeKept(m.arr, it.index, cs, s.cells)
  <1>0. /\ it.index \in Nat /\ it.size \in Nat /\ size_[v] \in Nat /\ capacity_[v] \in Nat
        /\ size_[v] <= capacity_[v] /\ capacity_[v] <= MaxLen /\ MaxLen \in Nat
        /\ m.arr \in Block \cup {NULL}
    BY EditTypes, Types, CapacityBound DEF Sound
  <1>1. it.index <= MaxLen /\ it.index + d \in Nat /\ it.index <= it.index + d
    BY <1>0
  <1>. QED
    BY <1>0, <1>1, LoopFront

LEMMA TwoLoopsFront ==
  ASSUME EditInvariant, IInv, NEW v \in Vec, it.size = size_[v], it.index <= it.size,
         NEW m, Sound(v, m), NEW d \in Nat, NEW to, NEW made, NEW until, NEW val,
         NEW s \in WriteResults(m.heap, m.cells, m.arr, it.index + d, to, made),
         NEW w \in WriteResults(m.heap, s.cells, m.arr, it.index, until, val)
  PROVE  m.arr = NULL \/ BeforeKept(m.arr, it.index, m.cells, w.cells)
  <1>0. it.index \in Nat /\ 0 \in Nat /\ it.index + 0 = it.index
    BY EditTypes
  <1>1. m.arr = NULL \/ BeforeKept(m.arr, it.index, m.cells, s.cells)
    BY OneLoopFront
  <1>2. m.arr = NULL \/ BeforeKept(m.arr, it.index, s.cells, w.cells)
    <2>1. w \in WriteResults(m.heap, s.cells, m.arr, it.index + 0, until, val)
      BY <1>0
    <2>. QED
      BY <1>0, <2>1, OneLoopFront
  <1>. QED
    BY <1>1, <1>2 DEF BeforeKept

LEMMA InsertFront ==
  ASSUME NoWrapEdit, EditInvariant, IInv, NEW v \in Vec, it.index <= it.size,
         NEW n \in Count, NEW arg, Insert(v, n, arg), outcome' \notin Fatal
  PROVE  BeginAlike(Elements(v)', Elements(v), it.index)
  <1>. DEFINE i == it.index
              size == (size_[v] + n) % SizeMod
              made(m) == Shifted(m.heap, m.cells, m.arr, i + n, size_[v] + n, n)
              val(m, s) == All(Denotes(v, [m EXCEPT !.cells = s.cells], arg))
  <1>0. /\ Storage /\ it.index \in Nat /\ it.size \in Nat /\ n \in Nat /\ size_[v] \in Nat
        /\ size = size_[v] + n /\ size * SizeOf < SizeMod /\ size \in Nat
    <2>1. /\ Storage /\ SizesFit /\ it.index \in Nat /\ it.size \in Nat /\ size_[v] \in Nat
      BY EditTypes
    <2>2. Running /\ n \in Nat /\ n <= n + 1 /\ n \in Count \cup {0}
      BY VectorAssumption DEF Insert, Callable, Running
    <2>3. size = size_[v] + n /\ (size_[v] + n) * SizeOf < SizeMod
      BY <2>1, <2>2, EditFits
    <2>4. size_[v] + n \in Nat
      BY <2>1, <2>2
    <2>. QED
      BY <2>1, <2>2, <2>3, <2>4
  <1>1. \/ FailedAssertion(v)
        \/ /\ range_validator(v)
           /\ \E m \in ReserveResults(v, size) :
                \/ GiveUp(v, m)
                \/ \E s \in WriteResults(m.heap, m.cells, m.arr, i + n, size_[v] + n, made(m)) :
                     \/ Broken(v, m, s)
                     \/ \E w \in WriteResults(m.heap, s.cells, m.arr, i, i + n, val(m, s)) :
                          Broken(v, m, w) \/ Commit(v, m, w.cells, size, "none")
    BY Zenon DEF Insert
  <1>. HIDE DEF made, val, size
  <1>2. ~FailedAssertion(v)
    BY DEF FailedAssertion, Commit, Fatal
  <1>3. it.size = size_[v]
    BY <1>1, <1>2 DEF range_validator
  <1>4. PICK m \in ReserveResults(v, size) :
          \/ GiveUp(v, m)
          \/ \E s \in WriteResults(m.heap, m.cells, m.arr, i + n, size_[v] + n, made(m)) :
               \/ Broken(v, m, s)
               \/ \E w \in WriteResults(m.heap, s.cells, m.arr, i, i + n, val(m, s)) :
                    Broken(v, m, w) \/ Commit(v, m, w.cells, size, "none")
    BY <1>1, <1>2
  <1>5. Sound(v, m) /\ Keeps(v, m) /\ capacity_[v] <= m.capacity
    BY <1>0, RoomKeeps
  <1>6. it.index <= size_[v] /\ it.index <= size
    BY <1>0, <1>3
  <1>7. CASE GiveUp(v, m)
    <2>1. BeforeKept(m.arr, it.index, m.cells, m.cells) /\ Commit(v, m, m.cells, size_[v], m.exc)
      BY <1>7 DEF BeforeKept, GiveUp
    <2>. QED
      BY <1>0, <1>3, <1>5, <1>6, <2>1, CommitFront
  <1>8. CASE ~GiveUp(v, m)
    <2>1. PICK s \in WriteResults(m.heap, m.cells, m.arr, i + n, size_[v] + n, made(m)) :
            \/ Broken(v, m, s)
            \/ \E w \in WriteResults(m.heap, s.cells, m.arr, i, i + n, val(m, s)) :
                 Broken(v, m, w) \/ Commit(v, m, w.cells, size, "none")
      BY <1>4, <1>8
    <2>2. CASE Broken(v, m, s)
      <3>1. Commit(v, m, s.cells, size_[v], s.exc)
        BY <2>2 DEF Broken
      <3>2. m.arr = NULL \/ BeforeKept(m.arr, it.index, m.cells, s.cells)
        BY <1>0, <1>3, <1>5, OneLoopFront
      <3>. QED
        BY <1>0, <1>3, <1>5, <1>6, <3>1, <3>2, CommitFront
    <2>3. CASE ~Broken(v, m, s)
      <3>1. PICK w \in WriteResults(m.heap, s.cells, m.arr, i, i + n, val(m, s)) :
              Broken(v, m, w) \/ Commit(v, m, w.cells, size, "none")
        BY <2>1, <2>3
      <3>2. \/ Commit(v, m, w.cells, size_[v], w.exc)
            \/ Commit(v, m, w.cells, size, "none")
        BY <3>1 DEF Broken
      <3>3. m.arr = NULL \/ BeforeKept(m.arr, it.index, m.cells, w.cells)
        BY <1>0, <1>3, <1>5, <3>1, TwoLoopsFront
      <3>. QED
        BY <1>0, <1>3, <1>5, <1>6, <3>2, <3>3, CommitFront
    <2>. QED
      BY <2>2, <2>3
  <1>. QED
    BY <1>7, <1>8

LEMMA InsertRangeFront ==
  ASSUME NoWrapEdit, EditInvariant, IInv, NEW v \in Vec, it.index <= it.size,
         NEW n \in Count, NEW s \in [1 .. n -> Value], NEW more \in BOOLEAN,
         InsertRange(v, s, more), outcome' \notin Fatal
  PROVE  BeginAlike(Elements(v)', Elements(v), it.index)
  <1>. DEFINE i == it.index
              d == IF more THEN Len(s) - 1 ELSE Len(s)
              size == (size_[v] + d + 1) % SizeMod
              made(m) == Shifted(m.heap, m.cells, m.arr, i + d, size_[v] + d, d)
              values == [j \in 0 .. MaxLen - 1 |->
                           IF j - i + 1 \in DOMAIN s THEN s[j - i + 1] ELSE Raw]
              end(w) == [w EXCEPT !.exc = IF w.exc # "none" THEN w.exc
                                          ELSE IF more THEN "abort" ELSE "out_of_range"]
  <1>0. /\ Storage /\ it.index \in Nat /\ it.size \in Nat /\ size_[v] \in Nat /\ d \in Nat
        /\ size * SizeOf < SizeMod /\ size \in Nat
    <2>1. /\ Storage /\ SizesFit /\ it.index \in Nat /\ it.size \in Nat /\ size_[v] \in Nat
      BY EditTypes
    <2>2. Running /\ n \in Nat /\ n \in Count \cup {0} /\ d >= 0
      BY VectorAssumption DEF InsertRange, Callable, Running
    <2>3. Len(s) = n
      BY <2>2
    <2>4. d \in Nat /\ d + 1 \in Nat /\ d + 1 <= n + 1
      BY <2>2, <2>3
    <2>. HIDE DEF d
    <2>5. (size_[v] + (d + 1)) % SizeMod = size_[v] + (d + 1)
          /\ (size_[v] + (d + 1)) * SizeOf < SizeMod
      BY <2>1, <2>2, <2>4, EditFits
    <2>6. size_[v] + (d + 1) = size_[v] + d + 1 /\ size_[v] + d + 1 \in Nat
      BY <2>1, <2>4
    <2>7. size * SizeOf < SizeMod /\ size \in Nat
      BY <2>5, <2>6
    <2>. QED
      BY <2>1, <2>4, <2>7
  <1>1. \/ FailedAssertion(v)
        \/ /\ range_validator(v)
           /\ \E m \in ReserveResults(v, size) :
                \/ GiveUp(v, m)
                \/ \E t \in WriteResults(m.heap, m.cells, m.arr, i + d, size_[v] + d, made(m)) :
                     \/ Broken(v, m, t)
                     \/ \E w \in WriteResults(m.heap, t.cells, m.arr, i, i + Len(s), values) :
                          Broken(v, m, end(w))
    BY Zenon DEF InsertRange
  <1>. HIDE DEF made, values, size, d
  <1>2. ~FailedAssertion(v)
    BY DEF FailedAssertion, Commit, Fatal
  <1>3. it.size = size_[v]
    BY <1>1, <1>2 DEF range_validator
  <1>4. PICK m \in ReserveResults(v, size) :
          \/ GiveUp(v, m)
          \/ \E t \in WriteResults(m.heap, m.cells, m.arr, i + d, size_[v] + d, made(m)) :
               \/ Broken(v, m, t)
               \/ \E w \in WriteResults(m.heap, t.cells, m.arr, i, i + Len(s), values) :
                    Broken(v, m, end(w))
    BY <1>1, <1>2
  <1>5. Sound(v, m) /\ Keeps(v, m) /\ capacity_[v] <= m.capacity
    BY <1>0, RoomKeeps
  <1>6. it.index <= size_[v]
    BY <1>0, <1>3
  <1>7. CASE GiveUp(v, m)
    <2>1. BeforeKept(m.arr, it.index, m.cells, m.cells) /\ Commit(v, m, m.cells, size_[v], m.exc)
      BY <1>7 DEF BeforeKept, GiveUp
    <2>. QED
      BY <1>0, <1>3, <1>5, <1>6, <2>1, CommitFront
  <1>8. CASE ~GiveUp(v, m)
    <2>1. PICK t \in WriteResults(m.heap, m.cells, m.arr, i + d, size_[v] + d, made(m)) :
            \/ Broken(v, m, t)
            \/ \E w \in WriteResults(m.heap, t.cells, m.arr, i, i + Len(s), values) :
                 Broken(v, m, end(w))
      BY <1>4, <1>8
    <2>2. CASE Broken(v, m, t)
      <3>1. Commit(v, m, t.cells, size_[v], t.exc)
        BY <2>2 DEF Broken
      <3>2. m.arr = NULL \/ BeforeKept(m.arr, it.index, m.cells, t.cells)
        BY <1>0, <1>3, <1>5, OneLoopFront
      <3>. QED
        BY <1>0, <1>3, <1>5, <1>6, <3>1, <3>2, CommitFront
    <2>3. CASE ~Broken(v, m, t)
      <3>1. PICK w \in WriteResults(m.heap, t.cells, m.arr, i, i + Len(s), values) :
              Broken(v, m, end(w))
        BY <2>1, <2>3
      <3>2. end(w).cells = w.cells
        BY WriteRecord
      <3>3. m.arr = NULL \/ BeforeKept(m.arr, it.index, m.cells, w.cells)
        BY <1>0, <1>3, <1>5, <3>1, TwoLoopsFront
      <3>. HIDE DEF end
      <3>4. Commit(v, m, w.cells, size_[v], end(w).exc)
        BY <3>1, <3>2 DEF Broken
      <3>. QED
        BY <1>0, <1>3, <1>5, <1>6, <3>3, <3>4, CommitFront
    <2>. QED
      BY <2>2, <2>3
  <1>. QED
    BY <1>7, <1>8

(***************************************************************************)
(* While the sizes fit, erase(pos) takes the element the iterator names    *)
(* out of the sequence (vector.hpp:188-194) and returns an iterator to the *)
(* one after it, which the next call accepts (vector.hpp:516-518).         *)
(***************************************************************************)
THEOREM EraseSafe == NoWrapEdit => (IterSpec => EraseRemoves)
  <1>. SUFFICES ASSUME NoWrapEdit PROVE IterSpec => EraseRemoves
    OBVIOUS
  <1>1. EditInvariant /\ [IterNext]_iterVars =>
          [ \A v \in alive :
              outcome' = "none" /\ it.index <= it.size /\ BufferFits /\ Erase(v) =>
                /\ Elements(v)' = IF it.index = size_[v] THEN Elements(v)
                                  ELSE Abstract!RemoveAt(Elements(v), it.index + 1)
                /\ range_validator(v)'
                /\ it'.index = it.index ]_iterVars
    <2>. SUFFICES ASSUME EditInvariant, NEW v \in alive, Erase(v), outcome' = "none",
                         it.index <= it.size, BufferFits
                  PROVE  /\ Elements(v)' = IF it.index = size_[v] THEN Elements(v)
                                           ELSE Abstract!RemoveAt(Elements(v), it.index + 1)
                         /\ range_validator(v)'
                         /\ it'.index = it.index
      OBVIOUS
    <2>1. Storage /\ v \in Vec
      BY DEF EditInvariant, Storage, TypeOK
    <2>2. IInv
      BY <2>1, HasStorage DEF BufferFits
    <2>. QED
      BY <2>1, <2>2, EraseGives DEF range_validator
  <1>. QED
    BY <1>1, EditInductive, PTL DEF IterSpec, EraseRemoves

(***************************************************************************)
(* insert(pos, n, x) where no cell is raw puts the n values at the         *)
(* iterator and keeps what is before it; what follows is repetitions of    *)
(* the first n elements that stood there, because the loop of              *)
(* vector.hpp:142-144 reads what it wrote.                                 *)
(***************************************************************************)
THEOREM InsertSafe == NoWrapEdit => (IterSpec => InsertRepeats)
  <1>. SUFFICES ASSUME NoWrapEdit PROVE IterSpec => InsertRepeats
    OBVIOUS
  <1>1. EditInvariant /\ [IterNext]_iterVars =>
          [ \A v \in alive, n \in Count, x \in Value :
              outcome' = "none" /\ it.index <= it.size /\ Initialised(v) /\ Insert(v, n, x)
                => Elements(v)' = Inserted(Elements(v), it.index, [k \in 1 .. n |-> x]) ]_iterVars
    <2>. SUFFICES ASSUME EditInvariant, NEW v \in alive, NEW n \in Count, NEW x \in Value,
                         Insert(v, n, x), outcome' = "none", it.index <= it.size,
                         Initialised(v)
                  PROVE  Elements(v)' = Inserted(Elements(v), it.index, [k \in 1 .. n |-> x])
      OBVIOUS
    <2>1. v \in Vec
      BY DEF EditInvariant, Storage, TypeOK
    <2>. QED
      BY <2>1, InsertGives
  <1>. QED
    BY <1>1, EditInductive, PTL DEF IterSpec, InsertRepeats

(***************************************************************************)
(* insert of a range where no cell is raw ends with "out of range" and a   *)
(* vector that has as many elements as before (vector.hpp:158-173): the    *)
(* first of those the insertion was to give, the last of them lost.        *)
(***************************************************************************)
THEOREM RangeInsertSafe == NoWrapEdit => (IterSpec => RangeLosesTail)
  <1>. SUFFICES ASSUME NoWrapEdit PROVE IterSpec => RangeLosesTail
    OBVIOUS
  <1>1. EditInvariant /\ [IterNext]_iterVars =>
          [ \A v \in alive, n \in Count : \A s \in [1 .. n -> Value] :
              outcome' = "out_of_range" /\ it.index <= it.size /\ Initialised(v)
                /\ InsertRange(v, s, FALSE)
                => Elements(v)' = [k \in 1 .. size_[v] |->
                                    Inserted(Elements(v), it.index, s)[k]] ]_iterVars
    <2>. SUFFICES ASSUME EditInvariant, NEW v \in alive, NEW n \in Count,
                         NEW s \in [1 .. n -> Value], InsertRange(v, s, FALSE),
                         outcome' = "out_of_range", it.index <= it.size, Initialised(v)
                  PROVE  Elements(v)' = [k \in 1 .. size_[v] |->
                                          Inserted(Elements(v), it.index, s)[k]]
      OBVIOUS
    <2>1. v \in Vec
      BY DEF EditInvariant, Storage, TypeOK
    <2>2. ~FALSE
      OBVIOUS
    <2>. QED
      BY <2>1, <2>2, RangeGives DEF FirstOf
  <1>. QED
    BY <1>1, EditInductive, PTL DEF IterSpec, RangeLosesTail

(***************************************************************************)
(* While the sizes fit and distances keep their sign, erase of a range     *)
(* that returns (vector.hpp:201-207) has added the length of the range to  *)
(* the size instead of taking it away, and has erased and changed no       *)
(* element.                                                                *)
(***************************************************************************)
THEOREM RangeEraseSafe ==
  NoWrapEdit /\ SignedDistances => (IterSpec => RangeEraseErasesNothing)
  <1>. SUFFICES ASSUME NoWrapEdit, SignedDistances PROVE IterSpec => RangeEraseErasesNothing
    OBVIOUS
  <1>1. EditInvariant /\ [IterNext]_iterVars =>
          [ outcome' = "none" /\ BufferFits =>
              \A v \in alive : \A l \in it.index .. it.size : EraseRange(v, l) =>
                /\ size_'[v] = size_[v] + (l - it.index)
                /\ BeginAlike(Elements(v)', Elements(v), size_[v]) ]_iterVars
    <2>. SUFFICES ASSUME EditInvariant, NEW v \in alive, NEW l \in it.index .. it.size,
                         EraseRange(v, l), outcome' = "none", BufferFits
                  PROVE  /\ size_'[v] = size_[v] + (l - it.index)
                         /\ BeginAlike(Elements(v)', Elements(v), size_[v])
      OBVIOUS
    <2>1. Storage /\ v \in Vec
      BY DEF EditInvariant, Storage, TypeOK
    <2>2. IInv
      BY <2>1, HasStorage DEF BufferFits
    <2>. QED
      BY <2>1, <2>2, EraseRangeGives
  <1>. QED
    BY <1>1, EditInductive, PTL DEF IterSpec, RangeEraseErasesNothing

(***************************************************************************)
(* While the sizes fit, no insert and no erase touches the elements before *)
(* the iterator, also when copying an element throws in one of its loops   *)
(* (vector.hpp:141-146): each loop writes at the iterator or after it, and *)
(* a larger buffer is filled with the old elements first.                  *)
(***************************************************************************)
THEOREM FrontSafe == NoWrapEdit /\ SignedDistances => (IterSpec => EditKeepsFront)
  <1>. SUFFICES ASSUME NoWrapEdit, SignedDistances PROVE IterSpec => EditKeepsFront
    OBVIOUS
  <1>1. EditInvariant /\ [IterNext]_iterVars =>
          [ outcome' \notin Fatal /\ BufferFits /\ it.index <= it.size =>
              \A v \in alive :
                BeginAlike(Elements(v)', Elements(v), it.index) \/ ~Edit(v) ]_iterVars
    <2>. SUFFICES ASSUME EditInvariant, NEW v \in alive, Edit(v), outcome' \notin Fatal,
                         BufferFits, it.index <= it.size
                  PROVE  BeginAlike(Elements(v)', Elements(v), it.index)
      OBVIOUS
    <2>1. Storage /\ v \in Vec
      BY DEF EditInvariant, Storage, TypeOK
    <2>2. IInv
      BY <2>1, HasStorage DEF BufferFits
    <2>3. CASE \E n \in Count, arg \in Argument(v) : Insert(v, n, arg)
      BY <2>1, <2>2, <2>3, InsertFront
    <2>4. CASE \E n \in Count, more \in BOOLEAN :
                 \E s \in [1 .. n -> Value] : InsertRange(v, s, more)
      BY <2>1, <2>2, <2>4, InsertRangeFront
    <2>5. CASE Erase(v)
      BY <2>1, <2>2, <2>5, EraseFront
    <2>6. CASE \E l \in 0 .. it.size : EraseRange(v, l)
      BY <2>1, <2>2, <2>6, EraseRangeFront
    <2>. QED
      BY <2>3, <2>4, <2>5, <2>6 DEF Edit
  <1>. QED
    BY <1>1, EditInductive, PTL DEF IterSpec, EditKeepsFront
=============================================================================
