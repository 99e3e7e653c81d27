--------------------------- MODULE VectorIterator ---------------------------
(***************************************************************************)
(* The iterators of ft::vector (include/vector.hpp:346-523), and insert    *)
(* and erase, which take and return them (vector.hpp:126-213), composed    *)
(* with the rest of the class.                                             *)
(*                                                                         *)
(* This code is never instantiated and could not be: it names members that *)
(* do not exist.  It is modelled as what it says, with a misnamed member   *)
(* read as the one it stands for: count_ and count are size_ (517, 521,    *)
(* 350), flag is flag_ (375), a factory makes the iterator it is asked     *)
(* for (507-512).  The distance of a const_iterator from cbegin(), which   *)
(* has no definition, is its index; that of two iterators is what          *)
(* operator- says (355-357).                                               *)
(***************************************************************************)
EXTENDS VectorAsSeq

CONSTANT SizeBound  \* the largest size that erase of a range is followed to

ASSUME IteratorAssumption == SizeBound \in Nat

VARIABLE it  \* the iterator the client has, of whatever vector it was made

iterVars == <<vars, it>>

Iterator == [data : Block \cup {NULL}, index : 0 .. SizeMod - 1,
             size : Nat, flag : BOOLEAN]

(* iterator(count) and iterator(data, index), vector.hpp:418-422 *)
PastEnd(count) == [data |-> NULL, index |-> count, size |-> count, flag |-> TRUE]

Pointing(data, index, size) ==
  [data |-> data, index |-> index, size |-> size, flag |-> FALSE]

(* range_validator(it, size_), vector.hpp:516-518: the data are not compared *)
range_validator(v) == it.size = size_[v]

-----------------------------------------------------------------------------
IterInit == Init /\ it = PastEnd(0)

Running == outcome \notin Fatal

(* begin() and end(), vector.hpp:469-481 *)
Begin(v) ==
  /\ Callable(v)
  /\ it' = Pointing(arr_[v], 0, size_[v])
  /\ Commit(v, Same(v), cells, size_[v], "none")

End(v) ==
  /\ Callable(v)
  /\ it' = PastEnd(size_[v])
  /\ Commit(v, Same(v), cells, size_[v], "none")

(* Mutant: the iterator is moved before the test. *)
MovesFirst(test, i) ==
  /\ Running
  /\ it' = [it EXCEPT !.index = IF i < 0 THEN 0 ELSE i]
  /\ outcome' = IF test THEN "none" ELSE "out_of_range"
  /\ UNCHANGED <<heap, cells, alive, arr_, size_, capacity_, allocated_>>

(* The iterator moves to index i, if the test lets it. *)
Moves(test, i) ==
  /\ Running
  /\ \/ /\ test
        /\ it' = [it EXCEPT !.index = i]
        /\ outcome' = "none"
     \/ /\ ~test
        /\ outcome' = "out_of_range"
        /\ UNCHANGED it
  /\ UNCHANGED <<heap, cells, alive, arr_, size_, capacity_, allocated_>>

AtEnd == it.flag \/ it.index = it.size

(* operator++, vector.hpp:359-372, 434-446 *)
Increment == Moves(~AtEnd, (it.index + 1) % SizeMod)

(* Mutant: the test for the first element is missing. *)
DecrementPast == Moves(it.flag, it.index - 1)

(***************************************************************************)
(* operator--, vector.hpp:374-387: the flag is tested the other way round, *)
(* so that only what end() returned goes back.                             *)
(***************************************************************************)
Decrement == Moves(it.flag /\ it.index # 0, it.index - 1)

(* Mutant: only what end() returned counts as the end. *)
AccessPastLast(x) ==
  /\ Running
  /\ \/ it.flag /\ outcome' = "out_of_range" /\ UNCHANGED cells
     \/ /\ ~it.flag
        /\ \E w \in WriteResults(heap, cells, it.data, it.index, it.index + 1, All(x)) :
             cells' = w.cells /\ outcome' = w.exc
  /\ UNCHANGED <<heap, alive, arr_, size_, capacity_, allocated_, it>>

(* operator*, vector.hpp:396-410: x is written through what it returns. *)
Access(x) ==
  /\ Running
  /\ \/ AtEnd /\ outcome' = "out_of_range" /\ UNCHANGED cells
     \/ /\ ~AtEnd
        /\ \E w \in WriteResults(heap, cells, it.data, it.index, it.index + 1, All(x)) :
             cells' = w.cells /\ outcome' = w.exc
  /\ UNCHANGED <<heap, alive, arr_, size_, capacity_, allocated_, it>>

-----------------------------------------------------------------------------
(* Mutant: the loop starts one element late. *)
ShiftedFromSecond(h, cs, p, from, to, back) ==
  LET shifted[j \in Int] ==
        IF j < 0 \/ j >= Room(h, p) THEN Raw
        ELSE IF back > 0 /\ from < j /\ j < to THEN shifted[j - back]
        ELSE cs[p][j]
  IN  [j \in 0 .. MaxLen - 1 |-> IF j = from THEN cs[p][j] ELSE shifted[j - back]]

(***************************************************************************)
(* for (j = from; j < to; ++j) arr_[j] = arr_[j - back]: the elements it   *)
(* assigns.  An element that is behind was assigned by the loop itself, if *)
(* it lies in its range.                                                   *)
(***************************************************************************)
Shifted(h, cs, p, from, to, back) ==
  LET shifted[j \in Int] ==
        IF j < 0 \/ j >= Room(h, p) THEN Raw
        ELSE IF back > 0 /\ from <= j /\ j < to THEN shifted[j - back]
        ELSE cs[p][j]
  IN  [j \in 0 .. MaxLen - 1 |-> shifted[j - back]]

(***************************************************************************)
(* The ways this loop ends when it fetches from where it may not: at the   *)
(* first element whose source lies in front of the buffer or behind it.    *)
(* The loops of insert fetch from where they wrote, or will write: they    *)
(* leave the buffer with a write, if at all, and WriteResults sees it.     *)
(***************************************************************************)
MoveResults(h, cs, p, from, to, back) ==
  LET val == Shifted(h, cs, p, from, to, back)
      end == IF from < back THEN from ELSE Room(h, p) + back
  IN  IF to <= from \/ to <= end THEN WriteResults(h, cs, p, from, to, val)
      ELSE { [w EXCEPT !.exc = IF @ = "none" THEN "overrun" ELSE @] :
               w \in WriteResults(h, cs, p, from, end, val) }

(* A failed assertion *)
FailedAssertion(v) == Commit(v, Same(v), cells, size_[v], "abort") /\ UNCHANGED it

(* A call that ends with exception exc after some elements were assigned *)
Broken(v, m, w) ==
  /\ w.exc # "none"
  /\ Commit(v, m, w.cells, size_[v], w.exc)
  /\ UNCHANGED it

(* Mutant: the buffer is not scaled. *)
InsertInPlace(v, n, arg) ==
  /\ Callable(v)
  /\ range_validator(v)
  /\ \E w \in WriteResults(heap, cells, arr_[v], it.index, it.index + n, All(arg)) :
       /\ Commit(v, Same(v), w.cells, size_[v] + n, w.exc)
       /\ it' = Pointing(arr_[v], it.index, size_[v] + n)

(***************************************************************************)
(* insert(pos, n, value), vector.hpp:126-151: the assertions, the storage, *)
(* the loop that makes room, the loop that fills it, and the size last.    *)
(***************************************************************************)
Insert(v, n, arg) ==
  LET i == it.index
      size == (size_[v] + n) % SizeMod
  IN  /\ Callable(v)
      /\ \/ ~range_validator(v) /\ FailedAssertion(v)
         \/ /\ range_validator(v)
            /\ \E m \in ReserveResults(v, size) :
                 \/ GiveUp(v, m) /\ UNCHANGED it
                 \/ /\ m.exc = "none"
                    /\ \E s \in WriteResults(m.heap, m.cells, m.arr, i + n, size_[v] + n,
                                  Shifted(m.heap, m.cells, m.arr, i + n, size_[v] + n, n)) :
                         \/ Broken(v, m, s)
                         \/ /\ s.exc = "none"
                            /\ \E w \in WriteResults(m.heap, s.cells, m.arr, i, i + n,
                                 All(Denotes(v, [m EXCEPT !.cells = s.cells], arg))) :
                                 \/ Broken(v, m, w)
                                 \/ /\ w.exc = "none"
                                    /\ Commit(v, m, w.cells, size, "none")
                                    /\ it' = Pointing(m.arr, i, size)

(* Mutant: the size is set before the elements are assigned. *)
InsertRangeCounting(v, s, more) ==
  LET values == [j \in 0 .. MaxLen - 1 |->
                   IF j - it.index + 1 \in DOMAIN s THEN s[j - it.index + 1] ELSE Raw]
  IN  /\ Callable(v)
      /\ range_validator(v)
      /\ \E m \in ReserveResults(v, size_[v] + Len(s)) :
           /\ m.exc = "none"
           /\ \E w \in WriteResults(m.heap, m.cells, m.arr, it.index,
                                    it.index + Len(s), values) :
                Commit(v, m, w.cells, size_[v] + Len(s), "out_of_range")
      /\ UNCHANGED it

(***************************************************************************)
(* insert(pos, first, last), vector.hpp:153-177, of the elements s, the    *)
(* last of which lies beyond the range if more is TRUE: the loop goes one  *)
(* element too far.  There is either no such element, and first++ throws,  *)
(* or first has passed last and the assertion of line 173 fails.           *)
(***************************************************************************)
InsertRange(v, s, more) ==
  LET i == it.index
      distance == IF more THEN Len(s) - 1 ELSE Len(s)
      values == [j \in 0 .. MaxLen - 1 |->
                   IF j - i + 1 \in DOMAIN s THEN s[j - i + 1] ELSE Raw]
  IN  /\ Callable(v)
      /\ distance >= 0
      /\ \/ ~range_validator(v) /\ FailedAssertion(v)
         \/ /\ range_validator(v)
            /\ \E m \in ReserveResults(v, (size_[v] + distance + 1) % SizeMod) :
                 \/ GiveUp(v, m) /\ UNCHANGED it
                 \/ /\ m.exc = "none"
                    /\ \E t \in WriteResults(m.heap, m.cells, m.arr,
                                  i + distance, size_[v] + distance,
                                  Shifted(m.heap, m.cells, m.arr,
                                    i + distance, size_[v] + distance, distance)) :
                         \/ Broken(v, m, t)
                         \/ /\ t.exc = "none"
                            /\ \E w \in WriteResults(m.heap, t.cells, m.arr, i,
                                                     i + Len(s), values) :
                                 Broken(v, m, [w EXCEPT !.exc =
                                   IF w.exc # "none" THEN w.exc
                                   ELSE IF more THEN "abort" ELSE "out_of_range"])

(* Mutant: an empty vector and the end are not told apart from the rest. *)
EraseUnguarded(v) ==
  /\ Callable(v)
  /\ range_validator(v)
  /\ \E w \in MoveResults(heap, cells, arr_[v], it.index, size_[v] - 1, -1) :
       /\ Commit(v, Same(v), w.cells, size_[v] - 1, w.exc)
       /\ it' = Pointing(arr_[v], it.index, size_[v] - 1)

(* erase(pos), vector.hpp:181-195 *)
Erase(v) ==
  LET i == it.index
  IN  /\ Callable(v)
      /\ \/ ~range_validator(v) /\ FailedAssertion(v)
         \/ /\ range_validator(v)
            /\ Empty(v) \/ i = size_[v]
            /\ Commit(v, Same(v), cells, size_[v], "none")
            /\ it' = PastEnd(size_[v])
         \/ /\ range_validator(v)
            /\ ~Empty(v) /\ i # size_[v]
            /\ \E w \in MoveResults(heap, cells, arr_[v], i, size_[v] - 1, -1) :
                 \/ Broken(v, Same(v), w)
                 \/ /\ w.exc = "none"
                    /\ Commit(v, Same(v), w.cells, size_[v] - 1, "none")
                    /\ it' = Pointing(arr_[v], i, size_[v] - 1)

(* Mutant: the size is not changed. *)
EraseRangeKeepingSize(v, l) ==
  LET index == (0 - it.index) % SizeMod
      last == (size_[v] - 1) % SizeMod
  IN  /\ Callable(v)
      /\ l \in it.index .. it.size
      /\ range_validator(v)
      /\ \E w \in MoveResults(heap, cells, arr_[v], index, last, l - it.index) :
           /\ Commit(v, Same(v), w.cells, size_[v], w.exc)
           /\ it' = PastEnd(size_[v])

(***************************************************************************)
(* erase(first, last), vector.hpp:197-213, where last has index l.  The    *)
(* distances are the wrong way round, hence not positive: the index is     *)
(* larger than any size when it is compared, the elements are fetched from *)
(* in front, and the size grows.  size_ - 1 wraps for an empty vector.     *)
(***************************************************************************)
EraseRange(v, l) ==
  LET index == (0 - it.index) % SizeMod
      range == it.index - l
      last == (size_[v] - 1) % SizeMod
      size == size_[v] - range
  IN  /\ Callable(v)
      /\ l \in it.index .. it.size
      /\ size <= SizeBound
      /\ \/ ~range_validator(v) /\ FailedAssertion(v)
         \/ /\ range_validator(v)
            /\ \E w \in MoveResults(heap, cells, arr_[v], index, last, 0 - range) :
                 \/ Broken(v, Same(v), w)
                 \/ /\ w.exc = "none"
                    /\ Commit(v, Same(v), w.cells, size, "none")
                    /\ it' = IF arr_[v] = NULL \/ size = 0 \/ l = size
                               THEN PastEnd(size) ELSE Pointing(arr_[v], index, size)

-----------------------------------------------------------------------------
Iterate ==
  \/ \E v \in Vec : Begin(v) \/ End(v)
  \/ Increment
  \/ Decrement
  \/ \E x \in Value : Access(x)

Edit(v) ==
  \/ \E n \in Count, arg \in Argument(v) : Insert(v, n, arg)
  \/ \E n \in Count, more \in BOOLEAN : \E s \in [1 .. n -> Value] : InsertRange(v, s, more)
  \/ Erase(v)
  \/ \E l \in 0 .. it.size : EraseRange(v, l)

(* The calls made in between: they fill a vector, move, cut and shrink it. *)
Around(v) ==
  \/ \E n \in Count : \E s \in [1 .. n -> Value] : RangeCtor(v, s)
  \/ \E n \in Count : Reserve(v, n)
  \/ \E n \in Count, arg \in Argument(v) : Assign(v, n, arg)
  \/ \E arg \in Argument(v) : PushBack(v, arg)
  \/ PopBack(v)

IterNext ==
  \/ Iterate
  \/ \E v \in Vec : Edit(v) \/ (Around(v) /\ UNCHANGED it)

IterSpec == IterInit /\ [][IterNext]_iterVars

-----------------------------------------------------------------------------
(* The iterator keeps its type: an index never goes below the first element. *)
IteratorOK == it \in Iterator

(***************************************************************************)
(* A sequence after the elements t were brought to its index i the way     *)
(* insert does: what follows them repeats the first elements that stood    *)
(* there, since the loop of line 142 reads what it wrote.  Where t is      *)
(* empty or at least as long as what follows, that is the right result.    *)
(***************************************************************************)
Inserted(s, i, t) ==
  [k \in 1 .. Len(s) + Len(t) |->
     IF t = << >> \/ k <= i THEN s[k]
     ELSE IF k <= i + Len(t) THEN t[k - i]
     ELSE s[i + 1 + ((k - i - 1) % Len(t))]]

(***************************************************************************)
(* insert(pos, n, x), given an iterator that passes the comparison of the  *)
(* sizes (vector.hpp:132), from whatever buffer it is, puts the n values   *)
(* in their place and keeps the elements before them, but repeats the      *)
(* first n elements after them.                                            *)
(***************************************************************************)
InsertRepeats ==
  [][ \A v \in alive, n \in Count, x \in Value :
        outcome' = "none" /\ it.index <= it.size /\ Initialised(v) /\ Insert(v, n, x)
          => Elements(v)' = Inserted(Elements(v), it.index, [k \in 1 .. n |-> x]) ]_iterVars

(***************************************************************************)
(* insert of a range, which throws when it has put the elements in their   *)
(* place (vector.hpp:170-172), never counts them: the vector has as many   *)
(* elements as before, and the last are lost.                              *)
(***************************************************************************)
RangeLosesTail ==
  [][ \A v \in alive, n \in Count : \A s \in [1 .. n -> Value] :
        outcome' = "out_of_range" /\ it.index <= it.size /\ Initialised(v)
          /\ InsertRange(v, s, FALSE)
          => Elements(v)' = [k \in 1 .. size_[v] |->
                              Inserted(Elements(v), it.index, s)[k]] ]_iterVars

(***************************************************************************)
(* erase(pos) takes the element the iterator names out of the sequence, or *)
(* none if it is the end, and what it returns names the element after it   *)
(* and can be passed to the next call.                                     *)
(***************************************************************************)
EraseRemoves ==
  [][ \A v \in alive :
        outcome' = "none" /\ it.index <= it.size /\ BufferFits /\ Erase(v) =>
          /\ Elements(v)' = IF it.index = size_[v] THEN Elements(v)
                            ELSE Abstract!RemoveAt(Elements(v), it.index + 1)
          /\ range_validator(v)'
          /\ it'.index = it.index ]_iterVars

BeginAlike(s, t, n) ==
  n <= Len(s) /\ n <= Len(t) /\ \A k \in 1 .. n : s[k] = t[k]

(***************************************************************************)
(* erase of a range that returns took no element out (vector.hpp:201-207): *)
(* the size grew by the length of the range, over elements nobody          *)
(* assigned, and those there were stay.                                    *)
(***************************************************************************)
RangeEraseErasesNothing ==
  [][ outcome' = "none" /\ BufferFits =>
        \A v \in alive : \A l \in it.index .. it.size : EraseRange(v, l) =>
          /\ size_'[v] = size_[v] + (l - it.index)
          /\ BeginAlike(Elements(v)', Elements(v), size_[v]) ]_iterVars

(***************************************************************************)
(* Whichever way insert or erase ends, and whatever they throw on the way, *)
(* the elements before the iterator stay, in the old buffer or in a new    *)
(* one.                                                                    *)
(***************************************************************************)
EditKeepsFront ==
  [][ outcome' \notin Fatal /\ BufferFits /\ it.index <= it.size =>
        \A v \in alive : BeginAlike(Elements(v)', Elements(v), it.index) \/ ~Edit(v) ]_iterVars

(***************************************************************************)
(* What reads or writes outside a buffer is operator* of an iterator whose *)
(* buffer was replaced or cut down after it was made (vector.hpp:412-416); *)
(* any use of one beyond its own size, which only erase of a range returns *)
(* (line 205); assign above the capacity (111); and erase of a range that  *)
(* starts at the first element, if its loop runs and the range or the      *)
(* vector is not just one element (203-204).  Nothing else does, and not   *)
(* because some iterator happens to be stale.                              *)
(***************************************************************************)
Stale == ~ \E v \in alive : it.data = arr_[v] /\ it.size <= capacity_[v]

Dereferenced == \E x \in Value : Access(x)

(* The first element fetched is in front, or the loop has no end in the buffer. *)
ErasedFromFirst ==
  \E v \in Vec : \E l \in 0 .. it.size :
    /\ it.index = 0
    /\ size_[v] = 0 \/ (size_[v] > 1 /\ l > 0)
    /\ EraseRange(v, l)

OverrunOnlyWhenStale ==
  [][ outcome' = "overrun" /\ BufferFits =>
        \/ Stale /\ Dereferenced
        \/ it.index > it.size /\ (Dereferenced \/ \E v \in Vec : Edit(v))
        \/ AssignAbove
        \/ ErasedFromFirst ]_iterVars

(***************************************************************************)
(* The sizes stay within the capacities, and the index of the iterator     *)
(* within the size it was made with, unless a range is erased that does    *)
(* not end at the first element (vector.hpp:201-206 work with negative     *)
(* distances).                                                             *)
(***************************************************************************)
InRange == BufferFits /\ it.index <= it.size

OutOfRangeOnlyByRangeErase ==
  [][ InRange => InRange' \/ \E v \in Vec : \E l \in 1 .. it.size : EraseRange(v, l) ]_iterVars

(***************************************************************************)
(* A call refused memory, or an iterator refused, leaves vectors and       *)
(* iterators as they are: all but insert of a range, which throws          *)
(* (vector.hpp:171) when it has moved and assigned elements.               *)
(***************************************************************************)
ThrowsBeforeItWrites ==
  [][ outcome' \in {"runtime_error", "bad_alloc", "out_of_range"} =>
        \/ UNCHANGED <<heap, cells, alive, arr_, size_, capacity_, allocated_, it>>
        \/ \E v \in Vec, n \in Count : \E s \in [1 .. n -> Value] :
             outcome' = "out_of_range" /\ InsertRange(v, s, FALSE) ]_iterVars
=============================================================================
