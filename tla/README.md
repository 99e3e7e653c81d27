# Verification of ft_container

`ft_container` is a C++ library with its own allocator, smart pointer and vector. This directory
holds a TLA+ model of it, the TLC runs that check the model on small instances, and proofs, checked by
TLAPS, that hold for every instance.

The library is sequential. There are no threads, nothing is persisted and nothing has to happen
eventually, so there are no liveness properties and no fairness: every specification is
`Init /\ [][Next]_vars`, and a client may stop at any point. What is hard here is different:

- a call that fails half way (`realloc` returns NULL, an element's assignment throws, moving a deleter
  throws) and leaves members that no longer agree;
- long sequences of legal calls on several objects that share one heap (swap, move, reallocation);
- unsigned sizes that wrap;
- a reference or a pointer that is stale when it is used, after a reallocation or inside a destructor
  that runs in the middle of a call.

## Inventory

| Part | Source | State | Operations | Correct when |
|---|---|---|---|---|
| C heap (external) | used at `ft.hpp:62`, `ft.hpp:83` | the live blocks and their sizes | `realloc`, `free` | taken as given, with every result `realloc` can have |
| `ft::allocator` | `ft.hpp:30-169` | `capacity_`, `allocated_`, `n_allocs_`, `n_frees_` | constructor, destructor, moves, `allocate`, `deallocate`, `destroy`, `construct` twice | the counters cover what is outstanding, never exceed the capacity, and a call that throws takes nothing away |
| `ft::vector` | `vector.hpp:12-342` | `mem_` (an allocator), `arr_`, `size_`, `capacity_` | constructors, destructor, `reserve`, `assign`, `clear`, `resize`, `swap`, `push_back`, `pop_back`, `at`, `front`, `back`, `operator[]` | the members agree with the buffer on every path, buffers are not shared or lost, all writes stay in the buffer, every element has a value, clients see a sequence |
| `insert`, `erase` | `vector.hpp:126-213` | as above, and the iterator they are given | two `insert`s, two `erase`s | elements keep their order, no write leaves the buffer, and the iterator returned can be used |
| iterators | `vector.hpp:346-526` | data pointer, index, a copy of the size, a flag | `begin`, `end`, `++`, `--`, `*` | an access stays in the buffer, an index in its range, a refused step has no effect |
| comparisons | `vector.hpp:528-579` | none | the six operators | equality and the lexicographic order (not modelled: no call that reaches an element returns) |
| `ft::unique_ptr`, `ft::deleter` | `ft.hpp:199-259` | `ptr_`, `mem_` (a deleter) | constructors, destructor, moves, `release`, `reset`, `swap`, `operator*` | one owner per object, deleted once and by a deleter that suits it |
| `ft::distance`, `as_const` | `ft.hpp:18-20, 262-269` | none | pure | trivial |
| `vector_plus.hpp`, `list.hpp`, `debug.h` | | none | declarations only | |

The parts interact by calls only. A vector asks its own allocator object for memory, with its current
buffer as the hint; the allocator asks the C heap, and all allocators and vectors share that heap. An
iterator is a copy of the data pointer and of the size, with nothing that ties it to its vector: any call on the
vector may make it stale, and `insert` and `erase`, which are given one, can only compare the sizes. A
`unique_ptr` calls its deleter, which runs the destructor of an object, client code that may use other
`unique_ptr`s before the first call has returned. The clients' code decides what is called, with which
counts, values and references.

The hazards, each at its line with the properties aimed at it, are in `PROJECT.json`.

## Modules

| Module | Models | Builds on |
|---|---|---|
| `CHeap` | the heap; `realloc` as the set of its possible results | |
| `AllocatorOps` | `allocate` and the arithmetic of `deallocate`, as operators | `CHeap` |
| `Allocator` | allocator objects and a client that holds pointers | `AllocatorOps` |
| `Vector` | vector objects, their buffers element by element | `AllocatorOps` |
| `SeqContainer` | abstract: what a client of a vector sees, sequences | |
| `VectorAsSeq` | the refinement mapping from `Vector` to `SeqContainer` | `Vector`, `SeqContainer` |
| `VectorIterator` | an iterator, `insert` and `erase`, together with the calls that make iterators stale | `VectorAsSeq` |
| `UniquePtr` | smart pointers, deleters and the destructors they run | |
| `MC*` | finite instances for TLC | the module in the name |
| `AllocatorOpsProofs`, `AllocatorProofs`, `VectorIteratorProofs`, `UniquePtrProofs` | theorems and proofs | the module in the name |
| `VectorProofs`, `VectorStepProofs`, `VectorSeqProofs` | theorems and proofs on states, on steps, and of the refinement | each on the one before |

### C heap

`heap[b]` is the size of the block at address `b`, or `Free`. `ReallocResults` is every `(pointer, heap)`
that `realloc` may return: failure with nothing changed, a new block, the same block resized in place,
a block moved to another address, and, for zero bytes and an old block, the block freed and NULL returned.
A request for zero bytes without an old block may also return NULL or an empty block. `HeapMax` is the
largest block the heap can grant.

### Allocator

One action per member function. `AllocateResults` (in `AllocatorOps`) is the body of `allocate`: the test of
`ft.hpp:57`, the call of `realloc`, and the counter, which is charged only when the block was granted.
Sizes are kept modulo `SizeMod`, 2^w for a `size_type` of w bits, as in the code. `Allocate`, `Reallocate` and
`ConstructArray` add what the caller does: it replaces the pointer it passed by the one returned. A call that
throws returns nothing, so the caller keeps what it had. `held` and `charged` are the client's own records:
how many elements it asked for at an address and which allocator object accounts for the block. The client
keeps to the contract: it passes only pointers it holds, to the object that accounts for them, with the count it
asked for. The defaulted moves copy the counters and leave them in the source.

`address` only throws and is left out. Element values are left out: `construct` differs from `allocate` only in
that an assignment may throw after the block was granted.

### Vector

`arr_`, `size_`, `capacity_` and the allocator's `allocated_` are functions on the vectors; `cells` holds what every
block contains, element by element, where `Raw` is memory no value was assigned to and `Dead` an element that was
destroyed. One action per member function; helpers have the code's names where it has them: `ScaleResults` is
`scale_capacity_`, `GrowResults` is `grow_capacity_`. A member function that can end in several ways is a choice
over the results of its parts, in the order of the code: the storage (which may throw), then the loop over the
elements (which may throw at any element and then leaves what was written so far).

- `WriteResults` is the loop that assigns elements. An element outside the block is never written: the result is
  then `"overrun"`, after which nothing can be said of the program. `Next` stops there, as it does after a failed
  assertion. That is why the runs of `Vector`, and those of `UniquePtr`, do not check for deadlock: the program is over.
- `Carried` is what `realloc` does with the contents.
- A call may be given one of the vector's own elements by reference (`OwnIndex`). `Denotes` is the value such a
  reference denotes when it is read: after the storage was changed it may point into a freed block.
- Assertions are compiled in. `debug.h` undefines `NDEBUG` only after `assert.h` was read, so it decides nothing.
- `ft::allocator` cannot be copied (`ft.hpp:40`), so the constructors of `vector.hpp:45-54, 65-69` cannot be used with
  it and are left out. The copy and move constructors of `vector.hpp:29-41` only throw an exception before there is an
  object.
- `RangeCtor` takes ranges that can be read twice. The code walks the range once to count it and once to copy it; an
  input iterator would be exhausted by the first walk.

`SeqContainer` is what a client that cannot see the buffer is promised: each vector is a sequence, and each call
is one of nine steps on sequences or invisible. Two of its steps are as weak as the code makes them: `Extend` does not
say how many elements are added beyond those asked for (`resize`, `vector.hpp:224`), and `Overwrite` keeps the length (`assign`
at or above the capacity, `vector.hpp:107`). `IsSequence` in `VectorAsSeq` says `Vector` implements it under the mapping
`content[v] = ` the cells below `size_[v]`.

### Iterators, insert, erase

No call of this code can be compiled: `range_validator` and `operator--` name members that do not exist
(`vector.hpp:517, 521, 375`), `begin` casts one class to another (`507-512`). `VectorIterator` models what it says, reading a misnamed
member as the one it must stand for: `count_` and `count` as `size_`, `flag` as `flag_`. Nothing else is put right. In
particular these stay as they are written:

- `operator-` of two iterators is the wrong way round (`vector.hpp:355-357`), so the distances `erase` of a range computes (`201-203`) are
  never positive: its index is huge when it is compared with a size, elements are fetched from in front, and the size grows.
- `operator--` tests the flag the other way round (`375`): only what `end()` returned goes back.
- `insert` shifts the tail from its first element upwards (`142-144`) and so reads what it has just written. `Shifted` is this
  loop as a recursive function from indices to values.
- `erase` fetches an element from where it may not lie: `MoveResults` is its loop, which leaves the buffer with the first read
  or write outside of it.
- `insert` of a range takes one element more than the range has (`169-173`). Either there is none, and the call throws, or there is,
  and the assertion after the loop fails; the argument `more` says which.
- `range_validator` compares the sizes and nothing else.

`it` is the one iterator the client has; it may be of any vector, and of any earlier state of it. The distance of an
iterator from `cbegin()`, which the code leaves undefined for the const class, is its index. `Around` is the choice of calls of `Vector`
that are made in between: they fill a vector, move its buffer, cut it down and shrink it. That choice is a bound; `clear`, `resize`, `swap` and the
rest are left to the runs of `Vector`. `erase` of a range is followed as long as the size stays within `SizeBound`.

### unique_ptr

`release` is two steps, the call of the deleter and the assignment of `nullptr` after it, because the deleter runs a
destructor. `stack` holds the releases that are in between, innermost last; every other call may be made while the
stack is not empty. That includes calls on the `unique_ptr`s in it: a destructor may release, destroy or dereference the one that is
deleting, which still has its pointer (`ft.hpp:239` comes before `240`), and a release then calls the deleter again. What is left out is a destructor that
replaces that pointer (`reset`, `swap` or a move of the `unique_ptr` that is deleting), an assumption on the client. A
client hands over only objects nobody owns, to a `unique_ptr` whose deleter suits them. An address may be used for a new
object once the deleter of the old one returned. `swap` exchanges the pointers and then the deleters with three
moves, and each of them may throw. A deleter's move that throws anywhere else leaves both objects as they were, so only
`Swap` models it. Deleting a deleted object, or with a wrong deleter, ends the program.

`Careful` says what the client does with the source of a defaulted move, which keeps its pointer
(`ft.hpp:216, 222`): reset it at once, or leave it. `unique_owner` and the theorems on ownership are about clients that
reset it, `unique_move` about one that does not.

## Runs

All runs use symmetry only over sets of model values that the specification treats alike. Every bound on a counter is a constant
(`MaxAllocs`, `Depth`) or a bound on the heap (`HeapMax`, `Block`), which bounds the vectors too.

| Run | Instance | Question |
|---|---|---|
| `allocator_contract` | 2 allocators, 3 blocks, sizes of 0, 1, 2 or 7 elements of 2 bytes, capacity 9, 4-bit sizes (the 14 bytes of the last and what is allocated have a sum that wraps), 3 allocations each (`Moves` and `Reuses` let the client move allocators and reallocate) | With reallocation, moves and every failure of `realloc`: do the counters cover what is outstanding, are the client's pointers live and large enough, does a refused call keep the blocks, and when do the counters drift? |
| `allocator_realloc` | 1 allocator, 2 blocks of 1 or 2 elements | expected violation, finding 1 |
| `allocator_wrap` | 4 elements of 4 bytes in 4-bit sizes | expected violation, finding 2 |
| `vector_pair` | 2 vectors, 3 blocks of up to 2 elements | With refusals at any point and swaps: do members and buffers agree, is no buffer shared or lost, has a refused call no effect, are they two sequences? |
| `vector_sequence` | 1 vector of up to 3 elements, 2 values, 2 blocks | Has every element a value, what shrinks the capacity, what leaves the buffer, is it a sequence? |
| `vector_faults` | as above with counts 0, 2 and 3, capacity 10, assignments that throw at any element, references to the own elements 0 and 2 | Which calls can leave an element without a value, or read a stale reference? |
| `vector_edits` | 1 vector of up to 3 elements, 2 values, 2 blocks, counts 0, 1 and 2, capacity 4, assignments that throw at any element, 1 iterator, sizes up to 4 | What do `insert` and `erase` make of the sequence, and which elements do they leave alone however they end, what reads or writes outside a buffer, what brings a size or an index out of range, and what has a call done that throws? |
| `vector_resize`, `vector_assign`, `vector_assert` | 1 vector, 1 block | expected violations, findings 3 to 5 |
| `unique_owner` | 3 `unique_ptr`s, 3 objects, 2 deleters, releases nested 3 deep, also of the one that is deleting | What deletes an object twice, what loses an object, what pairs it with a wrong deleter? |
| `unique_move` | 2 `unique_ptr`s, the client does not reset what it moved from | expected violation, finding 6 |

Why the bounds are enough to be of use. A buffer of three elements passes through every growth step of `push_back`
from empty (capacities 0, 1, 3), is refused the next one (7), and leaves room for `resize`, `assign` and `reserve`
below, at and above the capacity. Counts reach one more than a buffer can hold; in `vector_edits`
the sizes that `insert` asks for do. The accounts (capacity 9 bytes for
blocks of at most 6) are exhausted by a few reallocations, so `runtime_error` and `bad_alloc` both occur.
`vector_faults` has one byte more: an account that is full with 3 elements then still has room for one reallocation,
without which a needless growth step could never succeed. Two
vectors suffice for swap, and a third block lets either be moved while both hold one. In `vector_edits` three
elements are the least for `insert` to overwrite an element it has yet to move, two blocks let a buffer move away
from under an iterator, and a size of 4 is one more than any buffer has, which is where erasing a range starts to go
wrong. A call of `insert` of a range that repeats elements needs a buffer of 5 and is beyond the run; `RangeInsertSafe` covers it. Three `unique_ptr`s allow a
swap between two inside the release of a third.

## Findings

The runs that expect a violation each show a disagreement between the code and a line of the repository:

1. `allocator_realloc`: a reallocated block is charged again in full (`ft.hpp:66`, whose FIXME says so) and discharged once, so
   `available()` does not recover as `tests/ft/allocator.cpp:84` expects of an allocator whose blocks were all deallocated.
2. `allocator_wrap`: `n * sizeof(T)` wraps before it is compared with the maximum (`ft.hpp:56-57`).
3. `vector_resize`: `resize(n)` fills up to the capacity, not to n (`vector.hpp:224`).
4. `vector_assign`: `assign` at or above the capacity does not set the size (`vector.hpp:107`), contrary to the comment above it.
5. `vector_assert`: `assign(0, x)` fails the assertion of `scale_capacity_` (`vector.hpp:314`).
6. `unique_move`: the defaulted moves leave the pointer in the source (`ft.hpp:216, 222`).

Other behaviour the model makes explicit, where no line of the repository says otherwise, is stated as properties that hold:
`OverrunOnlyByAssign`, `ThrowLeavesNoGap`, `OwnElementCopied`, `CapacityKept`, `LostOnlyWhenReplaced`,
`MispairedOnlyByFailedSwap`, `DriftOnlyByReallocation`, `ForgottenOnlyByPopBack`, `ReturnedIsDeleted` (what `release` returns is the
address of a deleted object), `InsertRepeats`, `RangeLosesTail`, `RangeEraseErasesNothing`, `OverrunOnlyWhenStale`,
`OutOfRangeOnlyByRangeErase`, `ThrowsBeforeItWrites`,
`DeletedTwiceOnlyReentrant`. Many of them say that the calls they name are the only ones to do a thing. They exempt these calls: that a
`push_back` that throws leaves a gap, or the destructor loses the buffer, is what the code does, and no property forbids it.
The hazards that are exempt in this way have a note in `PROJECT.json`.

## Theorems

| Theorem | Says, for every value of the constants |
|---|---|
| `AllocatorProofs!TypeCorrect` | the counters keep their types, the subtraction of `deallocate` included |
| `AllocatorProofs!CapacitySafe` | `allocated_` never exceeds `capacity_`: the asserts of `ft.hpp:55, 122` never fail |
| `AllocatorProofs!HeldSafe` | every pointer a client holds is live and has the bytes asked for last |
| `AllocatorProofs!DeallocateSafe` | the assert of `deallocate` (`ft.hpp:78`) never fails |
| `AllocatorProofs!RefusalSafe` | a call of `allocate` that throws frees nothing, unless it reallocates to no bytes |
| `AllocatorProofs!UndercountSafe` | `allocated_` is never below the bytes outstanding |
| `AllocatorProofs!DriftSafe` | only a reallocation or a move sets the counters and what is outstanding apart |
| `AllocatorProofs!CountersSafe` | `num_allocations() - num_frees()` covers the blocks outstanding |
| `VectorProofs!TypeCorrect` | heap, cells and members keep their types |
| `VectorProofs!BufferSafe` | every buffer is live and has `capacity_` elements, `size_` is at most that |
| `VectorProofs!NoSharing` | no two vectors share a buffer |
| `VectorStepProofs!RefusalSafe` | a call that is refused memory has no effect on the heap, the elements or any member |
| `VectorStepProofs!OverrunSafe` | only `assign` with a count above the capacity writes outside a buffer |
| `VectorSeqProofs!SequenceSafe` | the refinement: `Vector` implements `SeqContainer` |
| `VectorSeqProofs!InitialisedSafe` | no element below `size_` is raw or destroyed memory |
| `VectorSeqProofs!CapacitySafe` | only `assign` and `swap` make a capacity smaller |
| `VectorSeqProofs!BufferKept` | no call but the destructor loses a buffer |
| `VectorSeqProofs!GapSafe` | an assignment that throws in `resize` or through a reference leaves no gap below `size_` |
| `VectorSeqProofs!OwnSafe` | an element passed by reference to its own vector is copied, if the buffer is not scaled |
| `VectorSeqProofs!ForgottenSafe` | only `pop_back` and `assign` from the capacity on leave live elements at or above `size_` |
| `VectorIteratorProofs!IteratorSafe` | no call brings the index of an iterator below the first element or beyond `size_type` |
| `VectorIteratorProofs!EditsNeverShare` | no two vectors share a buffer, whatever is inserted and erased, `erase` of a range included |
| `VectorIteratorProofs!RangeSafe` | only `erase` of a range makes a size larger than the capacity, or an index larger than the size it goes with |
| `VectorIteratorProofs!StaleSafe` | what reads or writes outside a buffer is `operator*` of a stale iterator, a use of one beyond its own size, `assign` above the capacity, or `erase` of a range from the first element |
| `VectorIteratorProofs!ThrowSafe` | a call that throws of its own has changed nothing, unless it is `insert` of a range |
| `VectorIteratorProofs!EraseSafe` | `erase(pos)` takes out exactly the element named and returns a usable iterator |
| `VectorIteratorProofs!InsertSafe` | `insert(pos, n, x)` gives the n values, then the first n elements of the tail over and over |
| `VectorIteratorProofs!RangeInsertSafe` | `insert` of a range does the same, throws, and loses the last elements |
| `VectorIteratorProofs!RangeEraseSafe` | `erase` of a range that returns took nothing out, changed no element and added the length of the range to the size |
| `VectorIteratorProofs!FrontSafe` | no `insert` or `erase` touches an element before the iterator, wherever it throws |
| `UniquePtrProofs!TypeCorrect` | pointers, deleters and the stack of releases keep their types, at any depth |
| `UniquePtrProofs!DeletedTwiceSafe` | an object is deleted twice only by a destructor that releases or destroys the `unique_ptr` that is deleting it, for a client that resets what it moved from |
| `UniquePtrProofs!SoleOwnerSafe` | no two `unique_ptr`s hold the same pointer, for the same clients |
| `UniquePtrProofs!NoDanglingSafe` | no `unique_ptr` points to a deleted object unless its release is under way, for the same clients |
| `UniquePtrProofs!LostOnlyWhenReplacedSafe` | only `reset` and move assignment lose an object, for every client |
| `UniquePtrProofs!ReturnedIsDeletedSafe` | what `release` returns is the address of an object that was deleted, for every client |
| `UniquePtrProofs!MispairedSafe` | only a swap that throws half way pairs a pointer with a deleter that does not suit it, for a client that resets what it moved from |

Assumptions. `HeapAssumption` (in `CHeap`) says blocks have a largest size and NULL is not an address.
`SizeAssumption` (in `AllocatorOps`) says that the largest block and the allocator's capacity together fit
`size_type`; that is so on a 64-bit machine, where the heap is below 2^48 and the default capacity below 2^63.
The theorems on the storage of vectors have one more hypothesis, `NoWrap`: n times `sizeof(T)` does not wrap for the counts in use, nor
for the capacity `push_back` asks for next.
Without it they are false, since a wrapped request is granted a block smaller than the capacity the vector
records (the vector's side of finding 2). Those on `insert` and `erase` have `NoWrapEdit`, the same for the sizes `insert` asks for.
`RangeEraseSafe` and `FrontSafe` have `SignedDistances` besides: no buffer has more than half as many elements as `size_type` counts,
which is what `difference_type` can tell from a negative distance. Neither is checked by the code; on a 64-bit machine
both are true of every vector a heap can hold.

Argument for the allocator. `NeverUndercounts` counts the bytes of all blocks of an allocator, and no single action
preserves `WithinCapacity` without knowing that what is subtracted was counted, besides all that remains. The inductive
invariant `IInv` therefore carries `Ledger`, which says so without counting: the outstanding blocks of an allocator can be laid
out as disjoint intervals of `0 .. allocated_`. A new block goes on top, a reallocated one moves to the top and leaves
a gap (its old charge, never taken back), a deallocated one is cut out and what lies above slides down, a move hands the
layout over. `UndercountSafe` is then immediate: the layout sends every outstanding byte to one of its own in `1 .. allocated_`. The modulo arithmetic then never wraps, which `ReallocFacts`, `AllocateFacts` and
`ModSmall` in `AllocatorOpsProofs` say once for the two specifications that allocate.

Argument for the vector. `IInv` is `TypeOK`, `BufferFits`, `BuffersDisjoint` and `AccountInRange` (the counter is
at most the capacity). The first three need each other: a reallocation frees a block or resizes it, which
leaves the other vectors alone only because they do not share it, and the block that comes back is not
shared only because all other buffers are live. `Sound(v, m)` states what is true of the storage after
`scale_capacity_`, whichever way it ended; every action that scales cites it and then deals with its own
loop.

`RefusalSafe` and `OverrunSafe` follow one argument per action (`Clean`): when the storage was not to be had,
`Sound` says nothing changed; when it was, the block has room for exactly `capacity` elements (`SoundRoom`) and the loop
ends there (`LoopStays`). `assign` from the capacity on is the one loop for which the second half fails.

Argument for the refinement. `Keeps(v, m)` says what `scale_capacity_` does to the contents, whichever way it ended: the buffer it
leaves holds what the old one held as far as both reach, the other vectors' buffers hold what they did. From it and `Sound`
follows, per action, what `Elements` is afterwards, hence which step of `SeqContainer` was made; `Turns` is the form all of them end in,
and a call that throws or goes wrong is a stutter. `Resting` adds that a vector outside its lifetime has no elements. The hypothesis
`Plain` excludes what the mapping cannot survive: elements whose assignment throws, and references to the vector's own elements.
`vector_faults` shows where both lead. `InitialisedSafe` is then a fact about `SeqContainer`, all of whose steps put values into sequences of
values (`OnlyValues`); no loop has to be looked at again. `CapacitySafe` and `BufferKept` need neither hypothesis of `Plain`: they follow from
`Sound` and `Keeps` one action at a time. So does `GapSafe`, from the
loop rules of the refinement without the hypothesis that nothing throws: the loop of `resize` counts exactly what it has assigned. `ForgottenSafe` needs two facts
more: what `scale_capacity_` adds is raw (`ScaleVacant`), and a vector outside its lifetime has no buffer (`Unbuilt`). `OwnSafe` has the hypothesis
`Distinguished`, that a value is never mistaken for a reference.

Argument for the counters. `AllCounted` says of every object that the blocks it accounts for are a finite set no larger than
`n_allocs_ - n_frees_`. A step adds one block or takes one away, and a move hands the whole set over to an object that gets the
counters too. `DriftSafe` says the same of the bytes, as an equation: a call that neither reallocates nor moves adds
exactly one block's bytes to the outstanding ones, or takes exactly those away, or changes none, and the counter changes by as much.

Argument for iterators, `insert` and `erase`. `erase` of a range makes a size larger than the capacity, and with it `BufferFits` and
the `IInv` of `VectorProofs` are gone, while every other call can still be made. What is left is `Storage`: `IInv` with `Owned` (a buffer is
live and has `capacity_` elements) in place of `BufferFits`. All that `VectorProofs` to `VectorSeqProofs` say of `scale_capacity_` is
therefore proved from `Storage`, and the calls from `IInv` (`HasStorage`: the two differ by `size_[v] <= capacity_[v]`).
`EditInvariant` adds to `Storage` that a size beyond the capacity is at most `SizeBound`, from which the sizes `insert` asks for do not wrap
(`EditFits`), and the type of the iterator. It is inductive. `Behaves` collects what one step does: it keeps
`EditInvariant`, and `RangeSafe`, `StaleSafe` and `ThrowSafe` are its other three conjuncts. `NextBehaves` shows it,
from one lemma per call.

What the loops of `insert` and `erase` compute takes more. `Shifted` is a recursive function, since the loop reads what it has
written. `Fetched` is the same without recursion: an element the loop has assigned is one of the last in front of the range, found by a remainder.
`FetchedRecurs` shows that it satisfies the recursive equation. That it is the only function to do so would be an induction; instead a
counterexample with the least index is taken, and the equation refutes it (`RecursOnce`). `Placed` then says what the two
loops of `insert` make of the elements, for both `insert`s, and `EraseGives`, `EraseRangeGives` the same of the loops of `erase`. `FrontSafe` needs
less of each loop and more of its ends: `BeforeKept` says no cell before an index was written, also when the loop stopped at an
element that threw, and `CommitFront` that the elements are then what they were, in the buffer the vector ends up with.

Argument for `unique_ptr`. `StackInv` says that the releases under way are of `unique_ptr`s within their
lifetime, each of which still holds the address it is deleting, that the address is not in use, and that they are distinct as long as
the program runs: a second release of one of them finds its object gone, which is the end. It is inductive by itself,
for every client. `OwnerInv` adds to it `SoleOwner`, `NoDangling` and that an object not handed over yet is
alive and nobody's; each is needed for another: a release deletes an object that is there because nobody else owns
it (`SoleOwner`) and nobody else deleted it (`NoDangling`), and an address handed out again is in no pointer
because of both. A release that finds its object gone is therefore of a `unique_ptr` that is deleting (`DeletedTwiceSafe`).
`OwnerInv` holds only for a careful client, which is the hypothesis of those three theorems and of `MispairedSafe`: the set of
mismatched pairs is finite, every call but `swap` and the moves at most removes members (an address handed out again is in no pointer that counts), and
a swap that runs to its end, or a move, exchanges two members with their deleters, an injection of the new set into the old.

Only model-checked: what the runs that expect a violation show, and what `vector_edits` says with the constants at their values. Every
property of every passing run has a theorem. Not proved: that a call can be made at all, or returns (`ENABLED` and liveness are
out of the prover's reach). Nothing here runs by itself, so there is no fairness to assume.

## Not modelled

- The comparisons (`vector.hpp:528-579`). `operator_handler` reads the elements of `const` vectors (`534`), that is, through the overload of `operator[]`
  that calls itself (`340-342`): no comparison of two vectors with a common element returns. What returns compares sizes only.
- `reverse_iterator` has no definition (`vector.hpp:483-497`). `iterator::operator=` calls itself (`353`), and so does the `const` overload of
  `operator[]` (`341`): a call of either never returns and has no step to model. Iterators are copied by value instead.
- The copy and move operations of `vector.hpp:29-41, 326-332` only throw. The constructors that copy an allocator
  (`45-54, 65-69`) cannot be used with `ft::allocator` (`ft.hpp:40`).
- The range constructor for a range that can be read only once (`vector.hpp:73`).
- What `construct(T&&)` leaves in the elements after the first (`ft.hpp:102`): the allocator is modelled without values.
- Builds with `NDEBUG`: `scale_capacity_(0)` would then free the buffer and throw `bad_alloc`. `CMakeLists.txt` sets no build type, so
  assertions are compiled in.
- What an element type makes of being assigned to while raw or destroyed. The library assigns instead of
  constructing in place throughout.
- `vector_plus.hpp`, `list.hpp`: no code. `ft::distance` and `as_const`: pure and trivial.
- googletest, the build files and the IDE project: not the library's. The repository carries a copy of googletest of about
  26 000 lines beside two headers of its own with code in them (`ft.hpp` and `vector.hpp`, 868 lines). Nearly all of the code of the two that changes state
  is modelled; measured against the whole repository, that is one or two lines in a hundred. The test framework takes no part in what
  the library does.

## Plan

Done, in this order: `CHeap`, `AllocatorOps`, `Allocator`, `Vector`, `SeqContainer`, `UniquePtr` with their first theorems;
`VectorIterator`, so that every member function that returns is modelled; the refinement and the step properties of the
vector, the counters of the allocator and their drift, the deleters of `unique_ptr`; iterators,
`insert` and `erase`.

What could follow, in the order of what it would add:

1. `Vector` with `NDEBUG` as a constant: `scale_capacity_(0)` then reaches `allocate`, which frees the buffer and throws.
2. Element values in `Allocator`, for `construct(T&&)`.
3. When `const` vectors can be read and the iterators compile: the comparisons, the reverse iterators, and `VectorIterator` against the code as it is then.
