----------------------------- MODULE UniquePtr -----------------------------
(***************************************************************************)
(* ft::unique_ptr<T, Deleter> (include/ft.hpp:208-259): objects that hold  *)
(* a pointer and the deleter to call on it.                                *)
(*                                                                         *)
(* Deleting an object runs its destructor, code of the client's, which may *)
(* use unique_ptrs before release() has returned, the one that is deleting *)
(* included: it may release, destroy or dereference that one too.  So      *)
(* release is two steps, the call of the deleter and what follows it, and  *)
(* stack holds the calls that are in between, the innermost last.          *)
(*                                                                         *)
(* Two assumptions on the client: it hands over pointers that nobody owns, *)
(* to a unique_ptr whose deleter suits them; and a destructor does not     *)
(* give a new pointer to the unique_ptr that is deleting, nor hand its     *)
(* pointer on (by reset, swap or a move).                                  *)
(***************************************************************************)
EXTENDS Integers, Sequences, FiniteSets

CONSTANTS
  Ptr,           \* the unique_ptr objects
  Object,        \* addresses of the objects they point to
  Deleter,       \* the deleters; an object has one that suits it
  NULL,          \* nullptr, and no object at an address
  Depth,         \* bound of the model: releases within each other
  Careful        \* TRUE: the client resets what it moved from

ASSUME PtrAssumption ==
  /\ NULL \notin Object
  /\ NULL \notin Deleter
  /\ Depth \in Nat

ASSUME PtrSwitch == Careful \in BOOLEAN

VARIABLES
  built,    \* the unique_ptrs within their lifetime
  dying,    \* those whose destructor is running
  ptr_,
  mem_,     \* the deleter
  live,     \* the deleter that suits the object at an address, or NULL
  loose,    \* the objects the client has not handed over
  stack,    \* the unique_ptrs in the middle of release()
  outcome   \* how the last call ended

vars == <<built, dying, ptr_, mem_, live, loose, stack, outcome>>

Fatal == {"deleted_twice", "wrong_deleter"}

Busy == { stack[i] : i \in DOMAIN stack }

Running == outcome \notin Fatal

(* A unique_ptr whose pointer the code that is running may replace *)
Usable(p) == Running /\ p \in built /\ p \notin Busy

Init ==
  /\ built = {}
  /\ dying = {}
  /\ ptr_ = [p \in Ptr |-> NULL]
  /\ mem_ \in [Ptr -> Deleter]
  /\ live = [o \in Object |-> NULL]
  /\ loose = {}
  /\ stack = <<>>
  /\ outcome = "none"

(* The client makes an object; an address is free once its deleter returned *)
New(o, d) ==
  /\ Running
  /\ live[o] = NULL
  /\ \A p \in Busy : ptr_[p] # o
  /\ live' = [live EXCEPT ![o] = d]
  /\ loose' = loose \cup {o}
  /\ outcome' = "none"
  /\ UNCHANGED <<built, dying, ptr_, mem_, stack>>

(* A pointer the client may hand over to a unique_ptr with deleter d *)
Handed(o, d) == o = NULL \/ (o \in loose /\ live[o] = d)

(* Mutant: the default constructor leaves ptr_ uninitialised. *)
ConstructUnset(p, o, d) ==
  /\ Running
  /\ p \notin built
  /\ Handed(o, d)
  /\ built' = built \cup {p}
  /\ ptr_' = [ptr_ EXCEPT ![p] = IF o = NULL THEN "uninitialised" ELSE o]
  /\ mem_' = [mem_ EXCEPT ![p] = d]
  /\ loose' = loose \ {o}
  /\ outcome' = "none"
  /\ UNCHANGED <<dying, live, stack>>

(* The three constructors, ft.hpp:213, 219, 220 *)
Construct(p, o, d) ==
  /\ Running
  /\ p \notin built
  /\ Handed(o, d)
  /\ built' = built \cup {p}
  /\ ptr_' = [ptr_ EXCEPT ![p] = o]
  /\ mem_' = [mem_ EXCEPT ![p] = d]
  /\ loose' = loose \ {o}
  /\ outcome' = "none"
  /\ UNCHANGED <<dying, live, stack>>

(* Mutant: nothing is deleted, as release() of the standard library has it. *)
CallDeleterNot(p) ==
  /\ outcome' = IF live[ptr_[p]] = NULL THEN "deleted_twice" ELSE "none"
  /\ UNCHANGED <<live, loose>>

(* mem_(ptr_): the object is deleted, if it is there and the deleter suits *)
CallDeleter(p) ==
  /\ live' = [live EXCEPT ![ptr_[p]] = NULL]
  /\ loose' = loose \ {ptr_[p]}
  /\ outcome' = CASE live[ptr_[p]] = NULL -> "deleted_twice"
                  [] live[ptr_[p]] = mem_[p] -> "none"
                  [] OTHER -> "wrong_deleter"

(***************************************************************************)
(* release(), ft.hpp:236-243, up to the call of the deleter.  A release of *)
(* a unique_ptr that is deleting finds its pointer as it was (line 239     *)
(* comes before line 240) and deletes again.                               *)
(***************************************************************************)
Release(p) ==
  /\ Running
  /\ p \in built
  /\ \/ /\ ptr_[p] = NULL
        /\ outcome' = "none"
        /\ UNCHANGED <<live, loose, stack>>
     \/ /\ ptr_[p] # NULL
        /\ Len(stack) < Depth
        /\ CallDeleter(p)
        /\ stack' = Append(stack, p)
  /\ UNCHANGED <<built, dying, ptr_, mem_>>

(* Mutant: the destructor does not release. *)
DestroyKeeping(p) ==
  /\ Running
  /\ p \in built \ dying
  /\ built' = built \ {p}
  /\ outcome' = "none"
  /\ UNCHANGED <<dying, ptr_, mem_, live, loose, stack>>

(* ~unique_ptr(), ft.hpp:214: release() *)
Destroy(p) ==
  /\ Running
  /\ p \in built \ dying
  /\ \/ /\ ptr_[p] = NULL
        /\ built' = built \ {p}
        /\ outcome' = "none"
        /\ UNCHANGED <<dying, live, loose, stack>>
     \/ /\ ptr_[p] # NULL
        /\ Len(stack) < Depth
        /\ CallDeleter(p)
        /\ stack' = Append(stack, p)
        /\ dying' = dying \cup {p}
        /\ UNCHANGED built
  /\ UNCHANGED <<ptr_, mem_>>

(* Mutant: the pointer is not set to nullptr. *)
ReleaseEndsKeeping ==
  /\ Running
  /\ stack # <<>>
  /\ LET p == stack[Len(stack)] IN
       /\ built' = IF p \in dying THEN built \ {p} ELSE built
       /\ dying' = dying \ {p}
  /\ stack' = SubSeq(stack, 1, Len(stack) - 1)
  /\ outcome' = "none"
  /\ UNCHANGED <<mem_, live, loose, ptr_>>

(* The deleter has returned: ptr_ = nullptr (ft.hpp:240) *)
ReleaseEnds ==
  /\ Running
  /\ stack # <<>>
  /\ LET p == stack[Len(stack)] IN
       /\ ptr_' = [ptr_ EXCEPT ![p] = NULL]
       /\ built' = IF p \in dying THEN built \ {p} ELSE built
       /\ dying' = dying \ {p}
  /\ stack' = SubSeq(stack, 1, Len(stack) - 1)
  /\ outcome' = "none"
  /\ UNCHANGED <<mem_, live, loose>>

(* reset(o), ft.hpp:245: the pointer is replaced, nothing is deleted *)
Reset(p, o) ==
  /\ Usable(p)
  /\ Handed(o, mem_[p])
  /\ ptr_' = [ptr_ EXCEPT ![p] = o]
  /\ loose' = loose \ {o}
  /\ outcome' = "none"
  /\ UNCHANGED <<built, dying, mem_, live, stack>>

(* Mutant: the deleters stay where they are. *)
SwapPointers(p, q) ==
  /\ Usable(p) /\ Usable(q) /\ p # q
  /\ ptr_' = [ptr_ EXCEPT ![p] = ptr_[q], ![q] = ptr_[p]]
  /\ outcome' = "none"
  /\ UNCHANGED <<built, dying, mem_, live, loose, stack>>

(* Mutant: the pointer of q is copied, not exchanged. *)
SwapCopying(p, q) ==
  /\ Usable(p) /\ Usable(q) /\ p # q
  /\ ptr_' = [ptr_ EXCEPT ![p] = ptr_[q]]
  /\ mem_' = [mem_ EXCEPT ![p] = mem_[q], ![q] = mem_[p]]
  /\ outcome' = "none"
  /\ UNCHANGED <<built, dying, live, loose, stack>>

(***************************************************************************)
(* swap(other), ft.hpp:247-250, and std::swap (ft.hpp:275-278): the        *)
(* pointers first, then the deleters with three moves of their own, which  *)
(* may throw.  Before the third nothing has changed but the pointers; then *)
(* one deleter is there twice.                                             *)
(***************************************************************************)
Swap(p, q) ==
  /\ Usable(p) /\ Usable(q) /\ p # q
  /\ ptr_' = [ptr_ EXCEPT ![p] = ptr_[q], ![q] = ptr_[p]]
  /\ \/ /\ mem_' = [mem_ EXCEPT ![p] = mem_[q], ![q] = mem_[p]]
        /\ outcome' = "none"
     \/ /\ mem_' \in { mem_, [mem_ EXCEPT ![p] = mem_[q]] }
        /\ outcome' = "moved"
  /\ UNCHANGED <<built, dying, live, loose, stack>>

(***************************************************************************)
(* unique_ptr(unique_ptr &&) and operator=(unique_ptr &&), both defaulted  *)
(* (ft.hpp:216, 222): memberwise, so a pointer, which has no move of its   *)
(* own, is copied and the source keeps it.  A careful client calls reset() *)
(* on the source at once.                                                  *)
(***************************************************************************)
Move(p, q) ==
  /\ Usable(p) /\ q \notin Busy /\ p # q
  /\ built' = built \cup {q}
  /\ ptr_' = [ptr_ EXCEPT ![q] = ptr_[p], ![p] = IF Careful THEN NULL ELSE @]
  /\ mem_' = [mem_ EXCEPT ![q] = mem_[p]]
  /\ outcome' = "none"
  /\ UNCHANGED <<dying, live, loose, stack>>

(* operator*, ft.hpp:227-234 *)
Dereference(p) ==
  /\ Running
  /\ p \in built
  /\ outcome' = IF ptr_[p] = NULL THEN "runtime_error" ELSE "none"
  /\ UNCHANGED <<built, dying, ptr_, mem_, live, loose, stack>>

Next ==
  \/ \E o \in Object, d \in Deleter : New(o, d)
  \/ \E p \in Ptr, o \in Object \cup {NULL}, d \in Deleter : Construct(p, o, d)
  \/ \E p \in Ptr : Release(p) \/ Destroy(p) \/ Dereference(p)
  \/ ReleaseEnds
  \/ \E p \in Ptr, o \in Object \cup {NULL} : Reset(p, o)
  \/ \E p, q \in Ptr : Swap(p, q) \/ Move(p, q)

Spec == Init /\ [][Next]_vars

-----------------------------------------------------------------------------
TypeOK ==
  /\ built \subseteq Ptr
  /\ dying \subseteq Ptr
  /\ ptr_ \in [Ptr -> Object \cup {NULL}]
  /\ mem_ \in [Ptr -> Deleter]
  /\ live \in [Object -> Deleter \cup {NULL}]
  /\ loose \subseteq Object
  /\ stack \in Seq(Ptr)
  /\ outcome \in {"none", "runtime_error", "moved"} \cup Fatal

(***************************************************************************)
(* No object is deleted twice: what it takes for release() to be "fatal:   *)
(* double free" (tests/ft/unique_ptr.cpp:92) is that two unique_ptrs hold  *)
(* one pointer, or that one is released while it is deleting.              *)
(***************************************************************************)
DeletedOnce == outcome # "deleted_twice"

(***************************************************************************)
(* An object is deleted twice only where a destructor releases or destroys *)
(* the unique_ptr whose release() it runs in, directly or further down     *)
(* (ft.hpp:239-240): not by releases of others within each other, nor      *)
(* after a swap that threw half way.                                       *)
(***************************************************************************)
DeletedTwiceOnlyReentrant ==
  [][ outcome' = "deleted_twice" => \E p \in Busy : Release(p) \/ Destroy(p) ]_vars

(* No two unique_ptrs hold the same pointer. *)
SoleOwner ==
  \A p, q \in built : p # q /\ ptr_[p] # NULL => ptr_[p] # ptr_[q]

(***************************************************************************)
(* A unique_ptr that is not in the middle of deleting never points to a    *)
(* deleted object (ft.hpp:240 clears ptr_ on the only path that deletes).  *)
(***************************************************************************)
NoDangling ==
  \A p \in built \ Busy : ptr_[p] # NULL => live[ptr_[p]] # NULL

(***************************************************************************)
(* An object that was owned and neither deleted nor handed on is lost only *)
(* by the two calls that replace a pointer without deleting what it points *)
(* to: reset (ft.hpp:245) and the defaulted move assignment (ft.hpp:222).  *)
(***************************************************************************)
Owned == { ptr_[p] : p \in built }

Lost(o) ==
  /\ o \in Owned /\ live[o] # NULL
  /\ o \notin Owned' /\ live'[o] # NULL

Replaced(o) ==
  \E p \in built :
    /\ ptr_[p] = o
    /\ \/ \E n \in Object \cup {NULL} : Reset(p, n)
       \/ \E q \in Ptr : Move(q, p)

LostOnlyWhenReplaced == [][ \A o \in Object : Lost(o) => Replaced(o) ]_vars

(***************************************************************************)
(* What release() returns (ft.hpp:242) names no object by then, whatever   *)
(* the destructor released, made or handed over meanwhile: unlike the      *)
(* pointer std::unique_ptr returns, it is not the caller's to delete.      *)
(***************************************************************************)
ReturnedIsDeleted ==
  [][ ReleaseEnds => LET o == ptr_[stack[Len(stack)]]
                     IN  o # NULL /\ live'[o] = NULL ]_vars

(***************************************************************************)
(* A pointer and a deleter that does not suit it come together only in a   *)
(* swap that throws half way (ft.hpp:249): no other call, callback or      *)
(* later swap makes one more such pair.                                    *)
(***************************************************************************)
Mispaired == { p \in built \ Busy : ptr_[p] # NULL /\ live[ptr_[p]] # mem_[p] }

MispairedOnlyByFailedSwap ==
  [][ Cardinality(Mispaired') > Cardinality(Mispaired) => outcome' = "moved" ]_vars
=============================================================================
